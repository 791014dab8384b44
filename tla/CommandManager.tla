--------------------------- MODULE CommandManager ---------------------------
(***************************************************************************)
(* The command supervisor: Manager of                                      *)
(* apps/command-supervisor/internal/runtime/manager.go with the records it *)
(* keeps in memory, the metadata and event spools it keeps on disk         *)
(* (persistence.go), the children it spawns, crashes and recovery.         *)
(*                                                                         *)
(* A write of metadata.json is atomic (temporary file, fsync, rename), but *)
(* it may report an error after the rename, and the first one of a command *)
(* creates the directory before.  An interrupted append leaves the spool   *)
(* as it was, with a partial final record, with a new segment that has no  *)
(* complete version header, or complete.  m.mu is `mu`; a section under    *)
(* state.mu updates the record at its end, so its readers see the record   *)
(* before or after, and only Connect, which reads the spool, waits for it. *)
(* What clients do to a running command is in CommandControl; to the       *)
(* records a child that is signalled is as one that dies by itself.        *)
(***************************************************************************)
EXTENDS Integers, FiniteSets, Functions

CONSTANTS
    IDs,          \* command IDs, drawn at random: never drawn twice
    Reqs,         \* requestIds
    Specs,        \* normalised command specifications
    Handlers,     \* goroutines serving client connections
    None,
    MaxCommands,
    DiskFaults,   \* TRUE if writes may fail
    MaxEvents     \* bound: output chunks

ASSUME ManagerAssumption ==
    /\ MaxCommands \in Nat \ {0}
    /\ DiskFaults \in BOOLEAN
    /\ None \notin IDs \cup Handlers \cup Reqs

VARIABLES
    up,           \* "down", "loading", "up", or "refused": load returned an error
    unhealthy, mu, commands, requests,
    record,       \* command -> [state, nextSeq], the record in memory
    waiters,      \* handler -> command whose current changed channel it holds, or None
    todo,         \* directory entries load has still to read
    pc, call,     \* handler -> its requestId, specification and command
    cpc,          \* command -> where its collect goroutine is
    spoolFailed,
    stdin,        \* command -> state.stdin is the pipe, not nil
    inPipe,       \* command -> the supervisor's end of that pipe is open
    meta,         \* disk: command -> [state, nextSeq]; state "none" or "dir" without metadata.json
    reqOf, specOf,\* disk: the immutable part of the metadata
    spool,        \* disk: command -> [last, torn]
    proc,         \* children: "none", "alive", or how it ended
    open,         \* children: it or a descendant holds stdout or stderr open
    pipe,         \* children: output is in the pipe, not yet read
    produced,     \* children: chunks written so far
    spawned,      \* history: <<requestId, command>> for every child spawned
    reported,     \* history: command -> terminal state a client was told, or None
    cursor        \* history: command -> highest NextCursor returned

memory == <<unhealthy, commands, requests>>
disk == <<meta, reqOf, specOf, spool>>
child == <<proc, open, pipe, produced>>
stdio == <<stdin, inPipe>>
history == <<spawned, reported, cursor>>
vars == <<stdio, up, memory, mu, record, waiters, todo, pc, call, cpc, spoolFailed, disk, child,
          history>>

Terminal == {"exited", "signaled", "lost"}
States == {"starting", "running"} \cup Terminal
Fresh == [state |-> "starting", nextSeq |-> 1]
NoCall == [req |-> None, spec |-> None, id |-> None]

TypeOK ==
    /\ up \in {"down", "loading", "up", "refused"}
    /\ unhealthy \in BOOLEAN
    /\ mu \in Handlers \cup {None}
    /\ commands \subseteq IDs
    /\ requests \in [Reqs -> IDs \cup {None}]
    /\ record \in [IDs -> [state : States, nextSeq : Nat]]
    /\ waiters \in [Handlers -> IDs \cup {None}]
    /\ todo \subseteq IDs
    /\ pc \in [Handlers -> {"idle", "start", "mkdir", "persist", "spawn", "lost", "running",
                            "kill", "read", "blocked"}]
    /\ call \in [Handlers -> [req : Reqs \cup {None}, spec : Specs \cup {None},
                              id : IDs \cup {None}]]
    /\ cpc \in [IDs -> {"none", "collect", "append", "advance", "done"}]
    /\ spoolFailed \in [IDs -> BOOLEAN]
    /\ stdin \in [IDs -> BOOLEAN] /\ inPipe \in [IDs -> BOOLEAN]
    /\ meta \in [IDs -> [state : States \cup {"none", "dir"}, nextSeq : Nat]]
    /\ reqOf \in [IDs -> Reqs \cup {None}]
    /\ specOf \in [IDs -> Specs \cup {None}]
    /\ spool \in [IDs -> [last : Nat, torn : {"no", "record", "header"}]]
    /\ proc \in [IDs -> {"none", "alive", "exited", "signaled"}]
    /\ open \in [IDs -> BOOLEAN] /\ pipe \in [IDs -> BOOLEAN]
    /\ produced \in [IDs -> Nat]
    /\ spawned \subseteq Reqs \X IDs
    /\ reported \in [IDs -> Terminal \cup {None}]
    /\ cursor \in [IDs -> Nat]

Init ==
    /\ up = "up" /\ unhealthy = FALSE /\ mu = None /\ commands = {}
    /\ requests = [r \in Reqs |-> None]
    /\ record = [c \in IDs |-> Fresh]
    /\ waiters = [h \in Handlers |-> None]
    /\ todo = {}
    /\ pc = [h \in Handlers |-> "idle"]
    /\ call = [h \in Handlers |-> NoCall]
    /\ cpc = [c \in IDs |-> "none"]
    /\ spoolFailed = [c \in IDs |-> FALSE]
    /\ stdin = [c \in IDs |-> FALSE] /\ inPipe = [c \in IDs |-> FALSE]
    /\ meta = [c \in IDs |-> [state |-> "none", nextSeq |-> 1]]
    /\ reqOf = [c \in IDs |-> None]
    /\ specOf = [c \in IDs |-> None]
    /\ spool = [c \in IDs |-> [last |-> 0, torn |-> "no"]]
    /\ proc = [c \in IDs |-> "none"]
    /\ open = [c \in IDs |-> FALSE] /\ pipe = [c \in IDs |-> FALSE]
    /\ produced = [c \in IDs |-> 0]
    /\ spawned = {}
    /\ reported = [c \in IDs |-> None]
    /\ cursor = [c \in IDs |-> 0]

----------------------------------------------------------------------------
(* Persistence and helpers.                                                *)

Goto(h, label) == pc' = [pc EXCEPT ![h] = label] /\ UNCHANGED call

Return(h) ==
    /\ pc' = [pc EXCEPT ![h] = "idle"]
    /\ call' = [call EXCEPT ![h] = NoCall]

\* persistTransition: the metadata on disk becomes rec.
Persisted(c, rec) == meta' = [meta EXCEPT ![c] = rec] /\ UNCHANGED unhealthy

\* It fails, before or after the rename, and marks the manager unhealthy.
PersistFails(c, rec) ==
    /\ DiskFaults
    /\ unhealthy' = TRUE
    /\ meta' = [meta EXCEPT ![c] = rec] \/ UNCHANGED meta

\* close(s.changed): whoever holds the channel wakes up.
notifyLocked(c) == waiters' = [h \in Handlers |-> IF waiters[h] = c THEN None ELSE waiters[h]]

\* A client is told the record of command c.
Report(c) ==
    reported' = IF record[c].state \in Terminal
                THEN [reported EXCEPT ![c] = record[c].state] ELSE reported

\* The process group of c is sent SIGKILL: its leader dies.  Descendants may
\* have left the group, and kill(2) may fail.
Kill(c) == proc' = [proc EXCEPT ![c] = IF @ = "alive" THEN "signaled" ELSE @]

\* The supervisor's end of the child's stdin is closed: a blocked write ends.
ClosePipe(c) == inPipe' = [inPipe EXCEPT ![c] = FALSE]

\* What an interrupted append may leave.
Interrupted(c) ==
    {spool[c], [spool[c] EXCEPT !.torn = "record"], [spool[c] EXCEPT !.torn = "header"],
     [spool[c] EXCEPT !.last = @ + 1]}

----------------------------------------------------------------------------
(* Start.                                                                  *)

\* The manager is healthy when Start begins; the arguments are normalised.
Start(h) ==
    /\ up = "up" /\ pc[h] = "idle"
    /\ ~unhealthy
    /\ \E r \in Reqs, s \in Specs :
        call' = [call EXCEPT ![h] = [req |-> r, spec |-> s, id |-> None]]
    /\ pc' = [pc EXCEPT ![h] = "start"]
    /\ UNCHANGED <<stdio, up, memory, mu, record, waiters, todo, cpc, spoolFailed, disk,
                   child, history>>

\* The requestId is known: the command is returned, or IDEMPOTENCY_CONFLICT.
StartReplay(h) ==
    /\ pc[h] = "start" /\ mu = None
    /\ LET c == requests[call[h].req] IN
        /\ c # None
        /\ IF specOf[c] = call[h].spec THEN Report(c) ELSE UNCHANGED reported
    /\ Return(h)
    /\ UNCHANGED <<stdio, up, memory, mu, record, waiters, todo, cpc, spoolFailed, disk,
                   child, spawned, cursor>>

StartLimit(h) ==
    /\ pc[h] = "start" /\ mu = None
    /\ requests[call[h].req] = None
    /\ Cardinality(commands) >= MaxCommands
    /\ Return(h)
    /\ UNCHANGED <<stdio, up, memory, mu, record, waiters, todo, cpc, spoolFailed, disk,
                   child, history>>

StartNew(h) ==
    /\ pc[h] = "start" /\ mu = None
    /\ requests[call[h].req] = None
    /\ Cardinality(commands) < MaxCommands
    /\ \E c \in IDs :
        /\ reqOf[c] = None
        /\ mu' = h
        /\ commands' = commands \cup {c}
        /\ requests' = [requests EXCEPT ![call[h].req] = c]
        /\ record' = [record EXCEPT ![c] = Fresh]
        /\ reqOf' = [reqOf EXCEPT ![c] = call[h].req]
        /\ specOf' = [specOf EXCEPT ![c] = call[h].spec]
        /\ call' = [call EXCEPT ![h].id = c]
    /\ pc' = [pc EXCEPT ![h] = "mkdir"]
    /\ UNCHANGED <<stdio, up, unhealthy, waiters, todo, cpc, spoolFailed, meta, spool,
                   child, history>>

\* PersistCommand creates the command's directory.
Mkdir(h) ==
    /\ pc[h] = "mkdir"
    /\ meta' = [meta EXCEPT ![call[h].id].state = "dir"]
    /\ Goto(h, "persist")
    /\ UNCHANGED <<stdio, up, memory, mu, record, waiters, todo, cpc, spoolFailed, reqOf,
                   specOf, spool, child, history>>

PersistStarting(h) ==
    /\ pc[h] = "persist"
    /\ Persisted(call[h].id, Fresh)
    /\ mu' = None
    /\ Goto(h, "spawn")
    /\ UNCHANGED <<stdio, up, commands, requests, record, waiters, todo, cpc, spoolFailed,
                   reqOf, specOf, spool, child, history>>

\* The first write failed: the command is forgotten.
PersistStartingFails(h) ==
    /\ pc[h] \in {"mkdir", "persist"}
    /\ \/ pc[h] = "mkdir" /\ DiskFaults /\ unhealthy' = TRUE /\ UNCHANGED meta
       \/ pc[h] = "persist" /\ PersistFails(call[h].id, Fresh)
    /\ commands' = commands \ {call[h].id}
    /\ requests' = [requests EXCEPT ![call[h].req] = None]
    /\ mu' = None
    /\ Return(h)
    /\ UNCHANGED <<stdio, up, record, waiters, todo, cpc, spoolFailed, reqOf, specOf, spool,
                   child, history>>

Spawn(h) ==
    /\ pc[h] = "spawn"
    /\ LET c == call[h].id IN
        \/ /\ proc' = [proc EXCEPT ![c] = "alive"]
           /\ open' = [open EXCEPT ![c] = TRUE]
           /\ spawned' = spawned \cup {<<call[h].req, c>>}
           /\ Goto(h, "running")
        \/ \* containment.Started fails: the child is killed, its pipes closed
           /\ proc' = [proc EXCEPT ![c] = "signaled"]
           /\ spawned' = spawned \cup {<<call[h].req, c>>}
           /\ Goto(h, "lost")
           /\ UNCHANGED open
        \/ /\ Goto(h, "lost")
           /\ UNCHANGED <<proc, open, spawned>>
    /\ UNCHANGED <<stdio, up, memory, mu, record, waiters, todo, cpc, spoolFailed, disk,
                   pipe, produced, reported, cursor>>

startFailed(h) ==
    /\ pc[h] = "lost"
    /\ LET c == call[h].id
           lost == [record[c] EXCEPT !.state = "lost"]
       IN  /\ \/ Persisted(c, lost) /\ record' = [record EXCEPT ![c] = lost]
              \/ PersistFails(c, lost) /\ UNCHANGED record
           /\ notifyLocked(c)
    /\ Return(h)
    /\ UNCHANGED <<stdio, up, commands, requests, mu, todo, cpc, spoolFailed, reqOf, specOf,
                   spool, child, history>>

\* The child runs: the record is persisted and collect started, even if that
\* failed; then the child is killed.
PersistRunning(h) ==
    /\ pc[h] = "running"
    /\ LET c == call[h].id
           started == [record[c] EXCEPT !.state = "running"]
       IN  /\ \/ /\ Persisted(c, started)
                 /\ record' = [record EXCEPT ![c] = started]
                 /\ notifyLocked(c)
                 /\ Return(h)
              \/ /\ PersistFails(c, started)
                 /\ Goto(h, "kill")
                 /\ UNCHANGED <<record, waiters>>
           /\ cpc' = [cpc EXCEPT ![c] = "collect"]
           /\ stdin' = [stdin EXCEPT ![c] = TRUE]
           /\ inPipe' = [inPipe EXCEPT ![c] = TRUE]
    /\ UNCHANGED <<up, commands, requests, mu, todo, spoolFailed, reqOf, specOf, spool,
                   child, history>>

KillUnpersisted(h) ==
    /\ pc[h] = "kill"
    /\ ClosePipe(call[h].id)
    /\ Kill(call[h].id) \/ UNCHANGED proc
    /\ Return(h)
    /\ UNCHANGED <<stdin, up, memory, mu, record, waiters, todo, cpc, spoolFailed, disk,
                   open, pipe, produced, history>>

----------------------------------------------------------------------------
(* collect.                                                                *)

\* Fault: nothing is read any more once the spool has failed.
ChunkUnlessFailed(c) ==
    /\ cpc[c] = "collect" /\ pipe[c] /\ ~spoolFailed[c]
    /\ pipe' = [pipe EXCEPT ![c] = FALSE]
    /\ cpc' = [cpc EXCEPT ![c] = "append"]
    /\ UNCHANGED <<stdio, up, memory, mu, record, waiters, todo, pc, call, spoolFailed,
                   disk, proc, open, produced, history>>

\* After a spool failure output is read and dropped, so that the child is never
\* blocked on a full pipe.
Chunk(c) ==
    /\ cpc[c] = "collect" /\ pipe[c]
    /\ pipe' = [pipe EXCEPT ![c] = FALSE]
    /\ cpc' = IF spoolFailed[c] THEN cpc ELSE [cpc EXCEPT ![c] = "append"]
    /\ UNCHANGED <<stdio, up, memory, mu, record, waiters, todo, pc, call, spoolFailed,
                   disk, proc, open, produced, history>>

\* Fault: the event is not synced, so the spool may not hold it.
AppendUnsynced(c) ==
    /\ cpc[c] = "append"
    /\ spool' = [spool EXCEPT ![c].last = @ + 1] \/ UNCHANGED spool
    /\ cpc' = [cpc EXCEPT ![c] = "advance"]
    /\ UNCHANGED <<stdio, up, memory, mu, record, waiters, todo, pc, call, spoolFailed,
                   meta, reqOf, specOf, child, history>>

AppendEvent(c) ==
    /\ cpc[c] = "append"
    /\ spool' = [spool EXCEPT ![c].last = @ + 1]
    /\ cpc' = [cpc EXCEPT ![c] = "advance"]
    /\ UNCHANGED <<stdio, up, memory, mu, record, waiters, todo, pc, call, spoolFailed,
                   meta, reqOf, specOf, child, history>>

AppendFails(c) ==
    /\ cpc[c] = "append" /\ DiskFaults
    /\ \E s \in Interrupted(c) : spool' = [spool EXCEPT ![c] = s]
    /\ spoolFailed' = [spoolFailed EXCEPT ![c] = TRUE]
    /\ unhealthy' = TRUE
    /\ Kill(c) \/ UNCHANGED proc
    /\ cpc' = [cpc EXCEPT ![c] = "collect"]
    /\ UNCHANGED <<stdio, up, commands, requests, mu, record, waiters, todo, pc, call, meta,
                   reqOf, specOf, open, pipe, produced, history>>

Advance(c) ==
    /\ cpc[c] = "advance"
    /\ LET advanced == [record[c] EXCEPT !.nextSeq = @ + 1] IN
        \/ /\ Persisted(c, advanced)
           /\ record' = [record EXCEPT ![c] = advanced]
           /\ notifyLocked(c)
           /\ UNCHANGED <<spoolFailed, proc>>
        \/ /\ PersistFails(c, advanced)
           /\ spoolFailed' = [spoolFailed EXCEPT ![c] = TRUE]
           /\ Kill(c) \/ UNCHANGED proc
           /\ UNCHANGED <<record, waiters>>
    /\ cpc' = [cpc EXCEPT ![c] = "collect"]
    /\ UNCHANGED <<stdio, up, commands, requests, mu, todo, pc, call, reqOf, specOf, spool,
                   open, pipe, produced, history>>

\* Both readers are at EOF, which is when nobody holds the other ends any more,
\* and Wait has reaped the child.  A descendant may hold them after the child.
Ended(c) == ~open[c] /\ ~pipe[c] /\ proc[c] \in {"exited", "signaled"}

Outcome(c) == IF spoolFailed[c] THEN "lost" ELSE proc[c]

\* The rest of collect's end: stdin is closed, whatever came of the write.
FinishRest(c) ==
    /\ stdin' = [stdin EXCEPT ![c] = FALSE]
    /\ ClosePipe(c)
    /\ UNCHANGED <<up, commands, requests, mu, todo, pc, call, spoolFailed, reqOf, specOf,
                   spool, child, history>>

\* Fault: the record in memory becomes terminal although the write failed.
FinishRegardless(c) ==
    /\ cpc[c] = "collect" /\ Ended(c)
    /\ LET terminal == [record[c] EXCEPT !.state = Outcome(c)] IN
        /\ Persisted(c, terminal) \/ PersistFails(c, terminal)
        /\ record' = [record EXCEPT ![c] = terminal]
    /\ notifyLocked(c)
    /\ cpc' = [cpc EXCEPT ![c] = "done"]
    /\ FinishRest(c)

\* Fault: Wait is called before both readers are at EOF.
FinishBeforeEOF(c) ==
    /\ cpc[c] = "collect"
    /\ proc[c] \in {"exited", "signaled"}
    /\ LET terminal == [record[c] EXCEPT !.state = Outcome(c)] IN
        Persisted(c, terminal) /\ record' = [record EXCEPT ![c] = terminal]
    /\ notifyLocked(c)
    /\ cpc' = [cpc EXCEPT ![c] = "done"]
    /\ FinishRest(c)

\* Fault: nobody is woken.
FinishSilently(c) ==
    /\ cpc[c] = "collect" /\ Ended(c)
    /\ LET terminal == [record[c] EXCEPT !.state = Outcome(c)] IN
        Persisted(c, terminal) /\ record' = [record EXCEPT ![c] = terminal]
    /\ cpc' = [cpc EXCEPT ![c] = "done"]
    /\ UNCHANGED waiters /\ FinishRest(c)

\* The terminal state is persisted.
Finish(c) ==
    /\ cpc[c] = "collect" /\ Ended(c)
    /\ LET terminal == [record[c] EXCEPT !.state = Outcome(c)] IN
        \/ Persisted(c, terminal) /\ record' = [record EXCEPT ![c] = terminal]
        \/ PersistFails(c, terminal) /\ UNCHANGED record
    /\ notifyLocked(c)
    /\ cpc' = [cpc EXCEPT ![c] = "done"]
    /\ FinishRest(c)

----------------------------------------------------------------------------
(* The other operations.                                                   *)

\* Status, and List for each command.
Status(c) ==
    /\ up = "up" /\ mu = None
    /\ c \in commands
    /\ Report(c)
    /\ UNCHANGED <<stdio, up, memory, mu, record, waiters, todo, pc, call, cpc, spoolFailed,
                   disk, child, spawned, cursor>>

\* readEvents truncates a partial final record; it fails on a bad segment header.
Connect(c) ==
    /\ up = "up" /\ mu = None
    /\ c \in commands
    /\ cpc[c] \notin {"append", "advance"}
    /\ spool[c].torn # "header"
    /\ spool' = [spool EXCEPT ![c].torn = "no"]
    /\ cursor' = IF record[c].nextSeq - 1 > cursor[c]
                 THEN [cursor EXCEPT ![c] = record[c].nextSeq - 1] ELSE cursor
    /\ Report(c)
    /\ UNCHANGED <<stdio, up, memory, mu, record, waiters, todo, pc, call, cpc, spoolFailed,
                   meta, reqOf, specOf, child, spawned>>

\* The command is looked up and the loop entered, with the manager healthy.
Wait(h) ==
    /\ up = "up" /\ mu = None /\ pc[h] = "idle"
    /\ ~unhealthy
    /\ \E c \in commands : call' = [call EXCEPT ![h].id = c]
    /\ pc' = [pc EXCEPT ![h] = "read"]
    /\ UNCHANGED <<stdio, up, memory, mu, record, waiters, todo, cpc, spoolFailed, disk,
                   child, history>>

\* The record and the channel are read together, under state.mu.
WaitRead(h) ==
    /\ pc[h] = "read"
    /\ LET c == call[h].id IN
        \/ /\ record[c].state \in Terminal
           /\ Report(c)
           /\ Return(h)
           /\ UNCHANGED waiters
        \/ /\ record[c].state \notin Terminal
           /\ waiters' = [waiters EXCEPT ![h] = c]
           /\ Goto(h, "blocked")
           /\ UNCHANGED reported
    /\ UNCHANGED <<stdio, up, memory, mu, record, todo, cpc, spoolFailed, disk, child,
                   spawned, cursor>>

\* The channel was closed: Wait goes round its loop, past the check of health.
WaitWakes(h) ==
    /\ pc[h] = "blocked"
    /\ waiters[h] = None
    /\ \/ unhealthy /\ Return(h)
       \/ ~unhealthy /\ Goto(h, "read")
    /\ UNCHANGED <<stdio, up, memory, mu, record, waiters, todo, cpc, spoolFailed, disk,
                   child, history>>

\* The timeout or the end of the request ends the wait.
WaitGivesUp(h) ==
    /\ pc[h] = "blocked"
    /\ waiters' = [waiters EXCEPT ![h] = None]
    /\ Return(h)
    /\ UNCHANGED <<stdio, up, memory, mu, record, todo, cpc, spoolFailed, disk, child,
                   history>>

----------------------------------------------------------------------------
(* Crash and recovery.                                                     *)

\* The supervisor dies; an append in progress is interrupted.  Its children and
\* their descendants die with it, as an assumption on the deployment: the image
\* runs it as tini's child, and the sandbox ends with it.
Crash ==
    /\ up \in {"up", "loading"}
    /\ up' = "down"
    /\ unhealthy' = FALSE /\ mu' = None /\ commands' = {} /\ todo' = {}
    /\ requests' = [r \in Reqs |-> None]
    /\ record' = [c \in IDs |-> Fresh]
    /\ waiters' = [h \in Handlers |-> None]
    /\ pc' = [h \in Handlers |-> "idle"]
    /\ call' = [h \in Handlers |-> NoCall]
    /\ cpc' = [c \in IDs |-> "none"]
    /\ spoolFailed' = [c \in IDs |-> FALSE]
    /\ LET cut == {c \in IDs : cpc[c] = "append"} IN
        \E f \in [cut -> UNION {Interrupted(c) : c \in cut}] :
            /\ \A c \in cut : f[c] \in Interrupted(c)
            /\ spool' = [c \in IDs |-> IF c \in cut THEN f[c] ELSE spool[c]]
    /\ proc' = [c \in IDs |-> IF proc[c] = "alive" THEN "signaled" ELSE proc[c]]
    /\ open' = [c \in IDs |-> FALSE] /\ pipe' = [c \in IDs |-> FALSE]
    /\ stdin' = [c \in IDs |-> FALSE] /\ inPipe' = [c \in IDs |-> FALSE]
    /\ UNCHANGED <<meta, reqOf, specOf, produced, history>>

\* NewManager takes the state lock and lists the directory.
NewManager ==
    /\ up \in {"down", "refused"}
    /\ LET entries == {c \in IDs : meta[c].state # "none"} IN
        IF Cardinality(entries) > MaxCommands
        THEN up' = "refused" /\ UNCHANGED todo
        ELSE up' = "loading" /\ todo' = entries
    /\ UNCHANGED <<stdio, memory, mu, record, waiters, pc, call, cpc, spoolFailed, disk,
                   child, history>>

\* load returns an error: NewManager fails and what was loaded is dropped.
LoadEnds(to) ==
    /\ up' = to /\ commands' = {} /\ todo' = {}
    /\ requests' = [r \in Reqs |-> None]
    /\ record' = [d \in IDs |-> Fresh]

\* Both files of the entry can be read, and agree.
Unreadable(c) == meta[c].state = "dir" \/ spool[c].torn = "header"
Recoverable(c) == ~Unreadable(c) /\ meta[c].nextSeq <= spool[c].last + 1

\* readEvents truncates a partial final record.
Truncated(c) == spool' = [spool EXCEPT ![c].torn = "no"]

\* An interrupted command becomes lost; the spool decides the next sequence.
Recovered(c) ==
    [state |-> IF meta[c].state \in Terminal THEN meta[c].state ELSE "lost",
     nextSeq |-> spool[c].last + 1]

\* Fault: requests is not rebuilt.
LoadForgetsRequest(c) ==
    /\ up = "loading" /\ c \in todo
    /\ Recoverable(c) /\ Truncated(c)
    /\ meta' = [meta EXCEPT ![c] = Recovered(c)]
    /\ record' = [record EXCEPT ![c] = Recovered(c)]
    /\ commands' = commands \cup {c}
    /\ todo' = todo \ {c}
    /\ UNCHANGED <<stdio, up, requests, unhealthy, mu, waiters, pc, call, cpc, spoolFailed,
                   reqOf, specOf, child, history>>

loadEntry(c) ==
    /\ up = "loading" /\ c \in todo
    /\ Recoverable(c) /\ Truncated(c)
    /\ \/ /\ requests[reqOf[c]] = None
          /\ meta' = [meta EXCEPT ![c] = Recovered(c)]
          /\ record' = [record EXCEPT ![c] = Recovered(c)]
          /\ commands' = commands \cup {c}
          /\ requests' = [requests EXCEPT ![reqOf[c]] = c]
          /\ todo' = todo \ {c}
          /\ UNCHANGED up
       \/ \* the write fails: NewManager returns the error and the process exits
          /\ DiskFaults /\ meta[c] # Recovered(c)
          /\ meta' = [meta EXCEPT ![c] = Recovered(c)] \/ UNCHANGED meta
          /\ LoadEnds("down")
    /\ UNCHANGED <<stdio, unhealthy, mu, waiters, pc, call, cpc, spoolFailed, reqOf, specOf,
                   child, history>>

loadRefuses(c) ==
    /\ up = "loading" /\ c \in todo
    /\ \/ Unreadable(c) /\ UNCHANGED <<meta, spool>>
       \/ ~Unreadable(c) /\ ~Recoverable(c) /\ Truncated(c) /\ UNCHANGED meta
       \/ \* its requestId is another's, found after it was recovered on disk
          /\ Recoverable(c) /\ requests[reqOf[c]] # None
          /\ Truncated(c) /\ meta' = [meta EXCEPT ![c] = Recovered(c)]
    /\ LoadEnds("refused")
    /\ UNCHANGED <<stdio, unhealthy, mu, waiters, pc, call, cpc, spoolFailed, reqOf, specOf,
                   child, history>>

loadDone ==
    /\ up = "loading" /\ todo = {}
    /\ up' = "up"
    /\ UNCHANGED <<stdio, memory, mu, record, waiters, todo, pc, call, cpc, spoolFailed,
                   disk, child, history>>

----------------------------------------------------------------------------
(* The children and their descendants (external).                          *)

Chunks == FoldFunction(LAMBDA x, y : x + y, 0, produced)

Output(c) ==
    /\ open[c] /\ ~pipe[c]
    /\ Chunks < MaxEvents
    /\ pipe' = [pipe EXCEPT ![c] = TRUE]
    /\ produced' = [produced EXCEPT ![c] = @ + 1]
    /\ UNCHANGED <<stdio, up, memory, mu, record, waiters, todo, pc, call, cpc, spoolFailed,
                   disk, proc, open, history>>

\* The last of them that holds stdout or stderr closes it, or dies: a reader sees
\* that only once the pipe is empty.
CloseOutput(c) ==
    /\ open[c] /\ ~pipe[c]
    /\ open' = [open EXCEPT ![c] = FALSE]
    /\ UNCHANGED <<stdio, up, memory, mu, record, waiters, todo, pc, call, cpc, spoolFailed,
                   disk, proc, pipe, produced, history>>

Die(c) ==
    /\ proc[c] = "alive"
    /\ \E how \in {"exited", "signaled"} : proc' = [proc EXCEPT ![c] = how]
    /\ UNCHANGED <<stdio, up, memory, mu, record, waiters, todo, pc, call, cpc, spoolFailed,
                   disk, open, pipe, produced, history>>

----------------------------------------------------------------------------
StartStep(h) ==
    \/ StartReplay(h) \/ StartLimit(h) \/ StartNew(h) \/ Mkdir(h) \/ PersistStarting(h)
    \/ PersistStartingFails(h) \/ Spawn(h) \/ startFailed(h) \/ PersistRunning(h)
    \/ KillUnpersisted(h)

WaitStep(h) == WaitRead(h) \/ WaitWakes(h)

CollectStep(c) == Chunk(c) \/ AppendEvent(c) \/ AppendFails(c) \/ Advance(c) \/ Finish(c)

Next ==
    \/ \E h \in Handlers : Start(h) \/ StartStep(h) \/ Wait(h) \/ WaitStep(h) \/ WaitGivesUp(h)
    \/ \E c \in IDs :
        \/ CollectStep(c) \/ Status(c) \/ Connect(c) \/ loadEntry(c) \/ loadRefuses(c)
        \/ Output(c) \/ CloseOutput(c) \/ Die(c)
    \/ Crash \/ NewManager \/ loadDone

Spec == Init /\ [][Next]_vars

----------------------------------------------------------------------------
(* Safety.                                                                 *)

\* At most one child is ever spawned for a requestId: concurrent Starts, failed
\* writes, crashes and restarts included.
AtMostOnce ==
    \A x, y \in spawned : x[1] = y[1] => x = y

\* A terminal state a client has been told is on disk and never changes: no
\* crash, failed write or recovery takes it back.
TerminalIsDurable ==
    \A c \in IDs : reported[c] # None =>
        /\ meta[c].state = reported[c]
        /\ c \in commands => record[c].state = reported[c]

\* A command recorded as exited or signaled has all its output in the spool.
OutputComplete ==
    \A c \in IDs : meta[c].state \in {"exited", "signaled"} =>
        /\ spool[c].last = produced[c]
        /\ ~pipe[c]

\* A cursor handed out by Connect never becomes INVALID_CURSOR, and the
\* metadata never refers to output the spool does not hold.
CursorsStayValid ==
    \A c \in IDs :
        /\ meta[c].nextSeq <= spool[c].last + 1
        /\ c \in commands => cursor[c] < record[c].nextSeq

\* A blocked Wait never holds the current channel of a command that is already
\* terminal: no wake-up is lost.
NoLostWakeup ==
    \A h \in Handlers : waiters[h] # None => record[waiters[h]].state \notin Terminal

\* Nobody stays blocked on a full pipe, and no command stays unfinished, because
\* collect is stuck: it can read whatever is in the pipe (or Start is about to
\* start it), it can go on with an event it is recording, and it can finish once
\* the child has ended and its descendants have let go of stdout and stderr,
\* whatever was not written before and whoever is still alive.
CollectGoesOn ==
    \A c \in IDs :
        LET starting == \E h \in Handlers : pc[h] = "running" /\ call[h].id = c IN
        pipe[c] \/ cpc[c] \in {"append", "advance"} \/ (cpc[c] = "collect" /\ Ended(c)) =>
            starting \/ ENABLED CollectStep(c)

----------------------------------------------------------------------------
(* What the documentation says and the code does not keep.                 *)

\* docs/adr/0005: on startup, persisted starting or running commands become lost.
\* load must then accept whatever state directory a crash leaves behind.
RecoverySucceeds == up # "refused"
=============================================================================
