------------------------ MODULE CommandManagerProofs ------------------------
(***************************************************************************)
(* Proofs about CommandManager, for every number of commands, requestIds,  *)
(* specifications and handlers, with and without disk faults: at most one  *)
(* child for a requestId, durable terminal states, complete output, valid  *)
(* cursors and no lost wake-up.                                            *)
(*                                                                         *)
(* The inductive invariant says who may write what.  A command belongs to  *)
(* the handler that starts it until the child runs, and to its collect     *)
(* goroutine from then on, so that memory, disk and pipe advance in step;  *)
(* a command nobody owns is only read.  What a dead process leaves is what *)
(* load rebuilds the two maps from.                                        *)
(***************************************************************************)
EXTENDS CommandManager, TLAPS

----------------------------------------------------------------------------
(* The inductive invariant.                                                *)

Starting == {"mkdir", "persist", "spawn", "lost", "running"}
Collecting == {"collect", "append", "advance"}
Dead == {"exited", "signaled"}

\* Only a running supervisor has goroutines and children.
Stopped ==
    /\ up # "up" =>
        /\ mu = None
        /\ \A h \in Handlers : pc[h] = "idle" /\ waiters[h] = None
        /\ \A c \in IDs : cpc[c] = "none" /\ ~spoolFailed[c]
                       /\ proc[c] # "alive" /\ ~open[c] /\ ~pipe[c]
    /\ up \in {"down", "refused"} => commands = {}
    /\ up # "loading" => todo = {}
    /\ \A c \in todo : meta[c].state # "none"

\* m.mu is held through the creation of a command, and not longer.
Locked == \A h \in Handlers : (mu = h) <=> (pc[h] \in {"mkdir", "persist"})

\* The two maps agree with each other and with the disk.
Indexed ==
    /\ \A c \in commands : reqOf[c] # None /\ requests[reqOf[c]] = c
    /\ \A r \in Reqs : requests[r] # None => requests[r] \in commands /\ reqOf[requests[r]] = r

\* An ID that was never drawn has no trace.
Unused ==
    \A c \in IDs : reqOf[c] = None =>
        /\ meta[c] = [state |-> "none", nextSeq |-> 1]
        /\ spool[c].last = 0 /\ produced[c] = 0 /\ ~pipe[c] /\ ~spoolFailed[c]
        /\ proc[c] = "none" /\ cpc[c] = "none" /\ ~open[c]

\* A command in the hands of the handler that starts it.
Owned(h, c) ==
    /\ c \in commands /\ reqOf[c] = call[h].req
    /\ record[c] = Fresh /\ ~spoolFailed[c]
    /\ cpc[c] = "none" /\ spool[c].last = 0
    /\ IF pc[h] = "running"
       THEN proc[c] # "none" /\ produced[c] = (IF pipe[c] THEN 1 ELSE 0)
       ELSE /\ ~open[c] /\ ~pipe[c] /\ produced[c] = 0
            /\ proc[c] \in IF pc[h] = "lost" THEN {"none", "signaled"} ELSE {"none"}
    /\ CASE pc[h] = "mkdir" -> meta[c] = [state |-> "none", nextSeq |-> 1]
         [] pc[h] = "persist" -> meta[c] = [state |-> "dir", nextSeq |-> 1]
         [] OTHER -> meta[c] = Fresh

Ownership ==
    /\ \A h \in Handlers : pc[h] \in Starting => call[h].id \in IDs /\ Owned(h, call[h].id)
    /\ \A h, g \in Handlers :
        pc[h] \in Starting /\ pc[g] \in Starting /\ call[h].id = call[g].id => h = g
    /\ \A h \in Handlers : pc[h] \in {"start"} \cup Starting => call[h].req \in Reqs
    /\ \A h \in Handlers : pc[h] \in {"kill", "read", "blocked"} =>
        /\ call[h].id \in commands
        /\ meta[call[h].id].state \notin {"none", "dir"}

\* A command without metadata is one that is being created.
Created ==
    \A c \in commands : meta[c].state \in {"none", "dir"} =>
        \E h \in Handlers : pc[h] \in {"mkdir", "persist"} /\ call[h].id = c

\* The commands a handler is still about to hand over to collect.
Started(c) == \E h \in Handlers : pc[h] = "running" /\ call[h].id = c

\* A command in the hands of its collect goroutine, and after it.
CollectedAt(c) ==
    /\ proc[c] = "alive" \/ open[c] \/ pipe[c] => cpc[c] \in Collecting \/ Started(c)
    /\ cpc[c] # "none" => c \in commands /\ proc[c] # "none"
    /\ cpc[c] \in Collecting =>
        /\ meta[c].state \in {"starting", "running"}
        /\ record[c].state \in {"starting", "running"}
        /\ ~spoolFailed[c] =>
            /\ produced[c] = spool[c].last + (IF pipe[c] THEN 1 ELSE 0)
                                           + (IF cpc[c] = "append" THEN 1 ELSE 0)
            /\ record[c].nextSeq + (IF cpc[c] = "advance" THEN 1 ELSE 0) = spool[c].last + 1
    /\ cpc[c] \in {"append", "advance"} => ~spoolFailed[c]

Collected == \A c \in IDs : CollectedAt(c)

\* A child runs for a command the disk knows, and memory or load with it.
Children ==
    /\ \A c \in IDs : proc[c] # "none" =>
        /\ meta[c].state \notin {"none", "dir"}
        /\ up = "up" => c \in commands
        /\ up = "loading" => c \in commands \cup todo
    /\ \A x \in spawned : reqOf[x[2]] = x[1] /\ proc[x[2]] # "none"

\* What is on disk is never behind what memory says.
Behind ==
    /\ \A c \in IDs : cursor[c] < meta[c].nextSeq
    /\ \A c \in commands :
        /\ record[c].nextSeq <= meta[c].nextSeq
        /\ record[c].state \in Terminal => meta[c].state = record[c].state

IInv ==
    /\ TypeOK /\ Stopped /\ Locked /\ Indexed /\ Unused /\ Ownership /\ Created /\ Collected
    /\ Children /\ Behind /\ AtMostOnce /\ TerminalIsDurable /\ OutputComplete
    /\ CursorsStayValid /\ NoLostWakeup
----------------------------------------------------------------------------
(* Types.                                                                  *)

HandlerPCs == {"idle", "start", "mkdir", "persist", "spawn", "lost", "running", "kill",
               "read", "blocked"}
Calls == [req : Reqs \cup {None}, spec : Specs \cup {None}, id : IDs \cup {None}]
Records == [state : States, nextSeq : Nat]
DiskRecords == [state : States \cup {"none", "dir"}, nextSeq : Nat]
Spools == [last : Nat, torn : {"no", "record", "header"}]

HandlerTypes == pc \in [Handlers -> HandlerPCs] /\ call \in [Handlers -> Calls]

\* A handler that moves on or returns.
LEMMA MoveTypes ==
    ASSUME TypeOK, NEW h, Return(h) \/ \E label \in HandlerPCs : Goto(h, label)
    PROVE HandlerTypes'
<1>1. HandlerTypes
  BY DEF TypeOK, HandlerTypes, HandlerPCs, Calls
<1>2. NoCall \in Calls /\ "idle" \in HandlerPCs
  BY DEF NoCall, Calls, HandlerPCs
<1> QED
  BY <1>1, <1>2 DEF HandlerTypes, Return, Goto

\* A record written, whether or not the write reports an error.
LEMMA WriteTypes ==
    ASSUME TypeOK, NEW c, NEW rec \in Records, Persisted(c, rec) \/ PersistFails(c, rec)
    PROVE meta' \in [IDs -> DiskRecords] /\ unhealthy' \in BOOLEAN
<1>1. meta \in [IDs -> DiskRecords] /\ unhealthy \in BOOLEAN
  BY DEF TypeOK, DiskRecords
<1>2. rec \in DiskRecords
  BY DEF Records, DiskRecords
<1> QED
  BY <1>1, <1>2 DEF Persisted, PersistFails

LEMMA RecordTypes ==
    ASSUME TypeOK
    PROVE /\ record \in [IDs -> Records]
          /\ \A c, rec : rec \in Records => [record EXCEPT ![c] = rec] \in [IDs -> Records]
          /\ \A c \in IDs : record[c].state \in States /\ record[c].nextSeq \in Nat
          /\ \A c \in IDs, s \in States : [record[c] EXCEPT !.state = s] \in Records
          /\ \A c \in IDs : [record[c] EXCEPT !.nextSeq = @ + 1] \in Records
          /\ Fresh \in Records
<1>1. record \in [IDs -> Records]
  BY DEF TypeOK, Records
<1>2. \A c, rec : rec \in Records => [record EXCEPT ![c] = rec] \in [IDs -> Records]
  BY <1>1
<1>3. \A c \in IDs : record[c].state \in States /\ record[c].nextSeq \in Nat
  BY <1>1 DEF Records
<1>4. \A c \in IDs, s \in States : [record[c] EXCEPT !.state = s] \in Records
  BY <1>1 DEF Records
<1>5. \A c \in IDs : [record[c] EXCEPT !.nextSeq = @ + 1] \in Records
  BY <1>1 DEF Records
<1>6. Fresh \in Records
  BY DEF Fresh, Records, States
<1> QED
  BY <1>1, <1>2, <1>3, <1>4, <1>5, <1>6

LEMMA SpoolTypes ==
    ASSUME TypeOK, NEW c \in IDs
    PROVE /\ Interrupted(c) \subseteq Spools
          /\ [spool[c] EXCEPT !.torn = "no"] \in Spools
          /\ [spool[c] EXCEPT !.last = @ + 1] \in Spools
          /\ \A s \in Spools : [spool EXCEPT ![c] = s] \in [IDs -> Spools]
<1>1. spool \in [IDs -> Spools]
  BY DEF TypeOK, Spools
<1> QED
  BY <1>1 DEF Interrupted, Spools

LEMMA NotifyTypes ==
    ASSUME TypeOK, NEW c, notifyLocked(c)
    PROVE waiters' \in [Handlers -> IDs \cup {None}]
BY DEF TypeOK, notifyLocked

LEMMA ReportTypes ==
    ASSUME TypeOK, NEW c, Report(c)
    PROVE reported' \in [IDs -> Terminal \cup {None}]
BY DEF TypeOK, Report

LEMMA KillTypes ==
    ASSUME TypeOK, NEW c, Kill(c) \/ UNCHANGED proc
    PROVE proc' \in [IDs -> {"none", "alive", "exited", "signaled"}]
<1>1. proc \in [IDs -> {"none", "alive", "exited", "signaled"}]
  BY DEF TypeOK
<1>2. CASE Kill(c)
  BY <1>1, <1>2 DEF Kill
<1>3. CASE UNCHANGED proc
  BY <1>1, <1>3
<1> QED
  BY <1>2, <1>3

\* TypeOK with its record sets named.
Types ==
    /\ up \in {"down", "loading", "up", "refused"}
    /\ unhealthy \in BOOLEAN
    /\ mu \in Handlers \cup {None}
    /\ commands \subseteq IDs /\ todo \subseteq IDs
    /\ requests \in [Reqs -> IDs \cup {None}]
    /\ record \in [IDs -> Records]
    /\ waiters \in [Handlers -> IDs \cup {None}]
    /\ HandlerTypes
    /\ cpc \in [IDs -> {"none", "collect", "append", "advance", "done"}]
    /\ spoolFailed \in [IDs -> BOOLEAN]
    /\ stdin \in [IDs -> BOOLEAN] /\ inPipe \in [IDs -> BOOLEAN]
    /\ meta \in [IDs -> DiskRecords]
    /\ reqOf \in [IDs -> Reqs \cup {None}]
    /\ specOf \in [IDs -> Specs \cup {None}]
    /\ spool \in [IDs -> Spools]
    /\ proc \in [IDs -> {"none", "alive", "exited", "signaled"}]
    /\ open \in [IDs -> BOOLEAN] /\ pipe \in [IDs -> BOOLEAN]
    /\ produced \in [IDs -> Nat]
    /\ spawned \subseteq Reqs \X IDs
    /\ reported \in [IDs -> Terminal \cup {None}]
    /\ cursor \in [IDs -> Nat]

LEMMA TypesAre == TypeOK <=> Types
BY DEF TypeOK, Types, HandlerTypes, HandlerPCs, Calls, Records, DiskRecords, Spools

LEMMA TypesNext == TypeOK' <=> Types'
BY DEF TypeOK, Types, HandlerTypes, HandlerPCs, Calls, Records, DiskRecords, Spools

\* What load does to the disk before it returns an error: a partial final record
\* may be cut off, and an entry it could read is recovered.
LEMMA RefusalEffect ==
    ASSUME Types, NEW c \in IDs, loadRefuses(c)
    PROVE /\ \A d \in IDs \ {c} : meta'[d] = meta[d] /\ spool'[d] = spool[d]
          /\ meta'[c] = meta[c] \/ (Recoverable(c) /\ meta'[c] = Recovered(c))
          /\ spool'[c].last = spool[c].last
          /\ meta' \in [IDs -> DiskRecords] /\ spool' \in [IDs -> Spools]
          /\ up = "loading" /\ c \in todo /\ LoadEnds("refused")
          /\ UNCHANGED <<reqOf, child, history>>
<1>1. meta \in [IDs -> DiskRecords] /\ spool \in [IDs -> Spools] /\ spool[c].last \in Nat
  BY DEF Types, Spools
<1>2. Recovered(c) \in DiskRecords
  BY <1>1 DEF Recovered, DiskRecords, States, Terminal
<1>3. UNCHANGED meta \/ (Recoverable(c) /\ meta' = [meta EXCEPT ![c] = Recovered(c)])
  BY DEF loadRefuses
<1>4. UNCHANGED spool \/ Truncated(c)
  BY DEF loadRefuses
<1>5. meta' \in [IDs -> DiskRecords] /\ \A d \in IDs \ {c} : meta'[d] = meta[d]
  BY <1>1, <1>2, <1>3
<1>6. meta'[c] = meta[c] \/ (Recoverable(c) /\ meta'[c] = Recovered(c))
  BY <1>1, <1>3
<1>7. [spool[c] EXCEPT !.torn = "no"] \in Spools
      /\ [spool[c] EXCEPT !.torn = "no"].last = spool[c].last
  BY <1>1 DEF Spools
<1>8. /\ spool' \in [IDs -> Spools] /\ spool'[c].last = spool[c].last
      /\ \A d \in IDs \ {c} : spool'[d] = spool[d]
  BY <1>1, <1>4, <1>7 DEF Truncated
<1>9. up = "loading" /\ c \in todo /\ LoadEnds("refused") /\ UNCHANGED <<reqOf, child, history>>
  BY DEF loadRefuses
<1> QED
  BY <1>5, <1>6, <1>8, <1>9

LEMMA StartTypes ==
    ASSUME TypeOK, Ownership, NEW h \in Handlers, Start(h) \/ StartStep(h)
    PROVE TypeOK'
<1> DEFINE req == call[h].req
           id == call[h].id
<1>1. Types
  BY TypesAre
<1>2. pc[h] \in Starting \cup {"start"} => req \in Reqs
  BY DEF Ownership
<1>3. pc[h] \in Starting => id \in IDs
  BY DEF Ownership
<1>4. (pc[h] = "kill") => id \in IDs
  BY <1>1 DEF Ownership, Types
<1>5. call[h] \in Calls /\ pc[h] \in HandlerPCs
  BY <1>1 DEF Types, HandlerTypes
<1>6. call[h].spec \in Specs \cup {None}
  BY <1>5 DEF Calls
<1> USE <1>1, TypesNext DEF memory, disk, child, stdio, history
<1>a. CASE Start(h)
  <2>1. \A r \in Reqs, s \in Specs : [req |-> r, spec |-> s, id |-> None] \in Calls
    BY DEF Calls
  <2>2. HandlerTypes'
    BY <1>a, <2>1 DEF Start, Types, HandlerTypes, HandlerPCs
  <2> QED
    BY <1>a, <2>2 DEF Start, Types
<1>b. CASE StartReplay(h)
  <2>1. HandlerTypes' /\ reported' \in [IDs -> Terminal \cup {None}]
    BY <1>b, MoveTypes, ReportTypes DEF StartReplay, Types
  <2> QED
    BY <1>b, <2>1 DEF StartReplay, Types
<1>c. CASE StartLimit(h)
  BY <1>c, MoveTypes DEF StartLimit, Types
<1>d. CASE StartNew(h)
  <2>1. PICK c \in IDs :
            /\ mu' = h /\ commands' = commands \cup {c}
            /\ requests' = [requests EXCEPT ![req] = c]
            /\ record' = [record EXCEPT ![c] = Fresh]
            /\ reqOf' = [reqOf EXCEPT ![c] = req]
            /\ specOf' = [specOf EXCEPT ![c] = call[h].spec]
            /\ call' = [call EXCEPT ![h].id = c]
    BY <1>d DEF StartNew
  <2>2. call' \in [Handlers -> Calls]
    BY <1>5, <2>1 DEF Types, HandlerTypes, Calls
  <2>3. pc' \in [Handlers -> HandlerPCs]
    BY <1>d DEF StartNew, Types, HandlerTypes, HandlerPCs
  <2>4. record' \in [IDs -> Records]
    BY <2>1, RecordTypes
  <2>5. /\ requests' \in [Reqs -> IDs \cup {None}]
        /\ reqOf' \in [IDs -> Reqs \cup {None}]
        /\ specOf' \in [IDs -> Specs \cup {None}]
    BY <1>d, <1>2, <1>6, <2>1 DEF StartNew, Types
  <2> QED
    BY <1>d, <2>1, <2>2, <2>3, <2>4, <2>5 DEF StartNew, Types, HandlerTypes
<1>e. CASE Mkdir(h)
  <2>1. HandlerTypes'
    BY <1>e, MoveTypes DEF Mkdir, HandlerPCs
  <2>2. id \in IDs => [meta[id] EXCEPT !.state = "dir"] \in DiskRecords
    BY DEF Types, DiskRecords
  <2>3. meta' \in [IDs -> DiskRecords]
    BY <1>e, <2>2 DEF Mkdir, Types
  <2> QED
    BY <1>e, <2>1, <2>3 DEF Mkdir, Types
<1>f. CASE PersistStarting(h)
  <2>1. HandlerTypes'
    BY <1>f, MoveTypes DEF PersistStarting, HandlerPCs
  <2>2. meta' \in [IDs -> DiskRecords] /\ unhealthy' \in BOOLEAN
    BY <1>f, <1>3, WriteTypes, RecordTypes DEF PersistStarting, Starting
  <2> QED
    BY <1>f, <2>1, <2>2 DEF PersistStarting, Types
<1>g. CASE PersistStartingFails(h)
  <2>1. HandlerTypes'
    BY <1>g, MoveTypes DEF PersistStartingFails
  <2>2. CASE PersistFails(id, Fresh)
    BY <1>g, <2>1, <2>2, WriteTypes, RecordTypes DEF PersistStartingFails, Types
  <2>3. CASE unhealthy' = TRUE /\ UNCHANGED meta
    BY <1>g, <2>1, <2>3 DEF PersistStartingFails, Types
  <2> QED
    BY <1>g, <2>2, <2>3 DEF PersistStartingFails
<1>h. CASE Spawn(h)
  <2>1. HandlerTypes'
    BY <1>h, MoveTypes DEF Spawn, HandlerPCs
  <2>2. <<req, id>> \in Reqs \X IDs
    BY <1>h, <1>2, <1>3 DEF Spawn, Starting
  <2>3. spawned' \subseteq Reqs \X IDs
    BY <1>h, <2>2 DEF Spawn, Types
  <2> QED
    BY <1>h, <2>1, <2>3 DEF Spawn, Types
<1>i. CASE startFailed(h)
  <2> DEFINE lost == [record[id] EXCEPT !.state = "lost"]
  <2>1. id \in IDs
    BY <1>i, <1>3 DEF startFailed, Starting
  <2>2. lost \in Records
    BY <2>1, RecordTypes DEF States, Terminal
  <2> HIDE DEF lost
  <2>3. (Persisted(id, lost) /\ record' = [record EXCEPT ![id] = lost])
        \/ (PersistFails(id, lost) /\ UNCHANGED record)
    BY <1>i DEF startFailed, lost
  <2>4. meta' \in [IDs -> DiskRecords] /\ unhealthy' \in BOOLEAN /\ record' \in [IDs -> Records]
    BY <2>2, <2>3, WriteTypes, RecordTypes
  <2>5. HandlerTypes' /\ waiters' \in [Handlers -> IDs \cup {None}]
    BY <1>i, MoveTypes, NotifyTypes DEF startFailed
  <2> QED
    BY <1>i, <2>4, <2>5 DEF startFailed, Types
<1>j. CASE PersistRunning(h)
  <2> DEFINE started == [record[id] EXCEPT !.state = "running"]
  <2>1. id \in IDs
    BY <1>j, <1>3 DEF PersistRunning, Starting
  <2>2. started \in Records
    BY <2>1, RecordTypes DEF States
  <2> HIDE DEF started
  <2>3. \/ Persisted(id, started) /\ record' = [record EXCEPT ![id] = started]
           /\ notifyLocked(id) /\ Return(h)
        \/ PersistFails(id, started) /\ Goto(h, "kill") /\ UNCHANGED <<record, waiters>>
    BY <1>j DEF PersistRunning, started
  <2>4. meta' \in [IDs -> DiskRecords] /\ unhealthy' \in BOOLEAN /\ record' \in [IDs -> Records]
    BY <2>2, <2>3, WriteTypes, RecordTypes
  <2>5. HandlerTypes' /\ waiters' \in [Handlers -> IDs \cup {None}]
    BY <2>3, MoveTypes, NotifyTypes DEF HandlerPCs, Types
  <2>6. cpc' \in [IDs -> {"none", "collect", "append", "advance", "done"}]
    BY <1>j DEF PersistRunning, Types
  <2>7. stdin' \in [IDs -> BOOLEAN] /\ inPipe' \in [IDs -> BOOLEAN]
    BY <1>j DEF PersistRunning, Types
  <2> QED
    BY <1>j, <2>4, <2>5, <2>6, <2>7 DEF PersistRunning, Types
<1>k. CASE KillUnpersisted(h)
  <2>1. HandlerTypes' /\ proc' \in [IDs -> {"none", "alive", "exited", "signaled"}]
    BY <1>k, MoveTypes, KillTypes DEF KillUnpersisted
  <2>2. inPipe' \in [IDs -> BOOLEAN]
    BY <1>k DEF KillUnpersisted, ClosePipe, Types
  <2> QED
    BY <1>k, <2>1, <2>2 DEF KillUnpersisted, Types
<1> QED
  BY <1>a, <1>b, <1>c, <1>d, <1>e, <1>f, <1>g, <1>h, <1>i, <1>j, <1>k DEF StartStep
LEMMA WaitTypes ==
    ASSUME TypeOK, Ownership, NEW h \in Handlers, Wait(h) \/ WaitStep(h) \/ WaitGivesUp(h)
    PROVE TypeOK'
<1> DEFINE id == call[h].id
<1>1. Types
  BY TypesAre
<1>2. (pc[h] = "read") => id \in IDs
  BY <1>1 DEF Ownership, Types
<1> USE <1>1, TypesNext DEF memory, disk, child, stdio, history
<1>a. CASE Wait(h)
  <2>1. PICK c \in IDs : call' = [call EXCEPT ![h].id = c]
    BY <1>a DEF Wait, Types
  <2>2. [call[h] EXCEPT !.id = c] \in Calls
    BY DEF Types, HandlerTypes, Calls
  <2>3. call' \in [Handlers -> Calls]
    BY <2>1, <2>2 DEF Types, HandlerTypes
  <2>4. pc' \in [Handlers -> HandlerPCs]
    BY <1>a DEF Wait, Types, HandlerTypes, HandlerPCs
  <2> QED
    BY <1>a, <2>3, <2>4 DEF Wait, Types, HandlerTypes
<1>c. CASE WaitRead(h)
  <2>1. HandlerTypes'
    BY <1>c, MoveTypes DEF WaitRead, HandlerPCs
  <2>2. reported' \in [IDs -> Terminal \cup {None}]
    BY <1>c, ReportTypes DEF WaitRead, Types
  <2>3. waiters' \in [Handlers -> IDs \cup {None}]
    BY <1>c, <1>2 DEF WaitRead, Types
  <2> QED
    BY <1>c, <2>1, <2>2, <2>3 DEF WaitRead, Types
<1>d. CASE WaitWakes(h)
  <2>1. HandlerTypes'
    BY <1>d, MoveTypes DEF WaitWakes, HandlerPCs
  <2> QED
    BY <1>d, <2>1 DEF WaitWakes, Types
<1>e. CASE WaitGivesUp(h)
  <2>1. HandlerTypes'
    BY <1>e, MoveTypes DEF WaitGivesUp
  <2> QED
    BY <1>e, <2>1 DEF WaitGivesUp, Types
<1> QED
  BY <1>a, <1>c, <1>d, <1>e DEF WaitStep

LEMMA CollectTypes ==
    ASSUME TypeOK, NEW c \in IDs, CollectStep(c)
    PROVE TypeOK'
<1>1. Types
  BY TypesAre
<1> USE <1>1, TypesNext DEF memory, disk, child, stdio, history
<1>a. CASE Chunk(c)
  BY <1>a DEF Chunk, Types, HandlerTypes
<1>b. CASE AppendEvent(c)
  <2>1. spool' \in [IDs -> Spools]
    BY <1>b, SpoolTypes DEF AppendEvent
  <2> QED
    BY <1>b, <2>1 DEF AppendEvent, Types, HandlerTypes
<1>c. CASE AppendFails(c)
  <2>1. spool' \in [IDs -> Spools]
    <3>1. PICK s \in Interrupted(c) : spool' = [spool EXCEPT ![c] = s]
      BY <1>c DEF AppendFails
    <3>2. s \in Spools
      BY <3>1, SpoolTypes
    <3> QED
      BY <3>1, <3>2, SpoolTypes
  <2>2. proc' \in [IDs -> {"none", "alive", "exited", "signaled"}]
    BY <1>c, KillTypes DEF AppendFails
  <2> QED
    BY <1>c, <2>1, <2>2 DEF AppendFails, Types, HandlerTypes
<1>d. CASE Advance(c)
  <2> DEFINE advanced == [record[c] EXCEPT !.nextSeq = @ + 1]
  <2>1. advanced \in Records
    BY RecordTypes
  <2> HIDE DEF advanced
  <2>2. \/ /\ Persisted(c, advanced)
           /\ record' = [record EXCEPT ![c] = advanced]
           /\ notifyLocked(c)
           /\ UNCHANGED <<spoolFailed, proc>>
        \/ /\ PersistFails(c, advanced)
           /\ spoolFailed' = [spoolFailed EXCEPT ![c] = TRUE]
           /\ Kill(c) \/ UNCHANGED proc
           /\ UNCHANGED <<record, waiters>>
    BY <1>d DEF Advance, advanced
  <2>3. meta' \in [IDs -> DiskRecords] /\ unhealthy' \in BOOLEAN /\ record' \in [IDs -> Records]
    BY <2>1, <2>2, WriteTypes, RecordTypes
  <2>4. /\ waiters' \in [Handlers -> IDs \cup {None}]
        /\ spoolFailed' \in [IDs -> BOOLEAN]
        /\ proc' \in [IDs -> {"none", "alive", "exited", "signaled"}]
    BY <2>2, NotifyTypes, KillTypes DEF Types
  <2> QED
    BY <1>d, <2>3, <2>4 DEF Advance, Types, HandlerTypes
<1>e. CASE Finish(c)
  <2> DEFINE terminal == [record[c] EXCEPT !.state = Outcome(c)]
  <2>1. terminal \in Records
    BY <1>e, RecordTypes DEF Finish, Ended, Outcome, States, Terminal
  <2> HIDE DEF terminal
  <2>2. \/ Persisted(c, terminal) /\ record' = [record EXCEPT ![c] = terminal]
        \/ PersistFails(c, terminal) /\ UNCHANGED record
    BY <1>e DEF Finish, terminal
  <2>3. meta' \in [IDs -> DiskRecords] /\ unhealthy' \in BOOLEAN /\ record' \in [IDs -> Records]
    BY <2>1, <2>2, WriteTypes, RecordTypes
  <2>4. waiters' \in [Handlers -> IDs \cup {None}]
    BY <1>e, NotifyTypes DEF Finish
  <2> QED
    BY <1>e, <2>3, <2>4 DEF Finish, FinishRest, ClosePipe, Types, HandlerTypes
<1> QED
  BY <1>a, <1>b, <1>c, <1>d, <1>e DEF CollectStep

LEMMA ReadTypes ==
    ASSUME TypeOK, NEW c \in IDs, Status(c) \/ Connect(c) \/ Output(c) \/ CloseOutput(c) \/ Die(c)
    PROVE TypeOK'
<1>1. Types
  BY TypesAre
<1> USE <1>1, TypesNext DEF memory, disk, child, stdio, history
<1>a. CASE Status(c)
  BY <1>a, ReportTypes DEF Status, Types, HandlerTypes
<1>b. CASE Connect(c)
  <2>1. spool' \in [IDs -> Spools]
    BY <1>b, SpoolTypes DEF Connect
  <2>2. (record[c].nextSeq - 1 > cursor[c]) => record[c].nextSeq - 1 \in Nat
    BY RecordTypes DEF Types
  <2>3. cursor' \in [IDs -> Nat]
    BY <1>b, <2>2 DEF Connect, Types
  <2> QED
    BY <1>b, <2>1, <2>3, ReportTypes DEF Connect, Types, HandlerTypes
<1>c. CASE Output(c)
  BY <1>c DEF Output, Types, HandlerTypes
<1>d. CASE CloseOutput(c)
  BY <1>d DEF CloseOutput, Types, HandlerTypes
<1>e. CASE Die(c)
  BY <1>e DEF Die, Types, HandlerTypes
<1> QED
  BY <1>a, <1>b, <1>c, <1>d, <1>e

LEMMA RecoveryTypes ==
    ASSUME TypeOK, \/ Crash \/ NewManager \/ loadDone
                   \/ \E c \in IDs : loadEntry(c) \/ loadRefuses(c)
    PROVE TypeOK'
<1>1. Types
  BY TypesAre
<1>2. Fresh \in Records /\ NoCall \in Calls /\ "idle" \in HandlerPCs
  BY RecordTypes DEF NoCall, Calls, HandlerPCs
<1> USE <1>1, TypesNext DEF memory, disk, child, stdio, history
<1>a. CASE Crash
  <2>1. spool' \in [IDs -> Spools]
    <3>1. \A c \in IDs : Interrupted(c) \subseteq Spools /\ spool[c] \in Spools
      BY SpoolTypes DEF Types
    <3>2. \E cut, f :
            /\ \A c \in cut : f[c] \in Interrupted(c)
            /\ spool' = [c \in IDs |-> IF c \in cut THEN f[c] ELSE spool[c]]
      BY <1>a DEF Crash
    <3> QED
      BY <3>1, <3>2
  <2>2. HandlerTypes' /\ record' \in [IDs -> Records]
    BY <1>a, <1>2 DEF Crash, HandlerTypes
  <2> QED
    BY <1>a, <2>1, <2>2 DEF Crash, Types
<1>b. CASE NewManager
  BY <1>b DEF NewManager, Types, HandlerTypes
<1>c. CASE loadDone
  BY <1>c DEF loadDone, Types, HandlerTypes
<1>d. ASSUME NEW c \in IDs, loadEntry(c) PROVE TypeOK'
  <2>1. Recovered(c) \in Records
    <3>1. spool[c].last \in Nat
      BY DEF Types, Spools
    <3> QED
      BY <3>1 DEF Recovered, Records, States, Terminal
  <2>2. Recovered(c) \in DiskRecords
    BY <2>1 DEF Records, DiskRecords
  <2>3. meta' \in [IDs -> DiskRecords]
    BY <1>d, <2>2 DEF loadEntry, LoadEnds, Truncated, Types
  <2>4. record' \in [IDs -> Records]
    BY <1>d, <1>2, <2>1, RecordTypes DEF loadEntry, LoadEnds, Truncated
  <2>5. spool' \in [IDs -> Spools]
    BY <1>d, SpoolTypes DEF loadEntry, LoadEnds, Truncated
  <2>6. requests' \in [Reqs -> IDs \cup {None}]
    BY <1>d DEF loadEntry, LoadEnds, Truncated, Types
  <2> QED
    BY <1>d, <2>3, <2>4, <2>5, <2>6 DEF loadEntry, LoadEnds, Truncated, Types, HandlerTypes
<1>e. ASSUME NEW c \in IDs, loadRefuses(c) PROVE TypeOK'
  <2>1. meta' \in [IDs -> DiskRecords] /\ spool' \in [IDs -> Spools]
    BY <1>e, RefusalEffect
  <2> QED
    BY <1>e, <1>2, <2>1 DEF loadRefuses, LoadEnds, Types, HandlerTypes
<1> QED
  BY <1>a, <1>b, <1>c, <1>d, <1>e
----------------------------------------------------------------------------
(* What the steps do.                                                      *)

\* A client step moves at most one handler, which owns no command before or
\* after, and tells a client at most the state memory holds.
HandlerMoves(h) ==
    /\ pc[h] \notin Starting \cup {"kill"}
    /\ pc'[h] \in {"idle", "start", "read", "blocked"}
    /\ pc'[h] = "start" => call'[h].req \in Reqs
    /\ pc'[h] \in {"read", "blocked"} =>
        /\ call'[h].id \in commands
        /\ meta[call'[h].id].state \notin {"none", "dir"}
    /\ waiters'[h] # None => waiters'[h] = waiters[h] \/ record[waiters'[h]].state \notin Terminal
    /\ \A g \in Handlers \ {h} :
        pc'[g] = pc[g] /\ call'[g] = call[g] /\ waiters'[g] = waiters[g]

ClientEffect ==
    /\ up = "up"
    /\ UNCHANGED <<pc, call, waiters>> \/ \E h \in Handlers : HandlerMoves(h)
    /\ \A c \in IDs : \/ reported'[c] = reported[c]
                      \/ c \in commands /\ record[c].state \in Terminal
                                        /\ reported'[c] = record[c].state
    /\ UNCHANGED <<stdio, up, memory, mu, record, todo, cpc, spoolFailed, disk, child,
                   spawned, cursor>>

ClientStep(h) ==
    \/ Start(h) \/ StartReplay(h) \/ StartLimit(h)
    \/ Wait(h) \/ WaitRead(h) \/ WaitWakes(h) \/ WaitGivesUp(h)

LEMMA ReportEffect ==
    ASSUME TypeOK, NEW d \in commands, Report(d)
    PROVE \A c \in IDs : \/ reported'[c] = reported[c]
                         \/ c \in commands /\ record[c].state \in Terminal
                                           /\ reported'[c] = record[c].state
BY DEF TypeOK, Report

LEMMA ReturnMoves ==
    ASSUME TypeOK, NEW h \in Handlers, pc[h] \notin Starting \cup {"kill"}, Return(h),
           UNCHANGED waiters \/ waiters' = [waiters EXCEPT ![h] = None],
           waiters[h] # None => record[waiters[h]].state \notin Terminal
    PROVE HandlerMoves(h)
<1>1. pc'[h] = "idle" /\ \A g \in Handlers \ {h} : pc'[g] = pc[g] /\ call'[g] = call[g]
  BY DEF TypeOK, Return
<1>2. waiters'[h] \in {None, waiters[h]} /\ \A g \in Handlers \ {h} : waiters'[g] = waiters[g]
  BY DEF TypeOK
<1> QED
  BY <1>1, <1>2 DEF HandlerMoves

LEMMA ClientEffects ==
    ASSUME IInv, NEW h \in Handlers, ClientStep(h)
    PROVE ClientEffect
<1> DEFINE id == call[h].id
<1> USE DEF IInv, Starting, memory, disk, child, stdio, history
<1>1. up = "up" /\ pc[h] \notin Starting \cup {"kill"}
  BY DEF ClientStep, Stopped, Start, StartReplay, StartLimit, Wait, WaitRead, WaitWakes, WaitGivesUp
<1>2. (pc[h] \in {"read", "blocked"}) =>
        id \in commands /\ meta[id].state \notin {"none", "dir"}
  BY DEF Ownership
<1>3. waiters[h] # None => record[waiters[h]].state \notin Terminal
  BY DEF NoLostWakeup
<1>4. pc \in [Handlers -> HandlerPCs] /\ call \in [Handlers -> Calls] /\
      waiters \in [Handlers -> IDs \cup {None}]
  BY DEF TypeOK, HandlerPCs, Calls
<1>a. CASE Start(h)
  <2>1. PICK r \in Reqs, s \in Specs :
        call' = [call EXCEPT ![h] = [req |-> r, spec |-> s, id |-> None]]
    BY <1>a DEF Start
  <2>2. HandlerMoves(h)
    BY <1>a, <1>1, <1>4, <2>1 DEF Start, HandlerMoves
  <2> QED
    BY <1>a, <1>1, <2>2 DEF Start, ClientEffect
<1>b. CASE StartReplay(h)
  <2>1. HandlerMoves(h)
    BY <1>b, <1>1, <1>3, ReturnMoves DEF StartReplay
  <2>2. requests[call[h].req] \in commands
    BY <1>b DEF StartReplay, Indexed, Ownership
  <2> QED
    BY <1>b, <1>1, <2>1, <2>2, ReportEffect DEF StartReplay, ClientEffect
<1>c. CASE StartLimit(h)
  <2>1. HandlerMoves(h)
    BY <1>c, <1>1, <1>3, ReturnMoves DEF StartLimit
  <2> QED
    BY <1>c, <1>1, <2>1 DEF StartLimit, ClientEffect
<1>d. CASE Wait(h)
  <2>1. PICK c \in commands : call' = [call EXCEPT ![h].id = c]
    BY <1>d DEF Wait
  <2>2. meta[c].state \notin {"none", "dir"}
    <3>1. \A g \in Handlers : pc[g] \notin {"mkdir", "persist"}
      BY <1>d, ManagerAssumption DEF Wait, Locked
    <3> QED
      BY <3>1 DEF Created
  <2>3. call'[h].id = c
    BY <1>4, <2>1 DEF Calls
  <2>4. HandlerMoves(h)
    BY <1>d, <1>1, <1>4, <2>1, <2>2, <2>3 DEF Wait, HandlerMoves
  <2> QED
    BY <1>d, <1>1, <2>4 DEF Wait, ClientEffect
<1>f. CASE WaitRead(h)
  <2>1. CASE Report(id) /\ Return(h) /\ UNCHANGED waiters
    <3>1. HandlerMoves(h)
      BY <2>1, <1>1, <1>3, ReturnMoves
    <3>2. id \in commands
      BY <1>f, <1>2 DEF WaitRead
    <3> QED
      BY <1>f, <1>1, <2>1, <3>1, <3>2, ReportEffect DEF WaitRead, ClientEffect
  <2>2. CASE /\ record[id].state \notin Terminal
             /\ waiters' = [waiters EXCEPT ![h] = id]
             /\ Goto(h, "blocked")
             /\ UNCHANGED reported
    <3>1. HandlerMoves(h)
      BY <1>f, <2>2, <1>1, <1>2, <1>4 DEF WaitRead, Goto, HandlerMoves
    <3> QED
      BY <1>f, <1>1, <2>2, <3>1 DEF WaitRead, ClientEffect
  <2> QED
    BY <1>f, <2>1, <2>2 DEF WaitRead
<1>g. CASE WaitWakes(h)
  <2>1. HandlerMoves(h)
    <3>1. CASE Return(h)
      BY <1>g, <3>1, <1>1, <1>3, ReturnMoves DEF WaitWakes
    <3>2. CASE Goto(h, "read")
      BY <1>g, <3>2, <1>1, <1>2, <1>4 DEF WaitWakes, Goto, HandlerMoves
    <3> QED
      BY <1>g, <3>1, <3>2 DEF WaitWakes
  <2> QED
    BY <1>g, <1>1, <2>1 DEF WaitWakes, ClientEffect
<1>h. CASE WaitGivesUp(h)
  <2>1. HandlerMoves(h)
    BY <1>h, <1>1, <1>3, ReturnMoves DEF WaitGivesUp
  <2> QED
    BY <1>h, <1>1, <2>1 DEF WaitGivesUp, ClientEffect
<1> QED
  BY <1>a, <1>b, <1>c, <1>d, <1>f, <1>g, <1>h DEF ClientStep

LEMMA StatusEffect ==
    ASSUME IInv, NEW c \in IDs, Status(c)
    PROVE ClientEffect
BY ReportEffect DEF IInv, Status, ClientEffect, memory, disk, child, stdio, history
\* A write of command c's metadata that stands, or fails before or after the
\* rename and leaves the record in memory as it was.
Write(c, s, n) ==
    /\ \A d \in IDs \ {c} : meta'[d] = meta[d] /\ record'[d] = record[d]
    /\ \/ /\ record'[c].state = s /\ record'[c].nextSeq = n
          /\ meta'[c].state = s /\ meta'[c].nextSeq = n
       \/ /\ record'[c] = record[c]
          /\ meta'[c] = meta[c] \/ (meta'[c].state = s /\ meta'[c].nextSeq = n)

LEMMA WriteEffect ==
    ASSUME TypeOK, NEW c \in IDs, NEW rec, NEW s, NEW n, rec = [state |-> s, nextSeq |-> n],
           \/ Persisted(c, rec) /\ record' = [record EXCEPT ![c] = rec]
           \/ PersistFails(c, rec) /\ UNCHANGED record
    PROVE Write(c, s, n)
<1>1. record \in [IDs -> Records] /\ meta \in [IDs -> DiskRecords]
  BY DEF TypeOK, Records, DiskRecords
<1>2. CASE Persisted(c, rec) /\ record' = [record EXCEPT ![c] = rec]
  BY <1>1, <1>2 DEF Persisted, Write
<1>3. CASE PersistFails(c, rec) /\ UNCHANGED record
  BY <1>1, <1>3 DEF PersistFails, Write
<1> QED
  BY <1>2, <1>3

LEMMA RecordFields ==
    ASSUME TypeOK, NEW c \in IDs
    PROVE /\ \A s : [record[c] EXCEPT !.state = s] = [state |-> s, nextSeq |-> record[c].nextSeq]
          /\ [record[c] EXCEPT !.nextSeq = @ + 1]
                 = [state |-> record[c].state, nextSeq |-> record[c].nextSeq + 1]
<1>1. record[c] \in [state : States, nextSeq : Nat]
  BY DEF TypeOK
<1> QED
  BY <1>1

LEMMA FailedEffect ==
    ASSUME IInv, NEW h \in Handlers, startFailed(h)
    PROVE Write(call[h].id, "lost", 1)
<1>1. call[h].id \in IDs /\ record[call[h].id] = Fresh
  BY DEF IInv, startFailed, Ownership, Owned, Starting
<1>2. [record[call[h].id] EXCEPT !.state = "lost"] = [state |-> "lost", nextSeq |-> 1]
  BY <1>1, RecordFields DEF IInv, Fresh
<1> QED
  BY <1>1, <1>2, WriteEffect DEF IInv, startFailed

LEMMA RunningEffect ==
    ASSUME IInv, NEW h \in Handlers, PersistRunning(h)
    PROVE Write(call[h].id, "running", 1)
<1>1. call[h].id \in IDs /\ record[call[h].id] = Fresh
  BY DEF IInv, PersistRunning, Ownership, Owned, Starting
<1>2. [record[call[h].id] EXCEPT !.state = "running"] = [state |-> "running", nextSeq |-> 1]
  BY <1>1, RecordFields DEF IInv, Fresh
<1> QED
  BY <1>1, <1>2, WriteEffect DEF IInv, PersistRunning

LEMMA AdvanceEffect ==
    ASSUME IInv, NEW c \in IDs, Advance(c)
    PROVE /\ Write(c, record[c].state, record[c].nextSeq + 1)
          /\ spoolFailed'[c] \/ record'[c].nextSeq = record[c].nextSeq + 1
          /\ \A d \in IDs \ {c} : spoolFailed'[d] = spoolFailed[d] /\ proc'[d] = proc[d]
          /\ (proc'[c] = "none") <=> (proc[c] = "none")
          /\ proc'[c] = "alive" => proc[c] = "alive"
<1>1. [record[c] EXCEPT !.nextSeq = @ + 1]
          = [state |-> record[c].state, nextSeq |-> record[c].nextSeq + 1]
  BY RecordFields DEF IInv
<1>2. Write(c, record[c].state, record[c].nextSeq + 1)
  BY <1>1, WriteEffect DEF IInv, Advance
<1>3. TypeOK
  BY DEF IInv
<1>4. spoolFailed'[c] \/ record'[c].nextSeq = record[c].nextSeq + 1
  BY <1>1, <1>3 DEF Advance, TypeOK
<1>5. \A d \in IDs \ {c} : spoolFailed'[d] = spoolFailed[d] /\ proc'[d] = proc[d]
  BY <1>3 DEF Advance, Kill, TypeOK
<1>6. /\ (proc'[c] = "none") <=> (proc[c] = "none")
      /\ proc'[c] = "alive" => proc[c] = "alive"
  BY <1>3 DEF Advance, Kill, TypeOK
<1> QED
  BY <1>2, <1>4, <1>5, <1>6

LEMMA FinishEffect ==
    ASSUME IInv, NEW c \in IDs, Finish(c)
    PROVE Write(c, Outcome(c), record[c].nextSeq) /\ Outcome(c) \in Terminal
<1>1. [record[c] EXCEPT !.state = Outcome(c)] =
        [state |-> Outcome(c), nextSeq |-> record[c].nextSeq]
  BY RecordFields DEF IInv
<1>2. Outcome(c) \in Terminal
  BY DEF Finish, Ended, Outcome, Terminal
<1> QED
  BY <1>1, <1>2, WriteEffect DEF IInv, Finish
OwnerStep(h) ==
    \/ StartNew(h) \/ Mkdir(h) \/ PersistStarting(h) \/ PersistStartingFails(h) \/ Spawn(h)
    \/ startFailed(h) \/ PersistRunning(h) \/ KillUnpersisted(h)

OtherStep(c) == Connect(c) \/ Output(c) \/ CloseOutput(c) \/ Die(c)

RecoveryStep == Crash \/ NewManager \/ loadDone \/ \E c \in IDs : loadEntry(c) \/ loadRefuses(c)

\* The kinds of steps, with the client steps in one.
Step ==
    \/ ClientEffect
    \/ \E h \in Handlers : OwnerStep(h)
    \/ \E c \in IDs : CollectStep(c) \/ OtherStep(c)
    \/ RecoveryStep

LEMMA StepKinds ==
    ASSUME IInv, Next
    PROVE Step
<1>1. ASSUME NEW h \in Handlers,
             Start(h) \/ StartStep(h) \/ Wait(h) \/ WaitStep(h) \/ WaitGivesUp(h)
      PROVE ClientEffect \/ OwnerStep(h)
  BY <1>1, ClientEffects DEF StartStep, WaitStep, ClientStep, OwnerStep
<1>2. ASSUME NEW c \in IDs, \/ CollectStep(c) \/ Status(c) \/ Connect(c) \/ loadEntry(c)
                            \/ loadRefuses(c) \/ Output(c) \/ CloseOutput(c) \/ Die(c)
      PROVE ClientEffect \/ CollectStep(c) \/ OtherStep(c) \/ RecoveryStep
  BY <1>2, StatusEffect DEF OtherStep, RecoveryStep
<1>3. CASE Crash \/ NewManager \/ loadDone
  BY <1>3 DEF Step, RecoveryStep
<1> QED
  BY <1>1, <1>2, <1>3 DEF Next, Step
LEMMA OwnerFacts ==
    ASSUME IInv, NEW h \in Handlers, pc[h] \in Starting
    PROVE LET c == call[h].id IN
            /\ c \in IDs /\ c \in commands /\ Owned(h, c)
            /\ call[h].req \in Reqs /\ reqOf[c] = call[h].req /\ requests[call[h].req] = c
            /\ reqOf[c] # None
            /\ \A g \in Handlers \ {h} : pc[g] \in Starting => call[g].id # c
<1> DEFINE c == call[h].id
<1>1. c \in IDs /\ Owned(h, c) /\ call[h].req \in Reqs
  BY DEF IInv, Ownership
<1>2. c \in commands /\ reqOf[c] = call[h].req
  BY <1>1 DEF Owned
<1>3. reqOf[c] # None
  BY <1>1, <1>2, ManagerAssumption
<1>4. requests[call[h].req] = c
  BY <1>2 DEF IInv, Indexed
<1>5. \A g \in Handlers \ {h} : pc[g] \in Starting => call[g].id # c
  BY DEF IInv, Ownership
<1> QED
  BY <1>1, <1>2, <1>3, <1>4, <1>5
LEMMA WriteStates ==
    ASSUME NEW c \in IDs, NEW s, NEW n, Write(c, s, n), s \notin {"none", "dir"}
    PROVE \A d \in IDs : meta'[d].state \in {"none", "dir"} => meta[d].state \in {"none", "dir"}
BY DEF Write

LEMMA CreatedFrame ==
    ASSUME TypeOK, Created,
           \A c \in commands' : c \in commands \/ meta'[c].state \notin {"none", "dir"},
           \A c \in IDs : meta'[c].state \in {"none", "dir"} => meta[c].state \in {"none", "dir"},
           \A g \in Handlers :
               pc[g] \in {"mkdir", "persist"} => pc'[g] = pc[g] /\ call'[g].id = call[g].id
    PROVE Created'
<1> SUFFICES ASSUME NEW c \in commands', meta'[c].state \in {"none", "dir"}
             PROVE \E h \in Handlers : pc'[h] \in {"mkdir", "persist"} /\ call'[h].id = c
  BY DEF Created
<1>1. c \in commands /\ c \in IDs
  BY DEF TypeOK
<1>2. PICK g \in Handlers : pc[g] \in {"mkdir", "persist"} /\ call[g].id = c
  BY <1>1 DEF Created
<1> QED
  BY <1>2
LEMMA OwnerWriteStates ==
    ASSUME IInv, NEW h \in Handlers, startFailed(h) \/ PersistRunning(h)
    PROVE \A d \in IDs : meta'[d].state \in {"none", "dir"} => meta[d].state \in {"none", "dir"}
<1>1. pc[h] \in Starting
  BY DEF startFailed, PersistRunning, Starting
<1>2. call[h].id \in IDs
  BY <1>1, OwnerFacts
<1>3. CASE startFailed(h)
  <2>1. Write(call[h].id, "lost", 1)
    BY <1>3, FailedEffect
  <2> QED
    BY <1>2, <2>1, WriteStates
<1>4. CASE PersistRunning(h)
  <2>1. Write(call[h].id, "running", 1)
    BY <1>4, RunningEffect
  <2> QED
    BY <1>2, <2>1, WriteStates
<1> QED
  BY <1>3, <1>4
\* What the four writes of a running command have in common: the command is
\* alive on disk and in memory, and the write refers to nothing the spool lacks.
SafeWrite(c) ==
    \E s \in States, n \in Nat :
        /\ Write(c, s, n)
        /\ record[c].nextSeq <= n /\ n <= spool[c].last + 1 /\ cursor[c] < n
        /\ s \in Dead => spool[c].last = produced[c] /\ ~pipe[c]
        /\ record[c].state \notin Terminal
        /\ meta[c].state \notin Terminal
        /\ UNCHANGED <<up, commands, todo, spool, produced, open, pipe, cursor, reported,
                       reqOf, spawned>>

LEMMA OwnerWrites ==
    ASSUME IInv, NEW h \in Handlers, startFailed(h) \/ PersistRunning(h)
    PROVE SafeWrite(call[h].id)
<1> DEFINE c == call[h].id
<1>1. pc[h] \in Starting
  BY DEF startFailed, PersistRunning, Starting
<1>2. c \in IDs /\ Owned(h, c)
  BY <1>1, OwnerFacts
<1>3. record[c] = Fresh /\ meta[c] = Fresh /\ spool[c].last = 0
  BY <1>2 DEF Owned, startFailed, PersistRunning
<1>4. cursor[c] < 1
  BY <1>2, <1>3 DEF IInv, Behind, Fresh
<1>5. UNCHANGED <<up, commands, todo, spool, produced, open, pipe, cursor, reported, reqOf,
                  spawned>>
  BY DEF startFailed, PersistRunning, child, history
<1>6. \E s \in {"lost", "running"} : Write(c, s, 1)
  BY FailedEffect, RunningEffect
<1>7. {"lost", "running"} \subseteq States \ Dead
  BY DEF States, Terminal, Dead
<1> QED
  BY <1>3, <1>4, <1>5, <1>6, <1>7 DEF SafeWrite, Fresh, Terminal

LEMMA CollectorFacts ==
    ASSUME IInv, NEW c \in IDs, cpc[c] \in Collecting
    PROVE /\ c \in commands /\ proc[c] # "none"
          /\ meta[c].state \in {"starting", "running"} /\
             record[c].state \in {"starting", "running"}
          /\ \A h \in Handlers : pc[h] \in Starting => call[h].id # c
<1>1. cpc[c] # "none"
  BY DEF Collecting
<1>2. \A h \in Handlers : pc[h] \in Starting => call[h].id # c
  BY <1>1, OwnerFacts DEF Owned
<1> QED
  BY <1>1, <1>2 DEF IInv, Collected, CollectedAt

LEMMA CollectorWrites ==
    ASSUME IInv, NEW c \in IDs, Advance(c) \/ Finish(c)
    PROVE SafeWrite(c)
<1>1. cpc[c] \in Collecting
  BY DEF Advance, Finish, Collecting
<1>2. c \in commands /\ record[c].state \in {"starting", "running"} /\
      meta[c].state \in {"starting", "running"}
  BY <1>1, CollectorFacts
<1>3. record[c].nextSeq \in Nat /\ record[c].state \in States
  BY RecordTypes DEF IInv
<1>4. cursor[c] \in Nat /\ spool[c].last \in Nat
  BY TypesAre DEF IInv, Types, Spools
<1>5. cursor[c] < record[c].nextSeq
  BY <1>2 DEF IInv, CursorsStayValid
<1>6. record[c].state \notin Terminal /\ meta[c].state \notin Terminal
  BY <1>2 DEF Terminal
<1>7. UNCHANGED <<up, commands, todo, spool, produced, open, pipe, cursor, reported, reqOf,
                  spawned>>
  BY DEF Advance, Finish, FinishRest, child, history
<1>a. CASE Advance(c)
  <2>1. record[c].nextSeq + 1 = spool[c].last + 1
    BY <1>a, <1>1 DEF Advance, IInv, Collected, CollectedAt
  <2>2. Write(c, record[c].state, record[c].nextSeq + 1) /\ record[c].state \notin Dead
    BY <1>a, <1>2, AdvanceEffect DEF Dead
  <2> QED
    BY <1>3, <1>4, <1>5, <1>6, <1>7, <2>1, <2>2 DEF SafeWrite
<1>b. CASE Finish(c)
  <2>1. Write(c, Outcome(c), record[c].nextSeq) /\ Outcome(c) \in States
    BY <1>b, FinishEffect DEF States
  <2>2. meta[c].nextSeq \in Nat /\ record[c].nextSeq <= spool[c].last + 1
    <3>1. meta[c].nextSeq \in Nat
      BY TypesAre DEF IInv, Types, DiskRecords
    <3>2. record[c].nextSeq <= meta[c].nextSeq /\ meta[c].nextSeq <= spool[c].last + 1
      BY <1>2 DEF IInv, Behind, CursorsStayValid
    <3> QED
      BY <1>3, <1>4, <3>1, <3>2
  <2>3. Outcome(c) \in Dead => spool[c].last = produced[c] /\ ~pipe[c]
    <3>1. cpc[c] = "collect" /\ ~pipe[c]
      BY <1>b DEF Finish, Ended
    <3>2. ~spoolFailed[c] => produced[c] = spool[c].last
      BY <1>1, <1>4, <3>1 DEF IInv, Collected, CollectedAt
    <3> QED
      BY <3>1, <3>2 DEF Outcome, Dead
  <2> QED
    BY <1>3, <1>5, <1>6, <1>7, <2>1, <2>2, <2>3 DEF SafeWrite
<1> QED
  BY <1>a, <1>b

\* What such a write preserves.
LEMMA SafeWriteKeeps ==
    ASSUME IInv, NEW c \in IDs, SafeWrite(c)
    PROVE Behind' /\ TerminalIsDurable' /\ OutputComplete' /\ CursorsStayValid'
<1>1. PICK s \in States, n \in Nat :
        /\ Write(c, s, n)
        /\ record[c].nextSeq <= n /\ n <= spool[c].last + 1 /\ cursor[c] < n
        /\ s \in Dead => spool[c].last = produced[c] /\ ~pipe[c]
        /\ record[c].state \notin Terminal
        /\ meta[c].state \notin Terminal
        /\ UNCHANGED <<up, commands, todo, spool, produced, open, pipe, cursor, reported,
                       reqOf, spawned>>
  BY DEF SafeWrite
<1>2. /\ \A d \in IDs : cursor[d] \in Nat /\ meta[d].nextSeq \in Nat /\ record[d].nextSeq \in Nat
                        /\ spool[d].last \in Nat
      /\ commands \subseteq IDs
      /\ \A d \in IDs : reported[d] \in Terminal \cup {None}
  BY TypesAre DEF IInv, Types, Records, DiskRecords, Spools
<1>3. Behind'
  BY <1>1, <1>2 DEF Write, Behind, IInv
<1>4. TerminalIsDurable'
  BY <1>1, <1>2 DEF Write, TerminalIsDurable, IInv
<1>5. OutputComplete'
  BY <1>1, <1>2 DEF Write, OutputComplete, Dead, IInv
<1>6. CursorsStayValid'
  BY <1>1, <1>2 DEF Write, CursorsStayValid, IInv
<1> QED
  BY <1>3, <1>4, <1>5, <1>6
LEMMA ChildrenKept ==
    ASSUME IInv, NEW c \in IDs, SafeWrite(c),
           \A d \in IDs : (proc'[d] = "none") <=> (proc[d] = "none")
    PROVE Children'
<1>1. PICK s \in States, n \in Nat :
          Write(c, s, n) /\ UNCHANGED <<up, commands, todo, reqOf, spawned>>
  BY DEF SafeWrite
<1>2. \A d \in IDs : meta[d].state \notin {"none", "dir"} => meta'[d].state \notin {"none", "dir"}
  BY <1>1 DEF Write, States, Terminal
<1>3. \A x \in spawned : x[2] \in IDs
  BY TypesAre DEF IInv, Types
<1> QED
  BY <1>1, <1>2, <1>3 DEF IInv, Children

\* Nothing of command d changes.
Untouched(d) ==
    /\ meta'[d] = meta[d] /\ record'[d] = record[d] /\ reqOf'[d] = reqOf[d]
    /\ cpc'[d] = cpc[d] /\ spoolFailed'[d] = spoolFailed[d] /\ spool'[d].last = spool[d].last
    /\ proc'[d] = proc[d] /\ open'[d] = open[d] /\ pipe'[d] = pipe[d]
    /\ produced'[d] = produced[d]
    /\ d \in commands => d \in commands'

\* A step that touches command c, or none: a handler gives it up, keeps it as
\* Owned asks, or has nothing to do with it.
Touches(c) ==
    /\ \A d \in IDs \ {c} : Untouched(d)
    /\ c \in commands => c \in commands'
    /\ meta[c].state \notin {"none", "dir"} => meta'[c].state \notin {"none", "dir"}

OwnersKeep(c) ==
    \A g \in Handlers :
        \/ pc'[g] = "idle"
        \/ pc'[g] = "start" /\ call'[g].req \in Reqs
        \/ /\ pc'[g] \in {"kill", "read", "blocked"}
           /\ call'[g].id \in commands' /\ meta'[call'[g].id].state \notin {"none", "dir"}
        \/ pc'[g] = pc[g] /\ call'[g] = call[g] /\ (pc[g] \in Starting => call[g].id # c)
        \/ pc[g] \in Starting /\ pc'[g] \in Starting /\ call'[g] = call[g]
                               /\ call[g].id = c /\ Owned(g, c)'

LEMMA OwnershipKept ==
    ASSUME IInv, NEW c, Touches(c), OwnersKeep(c)
    PROVE Ownership'
<1> USE DEF IInv, Ownership, Touches, OwnersKeep
<1>1. ASSUME NEW g \in Handlers, pc'[g] \in Starting
      PROVE /\ pc[g] \in Starting /\ call'[g] = call[g]
            /\ call[g].id # c => pc'[g] = pc[g]
            /\ call[g].id = c => Owned(g, c)'
  BY <1>1 DEF Starting
<1>2. ASSUME NEW g \in Handlers, pc'[g] \in Starting
      PROVE call'[g].id \in IDs /\ Owned(g, call[g].id)' /\ call'[g].req \in Reqs
  <2> DEFINE d == call[g].id
  <2>1. d \in IDs /\ Owned(g, d) /\ call[g].req \in Reqs /\ call'[g] = call[g]
    BY <1>1, <1>2
  <2>2. CASE d = c
    BY <1>1, <1>2, <2>1, <2>2 DEF Owned
  <2>3. CASE d # c
    <3>1. Untouched(d) /\ pc'[g] = pc[g]
      BY <1>1, <1>2, <2>1, <2>3
    <3> QED
      BY <2>1, <3>1 DEF Untouched, Owned
  <2> QED
    BY <2>2, <2>3
<1>3. \A h, g \in Handlers :
        pc'[h] \in Starting /\ pc'[g] \in Starting /\ call'[h].id = call'[g].id => h = g
  BY <1>1
<1>4. ASSUME NEW g \in Handlers, pc'[g] = "start" PROVE call'[g].req \in Reqs
  BY <1>4 DEF Starting
<1>5. ASSUME NEW g \in Handlers, pc'[g] \in {"kill", "read", "blocked"}
      PROVE call'[g].id \in commands' /\ meta'[call'[g].id].state \notin {"none", "dir"}
  <2>1. CASE call'[g].id \in commands' /\ meta'[call'[g].id].state \notin {"none", "dir"}
    BY <2>1
  <2>2. CASE pc'[g] = pc[g] /\ call'[g] = call[g]
    <3> DEFINE d == call[g].id
    <3>1. d \in commands /\ d \in IDs /\ meta[d].state \notin {"none", "dir"}
      BY <1>5, <2>2, TypesAre DEF Types
    <3>2. CASE d = c
      BY <2>2, <3>1, <3>2
    <3>3. CASE d # c
      BY <2>2, <3>1, <3>3 DEF Untouched
    <3> QED
      BY <3>2, <3>3
  <2> QED
    BY <1>5, <2>1, <2>2 DEF Starting
<1> QED
  BY <1>2, <1>3, <1>4, <1>5

LEMMA CollectedKept ==
    ASSUME IInv, NEW c, Touches(c),
           \A g \in Handlers : pc[g] = "running" /\ call[g].id # c =>
               pc'[g] = pc[g] /\ call'[g] = call[g],
           c \in IDs => CollectedAt(c)'
    PROVE Collected'
<1> SUFFICES ASSUME NEW d \in IDs \ {c}
             PROVE CollectedAt(d)'
  BY DEF Collected
<1>1. CollectedAt(d) /\ Untouched(d)
  BY DEF IInv, Collected, Touches
<1>2. Started(d) => Started(d)'
  BY DEF Started
<1> QED
  BY <1>1, <1>2 DEF CollectedAt, Untouched
LEMMA SafeWriteStates ==
    ASSUME NEW c \in IDs, SafeWrite(c)
    PROVE meta[c].state \notin {"none", "dir"} => meta'[c].state \notin {"none", "dir"}
BY DEF SafeWrite, Write, States, Terminal
----------------------------------------------------------------------------
(* Each part of the invariant is kept by every step.                       *)

LEMMA StoppedStep ==
    ASSUME IInv, Step
    PROVE Stopped'
<1>a. Types /\ Stopped
  BY TypesAre DEF IInv
<1> USE <1>a, ManagerAssumption DEF memory, disk, child, stdio, history, Types, HandlerTypes,
        DiskRecords, Fresh, Starting, Stopped
<1>1. CASE ClientEffect
  BY <1>1 DEF ClientEffect, HandlerMoves
<1>2. ASSUME NEW h \in Handlers, OwnerStep(h) PROVE Stopped'
  <2>1. CASE StartNew(h)
    BY <2>1 DEF StartNew
  <2>2. CASE Mkdir(h)
    BY <2>2 DEF Mkdir, Goto
  <2>3. CASE PersistStarting(h)
    BY <2>3 DEF PersistStarting, Persisted, Goto
  <2>4. CASE PersistStartingFails(h)
    BY <2>4 DEF PersistStartingFails, PersistFails, Return, NoCall
  <2>5. CASE Spawn(h)
    BY <2>5 DEF Spawn, Goto
  <2>6. CASE startFailed(h)
    BY <2>6, FailedEffect DEF startFailed, notifyLocked, Return, NoCall, Write
  <2>7. CASE PersistRunning(h)
    BY <2>7, RunningEffect DEF PersistRunning, notifyLocked, Return, NoCall, Goto, Write
  <2>8. CASE KillUnpersisted(h)
    BY <2>8 DEF KillUnpersisted, Kill, Return, NoCall
  <2> QED
    BY <1>2, <2>1, <2>2, <2>3, <2>4, <2>5, <2>6, <2>7, <2>8 DEF OwnerStep
<1>3. ASSUME NEW c \in IDs, CollectStep(c) PROVE Stopped'
  <2>1. CASE Chunk(c)
    BY <2>1 DEF Chunk
  <2>2. CASE AppendEvent(c)
    BY <2>2 DEF AppendEvent
  <2>3. CASE AppendFails(c)
    BY <2>3 DEF AppendFails, Kill
  <2>4. CASE Advance(c)
    BY <2>4, AdvanceEffect DEF Advance, notifyLocked, Kill, Write
  <2>5. CASE Finish(c)
    BY <2>5, FinishEffect DEF Finish, notifyLocked, FinishRest, Write
  <2> QED
    BY <1>3, <2>1, <2>2, <2>3, <2>4, <2>5 DEF CollectStep
<1>4. ASSUME NEW c \in IDs, OtherStep(c) PROVE Stopped'
  <2>1. CASE Connect(c)
    BY <2>1 DEF Connect
  <2>2. CASE Output(c)
    BY <2>2 DEF Output
  <2>3. CASE CloseOutput(c)
    BY <2>3 DEF CloseOutput
  <2>4. CASE Die(c)
    BY <2>4 DEF Die
  <2> QED
    BY <1>4, <2>1, <2>2, <2>3, <2>4 DEF OtherStep
<1>5. CASE Crash \/ NewManager \/ loadDone
  <2>1. CASE Crash
    BY <2>1 DEF Crash, NoCall
  <2>2. CASE NewManager
    BY <2>2 DEF NewManager
  <2>3. CASE loadDone
    BY <2>3 DEF loadDone
  <2> QED
    BY <1>5, <2>1, <2>2, <2>3
<1>6. ASSUME NEW c \in IDs, loadEntry(c) \/ loadRefuses(c) PROVE Stopped'
  <2>1. CASE loadEntry(c)
    BY <2>1 DEF loadEntry, LoadEnds, Truncated, Recoverable, Unreadable, Recovered, Terminal
  <2>2. CASE loadRefuses(c)
    BY <2>2 DEF loadRefuses, LoadEnds, Truncated, Recoverable, Unreadable
  <2> QED
    BY <1>6, <2>1, <2>2
<1> QED
  BY <1>1, <1>2, <1>3, <1>4, <1>5, <1>6 DEF Step, RecoveryStep

LEMMA LockedStep ==
    ASSUME IInv, Step
    PROVE Locked'
<1>a. Types /\ Stopped /\ Locked
  BY TypesAre DEF IInv
<1> USE <1>a, ManagerAssumption DEF memory, disk, child, stdio, history, Types, HandlerTypes,
        Starting, Stopped, Locked
<1>1. CASE ClientEffect
  BY <1>1 DEF ClientEffect, HandlerMoves
<1>2. ASSUME NEW h \in Handlers, OwnerStep(h) PROVE Locked'
  <2>1. CASE StartNew(h)
    BY <2>1 DEF StartNew, Fresh
  <2>2. CASE Mkdir(h)
    BY <2>2 DEF Mkdir, Goto
  <2>3. CASE PersistStarting(h)
    BY <2>3 DEF PersistStarting, Fresh, Goto
  <2>4. CASE PersistStartingFails(h)
    BY <2>4 DEF PersistStartingFails, Fresh, Return, NoCall
  <2>5. CASE Spawn(h)
    BY <2>5 DEF Spawn, Goto
  <2>6. CASE startFailed(h)
    BY <2>6 DEF startFailed, Return, NoCall
  <2>7. CASE PersistRunning(h)
    BY <2>7 DEF PersistRunning, Return, NoCall, Goto
  <2>8. CASE KillUnpersisted(h)
    BY <2>8 DEF KillUnpersisted, Return, NoCall
  <2> QED
    BY <1>2, <2>1, <2>2, <2>3, <2>4, <2>5, <2>6, <2>7, <2>8 DEF OwnerStep
<1>3. ASSUME NEW c \in IDs, CollectStep(c) PROVE Locked'
  BY <1>3 DEF CollectStep, Chunk, AppendEvent, AppendFails, Advance, Finish, FinishRest
<1>4. ASSUME NEW c \in IDs, OtherStep(c) PROVE Locked'
  BY <1>4 DEF OtherStep, Connect, Output, CloseOutput, Die
<1>5. CASE Crash \/ NewManager \/ loadDone
  <2>1. CASE NewManager \/ loadDone
    BY <2>1 DEF NewManager, loadDone
  <2>2. CASE Crash
    BY <2>2 DEF Crash, Fresh, NoCall
  <2> QED
    BY <1>5, <2>1, <2>2
<1>6. ASSUME NEW c \in IDs, loadEntry(c) \/ loadRefuses(c) PROVE Locked'
  BY <1>6 DEF loadEntry, LoadEnds, Truncated, loadRefuses
<1> QED
  BY <1>1, <1>2, <1>3, <1>4, <1>5, <1>6 DEF Step, RecoveryStep

LEMMA IndexedStep ==
    ASSUME IInv, Step
    PROVE Indexed'
<1>a. Types /\ Stopped /\ Indexed /\ Unused /\ Ownership
  BY TypesAre DEF IInv
<1> USE <1>a, ManagerAssumption DEF memory, disk, child, stdio, history, Types, Starting,
        Stopped, Indexed, Unused, Ownership, Owned
<1>1. CASE ClientEffect
  BY <1>1 DEF ClientEffect
<1>2. ASSUME NEW h \in Handlers, OwnerStep(h) PROVE Indexed'
  <2>1. CASE Mkdir(h) \/ PersistStarting(h) \/ Spawn(h) \/ startFailed(h) \/
             PersistRunning(h) \/ KillUnpersisted(h)
    BY <2>1 DEF Mkdir, PersistStarting, Spawn, startFailed, PersistRunning, KillUnpersisted
  <2>2. CASE StartNew(h)
    BY <2>2 DEF StartNew, Fresh
  <2>3. CASE PersistStartingFails(h)
    BY <2>3 DEF PersistStartingFails, Fresh, NoCall
  <2> QED
    BY <1>2, <2>1, <2>2, <2>3 DEF OwnerStep
<1>3. ASSUME NEW c \in IDs, CollectStep(c) PROVE Indexed'
  BY <1>3 DEF CollectStep, Chunk, AppendEvent, AppendFails, Advance, Finish, FinishRest
<1>4. ASSUME NEW c \in IDs, OtherStep(c) PROVE Indexed'
  BY <1>4 DEF OtherStep, Connect, Output, CloseOutput, Die
<1>5. CASE Crash \/ NewManager \/ loadDone
  <2>1. CASE NewManager \/ loadDone
    BY <2>1 DEF NewManager, loadDone
  <2>2. CASE Crash
    BY <2>2 DEF Crash, Fresh, NoCall
  <2> QED
    BY <1>5, <2>1, <2>2
<1>6. ASSUME NEW c \in IDs, loadEntry(c) \/ loadRefuses(c) PROVE Indexed'
  <2>1. CASE loadEntry(c)
    <3>1. \/ commands' = {} /\ requests' = [r \in Reqs |-> None]
          \/ /\ commands' = commands \cup {c} /\ requests[reqOf[c]] = None
             /\ requests' = [requests EXCEPT ![reqOf[c]] = c]
      BY <2>1 DEF loadEntry, LoadEnds
    <3>2. reqOf[c] # None /\ UNCHANGED reqOf
      BY <2>1 DEF loadEntry
    <3> QED
      BY <3>1, <3>2
  <2>2. CASE loadRefuses(c)
    BY <2>2 DEF loadRefuses, LoadEnds, Truncated, Recoverable, Unreadable, Fresh
  <2> QED
    BY <1>6, <2>1, <2>2
<1> QED
  BY <1>1, <1>2, <1>3, <1>4, <1>5, <1>6 DEF Step, RecoveryStep

LEMMA UnusedStep ==
    ASSUME IInv, Step
    PROVE Unused'
<1>a. Types /\ Stopped /\ Unused /\ Ownership /\ Collected
  BY TypesAre DEF IInv
<1> USE <1>a, ManagerAssumption DEF memory, disk, child, stdio, history, Types, DiskRecords,
        Spools, Fresh, Starting, Stopped, Unused, Ownership, Owned, Collected, CollectedAt
<1>1. CASE ClientEffect
  BY <1>1 DEF ClientEffect
<1>2. ASSUME NEW h \in Handlers, OwnerStep(h) PROVE Unused'
  <2>1. CASE StartNew(h)
    BY <2>1 DEF StartNew
  <2>2. CASE Mkdir(h)
    BY <2>2, OwnerFacts DEF Mkdir
  <2>3. CASE PersistStarting(h)
    BY <2>3, OwnerFacts DEF PersistStarting, Persisted
  <2>4. CASE PersistStartingFails(h)
    BY <2>4, OwnerFacts DEF PersistStartingFails, PersistFails, NoCall
  <2>5. CASE Spawn(h)
    BY <2>5, OwnerFacts DEF Spawn
  <2>6. CASE startFailed(h)
    <3>1. Write(call[h].id, "lost", 1) /\ pc[h] \in Starting
      BY <2>6, FailedEffect DEF startFailed
    <3>2. reqOf[call[h].id] # None
      BY <3>1, OwnerFacts
    <3>3. \A d \in IDs \ {call[h].id} : meta'[d] = meta[d] /\ cpc'[d] = cpc[d]
      BY <2>6, <3>1 DEF startFailed, Write
    <3> QED
      BY <2>6, <3>2, <3>3 DEF startFailed
  <2>7. CASE PersistRunning(h)
    <3>1. Write(call[h].id, "running", 1) /\ pc[h] \in Starting
      BY <2>7, RunningEffect DEF PersistRunning
    <3>2. reqOf[call[h].id] # None
      BY <3>1, OwnerFacts
    <3>3. \A d \in IDs \ {call[h].id} : meta'[d] = meta[d] /\ cpc'[d] = cpc[d]
      BY SMTT(30), <2>7, <3>1 DEF PersistRunning, Write
    <3> QED
      BY <2>7, <3>2, <3>3 DEF PersistRunning
  <2>8. CASE KillUnpersisted(h)
    BY <2>8, OwnerFacts DEF KillUnpersisted, Kill, NoCall
  <2> QED
    BY <1>2, <2>1, <2>2, <2>3, <2>4, <2>5, <2>6, <2>7, <2>8 DEF OwnerStep
<1>3. ASSUME NEW c \in IDs, CollectStep(c) PROVE Unused'
  <2>1. CASE Chunk(c)
    BY <2>1 DEF Chunk
  <2>2. CASE AppendEvent(c)
    BY <2>2 DEF AppendEvent
  <2>3. CASE AppendFails(c)
    BY <2>3 DEF AppendFails, Interrupted, Kill
  <2>4. CASE Advance(c)
    <3>1. Write(c, record[c].state, record[c].nextSeq + 1) /\ reqOf[c] # None
      BY <2>4, AdvanceEffect DEF Advance
    <3>2. \A d \in IDs \ {c} : meta'[d] = meta[d] /\ cpc'[d] = cpc[d]
      BY <2>4, <3>1 DEF Advance, Write
    <3>3. UNCHANGED <<reqOf, spool, open, pipe, produced>>
      BY <2>4 DEF Advance
    <3>4. \A d \in IDs \ {c} : proc'[d] = proc[d] /\ spoolFailed'[d] = spoolFailed[d]
      BY <2>4, AdvanceEffect
    <3> QED
      BY <3>1, <3>2, <3>3, <3>4
  <2>5. CASE Finish(c)
    <3>1. Write(c, Outcome(c), record[c].nextSeq) /\ reqOf[c] # None
      BY <2>5, FinishEffect DEF Finish
    <3>2. \A d \in IDs \ {c} : meta'[d] = meta[d] /\ cpc'[d] = cpc[d]
      BY <2>5, <3>1 DEF Finish, Write
    <3>3. UNCHANGED <<reqOf, spool, open, pipe, produced>>
      BY <2>5 DEF Finish, FinishRest
    <3>4. \A d \in IDs \ {c} : proc'[d] = proc[d] /\ spoolFailed'[d] = spoolFailed[d]
      BY <2>5 DEF Finish, FinishRest
    <3> QED
      BY <3>1, <3>2, <3>3, <3>4
  <2> QED
    BY <1>3, <2>1, <2>2, <2>3, <2>4, <2>5 DEF CollectStep
<1>4. ASSUME NEW c \in IDs, OtherStep(c) PROVE Unused'
  <2>1. CASE Connect(c)
    BY <2>1 DEF Connect, Terminal
  <2>2. CASE Output(c)
    BY <2>2 DEF Output
  <2>3. CASE CloseOutput(c)
    BY <2>3 DEF CloseOutput
  <2>4. CASE Die(c)
    BY <2>4 DEF Die
  <2> QED
    BY <1>4, <2>1, <2>2, <2>3, <2>4 DEF OtherStep
<1>5. CASE Crash \/ NewManager \/ loadDone
  <2>1. CASE NewManager \/ loadDone
    BY <2>1 DEF NewManager, loadDone
  <2>2. CASE Crash
    <3>1. ASSUME NEW c \in IDs, reqOf[c] = None PROVE spool'[c] = spool[c]
      BY <2>2, <3>1 DEF Crash
    <3> QED
      BY <2>2, <3>1 DEF Crash
  <2> QED
    BY <1>5, <2>1, <2>2
<1>6. ASSUME NEW c \in IDs, loadEntry(c) \/ loadRefuses(c) PROVE Unused'
  <2>1. CASE loadRefuses(c)
    <3>1. reqOf[c] # None
      BY <2>1, RefusalEffect
    <3>2. UNCHANGED <<spoolFailed, cpc>>
      BY <2>1 DEF loadRefuses
    <3> QED
      BY <2>1, <3>1, <3>2, RefusalEffect
  <2>2. CASE loadEntry(c)
    BY <2>2 DEF loadEntry, LoadEnds, Truncated, Recoverable, Unreadable, Recovered, Terminal
  <2> QED
    BY <1>6, <2>1, <2>2
<1> QED
  BY <1>1, <1>2, <1>3, <1>4, <1>5, <1>6 DEF Step, RecoveryStep

LEMMA OwnershipStep ==
    ASSUME IInv, Step
    PROVE Ownership'
<1>a. Types /\ Stopped /\ Locked /\ Unused /\ Indexed /\ Ownership /\ Collected /\ Children
  BY TypesAre DEF IInv
<1> USE <1>a, ManagerAssumption DEF memory, disk, child, stdio, history
<1>1. CASE ClientEffect
  <2>1. \A d \in IDs : Untouched(d)
    BY <1>1 DEF ClientEffect, Untouched
  <2>2. UNCHANGED <<commands, meta>>
    BY <1>1 DEF ClientEffect
  <2>3. Touches(None)
    BY <2>1, <2>2 DEF Touches
  <2>4. \A g \in Handlers : pc[g] \in Starting => call[g].id # None
    BY OwnerFacts
  <2>5. OwnersKeep(None)
    BY <1>1, <2>2, <2>4 DEF ClientEffect, HandlerMoves, OwnersKeep
  <2> QED
    BY <2>3, <2>5, OwnershipKept
<1>2. ASSUME NEW h \in Handlers, OwnerStep(h) PROVE Ownership'
  <2>1. CASE StartNew(h)
    BY <2>1 DEF StartNew, Unused, Indexed, Ownership, Owned, Types, HandlerTypes
  <2>2. CASE Mkdir(h)
    <3> DEFINE d == call[h].id
    <3>1. pc[h] \in Starting
      BY <2>2 DEF Mkdir, Starting
    <3>2. d \in IDs /\ d \in commands /\ Owned(h, d)
      BY <3>1, OwnerFacts
    <3>3. \A b \in IDs \ {d} : Untouched(b)
      BY <2>2 DEF Mkdir, Untouched, Types
    <3>4. \A g \in Handlers \ {h} : pc'[g] = pc[g] /\ call'[g] = call[g]
      BY <2>2 DEF Mkdir, Goto, Types, HandlerTypes
    <3>5. \A g \in Handlers \ {h} : pc[g] \in Starting => call[g].id # d
      BY <3>1, OwnerFacts
    <3>6. pc'[h] \in Starting /\ call'[h] = call[h] /\ d \in commands'
      BY <2>2, <3>2 DEF Mkdir, Goto, Types, HandlerTypes, Starting
    <3>7. Owned(h, d)'
      BY <2>2, <3>2 DEF Mkdir, Goto, Owned, Types, HandlerTypes
    <3>8. meta[d].state \notin {"none", "dir"} => meta'[d].state \notin {"none", "dir"}
      BY <2>2, <3>2 DEF Mkdir, Owned
    <3>9. OwnersKeep(d)
      BY <3>1, <3>4, <3>5, <3>6, <3>7 DEF OwnersKeep
    <3>10. Touches(d)
      BY <3>3, <3>6, <3>8 DEF Touches
    <3> QED
      BY <3>9, <3>10, OwnershipKept
  <2>3. CASE PersistStarting(h)
    BY <2>3, OwnerFacts DEF PersistStarting, Persisted, Goto, Ownership, Owned, Types,
       HandlerTypes, Starting
  <2>4. CASE PersistStartingFails(h)
    BY <2>4, OwnerFacts DEF PersistStartingFails, PersistFails, Return, Ownership, Owned, Types,
       HandlerTypes, Starting
  <2>5. CASE Spawn(h)
    <3> DEFINE d == call[h].id
    <3>1. pc[h] \in Starting
      BY <2>5 DEF Spawn, Starting
    <3>2. d \in IDs /\ d \in commands /\ Owned(h, d)
      BY <3>1, OwnerFacts
    <3>3. \A b \in IDs \ {d} : Untouched(b)
      BY <2>5 DEF Spawn, Untouched, Types
    <3>4. \A g \in Handlers \ {h} : pc'[g] = pc[g] /\ call'[g] = call[g]
      BY <2>5 DEF Spawn, Goto, Types, HandlerTypes
    <3>5. \A g \in Handlers \ {h} : pc[g] \in Starting => call[g].id # d
      BY <3>1, OwnerFacts
    <3>6. pc'[h] \in Starting /\ call'[h] = call[h] /\ d \in commands'
      BY <2>5, <3>2 DEF Spawn, Goto, Types, HandlerTypes, Starting
    <3>7. Owned(h, d)'
      BY <2>5, <3>2 DEF Spawn, Goto, Owned, Types, HandlerTypes
    <3>8. meta[d].state \notin {"none", "dir"} => meta'[d].state \notin {"none", "dir"}
      BY <2>5, <3>2 DEF Spawn, Owned
    <3>9. OwnersKeep(d)
      BY <3>1, <3>4, <3>5, <3>6, <3>7 DEF OwnersKeep
    <3>10. Touches(d)
      BY <3>3, <3>6, <3>8 DEF Touches
    <3> QED
      BY <3>9, <3>10, OwnershipKept
  <2>6. CASE startFailed(h)
    <3>0. PICK d : d = call[h].id
      OBVIOUS
    <3>1. pc[h] \in Starting
      BY <2>6 DEF startFailed, Starting
    <3>2. d \in IDs /\ d \in commands /\ Write(d, "lost", 1)
      BY <3>0, <2>6, <3>1, OwnerFacts, FailedEffect
    <3>3. UNCHANGED <<commands, reqOf, spool, proc, open, pipe, produced, spoolFailed>>
      BY <2>6 DEF startFailed
    <3>4. \A b \in IDs \ {d} : cpc'[b] = cpc[b]
      BY <3>0, <2>6 DEF startFailed, Types
    <3>5. \A b \in IDs \ {d} : Untouched(b)
      BY <3>2, <3>3, <3>4 DEF Untouched, Write
    <3>6. meta'[d].state \notin {"none", "dir"}
      <4>1. meta[d].state \notin {"none", "dir"}
        BY <3>0, <2>6, <3>1, OwnerFacts DEF startFailed, Owned, Fresh
      <4> QED
        BY <3>0, <2>6, <3>2, <4>1, OwnerWrites, SafeWriteStates
    <3>7. Touches(d)
      BY <3>2, <3>3, <3>5, <3>6 DEF Touches
    <3>8. \A g \in Handlers \ {h} : pc'[g] = pc[g] /\ call'[g] = call[g]
      BY <2>6 DEF startFailed, Return, Goto, Types, HandlerTypes
    <3>9. \A g \in Handlers \ {h} : pc[g] \in Starting => call[g].id # d
      BY <3>0, <3>1, OwnerFacts
    <3>10. pc'[h] = "idle"
      BY <3>0, <2>6 DEF startFailed, Return, Goto, Types, HandlerTypes
    <3>11. OwnersKeep(d)
      BY <3>2, <3>3, <3>6, <3>8, <3>9, <3>10 DEF OwnersKeep
    <3> QED
      BY <3>7, <3>11, OwnershipKept
  <2>7. CASE PersistRunning(h)
    <3>0. PICK d : d = call[h].id
      OBVIOUS
    <3>1. pc[h] \in Starting
      BY <2>7 DEF PersistRunning, Starting
    <3>2. d \in IDs /\ d \in commands /\ Write(d, "running", 1)
      BY <3>0, <2>7, <3>1, OwnerFacts, RunningEffect
    <3>3. UNCHANGED <<commands, reqOf, spool, proc, open, pipe, produced, spoolFailed>>
      BY <2>7 DEF PersistRunning
    <3>4. \A b \in IDs \ {d} : cpc'[b] = cpc[b]
      BY <3>0, <2>7 DEF PersistRunning, Types
    <3>5. \A b \in IDs \ {d} : Untouched(b)
      BY <3>2, <3>3, <3>4 DEF Untouched, Write
    <3>6. meta'[d].state \notin {"none", "dir"}
      <4>1. meta[d].state \notin {"none", "dir"}
        BY <3>0, <2>7, <3>1, OwnerFacts DEF PersistRunning, Owned, Fresh
      <4> QED
        BY <3>0, <2>7, <3>2, <4>1, OwnerWrites, SafeWriteStates
    <3>7. Touches(d)
      BY <3>2, <3>3, <3>5, <3>6 DEF Touches
    <3>8. \A g \in Handlers \ {h} : pc'[g] = pc[g] /\ call'[g] = call[g]
      BY <2>7 DEF PersistRunning, Return, Goto, Types, HandlerTypes
    <3>9. \A g \in Handlers \ {h} : pc[g] \in Starting => call[g].id # d
      BY <3>0, <3>1, OwnerFacts
    <3>10. pc'[h] = "idle" \/ (pc'[h] = "kill" /\ call'[h].id = d)
      BY <3>0, <2>7 DEF PersistRunning, Return, Goto, Types, HandlerTypes
    <3>11. OwnersKeep(d)
      BY <3>2, <3>3, <3>6, <3>8, <3>9, <3>10 DEF OwnersKeep
    <3> QED
      BY <3>7, <3>11, OwnershipKept
  <2>8. CASE KillUnpersisted(h)
    BY <2>8, OwnerFacts DEF KillUnpersisted, Kill, Return, Ownership, Owned, Types,
       HandlerTypes, Starting
  <2> QED
    BY <1>2, <2>1, <2>2, <2>3, <2>4, <2>5, <2>6, <2>7, <2>8 DEF OwnerStep
<1>3. ASSUME NEW c \in IDs, CollectStep(c) PROVE Ownership'
  <2>1. CASE Chunk(c)
    BY <2>1 DEF Chunk, Ownership, Owned, Types, HandlerTypes, Starting
  <2>2. CASE AppendEvent(c)
    BY <2>2 DEF AppendEvent, Ownership, Owned
  <2>3. CASE AppendFails(c)
    <3>1. CASE Kill(c)
      BY <2>3, <3>1 DEF AppendFails, Kill, Ownership, Owned, Types
    <3>2. CASE UNCHANGED proc
      BY <2>3, <3>2 DEF AppendFails, Ownership, Owned, Types
    <3> QED
      BY <2>3, <3>1, <3>2 DEF AppendFails
  <2>4. CASE Advance(c)
    <3>1. cpc[c] \in Collecting
      BY <2>4 DEF Advance, Collecting
    <3>2. UNCHANGED <<pc, call, commands, reqOf, spool, open, pipe, produced>>
      BY <2>4 DEF Advance
    <3>3. Write(c, record[c].state, record[c].nextSeq + 1)
      BY <2>4, AdvanceEffect
    <3>4. \A d \in IDs \ {c} : meta'[d] = meta[d] /\ record'[d] = record[d]
      BY <3>3 DEF Write
    <3>5. \A d \in IDs \ {c} : spoolFailed'[d] = spoolFailed[d] /\ proc'[d] = proc[d]
      BY <2>4, AdvanceEffect
    <3>6. \A d \in IDs \ {c} : cpc'[d] = cpc[d]
      BY <2>4 DEF Advance, Types
    <3>7. \A d \in IDs \ {c} : Untouched(d)
      BY <3>2, <3>4, <3>5, <3>6 DEF Untouched
    <3>8. Touches(c)
      BY <2>4, <3>2, <3>7, CollectorWrites, SafeWriteStates DEF Touches
    <3>9. \A g \in Handlers : pc[g] \in Starting => call[g].id # c
      BY <3>1, CollectorFacts
    <3>10. OwnersKeep(c)
      BY <3>2, <3>9 DEF OwnersKeep
    <3> QED
      BY <3>8, <3>10, OwnershipKept
  <2>5. CASE Finish(c)
    <3>1. cpc[c] \in Collecting
      BY <2>5 DEF Finish, Collecting
    <3>2. UNCHANGED <<pc, call, commands, reqOf, spool, open, pipe, produced>>
      BY <2>5 DEF Finish, FinishRest
    <3>3. Write(c, Outcome(c), record[c].nextSeq)
      BY <2>5, FinishEffect
    <3>4. \A d \in IDs \ {c} : meta'[d] = meta[d] /\ record'[d] = record[d]
      BY <3>3 DEF Write
    <3>5. \A d \in IDs \ {c} : spoolFailed'[d] = spoolFailed[d] /\ proc'[d] = proc[d]
      BY <2>5 DEF Finish, FinishRest
    <3>6. \A d \in IDs \ {c} : cpc'[d] = cpc[d]
      BY <2>5 DEF Finish, Types
    <3>7. \A d \in IDs \ {c} : Untouched(d)
      BY <3>2, <3>4, <3>5, <3>6 DEF Untouched
    <3>8. Touches(c)
      BY <2>5, <3>2, <3>7, CollectorWrites, SafeWriteStates DEF Touches
    <3>9. \A g \in Handlers : pc[g] \in Starting => call[g].id # c
      BY <3>1, CollectorFacts
    <3>10. OwnersKeep(c)
      BY <3>2, <3>9 DEF OwnersKeep
    <3> QED
      BY <3>8, <3>10, OwnershipKept
  <2> QED
    BY <1>3, <2>1, <2>2, <2>3, <2>4, <2>5 DEF CollectStep
<1>4. ASSUME NEW c \in IDs, OtherStep(c) PROVE Ownership'
  <2>1. CASE Connect(c)
    BY <2>1 DEF Connect, Ownership, Owned
  <2>2. CASE Output(c)
    BY <2>2 DEF Output, Ownership, Owned, Types
  <2>3. CASE CloseOutput(c)
    BY <2>3 DEF CloseOutput, Ownership, Owned, Types
  <2>4. CASE Die(c)
    BY <2>4 DEF Die, Ownership, Owned, Types
  <2> QED
    BY <1>4, <2>1, <2>2, <2>3, <2>4 DEF OtherStep
<1>5. CASE Crash \/ NewManager \/ loadDone
  <2>1. CASE NewManager \/ loadDone
    BY <2>1 DEF NewManager, loadDone, Ownership, Owned
  <2>2. CASE Crash
    BY <2>2 DEF Crash, Interrupted, Ownership, Owned, Starting
  <2> QED
    BY <1>5, <2>1, <2>2
<1>6. ASSUME NEW c \in IDs, loadEntry(c) \/ loadRefuses(c) PROVE Ownership'
  <2>1. CASE loadEntry(c)
    BY <2>1 DEF loadEntry, LoadEnds, Truncated, Recovered, Stopped, Ownership, Starting
  <2>2. CASE loadRefuses(c)
    BY <2>2 DEF loadRefuses, LoadEnds, Truncated, Stopped, Ownership, Starting
  <2> QED
    BY <1>6, <2>1, <2>2
<1> QED
  BY <1>1, <1>2, <1>3, <1>4, <1>5, <1>6 DEF Step, RecoveryStep

LEMMA CreatedStep ==
    ASSUME IInv, Step
    PROVE Created'
<1>a. Types /\ Stopped /\ Created /\ Locked /\ Ownership /\ Collected /\ Children
  BY TypesAre DEF IInv
<1> USE <1>a, ManagerAssumption DEF memory, disk, child, stdio, history
<1>1. CASE ClientEffect
  BY <1>1 DEF ClientEffect, HandlerMoves, Created, Starting
<1>2. ASSUME NEW h \in Handlers, OwnerStep(h) PROVE Created'
  <2>1. CASE StartNew(h)
    BY <2>1 DEF StartNew, Created, Types, HandlerTypes, Starting
  <2>2. CASE Mkdir(h)
    BY <2>2, OwnerFacts DEF Mkdir, Goto, Created, Types, HandlerTypes, Starting
  <2>3. CASE PersistStarting(h)
    BY <2>3, OwnerFacts DEF PersistStarting, Persisted, Fresh, Goto, Created, Types, HandlerTypes
  <2>4. CASE PersistStartingFails(h)
    BY <2>4, OwnerFacts DEF PersistStartingFails, PersistFails, Fresh, Return, Created, Types,
       HandlerTypes
  <2>5. CASE Spawn(h)
    BY <2>5, OwnerFacts DEF Spawn, Goto, Created, Types, HandlerTypes, Fresh
  <2>6. CASE startFailed(h)
    <3>1. \A g \in Handlers : pc[g] \in {"mkdir", "persist"} => pc'[g] = pc[g] /\ call'[g] = call[g]
      BY <2>6 DEF startFailed, Return, Goto, Types, HandlerTypes, Locked
    <3>2. UNCHANGED commands
      BY <2>6 DEF startFailed
    <3> QED
      BY <2>6, <3>1, <3>2, OwnerWriteStates, CreatedFrame, TypesAre
  <2>7. CASE PersistRunning(h)
    <3>1. \A g \in Handlers : pc[g] \in {"mkdir", "persist"} => pc'[g] = pc[g] /\ call'[g] = call[g]
      BY <2>7 DEF PersistRunning, Return, Goto, Types, HandlerTypes, Locked
    <3>2. UNCHANGED commands
      BY <2>7 DEF PersistRunning
    <3> QED
      BY <2>7, <3>1, <3>2, OwnerWriteStates, CreatedFrame, TypesAre
  <2>8. CASE KillUnpersisted(h)
    BY <2>8, OwnerFacts DEF KillUnpersisted, Return, Created
  <2> QED
    BY <1>2, <2>1, <2>2, <2>3, <2>4, <2>5, <2>6, <2>7, <2>8 DEF OwnerStep
<1>3. ASSUME NEW c \in IDs, CollectStep(c) PROVE Created'
  <2>1. CASE Chunk(c) \/ AppendEvent(c) \/ AppendFails(c)
    BY <2>1 DEF Chunk, AppendEvent, AppendFails, Created
  <2>2. CASE Advance(c)
    <3>1. Write(c, record[c].state, record[c].nextSeq + 1)
      BY <2>2, AdvanceEffect
    <3>2. record[c].state \notin {"none", "dir"}
      BY <2>2, RecordTypes, TypesAre DEF Advance, States, Terminal
    <3>3. UNCHANGED <<commands, pc, call>>
      BY <2>2 DEF Advance
    <3> QED
      BY <3>1, <3>2, <3>3, WriteStates, CreatedFrame, TypesAre
  <2>3. CASE Finish(c)
    <3>1. Write(c, Outcome(c), record[c].nextSeq)
      BY <2>3, FinishEffect
    <3>2. Outcome(c) \notin {"none", "dir"}
      BY <2>3, FinishEffect DEF Finish, States, Terminal
    <3>3. UNCHANGED <<commands, pc, call>>
      BY <2>3 DEF Finish, FinishRest
    <3> QED
      BY <3>1, <3>2, <3>3, WriteStates, CreatedFrame, TypesAre
  <2> QED
    BY <1>3, <2>1, <2>2, <2>3 DEF CollectStep
<1>4. ASSUME NEW c \in IDs, OtherStep(c) PROVE Created'
  BY <1>4 DEF OtherStep, Connect, Output, CloseOutput, Die, Created
<1>5. CASE Crash \/ NewManager \/ loadDone
  <2>1. CASE NewManager \/ loadDone
    BY <2>1 DEF NewManager, loadDone, Created
  <2>2. CASE Crash
    BY <2>2 DEF Crash, Created
  <2> QED
    BY <1>5, <2>1, <2>2
<1>6. ASSUME NEW c \in IDs, loadEntry(c) \/ loadRefuses(c) PROVE Created'
  <2>1. CASE loadEntry(c)
    <3>1. \A d \in commands : meta[d].state \notin {"none", "dir"}
      BY <2>1 DEF loadEntry, LoadEnds, Truncated, Created, Stopped, Types
    <3>2. Recovered(c).state \notin {"none", "dir"}
      BY DEF Recovered, Terminal
    <3>3. \/ commands' = {}
          \/ commands' = commands \cup {c} /\ meta' = [meta EXCEPT ![c] = Recovered(c)]
      BY <2>1 DEF loadEntry, LoadEnds, Truncated
    <3>4. \A d \in commands' : meta'[d].state \notin {"none", "dir"}
      BY <3>1, <3>2, <3>3 DEF Types, Created
    <3> QED
      BY <3>4 DEF Created
  <2>2. CASE loadRefuses(c)
    BY <2>2 DEF loadRefuses, LoadEnds, Truncated, Created
  <2> QED
    BY <1>6, <2>1, <2>2
<1> QED
  BY <1>1, <1>2, <1>3, <1>4, <1>5, <1>6 DEF Step, RecoveryStep

LEMMA CollectedStep ==
    ASSUME IInv, Step
    PROVE Collected'
<1>a. Types /\ Stopped /\ Ownership /\ Collected
  BY TypesAre DEF IInv
<1> USE <1>a, ManagerAssumption DEF memory, disk, child, stdio, history
<1>1. CASE ClientEffect
  <2>1. \A d \in IDs : Untouched(d)
    BY <1>1 DEF ClientEffect, Untouched
  <2>2. Touches(None)
    BY <1>1, <2>1 DEF Touches, ClientEffect
  <2>3. \A g \in Handlers : pc[g] = "running" => pc'[g] = pc[g] /\ call'[g] = call[g]
    BY <1>1 DEF ClientEffect, HandlerMoves, Starting
  <2> QED
    BY <2>2, <2>3, CollectedKept
<1>2. ASSUME NEW h \in Handlers, OwnerStep(h) PROVE Collected'
  <2>1. CASE StartNew(h)
    <3>1. PICK c \in IDs :
              /\ reqOf[c] = None /\ commands' = commands \cup {c}
              /\ record' = [record EXCEPT ![c] = Fresh]
              /\ reqOf' = [reqOf EXCEPT ![c] = call[h].req]
              /\ call' = [call EXCEPT ![h].id = c]
      BY <2>1 DEF StartNew
    <3>2. UNCHANGED <<cpc, meta, spool, proc, open, pipe, produced, spoolFailed>>
      BY <2>1 DEF StartNew
    <3>3. \A d \in IDs \ {c} : Untouched(d)
      BY <3>1, <3>2 DEF Untouched, Types
    <3>4. Touches(c)
      BY <3>1, <3>2, <3>3 DEF Touches
    <3>5. CollectedAt(c)'
      <4>1. cpc[c] = "none" /\ proc[c] = "none" /\ ~open[c] /\ ~pipe[c]
        BY <3>1 DEF IInv, Unused
      <4> QED
        BY <3>2, <4>1 DEF CollectedAt, Collecting
    <3>6. \A g \in Handlers : pc[g] = "running" => pc'[g] = pc[g] /\ call'[g] = call[g]
      BY <2>1, <3>1 DEF StartNew, Types, HandlerTypes
    <3> QED
      BY <3>4, <3>5, <3>6, CollectedKept
  <2>2. CASE Mkdir(h)
    BY <2>2, OwnerFacts DEF Mkdir, Goto, Owned, Collected, CollectedAt, Started, Starting
  <2>3. CASE PersistStarting(h)
    BY <2>3, OwnerFacts DEF PersistStarting, Persisted, Goto, Owned, Collected, CollectedAt,
       Started, Starting
  <2>4. CASE PersistStartingFails(h)
    BY <2>4, OwnerFacts DEF PersistStartingFails, PersistFails, Return, Owned, Collected,
       CollectedAt, Started, Types, Starting
  <2>5. CASE Spawn(h)
    BY <2>5, OwnerFacts DEF Spawn, Goto, Owned, Collected, CollectedAt, Started, Types,
       HandlerTypes, Starting
  <2>6. CASE startFailed(h)
    <3>0. PICK d : d = call[h].id
      OBVIOUS
    <3>1. pc[h] \in Starting
      BY <2>6 DEF startFailed, Starting
    <3>2. d \in IDs /\ d \in commands /\ Write(d, "lost", 1)
      BY <3>0, <2>6, <3>1, OwnerFacts, FailedEffect
    <3>3. UNCHANGED <<commands, reqOf, spool, proc, open, pipe, produced, spoolFailed>>
      BY <2>6 DEF startFailed
    <3>4. \A b \in IDs \ {d} : cpc'[b] = cpc[b]
      BY <3>0, <2>6 DEF startFailed, Types
    <3>5. \A b \in IDs \ {d} : Untouched(b)
      BY <3>2, <3>3, <3>4 DEF Untouched, Write
    <3>6. meta'[d].state \notin {"none", "dir"}
      <4>1. meta[d].state \notin {"none", "dir"}
        BY <3>0, <2>6, <3>1, OwnerFacts DEF startFailed, Owned, Fresh
      <4> QED
        BY <3>0, <2>6, <3>2, <4>1, OwnerWrites, SafeWriteStates
    <3>7. Touches(d)
      BY <3>2, <3>3, <3>5, <3>6 DEF Touches
    <3>8. \A g \in Handlers \ {h} : pc'[g] = pc[g] /\ call'[g] = call[g]
      BY <2>6 DEF startFailed, Return, Goto, Types, HandlerTypes
    <3>9. CollectedAt(d)'
      <4>1. Owned(h, d) /\ pc[h] = "lost"
        BY <3>0, <2>6, <3>1, OwnerFacts DEF startFailed
      <4>2. cpc'[d] = "none" /\ proc'[d] # "alive" /\ ~open'[d] /\ ~pipe'[d]
        BY <3>0, <2>6, <3>3, <4>1 DEF startFailed, Owned, Types
      <4> QED
        BY <4>2 DEF CollectedAt, Collecting
    <3>10. \A g \in Handlers : pc[g] = "running" /\ call[g].id # d => pc'[g] = pc[g] /\
           call'[g] = call[g]
      BY <3>0, <3>8
    <3> QED
      BY <3>7, <3>9, <3>10, CollectedKept
  <2>7. CASE PersistRunning(h)
    <3>0. PICK d : d = call[h].id
      OBVIOUS
    <3>1. pc[h] \in Starting
      BY <2>7 DEF PersistRunning, Starting
    <3>2. d \in IDs /\ d \in commands /\ Write(d, "running", 1)
      BY <3>0, <2>7, <3>1, OwnerFacts, RunningEffect
    <3>3. UNCHANGED <<commands, reqOf, spool, proc, open, pipe, produced, spoolFailed>>
      BY <2>7 DEF PersistRunning
    <3>4. \A b \in IDs \ {d} : cpc'[b] = cpc[b]
      BY <3>0, <2>7 DEF PersistRunning, Types
    <3>5. \A b \in IDs \ {d} : Untouched(b)
      BY <3>2, <3>3, <3>4 DEF Untouched, Write
    <3>6. meta'[d].state \notin {"none", "dir"}
      <4>1. meta[d].state \notin {"none", "dir"}
        BY <3>0, <2>7, <3>1, OwnerFacts DEF PersistRunning, Owned, Fresh
      <4> QED
        BY <3>0, <2>7, <3>2, <4>1, OwnerWrites, SafeWriteStates
    <3>7. Touches(d)
      BY <3>2, <3>3, <3>5, <3>6 DEF Touches
    <3>8. \A g \in Handlers \ {h} : pc'[g] = pc[g] /\ call'[g] = call[g]
      BY <2>7 DEF PersistRunning, Return, Goto, Types, HandlerTypes
    <3>9. CollectedAt(d)'
      <4>1. Owned(h, d) /\ pc[h] = "running"
        BY <3>0, <2>7, <3>1, OwnerFacts DEF PersistRunning
      <4>2. cpc'[d] = "collect"
        BY <3>0, <2>7, <3>2 DEF PersistRunning, Types
      <4>3. meta'[d].state \in {"starting", "running"} /\
            record'[d].state \in {"starting", "running"}
        BY <3>2, <4>1 DEF Write, Owned, Fresh
      <4>4. record'[d].nextSeq = 1
        BY <3>2, <4>1 DEF Write, Owned, Fresh
      <4>5. proc[d] # "none" /\ produced[d] = (IF pipe[d] THEN 1 ELSE 0) /\ spool[d].last = 0
        BY <4>1 DEF Owned
      <4> QED
        BY <3>2, <3>3, <4>2, <4>3, <4>4, <4>5 DEF CollectedAt, Collecting
    <3>10. \A g \in Handlers : pc[g] = "running" /\ call[g].id # d => pc'[g] = pc[g] /\
           call'[g] = call[g]
      BY <3>0, <3>8
    <3> QED
      BY <3>7, <3>9, <3>10, CollectedKept
  <2>8. CASE KillUnpersisted(h)
    <3>1. CASE Kill(call[h].id)
      BY <2>8, <3>1, OwnerFacts DEF KillUnpersisted, Kill, Return, Collected, CollectedAt,
         Started, Types
    <3>2. CASE UNCHANGED proc
      BY <2>8, <3>2, OwnerFacts DEF KillUnpersisted, Return, Collected, CollectedAt, Started, Types
    <3> QED
      BY <2>8, <3>1, <3>2 DEF KillUnpersisted
  <2> QED
    BY <1>2, <2>1, <2>2, <2>3, <2>4, <2>5, <2>6, <2>7, <2>8 DEF OwnerStep
<1>3. ASSUME NEW c \in IDs, CollectStep(c) PROVE Collected'
  <2>1. CASE Chunk(c)
    BY <2>1 DEF Chunk, Collected, CollectedAt, Collecting, Started, Types, Spools
  <2>2. CASE AppendEvent(c)
    BY <2>2 DEF AppendEvent, Collected, CollectedAt, Collecting, Started, Types, Records, Spools
  <2>3. CASE AppendFails(c)
    BY <2>3 DEF AppendFails, Interrupted, Kill, Collected, CollectedAt, Collecting, Started,
       Types, Records, Spools
  <2>4. CASE Advance(c)
    <3>1. cpc[c] \in Collecting
      BY <2>4 DEF Advance, Collecting
    <3>2. UNCHANGED <<pc, call, commands, reqOf, spool, open, pipe, produced>>
      BY <2>4 DEF Advance
    <3>3. Write(c, record[c].state, record[c].nextSeq + 1)
      BY <2>4, AdvanceEffect
    <3>4. \A d \in IDs \ {c} : meta'[d] = meta[d] /\ record'[d] = record[d]
      BY <3>3 DEF Write
    <3>5. \A d \in IDs \ {c} : spoolFailed'[d] = spoolFailed[d] /\ proc'[d] = proc[d]
      BY <2>4, AdvanceEffect
    <3>6. \A d \in IDs \ {c} : cpc'[d] = cpc[d]
      BY <2>4 DEF Advance, Types
    <3>7. \A d \in IDs \ {c} : Untouched(d)
      BY <3>2, <3>4, <3>5, <3>6 DEF Untouched
    <3>8. Touches(c)
      BY <2>4, <3>2, <3>7, CollectorWrites, SafeWriteStates DEF Touches
    <3>9. CollectedAt(c)'
      <4>1. CollectedAt(c) /\ cpc[c] = "advance" /\ cpc'[c] = "collect"
        BY <2>4 DEF Advance, Collected, Types
      <4>2. meta'[c].state \in {"starting", "running"} /\ record'[c].state = record[c].state
        BY <3>1, <3>3, CollectorFacts DEF Write
      <4>3. spoolFailed'[c] \/ record'[c].nextSeq = record[c].nextSeq + 1
        BY <2>4, AdvanceEffect
      <4>4. ~spoolFailed[c]
        BY <4>1 DEF CollectedAt
      <4>5. (proc'[c] = "none") <=> (proc[c] = "none")
        BY <2>4, AdvanceEffect
      <4>6. c \in commands /\ proc[c] # "none"
        BY <3>1, CollectorFacts
      <4>7. produced[c] \in Nat /\ spool[c].last \in Nat /\ record[c].nextSeq \in Nat
        BY DEF Types, Records, Spools
      <4> QED
        BY <3>2, <4>1, <4>2, <4>3, <4>4, <4>5, <4>6, <4>7 DEF CollectedAt, Collecting
    <3> QED
      BY <3>2, <3>8, <3>9, CollectedKept
  <2>5. CASE Finish(c)
    <3>1. cpc[c] \in Collecting
      BY <2>5 DEF Finish, Collecting
    <3>2. UNCHANGED <<pc, call, commands, reqOf, spool, open, pipe, produced>>
      BY <2>5 DEF Finish, FinishRest
    <3>3. Write(c, Outcome(c), record[c].nextSeq)
      BY <2>5, FinishEffect
    <3>4. \A d \in IDs \ {c} : meta'[d] = meta[d] /\ record'[d] = record[d]
      BY <3>3 DEF Write
    <3>5. \A d \in IDs \ {c} : spoolFailed'[d] = spoolFailed[d] /\ proc'[d] = proc[d]
      BY <2>5 DEF Finish, FinishRest
    <3>6. \A d \in IDs \ {c} : cpc'[d] = cpc[d]
      BY <2>5 DEF Finish, Types
    <3>7. \A d \in IDs \ {c} : Untouched(d)
      BY <3>2, <3>4, <3>5, <3>6 DEF Untouched
    <3>8. Touches(c)
      BY <2>5, <3>2, <3>7, CollectorWrites, SafeWriteStates DEF Touches
    <3>9. CollectedAt(c)'
      <4>1. cpc'[c] = "done" /\ ~open'[c] /\ ~pipe'[c] /\ proc'[c] \in Dead
        BY <2>5 DEF Finish, Ended, FinishRest, Dead, Types
      <4>2. c \in commands'
        BY <3>1, <3>2, CollectorFacts
      <4> QED
        BY <4>1, <4>2 DEF CollectedAt, Collecting, Dead
    <3> QED
      BY <3>2, <3>8, <3>9, CollectedKept
  <2> QED
    BY <1>3, <2>1, <2>2, <2>3, <2>4, <2>5 DEF CollectStep
<1>4. ASSUME NEW c \in IDs, OtherStep(c) PROVE Collected'
  <2>1. CASE Connect(c)
    BY <2>1 DEF Connect, Collected, CollectedAt, Started
  <2>2. CASE Output(c)
    BY <2>2 DEF Output, Collected, CollectedAt, Started, Types, Spools
  <2>3. CASE CloseOutput(c)
    BY <2>3 DEF CloseOutput, Collected, CollectedAt, Started, Types, Spools
  <2>4. CASE Die(c)
    BY <2>4 DEF Die, Collected, CollectedAt, Started, Types, Spools
  <2> QED
    BY <1>4, <2>1, <2>2, <2>3, <2>4 DEF OtherStep
<1>5. CASE Crash \/ NewManager \/ loadDone
  <2>1. CASE NewManager \/ loadDone
    BY <2>1 DEF NewManager, loadDone, Collected, CollectedAt, Started
  <2>2. CASE Crash
    BY <2>2 DEF Crash, Interrupted, Collected, CollectedAt, Collecting, Started
  <2> QED
    BY <1>5, <2>1, <2>2
<1>6. ASSUME NEW c \in IDs, loadEntry(c) \/ loadRefuses(c) PROVE Collected'
  <2>1. CASE loadEntry(c)
    BY <2>1 DEF loadEntry, LoadEnds, Truncated, Recovered, Stopped, Collected, CollectedAt,
       Collecting
  <2>2. CASE loadRefuses(c)
    BY <2>2 DEF loadRefuses, LoadEnds, Truncated, Stopped, Collected, CollectedAt, Collecting
  <2> QED
    BY <1>6, <2>1, <2>2
<1> QED
  BY <1>1, <1>2, <1>3, <1>4, <1>5, <1>6 DEF Step, RecoveryStep

LEMMA ChildrenStep ==
    ASSUME IInv, Step
    PROVE Children'
<1>a. Types /\ Stopped /\ Unused /\ Ownership /\ Children /\ Collected
  BY TypesAre DEF IInv
<1> USE <1>a, ManagerAssumption DEF memory, disk, child, stdio, history
<1>1. CASE ClientEffect
  BY <1>1 DEF ClientEffect, Children
<1>2. ASSUME NEW h \in Handlers, OwnerStep(h) PROVE Children'
  <2>1. CASE StartNew(h)
    BY <2>1 DEF StartNew, Unused, Children
  <2>2. CASE Mkdir(h)
    BY <2>2, OwnerFacts DEF Mkdir, Unused, Owned, Children, Starting
  <2>3. CASE PersistStarting(h)
    BY <2>3, OwnerFacts DEF PersistStarting, Persisted, Unused, Owned, Children, Starting
  <2>4. CASE PersistStartingFails(h)
    BY <2>4, OwnerFacts DEF PersistStartingFails, PersistFails, Unused, Owned, Children, Types,
       Starting
  <2>5. CASE Spawn(h)
    <3> DEFINE d == call[h].id
    <3>1. d \in IDs /\ Owned(h, d) /\ pc[h] = "spawn"
      BY <2>5, OwnerFacts DEF Spawn, Starting
    <3>2. d \in commands /\ reqOf[d] = call[h].req /\ meta[d].state = "starting"
      BY <3>1 DEF Owned, Fresh
    <3>3. UNCHANGED <<meta, up, commands, todo, reqOf>>
      BY <2>5 DEF Spawn
    <3>4. \A c \in IDs :
            /\ proc[c] # "none" => proc'[c] # "none"
            /\ c # d => proc'[c] = proc[c]
      BY <2>5 DEF Spawn, Types
    <3>5. \A x \in spawned' : x \in spawned \/ (x = <<call[h].req, d>> /\ proc'[d] # "none")
      BY <2>5, <3>1 DEF Spawn, Types
    <3>6. \A x \in spawned : x[2] \in IDs
      BY DEF Types
    <3>7. ASSUME NEW x \in spawned' PROVE reqOf[x[2]] = x[1] /\ proc'[x[2]] # "none"
      <4>1. CASE x \in spawned
        BY <3>4, <3>6, <4>1 DEF Children
      <4>2. CASE x = <<call[h].req, d>> /\ proc'[d] # "none"
        BY <3>2, <4>2
      <4> QED
        BY <3>5, <4>1, <4>2
    <3> QED
      BY <3>2, <3>3, <3>4, <3>7 DEF Children
  <2>6. CASE startFailed(h)
    <3>1. pc[h] \in Starting
      BY <2>6 DEF startFailed, Starting
    <3>2. call[h].id \in IDs /\ SafeWrite(call[h].id)
      BY <2>6, <3>1, OwnerFacts, OwnerWrites
    <3>3. UNCHANGED proc
      BY <2>6 DEF startFailed
    <3> QED
      BY <3>2, <3>3, ChildrenKept
  <2>7. CASE PersistRunning(h)
    <3>1. pc[h] \in Starting
      BY <2>7 DEF PersistRunning, Starting
    <3>2. call[h].id \in IDs /\ SafeWrite(call[h].id)
      BY <2>7, <3>1, OwnerFacts, OwnerWrites
    <3>3. UNCHANGED proc
      BY <2>7 DEF PersistRunning
    <3> QED
      BY <3>2, <3>3, ChildrenKept
  <2>8. CASE KillUnpersisted(h)
    <3>1. CASE Kill(call[h].id)
      BY <2>8, <3>1, OwnerFacts DEF KillUnpersisted, Kill, Children, Types
    <3>2. CASE UNCHANGED proc
      BY <2>8, <3>2, OwnerFacts DEF KillUnpersisted, Children, Types
    <3> QED
      BY <2>8, <3>1, <3>2 DEF KillUnpersisted
  <2> QED
    BY <1>2, <2>1, <2>2, <2>3, <2>4, <2>5, <2>6, <2>7, <2>8 DEF OwnerStep
<1>3. ASSUME NEW c \in IDs, CollectStep(c) PROVE Children'
  <2>1. CASE Chunk(c) \/ AppendEvent(c)
    BY <2>1 DEF Chunk, AppendEvent, Children
  <2>2. CASE AppendFails(c)
    <3>1. CASE Kill(c)
      BY <2>2, <3>1 DEF AppendFails, Kill, Children, Types
    <3>2. CASE UNCHANGED proc
      BY <2>2, <3>2 DEF AppendFails, Children, Types
    <3> QED
      BY <2>2, <3>1, <3>2 DEF AppendFails
  <2>3. CASE Advance(c)
    <3>1. \A d \in IDs : (proc'[d] = "none") <=> (proc[d] = "none")
      BY <2>3, AdvanceEffect
    <3> QED
      BY <2>3, <3>1, CollectorWrites, ChildrenKept
  <2>4. CASE Finish(c)
    <3>1. UNCHANGED proc
      BY <2>4 DEF Finish, FinishRest
    <3> QED
      BY <2>4, <3>1, CollectorWrites, ChildrenKept
  <2> QED
    BY <1>3, <2>1, <2>2, <2>3, <2>4 DEF CollectStep
<1>4. ASSUME NEW c \in IDs, OtherStep(c) PROVE Children'
  <2>1. CASE Connect(c) \/ Output(c) \/ CloseOutput(c)
    BY <2>1 DEF Connect, Output, CloseOutput, Children
  <2>2. CASE Die(c)
    BY <2>2 DEF Die, Children
  <2> QED
    BY <1>4, <2>1, <2>2 DEF OtherStep
<1>5. CASE Crash \/ NewManager \/ loadDone
  <2>1. CASE Crash
    BY <2>1 DEF Crash, Children, Types
  <2>2. CASE NewManager
    BY <2>2 DEF NewManager, Children, Types
  <2>3. CASE loadDone
    BY <2>3 DEF loadDone, Children, Types
  <2> QED
    BY <1>5, <2>1, <2>2, <2>3
<1>6. ASSUME NEW c \in IDs, loadEntry(c) \/ loadRefuses(c) PROVE Children'
  <2>1. CASE loadEntry(c)
    BY <2>1 DEF loadEntry, LoadEnds, Truncated, Recovered, Children, Types
  <2>2. CASE loadRefuses(c)
    <3>1. Recovered(c).state \notin {"none", "dir"}
      BY DEF Recovered, Terminal
    <3> QED
      BY <2>2, <3>1, RefusalEffect DEF LoadEnds, Children
  <2> QED
    BY <1>6, <2>1, <2>2
<1> QED
  BY <1>1, <1>2, <1>3, <1>4, <1>5, <1>6 DEF Step, RecoveryStep

LEMMA BehindStep ==
    ASSUME IInv, Step
    PROVE Behind'
<1>a. Types /\ Stopped /\ Ownership /\ Behind /\ Collected /\ Unused /\ CursorsStayValid
  BY TypesAre DEF IInv
<1> USE <1>a, ManagerAssumption DEF memory, disk, child, stdio, history
<1>1. CASE ClientEffect
  BY <1>1 DEF ClientEffect, Behind
<1>2. ASSUME NEW h \in Handlers, OwnerStep(h) PROVE Behind'
  <2>1. CASE Spawn(h) \/ KillUnpersisted(h)
    BY <2>1 DEF Spawn, KillUnpersisted, Behind
  <2>2. CASE StartNew(h)
    BY <2>2 DEF StartNew, Fresh, Behind, Unused, Terminal, Types
  <2>3. CASE Mkdir(h)
    BY <2>3, OwnerFacts DEF Mkdir, Owned, Behind, Unused, Terminal, Types, Fresh, Starting
  <2>4. CASE PersistStarting(h)
    BY <2>4, OwnerFacts DEF PersistStarting, Persisted, Fresh, Owned, Behind, Unused, Terminal,
       Types, Starting
  <2>5. CASE PersistStartingFails(h)
    <3> DEFINE d == call[h].id
    <3>1. d \in IDs /\ Owned(h, d)
      BY <2>5, OwnerFacts DEF PersistStartingFails, Starting
    <3>2. \A c \in IDs \ {d} : meta'[c] = meta[c]
      BY <2>5 DEF PersistStartingFails, PersistFails, Types
    <3>3. meta[d].nextSeq = 1 /\ meta'[d].nextSeq = 1 /\
          meta'[d].state \in {"none", "dir", "starting"}
      BY <2>5, <3>1 DEF PersistStartingFails, PersistFails, Owned, Fresh, Types
    <3>4. commands' = commands \ {d} /\ UNCHANGED <<record, cursor>>
      BY <2>5 DEF PersistStartingFails
    <3>5. commands \subseteq IDs
      BY DEF Types
    <3> QED
      BY <3>1, <3>2, <3>3, <3>4, <3>5 DEF Behind, Terminal
  <2>6. CASE startFailed(h)
    <3>1. pc[h] \in Starting
      BY <2>6 DEF startFailed, Starting
    <3>2. call[h].id \in IDs /\ SafeWrite(call[h].id)
      BY <2>6, <3>1, OwnerFacts, OwnerWrites
    <3> QED
      BY <3>2, SafeWriteKeeps
  <2>7. CASE PersistRunning(h)
    <3>1. pc[h] \in Starting
      BY <2>7 DEF PersistRunning, Starting
    <3>2. call[h].id \in IDs /\ SafeWrite(call[h].id)
      BY <2>7, <3>1, OwnerFacts, OwnerWrites
    <3> QED
      BY <3>2, SafeWriteKeeps
  <2> QED
    BY <1>2, <2>1, <2>2, <2>3, <2>4, <2>5, <2>6, <2>7 DEF OwnerStep
<1>3. ASSUME NEW c \in IDs, CollectStep(c) PROVE Behind'
  <2>1. CASE Chunk(c) \/ AppendEvent(c) \/ AppendFails(c)
    BY <2>1 DEF Chunk, AppendEvent, AppendFails, Behind
  <2>2. CASE Advance(c)
    BY <2>2, CollectorWrites, SafeWriteKeeps
  <2>3. CASE Finish(c)
    BY <2>3, CollectorWrites, SafeWriteKeeps
  <2> QED
    BY <1>3, <2>1, <2>2, <2>3 DEF CollectStep
<1>4. ASSUME NEW c \in IDs, OtherStep(c) PROVE Behind'
  <2>1. CASE Output(c) \/ CloseOutput(c) \/ Die(c)
    BY <2>1 DEF Output, CloseOutput, Die, Behind
  <2>2. CASE Connect(c)
    BY <2>2 DEF Connect, Behind, Types, Records, DiskRecords
  <2> QED
    BY <1>4, <2>1, <2>2 DEF OtherStep
<1>5. CASE Crash \/ NewManager \/ loadDone
  <2>1. CASE NewManager \/ loadDone
    BY <2>1 DEF NewManager, loadDone, Behind, Types, Records, DiskRecords
  <2>2. CASE Crash
    BY <2>2 DEF Crash, Behind
  <2> QED
    BY <1>5, <2>1, <2>2
<1>6. ASSUME NEW c \in IDs, loadEntry(c) \/ loadRefuses(c) PROVE Behind'
  <2>1. CASE loadEntry(c)
    <3>1. UNCHANGED cursor /\ commands \subseteq IDs
      BY <2>1 DEF loadEntry, LoadEnds, Truncated, Types
    <3>2. cursor[c] \in Nat /\ meta[c].nextSeq \in Nat /\ spool[c].last \in Nat
      BY DEF Types, DiskRecords, Spools
    <3>3. Recovered(c).nextSeq = spool[c].last + 1 /\ meta[c].nextSeq <= spool[c].last + 1
      BY <2>1 DEF loadEntry, LoadEnds, Truncated, Recoverable, Unreadable, Recovered
    <3>4. cursor[c] < Recovered(c).nextSeq /\ Recovered(c).nextSeq \in Nat
      BY <3>2, <3>3 DEF Behind
    <3>5. \A d \in IDs : d # c => meta'[d] = meta[d]
      BY <2>1 DEF loadEntry, LoadEnds, Truncated, Types
    <3>6. meta'[c] = meta[c] \/ meta'[c] = Recovered(c)
      BY <2>1 DEF loadEntry, LoadEnds, Truncated, Types
    <3>7. \A d \in commands' :
            /\ d \in commands \/ d = c
            /\ meta'[c] = Recovered(c) /\ record'[c] = Recovered(c)
            /\ d # c => record'[d] = record[d]
      BY <2>1 DEF loadEntry, LoadEnds, Truncated, Types
    <3>8. \A d \in IDs : cursor'[d] < meta'[d].nextSeq
      BY <3>1, <3>4, <3>5, <3>6 DEF Behind
    <3>9. ASSUME NEW d \in commands'
          PROVE /\ record'[d].nextSeq <= meta'[d].nextSeq
                /\ record'[d].state \in Terminal => meta'[d].state = record'[d].state
      <4>1. CASE d = c
        BY <3>4, <3>7, <4>1
      <4>2. CASE d # c
        BY <3>1, <3>5, <3>7, <4>2 DEF Behind
      <4> QED
        BY <4>1, <4>2
    <3> QED
      BY <3>8, <3>9 DEF Behind
  <2>2. CASE loadRefuses(c)
    <3>1. cursor[c] \in Nat /\ meta[c].nextSeq \in Nat /\ spool[c].last \in Nat
      BY DEF Types, DiskRecords, Spools
    <3>2. Recoverable(c) => cursor[c] < Recovered(c).nextSeq
      BY <3>1 DEF Behind, Recoverable, Recovered
    <3>3. UNCHANGED cursor /\ commands' = {}
      BY <2>2, RefusalEffect DEF LoadEnds
    <3> QED
      BY <2>2, <3>2, <3>3, RefusalEffect DEF Behind
  <2> QED
    BY <1>6, <2>1, <2>2
<1> QED
  BY <1>1, <1>2, <1>3, <1>4, <1>5, <1>6 DEF Step, RecoveryStep

LEMMA AtMostOnceStep ==
    ASSUME IInv, Step
    PROVE AtMostOnce'
<1>a. Types /\ Stopped /\ Indexed /\ Ownership /\ Children /\ AtMostOnce
  BY TypesAre DEF IInv
<1> USE <1>a, ManagerAssumption DEF memory, disk, child, stdio, history, Types, Starting,
        Stopped, Indexed, Ownership, Owned, Children, AtMostOnce
<1>1. CASE ClientEffect
  BY <1>1 DEF ClientEffect
<1>2. ASSUME NEW h \in Handlers, OwnerStep(h) PROVE AtMostOnce'
  <2>1. CASE StartNew(h) \/ Mkdir(h) \/ PersistStarting(h) \/ PersistStartingFails(h) \/
             startFailed(h) \/ PersistRunning(h) \/ KillUnpersisted(h)
    BY <2>1 DEF StartNew, Mkdir, PersistStarting, PersistStartingFails, startFailed,
       PersistRunning, KillUnpersisted
  <2>2. CASE Spawn(h)
    <3> DEFINE r == call[h].req
               d == call[h].id
    <3>1. reqOf[d] = r /\ requests[r] = d /\ proc[d] = "none"
      BY <2>2, OwnerFacts DEF Spawn
    <3>2. up = "up"
      BY <2>2 DEF Spawn, Stopped
    <3>3. \A x \in spawned : x[1] # r
      <4> SUFFICES ASSUME NEW x \in spawned, x[1] = r
                   PROVE FALSE
        OBVIOUS
      <4>1. x[2] \in IDs /\ reqOf[x[2]] = r /\ proc[x[2]] # "none"
        OBVIOUS
      <4>2. x[2] \in commands
        BY <3>2, <4>1
      <4>3. requests[r] = x[2]
        BY <4>1, <4>2
      <4> QED
        BY <3>1, <4>1, <4>3
    <3>4. spawned' \subseteq spawned \cup {<<r, d>>}
      BY <2>2 DEF Spawn
    <3>5. ASSUME NEW x \in spawned', NEW y \in spawned', x[1] = y[1] PROVE x = y
      <4>1. CASE x \in spawned /\ y \in spawned
        BY <3>5, <4>1
      <4>2. CASE x = <<r, d>> /\ y = <<r, d>>
        BY <4>2
      <4> QED
        BY <3>3, <3>4, <3>5, <4>1, <4>2
    <3> QED
      BY <3>5
  <2> QED
    BY <1>2, <2>1, <2>2 DEF OwnerStep
<1>3. ASSUME NEW c \in IDs, CollectStep(c) PROVE AtMostOnce'
  BY <1>3 DEF CollectStep, Chunk, AppendEvent, AppendFails, Advance, Finish, FinishRest
<1>4. ASSUME NEW c \in IDs, OtherStep(c) PROVE AtMostOnce'
  BY <1>4 DEF OtherStep, Connect, Output, CloseOutput, Die
<1>5. CASE Crash \/ NewManager \/ loadDone
  BY <1>5 DEF Crash, NewManager, loadDone
<1>6. ASSUME NEW c \in IDs, loadEntry(c) \/ loadRefuses(c) PROVE AtMostOnce'
  BY <1>6 DEF loadEntry, LoadEnds, Truncated, loadRefuses
<1> QED
  BY <1>1, <1>2, <1>3, <1>4, <1>5, <1>6 DEF Step, RecoveryStep

LEMMA TerminalIsDurableStep ==
    ASSUME IInv, Step
    PROVE TerminalIsDurable'
<1>a. Types /\ Stopped /\ Ownership /\ Collected /\ Unused /\ Behind /\ TerminalIsDurable
  BY TypesAre DEF IInv
<1> USE <1>a, ManagerAssumption DEF memory, disk, child, stdio, history
<1>1. CASE ClientEffect
  BY <1>1 DEF ClientEffect, Behind, TerminalIsDurable
<1>2. ASSUME NEW h \in Handlers, OwnerStep(h) PROVE TerminalIsDurable'
  <2>1. CASE Spawn(h) \/ KillUnpersisted(h)
    BY <2>1 DEF Spawn, KillUnpersisted, Behind, TerminalIsDurable
  <2>2. CASE StartNew(h)
    <3>1. PICK c \in IDs :
            /\ reqOf[c] = None /\ commands' = commands \cup {c}
            /\ record' = [record EXCEPT ![c] = Fresh]
      BY <2>2 DEF StartNew
    <3>2. meta[c].state = "none"
      BY <3>1 DEF Unused
    <3>3. reported[c] \in Terminal \cup {None}
      BY DEF Types
    <3>4. reported[c] = None
      BY <3>2, <3>3 DEF TerminalIsDurable, Terminal
    <3>5. UNCHANGED <<meta, reported>>
      BY <2>2 DEF StartNew
    <3> QED
      BY <3>1, <3>4, <3>5 DEF TerminalIsDurable, Types
  <2>3. CASE Mkdir(h)
    BY <2>3, OwnerFacts DEF Mkdir, Owned, TerminalIsDurable, Fresh, Starting
  <2>4. CASE PersistStarting(h)
    BY <2>4, OwnerFacts DEF PersistStarting, Persisted, Fresh, Owned, TerminalIsDurable, Starting
  <2>5. CASE PersistStartingFails(h)
    BY <2>5, OwnerFacts DEF PersistStartingFails, PersistFails, Fresh, Owned, TerminalIsDurable,
       Types, Starting
  <2>6. CASE startFailed(h)
    <3>1. pc[h] \in Starting
      BY <2>6 DEF startFailed, Starting
    <3>2. call[h].id \in IDs /\ SafeWrite(call[h].id)
      BY <2>6, <3>1, OwnerFacts, OwnerWrites
    <3> QED
      BY <3>2, SafeWriteKeeps
  <2>7. CASE PersistRunning(h)
    <3>1. pc[h] \in Starting
      BY <2>7 DEF PersistRunning, Starting
    <3>2. call[h].id \in IDs /\ SafeWrite(call[h].id)
      BY <2>7, <3>1, OwnerFacts, OwnerWrites
    <3> QED
      BY <3>2, SafeWriteKeeps
  <2> QED
    BY <1>2, <2>1, <2>2, <2>3, <2>4, <2>5, <2>6, <2>7 DEF OwnerStep
<1>3. ASSUME NEW c \in IDs, CollectStep(c) PROVE TerminalIsDurable'
  <2>1. CASE Chunk(c) \/ AppendEvent(c) \/ AppendFails(c)
    BY <2>1 DEF Chunk, AppendEvent, AppendFails, TerminalIsDurable
  <2>2. CASE Advance(c)
    BY <2>2, CollectorWrites, SafeWriteKeeps
  <2>3. CASE Finish(c)
    BY <2>3, CollectorWrites, SafeWriteKeeps
  <2> QED
    BY <1>3, <2>1, <2>2, <2>3 DEF CollectStep
<1>4. ASSUME NEW c \in IDs, OtherStep(c) PROVE TerminalIsDurable'
  <2>1. CASE Output(c) \/ CloseOutput(c) \/ Die(c)
    BY <2>1 DEF Output, CloseOutput, Die, TerminalIsDurable
  <2>2. CASE Connect(c)
    BY <2>2 DEF Connect, Report, Behind, TerminalIsDurable
  <2> QED
    BY <1>4, <2>1, <2>2 DEF OtherStep
<1>5. CASE Crash \/ NewManager \/ loadDone
  <2>1. CASE NewManager \/ loadDone
    BY <2>1 DEF NewManager, loadDone, Behind, TerminalIsDurable
  <2>2. CASE Crash
    BY <2>2 DEF Crash, TerminalIsDurable
  <2> QED
    BY <1>5, <2>1, <2>2
<1>6. ASSUME NEW c \in IDs, loadEntry(c) \/ loadRefuses(c) PROVE TerminalIsDurable'
  <2>1. CASE loadEntry(c)
    <3>1. UNCHANGED reported
      BY <2>1 DEF loadEntry, LoadEnds, Truncated
    <3>2. (reported[c] # None) => meta[c].state = reported[c] /\ reported[c] \in Terminal
      BY DEF TerminalIsDurable, Types
    <3>3. (reported[c] # None) => Recovered(c).state = reported[c]
      BY <3>2 DEF Recovered
    <3>4. \A d \in IDs : d # c => meta'[d] = meta[d]
      BY <2>1 DEF loadEntry, LoadEnds, Truncated, Types
    <3>5. meta'[c] = meta[c] \/ meta'[c] = Recovered(c)
      BY <2>1 DEF loadEntry, LoadEnds, Truncated, Types
    <3>6. \A d \in commands' :
            /\ d \in commands \/ d = c
            /\ record'[c] = Recovered(c)
            /\ d # c => record'[d] = record[d]
      BY <2>1 DEF loadEntry, LoadEnds, Truncated, Types
    <3>7. ASSUME NEW d \in IDs, reported[d] # None
          PROVE /\ meta'[d].state = reported[d]
                /\ d \in commands' => record'[d].state = reported[d]
      <4>1. CASE d = c
        BY <3>2, <3>3, <3>5, <3>6, <3>7, <4>1
      <4>2. CASE d # c
        BY <3>4, <3>6, <3>7, <4>2 DEF TerminalIsDurable
      <4> QED
        BY <4>1, <4>2
    <3> QED
      BY <3>1, <3>7 DEF TerminalIsDurable
  <2>2. CASE loadRefuses(c)
    <3>1. (reported[c] # None) => meta[c].state = reported[c] /\ reported[c] \in Terminal
      BY DEF TerminalIsDurable, Types
    <3>2. (reported[c] # None) => Recovered(c).state = reported[c]
      BY <3>1 DEF Recovered
    <3>3. UNCHANGED reported /\ commands' = {}
      BY <2>2, RefusalEffect DEF LoadEnds
    <3> QED
      BY <2>2, <3>1, <3>2, <3>3, RefusalEffect DEF TerminalIsDurable
  <2> QED
    BY <1>6, <2>1, <2>2
<1> QED
  BY <1>1, <1>2, <1>3, <1>4, <1>5, <1>6 DEF Step, RecoveryStep

LEMMA OutputCompleteStep ==
    ASSUME IInv, Step
    PROVE OutputComplete'
<1>a. Types /\ Stopped /\ Ownership /\ Collected /\ Unused /\ OutputComplete
  BY TypesAre DEF IInv
<1> USE <1>a, ManagerAssumption DEF memory, disk, child, stdio, history
<1>1. CASE ClientEffect
  BY <1>1 DEF ClientEffect, OutputComplete
<1>2. ASSUME NEW h \in Handlers, OwnerStep(h) PROVE OutputComplete'
  <2>1. CASE StartNew(h) \/ Spawn(h) \/ KillUnpersisted(h)
    BY <2>1 DEF StartNew, Spawn, KillUnpersisted, OutputComplete
  <2>2. CASE Mkdir(h)
    BY <2>2, OwnerFacts DEF Mkdir, OutputComplete
  <2>3. CASE PersistStarting(h)
    BY <2>3, OwnerFacts DEF PersistStarting, Persisted, Fresh, OutputComplete
  <2>4. CASE PersistStartingFails(h)
    <3> DEFINE d == call[h].id
    <3>1. d \in IDs /\ Owned(h, d)
      BY <2>4, OwnerFacts DEF PersistStartingFails, Starting
    <3>2. \A c \in IDs \ {d} : meta'[c] = meta[c]
      BY <2>4 DEF PersistStartingFails, PersistFails, Types
    <3>3. meta[d].nextSeq = 1 /\ meta'[d].nextSeq = 1 /\
          meta'[d].state \in {"none", "dir", "starting"}
      BY <2>4, <3>1 DEF PersistStartingFails, PersistFails, Owned, Fresh, Types
    <3>4. UNCHANGED <<spool, produced, pipe>>
      BY <2>4 DEF PersistStartingFails
    <3> QED
      BY <3>2, <3>3, <3>4 DEF OutputComplete
  <2>5. CASE startFailed(h)
    <3>1. pc[h] \in Starting
      BY <2>5 DEF startFailed, Starting
    <3>2. call[h].id \in IDs /\ SafeWrite(call[h].id)
      BY <2>5, <3>1, OwnerFacts, OwnerWrites
    <3> QED
      BY <3>2, SafeWriteKeeps
  <2>6. CASE PersistRunning(h)
    <3>1. pc[h] \in Starting
      BY <2>6 DEF PersistRunning, Starting
    <3>2. call[h].id \in IDs /\ SafeWrite(call[h].id)
      BY <2>6, <3>1, OwnerFacts, OwnerWrites
    <3> QED
      BY <3>2, SafeWriteKeeps
  <2> QED
    BY <1>2, <2>1, <2>2, <2>3, <2>4, <2>5, <2>6 DEF OwnerStep
<1>3. ASSUME NEW c \in IDs, CollectStep(c) PROVE OutputComplete'
  <2>1. CASE Chunk(c)
    BY <2>1 DEF Chunk, OutputComplete
  <2>2. CASE AppendEvent(c)
    BY <2>2 DEF AppendEvent, Collected, CollectedAt, Collecting, OutputComplete
  <2>3. CASE AppendFails(c)
    BY <2>3 DEF AppendFails, Interrupted, Collected, CollectedAt, Collecting, OutputComplete
  <2>4. CASE Advance(c)
    BY <2>4, CollectorWrites, SafeWriteKeeps
  <2>5. CASE Finish(c)
    BY <2>5, CollectorWrites, SafeWriteKeeps
  <2> QED
    BY <1>3, <2>1, <2>2, <2>3, <2>4, <2>5 DEF CollectStep
<1>4. ASSUME NEW c \in IDs, OtherStep(c) PROVE OutputComplete'
  <2>1. CASE CloseOutput(c) \/ Die(c)
    BY <2>1 DEF CloseOutput, Die, OutputComplete
  <2>2. CASE Connect(c)
    BY <2>2 DEF Connect, OutputComplete
  <2>3. CASE Output(c)
    <3>1. cpc[c] \in Collecting \/ Started(c)
      BY <2>3 DEF Output, Collected, CollectedAt
    <3>2. ASSUME Started(c) PROVE meta[c] = Fresh
      <4>1. PICK g \in Handlers : pc[g] = "running" /\ call[g].id = c
        BY <3>2 DEF Started
      <4> QED
        BY <4>1, OwnerFacts DEF Owned, Starting
    <3>3. meta[c].state \notin {"exited", "signaled"}
      BY <3>1, <3>2, CollectorFacts DEF Fresh
    <3> QED
      BY <2>3, <3>3 DEF Output, OutputComplete, Types
  <2> QED
    BY <1>4, <2>1, <2>2, <2>3 DEF OtherStep
<1>5. CASE Crash \/ NewManager \/ loadDone
  <2>1. CASE NewManager \/ loadDone
    BY <2>1 DEF NewManager, loadDone, OutputComplete
  <2>2. CASE Crash
    <3>1. \A c \in IDs :
            /\ cpc[c] = "append" => spool'[c] \in Interrupted(c)
            /\ cpc[c] # "append" => spool'[c] = spool[c]
      BY <2>2 DEF Crash
    <3>2. \A c \in IDs : cpc[c] = "append" => meta[c].state \notin {"exited", "signaled"}
      BY DEF Collected, CollectedAt, Collecting
    <3>3. \A c \in IDs : ~pipe'[c] /\ produced'[c] = produced[c] /\ meta'[c] = meta[c]
      BY <2>2 DEF Crash
    <3> QED
      BY <3>1, <3>2, <3>3 DEF OutputComplete
  <2> QED
    BY <1>5, <2>1, <2>2
<1>6. ASSUME NEW c \in IDs, loadEntry(c) \/ loadRefuses(c) PROVE OutputComplete'
  <2>1. CASE loadRefuses(c)
    <3>1. (Recovered(c).state \in {"exited", "signaled"})
          => meta[c].state \in {"exited", "signaled"}
      BY DEF Recovered, Terminal
    <3> QED
      BY <2>1, <3>1, RefusalEffect DEF OutputComplete
  <2>2. CASE loadEntry(c)
    BY <2>2 DEF loadEntry, LoadEnds, Truncated, Recovered, OutputComplete, Types
  <2> QED
    BY <1>6, <2>1, <2>2
<1> QED
  BY <1>1, <1>2, <1>3, <1>4, <1>5, <1>6 DEF Step, RecoveryStep

LEMMA CursorsStayValidStep ==
    ASSUME IInv, Step
    PROVE CursorsStayValid'
<1>a. Types /\ Stopped /\ Ownership /\ Collected /\ Behind /\ Unused /\ CursorsStayValid
  BY TypesAre DEF IInv
<1> USE <1>a, ManagerAssumption DEF memory, disk, child, stdio, history
<1>1. CASE ClientEffect
  BY <1>1 DEF ClientEffect, CursorsStayValid
<1>2. ASSUME NEW h \in Handlers, OwnerStep(h) PROVE CursorsStayValid'
  <2>1. CASE Spawn(h) \/ KillUnpersisted(h)
    BY <2>1 DEF Spawn, KillUnpersisted, CursorsStayValid
  <2>2. CASE StartNew(h)
    BY <2>2 DEF StartNew, Fresh, Behind, Unused, CursorsStayValid, Types
  <2>3. CASE Mkdir(h)
    BY <2>3, OwnerFacts DEF Mkdir, Behind, Unused, CursorsStayValid, Types, Fresh
  <2>4. CASE PersistStarting(h)
    BY <2>4, OwnerFacts DEF PersistStarting, Persisted, Fresh, Behind, Unused, CursorsStayValid,
       Types, Spools
  <2>5. CASE PersistStartingFails(h)
    BY <2>5, OwnerFacts DEF PersistStartingFails, PersistFails, Fresh, Behind, Unused,
       CursorsStayValid, Types, Spools
  <2>6. CASE startFailed(h)
    <3>1. pc[h] \in Starting
      BY <2>6 DEF startFailed, Starting
    <3>2. call[h].id \in IDs /\ SafeWrite(call[h].id)
      BY <2>6, <3>1, OwnerFacts, OwnerWrites
    <3> QED
      BY <3>2, SafeWriteKeeps
  <2>7. CASE PersistRunning(h)
    <3>1. pc[h] \in Starting
      BY <2>7 DEF PersistRunning, Starting
    <3>2. call[h].id \in IDs /\ SafeWrite(call[h].id)
      BY <2>7, <3>1, OwnerFacts, OwnerWrites
    <3> QED
      BY <3>2, SafeWriteKeeps
  <2> QED
    BY <1>2, <2>1, <2>2, <2>3, <2>4, <2>5, <2>6, <2>7 DEF OwnerStep
<1>3. ASSUME NEW c \in IDs, CollectStep(c) PROVE CursorsStayValid'
  <2>1. CASE Chunk(c)
    BY <2>1 DEF Chunk, CursorsStayValid
  <2>2. CASE AppendEvent(c)
    BY <2>2 DEF AppendEvent, CursorsStayValid, Types, DiskRecords, Spools
  <2>3. CASE AppendFails(c)
    <3>1. UNCHANGED <<meta, commands, record, cursor>>
          /\ \E s \in Interrupted(c) : spool' = [spool EXCEPT ![c] = s]
      BY <2>3 DEF AppendFails
    <3>2. \A s \in Interrupted(c) : s.last \in {spool[c].last, spool[c].last + 1}
      BY DEF Interrupted, Types, Spools
    <3>3. \A d \in IDs : spool'[d].last \in {spool[d].last, spool[d].last + 1}
      BY <3>1, <3>2 DEF Types
    <3>4. \A d \in IDs : spool[d].last \in Nat /\ meta[d].nextSeq \in Nat
      BY DEF Types, Spools, DiskRecords
    <3> QED
      BY <3>1, <3>3, <3>4 DEF CursorsStayValid
  <2>4. CASE Advance(c)
    BY <2>4, CollectorWrites, SafeWriteKeeps
  <2>5. CASE Finish(c)
    BY <2>5, CollectorWrites, SafeWriteKeeps
  <2> QED
    BY <1>3, <2>1, <2>2, <2>3, <2>4, <2>5 DEF CollectStep
<1>4. ASSUME NEW c \in IDs, OtherStep(c) PROVE CursorsStayValid'
  <2>1. CASE Output(c) \/ CloseOutput(c) \/ Die(c)
    BY <2>1 DEF Output, CloseOutput, Die, CursorsStayValid
  <2>2. CASE Connect(c)
    BY <2>2 DEF Connect, CursorsStayValid, Types, Records
  <2> QED
    BY <1>4, <2>1, <2>2 DEF OtherStep
<1>5. CASE Crash \/ NewManager \/ loadDone
  <2>1. CASE NewManager \/ loadDone
    BY <2>1 DEF NewManager, loadDone, CursorsStayValid, Types, Records
  <2>2. CASE Crash
    <3>1. \A c \in IDs :
            /\ cpc[c] = "append" => spool'[c] \in Interrupted(c)
            /\ cpc[c] # "append" => spool'[c] = spool[c]
      BY <2>2 DEF Crash
    <3>2. ASSUME NEW c \in IDs PROVE spool'[c].last \in {spool[c].last, spool[c].last + 1}
      <4>1. \A s \in Interrupted(c) : s.last \in {spool[c].last, spool[c].last + 1}
        BY DEF Interrupted, Types, Spools
      <4>2. CASE cpc[c] = "append"
        BY <3>1, <4>1, <4>2
      <4>3. CASE cpc[c] # "append"
        BY <3>1, <4>3
      <4> QED
        BY <4>2, <4>3
    <3>3. \A c \in IDs : spool[c].last \in Nat /\ meta[c].nextSeq \in Nat
      BY DEF Types, Spools, DiskRecords
    <3>4. UNCHANGED meta /\ commands' = {}
      BY <2>2 DEF Crash
    <3> QED
      BY <3>2, <3>3, <3>4 DEF CursorsStayValid
  <2> QED
    BY <1>5, <2>1, <2>2
<1>6. ASSUME NEW c \in IDs, loadEntry(c) \/ loadRefuses(c) PROVE CursorsStayValid'
  <2>1. CASE loadEntry(c)
    BY <2>1 DEF loadEntry, LoadEnds, Truncated, Recovered, Behind, CursorsStayValid, Types,
       DiskRecords, Spools
  <2>2. CASE loadRefuses(c)
    <3>1. spool[c].last \in Nat /\ Recovered(c).nextSeq = spool[c].last + 1
      BY DEF Recovered, Types, Spools
    <3>2. commands' = {}
      BY <2>2, RefusalEffect DEF LoadEnds
    <3> QED
      BY <2>2, <3>1, <3>2, RefusalEffect DEF CursorsStayValid
  <2> QED
    BY <1>6, <2>1, <2>2
<1> QED
  BY <1>1, <1>2, <1>3, <1>4, <1>5, <1>6 DEF Step, RecoveryStep

LEMMA NoLostWakeupStep ==
    ASSUME IInv, Step
    PROVE NoLostWakeup'
<1>a. Types /\ Stopped /\ Ownership /\ NoLostWakeup
  BY TypesAre DEF IInv
<1> USE <1>a, ManagerAssumption DEF memory, disk, child, stdio, history, Types, Records,
        Fresh, Starting, Stopped, Ownership, Owned, NoLostWakeup, Terminal
<1>1. CASE ClientEffect
  <2>1. \A g \in Handlers : waiters'[g] # None =>
            waiters'[g] = waiters[g] \/ record[waiters'[g]].state \notin Terminal
    BY <1>1 DEF ClientEffect, HandlerMoves
  <2>2. UNCHANGED record
    BY <1>1 DEF ClientEffect
  <2> QED
    BY <2>1, <2>2
<1>2. ASSUME NEW h \in Handlers, OwnerStep(h) PROVE NoLostWakeup'
  <2>1. CASE Mkdir(h) \/ PersistStarting(h) \/ PersistStartingFails(h) \/ Spawn(h) \/
             KillUnpersisted(h)
    BY <2>1 DEF Mkdir, PersistStarting, PersistStartingFails, Spawn, KillUnpersisted
  <2>2. CASE StartNew(h)
    BY <2>2 DEF StartNew
  <2>3. CASE startFailed(h)
    BY <2>3, FailedEffect DEF startFailed, notifyLocked, NoCall, Write
  <2>4. CASE PersistRunning(h)
    <3>1. Write(call[h].id, "running", 1)
      BY <2>4, RunningEffect
    <3>2. \A g \in Handlers : waiters'[g] # None => waiters'[g] = waiters[g]
      BY <2>4 DEF PersistRunning, notifyLocked
    <3>3. \A d \in IDs : record'[d].state = record[d].state \/ record'[d].state = "running"
      BY <3>1 DEF Write
    <3>4. SUFFICES ASSUME NEW g \in Handlers, waiters'[g] # None
                   PROVE  record'[waiters'[g]].state \notin Terminal
      BY DEF NoLostWakeup
    <3>5. waiters'[g] = waiters[g] /\ waiters[g] \in IDs
      BY <3>2, <3>4
    <3>6. record[waiters[g]].state \notin Terminal
      BY <3>4, <3>5
    <3> QED
      BY <3>3, <3>5, <3>6
  <2> QED
    BY <1>2, <2>1, <2>2, <2>3, <2>4 DEF OwnerStep
<1>3. ASSUME NEW c \in IDs, CollectStep(c) PROVE NoLostWakeup'
  <2>1. CASE Chunk(c) \/ AppendEvent(c) \/ AppendFails(c)
    BY <2>1 DEF Chunk, AppendEvent, AppendFails
  <2>2. CASE Advance(c)
    BY <2>2, AdvanceEffect DEF Advance, notifyLocked, Write
  <2>3. CASE Finish(c)
    BY <2>3, FinishEffect DEF Finish, notifyLocked, Write
  <2> QED
    BY <1>3, <2>1, <2>2, <2>3 DEF CollectStep
<1>4. ASSUME NEW c \in IDs, OtherStep(c) PROVE NoLostWakeup'
  BY <1>4 DEF OtherStep, Connect, Output, CloseOutput, Die
<1>5. CASE Crash \/ NewManager \/ loadDone
  <2>1. CASE NewManager \/ loadDone
    BY <2>1 DEF NewManager, loadDone
  <2>2. CASE Crash
    BY <2>2 DEF Crash, NoCall
  <2> QED
    BY <1>5, <2>1, <2>2
<1>6. ASSUME NEW c \in IDs, loadEntry(c) \/ loadRefuses(c) PROVE NoLostWakeup'
  <2>1. CASE loadEntry(c)
    BY <2>1 DEF loadEntry, LoadEnds, Truncated, Recoverable, Unreadable, Recovered
  <2>2. CASE loadRefuses(c)
    BY <2>2 DEF loadRefuses, LoadEnds, Truncated, Recoverable, Unreadable
  <2> QED
    BY <1>6, <2>1, <2>2
<1> QED
  BY <1>1, <1>2, <1>3, <1>4, <1>5, <1>6 DEF Step, RecoveryStep
----------------------------------------------------------------------------
(* The theorems.                                                           *)

LEMMA InitInv == Init => IInv
<1> SUFFICES ASSUME Init
             PROVE IInv
  OBVIOUS
<1>1. TypeOK
  <2>1. Types
    BY ManagerAssumption DEF Init, Types, HandlerTypes, HandlerPCs, Calls, NoCall, Records,
       DiskRecords,
        Spools, Fresh, States
  <2> QED
    BY <2>1, TypesAre
<1>2. Stopped /\ Locked /\ Indexed /\ Unused /\ Created
  BY ManagerAssumption DEF Init, Stopped, Locked, Indexed, Unused, Created
<1>3. Ownership /\ Collected /\ Children /\ Behind
  BY DEF Init, Ownership, Starting, Collected, CollectedAt, Collecting, Children, Behind
<1>4. AtMostOnce /\ TerminalIsDurable /\ OutputComplete /\ CursorsStayValid /\ NoLostWakeup
  BY DEF Init, AtMostOnce, TerminalIsDurable, OutputComplete, CursorsStayValid, NoLostWakeup
<1> QED
  BY <1>1, <1>2, <1>3, <1>4 DEF IInv

LEMMA TypesStep ==
    ASSUME IInv, Next
    PROVE TypeOK'
<1>1. TypeOK /\ Ownership
  BY DEF IInv
<1>2. ASSUME NEW h \in Handlers,
             Start(h) \/ StartStep(h) \/ Wait(h) \/ WaitStep(h) \/ WaitGivesUp(h)
      PROVE TypeOK'
  BY <1>1, <1>2, StartTypes, WaitTypes
<1>3. ASSUME NEW c \in IDs, CollectStep(c) \/ Status(c) \/ Connect(c) \/ Output(c)
                            \/ CloseOutput(c) \/ Die(c)
      PROVE TypeOK'
  BY <1>1, <1>3, CollectTypes, ReadTypes
<1>4. ASSUME \/ Crash \/ NewManager \/ loadDone
             \/ \E c \in IDs : loadEntry(c) \/ loadRefuses(c)
      PROVE TypeOK'
  BY <1>1, <1>4, RecoveryTypes
<1> QED
  BY <1>2, <1>3, <1>4 DEF Next

LEMMA NextInv ==
    ASSUME IInv, [Next]_vars
    PROVE IInv'
<1>1. CASE Next
  <2>1. Step
    BY <1>1, StepKinds
  <2>2. TypeOK'
    BY <1>1, TypesStep
  <2>3. Stopped' /\ Locked' /\ Indexed' /\ Unused'
    BY <2>1, StoppedStep, LockedStep, IndexedStep, UnusedStep
  <2>4. Ownership' /\ Created' /\ Collected' /\ Children' /\ Behind'
    BY <2>1, OwnershipStep, CreatedStep, CollectedStep, ChildrenStep, BehindStep
  <2>5. AtMostOnce' /\ TerminalIsDurable' /\ OutputComplete' /\ CursorsStayValid' /\ NoLostWakeup'
    BY <2>1, AtMostOnceStep, TerminalIsDurableStep, OutputCompleteStep, CursorsStayValidStep,
       NoLostWakeupStep
  <2> QED
    BY <2>2, <2>3, <2>4, <2>5 DEF IInv
<1>2. CASE UNCHANGED vars
  <2> USE <1>2 DEF vars, memory, disk, child, stdio, history
  <2>1. TypeOK'
    BY DEF IInv, TypeOK
  <2>2. Stopped' /\ Locked' /\ Indexed' /\ Unused'
    BY DEF IInv, Stopped, Locked, Indexed, Unused
  <2>3. Ownership' /\ Created'
    BY DEF IInv, Ownership, Owned, Created
  <2>4. Collected' /\ Children' /\ Behind'
    BY DEF IInv, Collected, CollectedAt, Started, Children, Behind
  <2>5. AtMostOnce' /\ TerminalIsDurable' /\ OutputComplete' /\ CursorsStayValid' /\ NoLostWakeup'
    BY DEF IInv, AtMostOnce, TerminalIsDurable, OutputComplete, CursorsStayValid, NoLostWakeup
  <2> QED
    BY <2>1, <2>2, <2>3, <2>4, <2>5 DEF IInv
<1> QED
  BY <1>1, <1>2

----------------------------------------------------------------------------
(* The spools are logs.                                                    *)

\* Each command's spool, as the log that Spool's files are.
Log(c) == INSTANCE EventLog
              WITH events <- 1 .. spool[c].last, last <- spool[c].last, torn <- spool[c].torn

\* Nobody appends after half a record: collect gave the spool up, or died.
Clean ==
    \A c \in IDs : spool[c].torn # "no" =>
        /\ reqOf[c] # None
        /\ cpc[c] \in Collecting => spoolFailed[c]
        /\ \A h \in Handlers : pc[h] \in Starting => call[h].id # c

\* A step that tears nothing: what it touches was clean, or stays as it was.
LEMMA CleanFrame ==
    ASSUME Clean, \A c \in IDs : spool'[c].torn # "no" => spool[c].torn # "no",
           \A c \in IDs : reqOf[c] # None => reqOf'[c] # None,
           \A c \in IDs : /\ spool[c].torn # "no"
                          /\ cpc'[c] \in Collecting /\ ~ (spoolFailed'[c])
                          => cpc[c] \in Collecting /\ ~spoolFailed[c],
           \A h \in Handlers : pc'[h] \in Starting =>
               \/ pc[h] \in Starting /\ call'[h] = call[h]
               \/ call'[h].id \in IDs /\ spool[call'[h].id].torn = "no"
    PROVE Clean'
BY DEF Clean

LEMMA CleanStep ==
    ASSUME IInv, Clean, Step
    PROVE Clean'
<1>a. Types /\ Stopped /\ Unused /\ Ownership /\ Collected
  BY TypesAre DEF IInv
<1>1. CASE ClientEffect
  <2>1. UNCHANGED <<spool, reqOf, cpc, spoolFailed>>
    BY <1>1 DEF ClientEffect, disk
  <2>2. \A h \in Handlers : pc'[h] \in Starting => pc[h] \in Starting /\ call'[h] = call[h]
    BY <1>1 DEF ClientEffect, HandlerMoves, Starting
  <2> QED
    BY <2>1, <2>2, CleanFrame
<1>2. ASSUME NEW h \in Handlers, OwnerStep(h) PROVE Clean'
  <2>1. UNCHANGED spool /\ spoolFailed' = spoolFailed
    BY <1>2 DEF OwnerStep, StartNew, Mkdir, PersistStarting, PersistStartingFails, Spawn,
                startFailed, PersistRunning, KillUnpersisted, disk
  <2>2. CASE StartNew(h)
    <3>1. PICK c \in IDs : /\ reqOf[c] = None /\ call' = [call EXCEPT ![h].id = c]
                           /\ reqOf' = [reqOf EXCEPT ![c] = call[h].req]
      BY <2>2 DEF StartNew
    <3>2. call[h].req # None /\ spool[c].torn = "no" /\ call'[h].id = c
      <4>1. call[h].req \in Reqs
        BY <1>a, <2>2 DEF StartNew, Ownership
      <4> QED
        BY <1>a, <3>1, <4>1, ManagerAssumption DEF Clean, Types, HandlerTypes, Calls
    <3>3. cpc' = cpc /\ \A g \in Handlers \ {h} : pc'[g] = pc[g] /\ call'[g] = call[g]
      BY <1>a, <2>2, <3>1 DEF StartNew, Types, HandlerTypes
    <3>4. \A d \in IDs : reqOf[d] # None => reqOf'[d] # None
      BY <1>a, <3>1, <3>2 DEF Types
    <3> QED
      BY <2>1, <3>1, <3>2, <3>3, <3>4, CleanFrame
  <2>3. CASE ~StartNew(h)
    <3>1. UNCHANGED reqOf
      BY <1>2, <2>3 DEF OwnerStep, Mkdir, PersistStarting, PersistStartingFails, Spawn,
                        startFailed, PersistRunning, KillUnpersisted, disk
    <3>2. pc[h] \in Starting \cup {"kill"}
      BY <1>2, <2>3 DEF OwnerStep, Mkdir, PersistStarting, PersistStartingFails, Spawn,
                        startFailed, PersistRunning, KillUnpersisted, Starting
    <3>3. \A g \in Handlers : pc'[g] \in Starting => pc[g] \in Starting /\ call'[g] = call[g]
      <4>1. CASE Return(h)
        BY <1>a, <4>1 DEF Return, Types, HandlerTypes, Starting
      <4>2. CASE pc[h] \in Starting /\ UNCHANGED call /\ \E s \in HandlerPCs : Goto(h, s)
        BY <1>a, <4>2 DEF Goto, Types, HandlerTypes
      <4> QED
        BY <1>2, <2>3, <4>1, <4>2 DEF OwnerStep, Mkdir, PersistStarting, PersistStartingFails,
           Spawn, startFailed, PersistRunning, KillUnpersisted, Starting, HandlerPCs, Goto
    <3>4. \A c \in IDs : cpc'[c] = cpc[c] \/ spool[c].torn = "no"
      <4>1. CASE PersistRunning(h)
        <5>1. pc[h] \in Starting /\ cpc' = [cpc EXCEPT ![call[h].id] = "collect"]
          BY <4>1 DEF PersistRunning, Starting
        <5>2. call[h].id \in IDs /\ spool[call[h].id].torn = "no"
          BY <1>a, <5>1 DEF Ownership, Clean
        <5> QED
          BY <1>a, <5>1, <5>2 DEF Types
      <4>2. CASE ~PersistRunning(h)
        BY <1>2, <2>3, <4>2 DEF OwnerStep, Mkdir, PersistStarting, PersistStartingFails, Spawn,
                                startFailed, KillUnpersisted
      <4> QED
        BY <4>1, <4>2
    <3> QED
      BY <2>1, <3>1, <3>3, <3>4, CleanFrame
  <2> QED
    BY <2>2, <2>3
<1>3. ASSUME NEW c \in IDs, CollectStep(c) PROVE Clean'
  <2>1. UNCHANGED <<reqOf, pc, call>> /\ cpc[c] \in Collecting
    BY <1>3 DEF CollectStep, Chunk, AppendEvent, AppendFails, Advance, Finish, FinishRest,
                Collecting, disk
  <2>2. reqOf[c] # None /\ \A h \in Handlers : pc[h] \in Starting => call[h].id # c
    BY <1>a, <2>1, CollectorFacts DEF Unused, Collecting
  <2>3. CASE AppendFails(c)
    <3>1. spoolFailed' = [spoolFailed EXCEPT ![c] = TRUE]
          /\ \A d \in IDs \ {c} : spool'[d] = spool[d] /\ cpc'[d] = cpc[d]
      BY <1>a, <2>3 DEF AppendFails, Types
    <3>2. spoolFailed'[c] /\ \A d \in IDs \ {c} : spoolFailed'[d] = spoolFailed[d]
      BY <1>a, <3>1 DEF Types
    <3> QED
      BY <2>1, <2>2, <3>1, <3>2 DEF Clean
  <2>4. CASE ~AppendFails(c)
    <3>1. \A d \in IDs : spool'[d].torn = spool[d].torn
      <4>1. UNCHANGED spool \/ spool' = [spool EXCEPT ![c].last = @ + 1]
        BY <1>3, <2>4 DEF CollectStep, Chunk, AppendEvent, Advance, Finish, FinishRest, disk
      <4> QED
        BY <1>a, <4>1 DEF Types, Spools
    <3>2. \A d \in IDs \ {c} : cpc'[d] = cpc[d] /\ spoolFailed'[d] = spoolFailed[d]
      BY <1>3, <1>a, <2>4 DEF CollectStep, Chunk, AppendEvent, Advance, Finish, FinishRest, Types
    <3>3. spoolFailed[c] => spoolFailed'[c]
      BY <1>3, <1>a, <2>4 DEF CollectStep, Chunk, AppendEvent, Advance, Finish, FinishRest, Types
    <3> QED
      BY <2>1, <3>1, <3>2, <3>3, CleanFrame
  <2> QED
    BY <2>3, <2>4
<1>4. ASSUME NEW c \in IDs, OtherStep(c) \/ loadEntry(c) \/ loadRefuses(c) PROVE Clean'
  <2>1. UNCHANGED <<reqOf, pc, call, cpc, spoolFailed>>
    BY <1>4 DEF OtherStep, Connect, Output, CloseOutput, Die, loadEntry, LoadEnds, Truncated,
       loadRefuses, disk
  <2>2. \A d \in IDs : spool'[d].torn # "no" => spool[d].torn # "no"
    BY <1>4, <1>a DEF OtherStep, Connect, Output, CloseOutput, Die, loadEntry, LoadEnds,
       Truncated, loadRefuses, disk, Types, Spools
  <2> QED
    BY <2>1, <2>2, CleanFrame
<1>5. CASE NewManager \/ loadDone
  BY <1>5, CleanFrame DEF NewManager, loadDone, disk
<1>6. CASE Crash
  <2>1. /\ UNCHANGED reqOf
        /\ \A h \in Handlers : pc'[h] \notin Starting
        /\ \A c \in IDs : cpc'[c] \notin Collecting
    BY <1>6 DEF Crash, Starting, Collecting
  <2>2. \A c \in IDs : cpc[c] # "append" => spool'[c] = spool[c]
    BY <1>6 DEF Crash
  <2>3. \A c \in IDs : cpc[c] = "append" => reqOf[c] # None
    BY <1>a DEF Unused
  <2> QED
    BY <2>1, <2>2, <2>3 DEF Clean
<1> QED
  BY <1>1, <1>2, <1>3, <1>4, <1>5, <1>6 DEF Step, RecoveryStep

LEMMA CleanNext ==
    ASSUME IInv, Clean, [Next]_vars
    PROVE Clean'
<1>1. CASE Next
  BY <1>1, StepKinds, CleanStep
<1>2. CASE UNCHANGED vars
  BY <1>2 DEF Clean, vars, disk
<1> QED
  BY <1>1, <1>2

\* An append that is cut short, by an error or a crash, is one of a clean spool.
LEMMA CutShort ==
    ASSUME IInv, Clean, NEW c \in IDs, cpc[c] = "append", spool'[c] \in Interrupted(c)
    PROVE [Log(c)!Next]_(Log(c)!vars)
<1>1. spool[c] = [last |-> spool[c].last, torn |-> "no"] /\ spool[c].last \in Nat
  <2>1. spool[c].torn = "no"
    BY DEF IInv, Collected, CollectedAt, Clean, Collecting
  <2> QED
    BY <2>1, TypesAre DEF IInv, Types, Spools
<1>2. PICK n \in Nat : n = spool[c].last
  BY <1>1
<1>3. CASE spool'[c] = spool[c]
  BY <1>3 DEF Log!vars
<1>4. CASE spool'[c] \in {[spool[c] EXCEPT !.torn = "record"], [spool[c] EXCEPT !.torn = "header"]}
  <2>1. spool'[c].last = spool[c].last /\ spool'[c].torn \in {"record", "header"}
    BY <1>1, <1>4
  <2> QED
    BY <1>1, <2>1 DEF Log!Next, Log!Interrupted
<1>5. CASE spool'[c] = [spool[c] EXCEPT !.last = @ + 1]
  <2>1. spool'[c].last = spool[c].last + 1 /\ spool'[c].torn = "no"
    BY <1>1, <1>5
  <2>2. 1 .. spool'[c].last = (1 .. spool[c].last) \cup {spool'[c].last}
    BY <1>1, <2>1
  <2> QED
    BY <1>1, <2>1, <2>2 DEF Log!Next, Log!Append
<1> QED
  BY <1>3, <1>4, <1>5 DEF Interrupted

LEMMA LogStep ==
    ASSUME IInv, Clean, NEW c \in IDs, [Next]_vars
    PROVE [Log(c)!Next]_(Log(c)!vars)
<1>1. CASE spool'[c] = spool[c]
  BY <1>1 DEF Log!vars
<1>2. CASE AppendEvent(c) \/ AppendFails(c)
  <2>1. cpc[c] = "append" /\ spool'[c] \in Interrupted(c)
    BY <1>2, TypesAre DEF AppendEvent, AppendFails, Interrupted, IInv, Types
  <2> QED
    BY <2>1, CutShort
<1>3. CASE Connect(c) \/ loadEntry(c) \/ (loadRefuses(c) /\ ~Unreadable(c))
  <2>1. spool[c].torn # "header" /\ spool'[c] = [spool[c] EXCEPT !.torn = "no"]
        /\ spool[c] \in Spools
    BY <1>3, TypesAre DEF Connect, loadEntry, loadRefuses, Truncated, Recoverable, Unreadable,
       IInv, Types
  <2>2. spool'[c].last = spool[c].last /\ spool'[c].torn = "no" /\
        spool[c].torn \in {"no", "record"}
    BY <2>1 DEF Spools
  <2> QED
    BY <2>2 DEF Log!vars, Log!Next, Log!Read
<1>4. CASE Crash
  <2>1. spool'[c] \in IF cpc[c] = "append" THEN Interrupted(c) ELSE {spool[c]}
    BY <1>4 DEF Crash
  <2> QED
    BY <1>1, <2>1, CutShort
<1>5. CASE UNCHANGED spool
  BY <1>1, <1>5
<1>6. ASSUME NEW d \in IDs, d # c,
             AppendEvent(d) \/ AppendFails(d) \/ Connect(d) \/ loadEntry(d) \/ loadRefuses(d)
      PROVE spool'[c] = spool[c]
  BY <1>6, TypesAre DEF AppendEvent, AppendFails, Connect, loadEntry, loadRefuses, Truncated,
     IInv, Types
<1>7. CASE Next
  <2>1. ASSUME NEW h \in Handlers,
               Start(h) \/ StartStep(h) \/ Wait(h) \/ WaitStep(h) \/ WaitGivesUp(h)
        PROVE UNCHANGED spool
    <3>1. ClientStep(h) \/ OwnerStep(h)
      BY <2>1 DEF StartStep, WaitStep, ClientStep, OwnerStep
    <3>2. CASE ClientStep(h)
      BY <3>2, ClientEffects DEF ClientEffect, disk
    <3>3. CASE OwnerStep(h)
      BY <3>3 DEF OwnerStep, StartNew, Mkdir, PersistStarting, PersistStartingFails, Spawn,
                  startFailed, PersistRunning, KillUnpersisted, disk
    <3> QED
      BY <3>1, <3>2, <3>3
  <2>2. ASSUME NEW d \in IDs, \/ Chunk(d) \/ Advance(d) \/ Finish(d) \/ Status(d)
                              \/ Output(d) \/ CloseOutput(d) \/ Die(d)
        PROVE UNCHANGED spool
    BY <2>2 DEF Chunk, Advance, Finish, FinishRest, Status, Output, CloseOutput, Die, disk
  <2>3. CASE NewManager \/ loadDone
    BY <2>3, <1>5 DEF NewManager, loadDone, disk
  <2>4. ASSUME NEW d \in IDs, loadRefuses(d), Unreadable(d) PROVE UNCHANGED spool
    BY <2>4 DEF loadRefuses, Recoverable
  <2>5. ASSUME loadRefuses(c) PROVE [Log(c)!Next]_(Log(c)!vars)
    BY <1>3, <1>5, <2>4, <2>5
  <2> QED
    BY <1>1, <1>2, <1>3, <1>4, <1>5, <1>6, <1>7, <2>1, <2>2, <2>3, <2>5 DEF Next, CollectStep
<1> QED
  BY <1>5, <1>7 DEF vars, disk

LEMMA InitClean == Init => Clean /\ \A c \in IDs : Log(c)!Init
<1> SUFFICES ASSUME Init PROVE \A c \in IDs : spool[c].torn = "no" /\ spool[c].last = 0
  BY DEF Clean, Log!Init
<1> QED
  BY DEF Init

\* Every part of the inductive invariant, the types of all variables among them,
\* holds in every state of the manager, crashes and recoveries included.
THEOREM ManagerInvariant == Spec => []IInv
<1>1. Init => IInv
  BY InitInv
<1>2. IInv /\ [Next]_vars => IInv'
  BY NextInv
<1> QED
  BY <1>1, <1>2, PTL DEF Spec

\* However Starts, failed writes, crashes and restarts interleave, a requestId
\* gets one child: Start looks it up and reserves it under m.mu, load rebuilds
\* the map before the next Start, and a child runs only for a persisted command.
THEOREM OneChildPerRequest == Spec => []AtMostOnce
<1>1. IInv => AtMostOnce
  BY DEF IInv
<1> QED
  BY <1>1, ManagerInvariant, PTL

\* Status, Wait, Connect and a replayed Start report a terminal state only when
\* metadata.json holds it, and neither collect nor load replaces it.
THEOREM TerminalDurable == Spec => []TerminalIsDurable
<1>1. IInv => TerminalIsDurable
  BY DEF IInv
<1> QED
  BY <1>1, ManagerInvariant, PTL

\* collect drains both pipes before it persists exited or signaled, and records
\* lost when the spool failed: metadata that names the outcome implies the output.
THEOREM OutputIsComplete == Spec => []OutputComplete
<1>1. IInv => OutputComplete
  BY DEF IInv
<1> QED
  BY <1>1, ManagerInvariant, PTL

\* The spool is appended before nextSeq is persisted, and load takes nextSeq from
\* the spool: no cursor a client was given lies beyond what a later Connect accepts.
THEOREM CursorsValid == Spec => []CursorsStayValid
<1>1. IInv => CursorsStayValid
  BY DEF IInv
<1> QED
  BY <1>1, ManagerInvariant, PTL

\* Wait takes the record and its changed channel together, and every transition to
\* a terminal state closes the channel: no waiter sleeps on a terminal command.
THEOREM WakeupsReach == Spec => []NoLostWakeup
<1>1. IInv => NoLostWakeup
  BY DEF IInv
<1> QED
  BY <1>1, ManagerInvariant, PTL

\* Whatever becomes of its writer, each command's spool is the log that Spool's segment files
\* implement: appendBoundedEvent is only called on a spool without a torn record.
THEOREM SpoolsAreLogs ==
    ASSUME NEW c \in IDs
    PROVE Spec => Log(c)!Spec
<1>1. Init => Clean /\ Log(c)!Init
  BY InitClean
<1>2. IInv /\ Clean /\ [Next]_vars => Clean' /\ [Log(c)!Next]_(Log(c)!vars)
  BY CleanNext, LogStep
<1> QED
  BY <1>1, <1>2, ManagerInvariant, PTL DEF Spec, Log!Spec
=============================================================================
