--------------------------- MODULE CommandControl ---------------------------
(***************************************************************************)
(* What clients of the command supervisor do to a running command: Signal, *)
(* KillAll, Stdin and CloseStdin of                                        *)
(* apps/command-supervisor/internal/runtime/manager.go.  The lock          *)
(* stdinWrite is held across a write, which may wait for a child that does *)
(* not read: it ends when either end of the pipe is closed.                *)
(***************************************************************************)
EXTENDS CommandManager

VARIABLES
    stdinWrite,   \* command -> holder of state.stdinWrite
    killing,      \* handler -> commands its KillAll has still to signal
    firstFailure, \* handler -> a signal of its KillAll has failed
    targets       \* history: handler -> commands running when its KillAll began

kills == <<killing, firstFailure, targets>>
control == <<stdinWrite, kills>>
controlVars == <<vars, control>>

ControlInit ==
    /\ stdinWrite = [c \in IDs |-> None]
    /\ killing = [h \in Handlers |-> {}] /\ targets = [h \in Handlers |-> {}]
    /\ firstFailure = [h \in Handlers |-> FALSE]

----------------------------------------------------------------------------
\* Signal: stdin is taken from the record under state.mu, closed, and then the
\* process group is signalled.
Signal(h) ==
    /\ up = "up" /\ mu = None /\ pc[h] = "idle"
    /\ \E c \in commands :
        /\ record[c].state = "running"
        /\ call' = [call EXCEPT ![h].id = c]
        /\ stdin' = [stdin EXCEPT ![c] = FALSE]
        /\ pc' = [pc EXCEPT ![h] = IF stdin[c] THEN "close" ELSE "signal"]
    /\ UNCHANGED <<inPipe, stdinWrite, kills, up, memory, mu, record, waiters, todo, cpc,
                   spoolFailed, disk, child, history>>

\* Whoever took stdin closes it.
SignalCloses(h) ==
    /\ pc[h] \in {"close", "killClose"}
    /\ ClosePipe(call[h].id)
    /\ Goto(h, IF pc[h] = "close" THEN "signal" ELSE "killSend")
    /\ UNCHANGED <<stdin, stdinWrite, kills, up, memory, mu, record, waiters, todo, cpc,
                   spoolFailed, disk, child, history>>

\* Fault: Signal records the outcome that collect is to find.
SignalSentRecords(h) ==
    /\ pc[h] = "signal"
    /\ LET c == call[h].id IN
        /\ Kill(c)
        /\ record' = [record EXCEPT ![c].state = "signaled"]
        /\ notifyLocked(c)
    /\ Return(h)
    /\ UNCHANGED <<stdio, control, up, memory, mu, todo, cpc, spoolFailed, disk, open, pipe,
                   produced, history>>

\* The signal is sent after state.mu is released; the child may ignore TERM, and
\* kill(2) may fail.
SignalSent(h) ==
    /\ pc[h] = "signal"
    /\ Kill(call[h].id) \/ UNCHANGED proc
    /\ Return(h)
    /\ UNCHANGED <<stdio, control, up, memory, mu, record, waiters, todo, cpc, spoolFailed,
                   disk, open, pipe, produced, history>>

\* KillAll lists the commands under m.mu ...
KillAll(h) ==
    /\ up = "up" /\ mu = None /\ pc[h] = "idle"
    /\ killing' = [killing EXCEPT ![h] = commands]
    /\ targets' = [targets EXCEPT ![h] = {c \in commands : record[c].state = "running"}]
    /\ Goto(h, "killAll")
    /\ UNCHANGED <<stdin, inPipe, stdinWrite, firstFailure, up, memory, mu, record, waiters,
                   todo, cpc, spoolFailed, disk, child, history>>

\* Fault: a command whose stdin is closed counts as not running.
KillNextOpen(h) ==
    /\ pc[h] = "killAll"
    /\ \E c \in killing[h] :
        \/ /\ record[c].state = "running" /\ stdin[c]
           /\ stdin' = [stdin EXCEPT ![c] = FALSE]
           /\ call' = [call EXCEPT ![h].id = c]
           /\ pc' = [pc EXCEPT ![h] = "killClose"]
           /\ UNCHANGED killing
        \/ /\ record[c].state # "running" \/ ~stdin[c]
           /\ killing' = [killing EXCEPT ![h] = @ \ {c}]
           /\ UNCHANGED <<stdin, pc, call>>
    /\ UNCHANGED <<inPipe, stdinWrite, firstFailure, targets, up, memory, mu, record,
                   waiters, todo, cpc, spoolFailed, disk, child, history>>

\* ... and signals them one by one; NOT_RUNNING is no failure.
KillNext(h) ==
    /\ pc[h] = "killAll"
    /\ \E c \in killing[h] :
        \/ /\ record[c].state = "running"
           /\ stdin' = [stdin EXCEPT ![c] = FALSE]
           /\ call' = [call EXCEPT ![h].id = c]
           /\ pc' = [pc EXCEPT ![h] = IF stdin[c] THEN "killClose" ELSE "killSend"]
           /\ UNCHANGED killing
        \/ /\ record[c].state # "running"
           /\ killing' = [killing EXCEPT ![h] = @ \ {c}]
           /\ UNCHANGED <<stdin, pc, call>>
    /\ UNCHANGED <<inPipe, stdinWrite, firstFailure, targets, up, memory, mu, record,
                   waiters, todo, cpc, spoolFailed, disk, child, history>>

\* SIGNAL_FAILED is kept for the answer, and the list gone on with.
KillSent(h) ==
    /\ pc[h] = "killSend"
    /\ \/ Kill(call[h].id) /\ UNCHANGED firstFailure
       \/ UNCHANGED proc /\ firstFailure' = [firstFailure EXCEPT ![h] = TRUE]
    /\ killing' = [killing EXCEPT ![h] = @ \ {call[h].id}]
    /\ Goto(h, "killAll")
    /\ UNCHANGED <<stdin, inPipe, stdinWrite, targets, up, memory, mu, record, waiters,
                   todo, cpc, spoolFailed, disk, open, pipe, produced, history>>

KillAllReturns(h) ==
    /\ pc[h] = "killAll"
    /\ killing[h] = {}
    /\ targets' = [targets EXCEPT ![h] = {}]
    /\ firstFailure' = [firstFailure EXCEPT ![h] = FALSE]
    /\ Return(h)
    /\ UNCHANGED <<stdin, inPipe, stdinWrite, killing, up, memory, mu, record, waiters,
                   todo, cpc, spoolFailed, disk, child, history>>

\* Stdin looks the command up, then waits for the writers before it.
Stdin(h) ==
    /\ up = "up" /\ mu = None /\ pc[h] = "idle"
    /\ \E c \in commands : call' = [call EXCEPT ![h].id = c]
    /\ pc' = [pc EXCEPT ![h] = "stdin"]
    /\ UNCHANGED <<stdio, control, up, memory, mu, record, waiters, todo, cpc, spoolFailed,
                   disk, child, history>>

\* state.stdinWrite is locked and state.stdin read, under state.mu.
StdinLocks(h) ==
    /\ pc[h] = "stdin"
    /\ LET c == call[h].id IN
        /\ stdinWrite[c] = None
        /\ \/ /\ record[c].state = "running" /\ stdin[c]
              /\ stdinWrite' = [stdinWrite EXCEPT ![c] = h]
              /\ Goto(h, "write")
           \/ /\ ~(record[c].state = "running" /\ stdin[c])
              /\ Return(h)
              /\ UNCHANGED stdinWrite
    /\ UNCHANGED <<stdin, inPipe, kills, up, memory, mu, record, waiters, todo, cpc,
                   spoolFailed, disk, child, history>>

WriteReturns(h) ==
    /\ stdinWrite' = [stdinWrite EXCEPT ![call[h].id] = None]
    /\ Return(h)
    /\ UNCHANGED <<stdin, inPipe, kills, up, memory, mu, record, waiters, todo, cpc,
                   spoolFailed, disk, child, history>>

\* The write ends when the bytes have been read, by the child or a descendant, or
\* none of them holds the other end any more ...
StdinRead(h) ==
    /\ pc[h] = "write"
    /\ inPipe[call[h].id]
    /\ WriteReturns(h)

\* ... or with an error, when the supervisor closes its own end.
StdinFails(h) ==
    /\ pc[h] = "write"
    /\ ~inPipe[call[h].id]
    /\ WriteReturns(h)

CloseStdin(h) ==
    /\ up = "up" /\ mu = None /\ pc[h] = "idle"
    /\ \E c \in commands :
        /\ stdin[c]
        /\ stdin' = [stdin EXCEPT ![c] = FALSE]
        /\ call' = [call EXCEPT ![h].id = c]
    /\ pc' = [pc EXCEPT ![h] = "closeStdin"]
    /\ UNCHANGED <<inPipe, stdinWrite, kills, up, memory, mu, record, waiters, todo, cpc,
                   spoolFailed, disk, child, history>>

\* Fault: the pipe is only forgotten.
CloseStdinForgets(h) ==
    /\ pc[h] = "closeStdin"
    /\ Return(h)
    /\ UNCHANGED <<stdio, control, up, memory, mu, record, waiters, todo, cpc, spoolFailed,
                   disk, child, history>>

CloseStdinCloses(h) ==
    /\ pc[h] = "closeStdin"
    /\ ClosePipe(call[h].id)
    /\ Return(h)
    /\ UNCHANGED <<stdin, stdinWrite, kills, up, memory, mu, record, waiters, todo, cpc,
                   spoolFailed, disk, child, history>>

----------------------------------------------------------------------------
\* The process ends.
Exit ==
    /\ Crash
    /\ stdinWrite' = [c \in IDs |-> None]
    /\ killing' = [h \in Handlers |-> {}] /\ targets' = [h \in Handlers |-> {}]
    /\ firstFailure' = [h \in Handlers |-> FALSE]

SignalStep(h) == SignalCloses(h) \/ SignalSent(h)

KillStep(h) == KillNext(h) \/ KillSent(h) \/ KillAllReturns(h)

StdinStep(h) == StdinLocks(h) \/ StdinFails(h)

\* An operation begins; those that answer at once change nothing here.
Begin(h) ==
    \/ (Start(h) \/ Wait(h)) /\ UNCHANGED control
    \/ Signal(h) \/ KillAll(h) \/ Stdin(h) \/ CloseStdin(h)

\* It goes on by itself.
HandlerStep(h) ==
    \/ (StartStep(h) \/ WaitStep(h)) /\ UNCHANGED control
    \/ SignalStep(h) \/ KillStep(h) \/ StdinStep(h) \/ CloseStdinCloses(h)

\* It goes on when the clock, the client or the child lets it.
HandlerReleased(h) ==
    \/ WaitGivesUp(h) /\ UNCHANGED control
    \/ StdinRead(h)

\* The manager with any number of clients, crashes and recoveries included.
ControlNext ==
    \/ \E h \in Handlers : Begin(h) \/ HandlerStep(h) \/ HandlerReleased(h)
    \/ /\ \/ NewManager \/ loadDone
          \/ \E c \in IDs :
              \/ CollectStep(c) \/ Status(c) \/ Connect(c) \/ loadEntry(c) \/ loadRefuses(c)
              \/ Output(c) \/ CloseOutput(c) \/ Die(c)
       /\ UNCHANGED control
    \/ Exit

ControlSpec == Init /\ ControlInit /\ [][ControlNext]_controlVars

----------------------------------------------------------------------------
(* To the records, the disk and the children, what clients do to a running *)
(* command is nothing: a child that is signalled might have died by        *)
(* itself.  The manager alone has no handlers at work on a signal or on    *)
(* stdin, and the pipe stays open until collect or a failed Start ends it. *)

Controlling ==
    {"close", "signal", "killAll", "killClose", "killSend", "stdin", "write", "closeStdin"}

\* A Start whose running record could not be persisted is about to kill the child.
Unpersisted(c) == \E h \in Handlers : pc[h] = "kill" /\ call[h].id = c

managerPc == [h \in Handlers |-> IF pc[h] \in Controlling THEN "idle" ELSE pc[h]]

managerCall ==
    [h \in Handlers |-> IF pc[h] \in {"idle"} \cup Controlling THEN NoCall ELSE call[h]]

\* It has no collect goroutine, yet or any more.
Uncollected(c) == cpc[c] \in {"none", "done"}

managerStdin == [c \in IDs |-> ~Uncollected(c)]

managerInPipe ==
    [c \in IDs |-> ~Uncollected(c) /\ (record[c].state = "running" \/ Unpersisted(c))]

Manager == INSTANCE CommandManager WITH
    pc <- managerPc, call <- managerCall, stdin <- managerStdin, inPipe <- managerInPipe

\* Signal, KillAll, Stdin and CloseStdin, in every interleaving with Start, Wait,
\* collect, crashes and recovery, do nothing to the records, the maps, the disk
\* and the waiters that the manager does not do without them.
ManagerSteps == [][Manager!Next]_(Manager!vars)

----------------------------------------------------------------------------
(* Safety.                                                                 *)

\* When KillAll has gone through its list and is to answer success, the group
\* leader of no command that was running when it began is still alive, whatever
\* else signals, finishes or starts meanwhile.
KillAllReaches ==
    \A h \in Handlers : pc[h] = "killAll" /\ killing[h] = {} /\ ~firstFailure[h] =>
        \A c \in targets[h] : proc[c] # "alive"
=============================================================================
