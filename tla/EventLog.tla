------------------------------- MODULE EventLog -------------------------------
(***************************************************************************)
(* What a command's spool promises, whatever its segment files do          *)
(* (appendBoundedEvent and readEvents of                                   *)
(* apps/command-supervisor/internal/runtime/persistence.go): events are    *)
(* numbered without a gap, a full log forgets its oldest events and never  *)
(* its newest, and an append that is cut short costs at most the event it  *)
(* was writing.                                                            *)
(***************************************************************************)
EXTENDS Integers

VARIABLES
    events,   \* the sequence numbers of the events that are kept
    last,     \* the newest one, 0 before the first
    torn      \* what an interrupted append left at the end: no, record, header

vars == <<events, last, torn>>

Init == events = {} /\ last = 0 /\ torn = "no"

\* An event is kept; its writer may have died, or have seen an error, all the same.
Append ==
    /\ torn = "no"
    /\ last' = last + 1
    /\ events' = events \cup {last'}
    /\ UNCHANGED torn

\* An event is lost half way, and with it the right to append.
Interrupted ==
    /\ torn = "no"
    /\ torn' \in {"record", "header"}
    /\ UNCHANGED <<events, last>>

\* Room is made: the events from some n on are left.
Drop ==
    /\ torn = "no"
    /\ \E n \in events : events' = {m \in events : m >= n}
    /\ UNCHANGED <<last, torn>>

\* A reader cuts half a record off.  A file without its header is not readable again.
Read ==
    /\ torn = "record"
    /\ torn' = "no"
    /\ UNCHANGED <<events, last>>

Next == Append \/ Interrupted \/ Drop \/ Read

Spec == Init /\ [][Next]_vars
===============================================================================
