-------------------------------- MODULE Spool --------------------------------
(***************************************************************************)
(* One command's event spool: appendBoundedEvent and readEvents of         *)
(* apps/command-supervisor/internal/runtime/persistence.go.                *)
(*                                                                         *)
(* A segment file is a version header followed by records; it is named     *)
(* after the sequence number of its first record.  One goroutine appends   *)
(* and stops at the first error.  A crash or an error may hit between any  *)
(* two file operations and in the middle of a write.  Sizes are in         *)
(* abstract units.                                                         *)
(***************************************************************************)
EXTENDS Integers, SequencesExt

CONSTANTS
    HeaderBytes,   \* len(spoolVersionHeader)
    RecordSizes,   \* sizes of encoded events, record header included
    SegmentBytes,  \* spoolSegmentBytes
    Budget,
    MaxSeq         \* bound: events appended

ASSUME SpoolAssumption ==
    /\ HeaderBytes \in Nat \ {0}
    /\ RecordSizes \subseteq Nat \ {0}
    /\ SegmentBytes \in Nat /\ Budget \in Nat
    /\ \A n \in RecordSizes : HeaderBytes + n <= SegmentBytes
    /\ 2 * SegmentBytes <= Budget
    /\ MaxSeq \in Nat

VARIABLES
    segs,    \* the segment files in order: [first, last, size, header, partial]
    next,    \* sequence number of the next event
    op       \* the append in progress: [step, size, rotate]

vars == <<segs, next, op>>

Segments == [first : Nat, last : Nat, size : Nat, header : BOOLEAN, partial : Nat]
Idle == [step |-> "idle", size |-> 0, rotate |-> FALSE]

TypeOK ==
    /\ segs \in Seq(Segments)
    /\ next \in Nat
    /\ op \in [step : {"idle", "evict", "open", "write", "stopped"}, size : Nat, rotate : BOOLEAN]

Init == segs = <<>> /\ next = 1 /\ op = Idle

----------------------------------------------------------------------------
\* The sizes of some segment files together.
SizeOf(parts) ==
    LET sum[i \in 0 .. Len(parts)] == IF i = 0 THEN 0 ELSE sum[i - 1] + parts[i].size
    IN sum[Len(parts)]

total == SizeOf(segs)

payload == op.size + IF op.rotate THEN HeaderBytes ELSE 0

\* appendBoundedEvent up to the decision to rotate.
appendBoundedEvent(n) ==
    /\ op.step = "idle"
    /\ next <= MaxSeq
    /\ n + HeaderBytes <= Budget
    /\ LET rotate == \/ segs = <<>>
                     \/ Last(segs).size + n > SegmentBytes
                     \/ total + n > Budget
       IN op' = [step |-> IF rotate THEN "evict" ELSE "write", size |-> n, rotate |-> rotate]
    /\ UNCHANGED <<segs, next>>

\* Fault: the new segment's header is not counted.
NeedsRoomForRecord == total + op.size > Budget /\ segs # <<>>

NeedsRoom == total + payload > Budget /\ segs # <<>>

\* Whole old segments are removed until the append fits.
Evict ==
    /\ op.step = "evict" /\ NeedsRoom
    /\ segs' = Tail(segs)
    /\ UNCHANGED <<next, op>>

Evicted ==
    /\ op.step = "evict" /\ ~NeedsRoom
    /\ op' = [op EXCEPT !.step = "open"]
    /\ UNCHANGED <<segs, next>>

\* OpenFile with O_CREATE|O_EXCL: the file exists and is empty.
Create ==
    /\ op.step = "open"
    /\ segs' = Append(segs, [first |-> next, last |-> next - 1, size |-> 0, header |-> FALSE,
                             partial |-> 0])
    /\ op' = [op EXCEPT !.step = "write"]
    /\ UNCHANGED next

Written(seg) == [seg EXCEPT !.last = next, !.size = @ + payload, !.header = TRUE]

\* The write and the syncs succeed.
Write ==
    /\ op.step = "write"
    /\ segs' = [segs EXCEPT ![Len(segs)] = Written(@)]
    /\ next' = next + 1
    /\ op' = Idle

\* Fault: the writer goes on after an error.
InterruptContinues ==
    /\ op.step = "write" /\ ~op.rotate /\ op.size > 1
    /\ op' = Idle
    /\ segs' = [segs EXCEPT ![Len(segs)].size = @ + 1, ![Len(segs)].partial = @ + 1]
    /\ UNCHANGED next

\* A crash or an error interrupts the append: k bytes of the write are in the
\* file, possibly all of them.  Nothing is appended to this spool afterwards.
Interrupt ==
    /\ op.step \notin {"idle", "stopped"}
    /\ op' = [op EXCEPT !.step = "stopped"]
    /\ \/ UNCHANGED segs
       \/ /\ op.step = "write"
          /\ \E k \in 1 .. payload :
              LET seg == Last(segs)
                  torn == IF ~op.rotate THEN [seg EXCEPT !.size = @ + k, !.partial = k]
                          ELSE [seg EXCEPT !.size = k, !.header = k >= HeaderBytes,
                                           !.partial = IF k > HeaderBytes
                                                        THEN k - HeaderBytes ELSE 0]
              IN segs' = [segs EXCEPT ![Len(segs)] = IF k = payload THEN Written(seg) ELSE torn]
    /\ UNCHANGED next

\* The supervisor dies between two appends.
Stop ==
    /\ op.step = "idle"
    /\ op' = [op EXCEPT !.step = "stopped"]
    /\ UNCHANGED <<segs, next>>

Acceptable ==
    /\ \A i \in DOMAIN segs : segs[i].header
    /\ \A i \in DOMAIN segs : i < Len(segs) => segs[i].partial = 0
    /\ \A i \in DOMAIN segs : i > 1 /\ segs[i].first <= segs[i].last =>
        segs[i].first > segs[i - 1].last

\* A partial final record is cut off.
Truncate ==
    segs' = [i \in DOMAIN segs |->
                [segs[i] EXCEPT !.size = @ - segs[i].partial, !.partial = 0]]

\* readEvents, by Connect between two appends or by load after a crash.  It fails
\* and changes nothing when a segment is not acceptable.
readEvents ==
    /\ op.step \in {"idle", "stopped"}
    /\ \/ Acceptable /\ Truncate
       \/ ~Acceptable /\ UNCHANGED segs
    /\ UNCHANGED <<next, op>>

Next ==
    \/ \E n \in RecordSizes : appendBoundedEvent(n)
    \/ Evict \/ Evicted \/ Create \/ Write \/ Interrupt \/ Stop \/ readEvents

Spec == Init /\ [][Next]_vars

----------------------------------------------------------------------------
\* The files never exceed the budget, not even while a segment is being rotated
\* or after an interrupted write, and no segment exceeds its own size limit.
BudgetKept ==
    /\ total <= Budget
    /\ \A i \in DOMAIN segs : segs[i].size <= SegmentBytes

\* The events on disk are one unbroken run of sequence numbers that ends with
\* the newest event appended (or the one being appended): eviction, rotation and
\* interruption lose only the oldest, and never all of them.
NewestRetained ==
    /\ \A i \in DOMAIN segs : i > 1 => segs[i].first = segs[i - 1].last + 1
    /\ segs # <<>> => Last(segs).last \in {next - 1, next}
    /\ next > 1 => \E i \in DOMAIN segs : segs[i].header /\ segs[i].first <= segs[i].last

\* After every crash or failed append at every byte, readEvents accepts the files,
\* unless the newest one was caught before its version header was complete: the
\* partial record is always the last thing in the spool, for the writer stops at
\* its first error.
Recoverable == Acceptable \/ ~Last(segs).header

----------------------------------------------------------------------------
\* The spool as a log of events.
kept == UNION {segs[i].first .. segs[i].last : i \in DOMAIN segs}

newest == IF segs = <<>> THEN next - 1 ELSE Last(segs).last

\* Before the write a file without its header is an append in progress.
readable == op.step = "write" \/ Acceptable

halfRecord == segs # <<>> /\ Last(segs).partial > 0

\* How the log ends: "unreadable" is not a state of it.
ending ==
    CASE readable /\ ~halfRecord -> "no"
      [] readable /\ halfRecord -> "record"
      [] ~readable /\ ~Last(segs).header -> "header"
      [] ~readable /\ Last(segs).header -> "unreadable"

Log == INSTANCE EventLog WITH events <- kept, last <- newest, torn <- ending

\* Rotation, eviction, interruption at every byte and truncation are those of one
\* log: its events are one run that ends with the newest, what an error leaves is
\* either all of the event or nothing of it, and readEvents accepts it unless the
\* newest file was caught before its version header was complete.
ImplementsEventLog == Log!Spec
==============================================================================
