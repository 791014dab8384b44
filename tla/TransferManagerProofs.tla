----------------------- MODULE TransferManagerProofs -----------------------
(***************************************************************************)
(* The transfer manager's accounting, proved for any number of operations, *)
(* leases and callers and for any limits.                                  *)
(***************************************************************************)
EXTENDS TransferManager, FiniteSetTheorems, TLAPS

\* An operation is registered for one lease only.
OneLeasePerOp ==
    \A i, j \in LeaseIDs, op \in Ops : op \in active[i] /\ op \in active[j] => i = j

\* The inductive invariant.  The counters are cardinalities, so the sets they
\* count must be known to be finite, and finish takes an operation out of one
\* set only because no operation is in two.
Inv ==
    /\ TypeOK
    /\ OneLeasePerOp
    /\ IsFiniteSet(AllActive)
    /\ TransferAccounting
    /\ StoppedAreCancelled

\* Every lease's operations form a finite set when all of them do.
LEMMA ActiveFinite ==
    ASSUME Inv, NEW id \in LeaseIDs
    PROVE  IsFiniteSet(active[id])
<1>1. active[id] \subseteq AllActive
  BY DEF AllActive
<1> QED
  BY <1>1, FS_Subset DEF Inv

\* begin adds one operation to one lease and one to each counter; the guards
\* are the limits.
LEMMA BeginInv ==
    ASSUME Inv, NEW op \in Ops, NEW id \in LeaseIDs, NEW e \in Expiries,
           begin(op, id, e), UNCHANGED now
    PROVE  Inv'
<1> USE LimitsAssumption DEF Inv, begin, Register
<1>1. TypeOK'
  BY DEF TypeOK, TransferDeadline
<1>2. AllActive' = AllActive \cup {op}
  BY DEF AllActive, TypeOK
<1>3. op \notin active[id]
  BY DEF AllActive
<1>4. active'[id] = active[id] \cup {op} /\ \A j \in LeaseIDs : j # id => active'[j] = active[j]
  BY DEF TypeOK
<1>5. OneLeasePerOp'
  BY <1>4 DEF OneLeasePerOp, AllActive
<1>6. IsFiniteSet(AllActive') /\ Cardinality(AllActive') = Cardinality(AllActive) + 1
  BY <1>2, FS_AddElement
<1>7. Cardinality(active'[id]) = Cardinality(active[id]) + 1
  BY <1>3, <1>4, ActiveFinite, FS_AddElement
<1>8. TransferAccounting'
  BY <1>4, <1>6, <1>7 DEF TransferAccounting, TypeOK, LimitReached
<1>9. StoppedAreCancelled'
  BY <1>4 DEF StoppedAreCancelled
<1> QED
  BY <1>1, <1>5, <1>6, <1>8, <1>9

\* finish takes one operation out of one lease and one from each counter,
\* which are therefore positive before.
LEMMA FinishInv ==
    ASSUME Inv, NEW op \in Ops, NEW id \in LeaseIDs, finish(op, id), UNCHANGED now
    PROVE  Inv'
<1> USE DEF Inv, finish
<1>1. op \in AllActive /\ op \in active[id]
  BY DEF AllActive
<1>2. active'[id] = active[id] \ {op} /\ \A j \in LeaseIDs : j # id => active'[j] = active[j]
  BY DEF TypeOK
<1>a. \A j \in LeaseIDs : active'[j] = active[j] \ {op}
  <2>1. \A j \in LeaseIDs : j # id => op \notin active[j]
    BY <1>1 DEF OneLeasePerOp
  <2> QED
    BY <1>2, <2>1
<1>3. AllActive' = AllActive \ {op}
  BY <1>a DEF AllActive
<1>4. /\ IsFiniteSet(AllActive') /\ Cardinality(AllActive') = Cardinality(AllActive) - 1
      /\ Cardinality(AllActive) \in Nat /\ Cardinality(AllActive') \in Nat
  BY <1>1, <1>3, FS_RemoveElement, FS_CardinalityType
<1>5. /\ Cardinality(active'[id]) = Cardinality(active[id]) - 1
      /\ Cardinality(active[id]) \in Nat /\ Cardinality(active'[id]) \in Nat
  <2>1. IsFiniteSet(active[id])
    BY ActiveFinite
  <2> QED
    BY <2>1, <1>1, <1>2, FS_RemoveElement, FS_CardinalityType
<1>6. global' \in Nat /\ perLease' \in [LeaseIDs -> Nat]
  BY <1>4, <1>5 DEF TransferAccounting, TypeOK
<1>7. TypeOK'
  BY <1>6 DEF TypeOK
<1>8. OneLeasePerOp'
  BY <1>2 DEF OneLeasePerOp
<1>9. TransferAccounting'
  BY LimitsAssumption, <1>2, <1>4, <1>5 DEF TransferAccounting, TypeOK
<1>10. StoppedAreCancelled'
  BY <1>a DEF StoppedAreCancelled
<1> QED
  BY <1>4, <1>7, <1>8, <1>9, <1>10

\* stopLease, waitAborted, cancel and close change no registration; the first and
\* the last cancel what they stop.
LEMMA StopInv ==
    ASSUME Inv, UNCHANGED now,
           \/ \E c \in Callers, id \in LeaseIDs : stopLease(c, id)
           \/ \E c \in Callers : waitAborted(c)
           \/ \E op \in Ops : cancel(op)
           \/ close
    PROVE  Inv'
<1>1. UNCHANGED <<active, global, perLease>>
  BY DEF stopLease, waitAborted, cancel, close
<1>2. AllActive' = AllActive
  BY <1>1 DEF AllActive
<1>3. TypeOK'
  BY DEF Inv, TypeOK, stopLease, waitAborted, cancel, close, AllActive
<1>4. OneLeasePerOp' /\ IsFiniteSet(AllActive)' /\ TransferAccounting'
  BY <1>1, <1>2 DEF Inv, OneLeasePerOp, TransferAccounting
<1>5. StoppedAreCancelled'
  BY DEF Inv, StoppedAreCancelled, stopLease, waitAborted, cancel, close, AllActive
<1> QED
  BY <1>3, <1>4, <1>5 DEF Inv

\* The counters equal the numbers of registered transfers and stay within both
\* limits, and whatever stopLease or close stopped is cancelled, in every
\* behaviour of the manager (transfer.go: begin, finish, stopLease, close).
THEOREM ManagerInvariant == Spec => []Inv
<1>1. Init => Inv
  <2> SUFFICES ASSUME Init PROVE Inv
    OBVIOUS
  <2>1. AllActive = {}
    BY DEF Init, newTransferManager, AllActive
  <2>2. Cardinality({}) = 0 /\ IsFiniteSet({})
    BY FS_EmptySet
  <2>3. TypeOK /\ OneLeasePerOp /\ StoppedAreCancelled
    BY DEF Init, newTransferManager, TypeOK, OneLeasePerOp, StoppedAreCancelled
  <2>4. TransferAccounting
    BY LimitsAssumption, <2>1, <2>2 DEF Init, newTransferManager, TransferAccounting
  <2> QED
    BY <2>1, <2>2, <2>3, <2>4 DEF Inv
<1>2. Inv /\ [Next]_vars => Inv'
  <2> SUFFICES ASSUME Inv, [Next]_vars PROVE Inv'
    OBVIOUS
  <2>1. CASE UNCHANGED tvars /\ (Tick \/ UNCHANGED now)
    BY <2>1 DEF Inv, TypeOK, OneLeasePerOp, TransferAccounting, StoppedAreCancelled,
                AllActive, tvars, Tick
  <2>2. CASE restart /\ UNCHANGED now
    <3>1. AllActive' = {}
      BY <2>2 DEF restart, AllActive
    <3>2. Cardinality({}) = 0 /\ IsFiniteSet({})
      BY FS_EmptySet
    <3>3. TypeOK' /\ OneLeasePerOp' /\ StoppedAreCancelled'
      BY <2>2 DEF Inv, restart, TypeOK, OneLeasePerOp, StoppedAreCancelled
    <3>4. TransferAccounting'
      BY LimitsAssumption, <2>2, <3>1, <3>2 DEF restart, TransferAccounting
    <3> QED
      BY <3>1, <3>2, <3>3, <3>4 DEF Inv
  <2>3. ASSUME NEW op \in Ops, NEW id \in LeaseIDs, NEW e \in Expiries,
               begin(op, id, e), UNCHANGED now
        PROVE  Inv'
    BY <2>3, BeginInv
  <2>4. ASSUME NEW op \in Ops, NEW id \in LeaseIDs, finish(op, id), UNCHANGED now
        PROVE  Inv'
    BY <2>4, FinishInv
  <2>5. CASE /\ UNCHANGED now
             /\ \/ \E c \in Callers, id \in LeaseIDs : stopLease(c, id)
                \/ \E c \in Callers : waitAborted(c)
                \/ \E op \in Ops : cancel(op)
                \/ close
    BY <2>5, StopInv
  <2> QED
    BY <2>1, <2>2, <2>3, <2>4, <2>5 DEF Next, vars, Tick, beginRefused
<1> QED
  BY <1>1, <1>2, PTL DEF Spec

\* The accounting property on its own, as the model-checking run states it.
THEOREM TransferLimits == Spec => []TransferAccounting
<1>1. Inv => TransferAccounting
  BY DEF Inv
<1> QED
  BY <1>1, ManagerInvariant, PTL

\* What was stopped is cancelled, as the model-checking run states it.
THEOREM StopCancels == Spec => []StoppedAreCancelled
<1>1. Inv => StoppedAreCancelled
  BY DEF Inv
<1> QED
  BY <1>1, ManagerInvariant, PTL
=============================================================================
