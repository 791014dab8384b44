----------------------- MODULE SupervisorServerProofs -----------------------
(***************************************************************************)
(* Proofs about CommandControl and SupervisorServer, for every number of   *)
(* clients, slots, commands and requestIds.                                *)
(*                                                                         *)
(* CommandControl implements CommandManager: what clients do to a running  *)
(* command is invisible in the records, the maps, the disk and the         *)
(* waiters.  The theorems about the manager alone then hold of it, and     *)
(* tell what a KillAll may rely on: a record becomes terminal only when    *)
(* the child has ended.  The server does to the manager nothing that its   *)
(* clients do not do, so all of it holds behind the socket as well.        *)
(*                                                                         *)
(* A connection changes the number of slots in use and the set of          *)
(* connections served together.                                            *)
(***************************************************************************)
EXTENDS SupervisorServer, FiniteSetTheorems, TLAPS

----------------------------------------------------------------------------
(* The manager under its clients.                                          *)

\* The theorems about the manager alone, for the manager its clients signal.
M == INSTANCE CommandManagerProofs WITH
    pc <- managerPc, call <- managerCall, stdin <- managerStdin, inPipe <- managerInPipe

Labels == M!HandlerPCs \cup Controlling

\* What a handler does when it signals, kills or writes is its own business.  What
\* the manager must know is that a handler at rest has no call, that nobody is at
\* work in a supervisor that is not up, and that a child whose running record could
\* not be persisted is in one handler's hands.
AtRest ==
    /\ pc \in [Handlers -> Labels]
    /\ call \in [Handlers -> M!Calls]
    /\ \A h \in Handlers : pc[h] = "idle" => call[h] = NoCall
    /\ up # "up" => \A h \in Handlers : pc[h] = "idle"

KillersInv ==
    \A h \in Handlers : pc[h] = "kill" =>
        /\ record[call[h].id].state # "running"
        /\ \A g \in Handlers \ {h} : pc[g] \in {"kill"} \cup M!Starting =>
            call[g].id # call[h].id

HandlersInv == AtRest /\ KillersInv

LEMMA Instance == M!ManagerAssumption
BY ManagerAssumption DEF M!ManagerAssumption

\* A handler that stays within the manager is seen to move as it does.
LEMMA BarGoto ==
    ASSUME AtRest, NEW h \in Handlers, NEW label, Goto(h, label),
           pc[h] \notin {"idle"} \cup Controlling, label \notin {"idle"} \cup Controlling
    PROVE  M!Goto(h, label)
BY DEF AtRest, Goto, M!Goto, managerPc, managerCall

LEMMA BarReturn ==
    ASSUME AtRest, NEW h \in Handlers, Return(h)
    PROVE  M!Return(h)
BY DEF AtRest, Return, M!Return, managerPc, managerCall, NoCall, M!NoCall

LEMMA BarCall ==
    ASSUME AtRest, NEW h \in Handlers, NEW label, NEW rec,
           pc[h] \notin Controlling, label \notin {"idle"} \cup Controlling,
           pc' = [pc EXCEPT ![h] = label], call' = [call EXCEPT ![h] = rec]
    PROVE  /\ managerPc' = [managerPc EXCEPT ![h] = label]
           /\ managerCall' = [managerCall EXCEPT ![h] = rec]
BY DEF AtRest, managerPc, managerCall

\* What is seen of a handler that stays outside of it is that it rests.
LEMMA BarRest ==
    ASSUME AtRest, NEW h \in Handlers, NEW label \in {"idle"} \cup Controlling,
           pc[h] \in {"idle"} \cup Controlling, pc' = [pc EXCEPT ![h] = label],
           \A g \in Handlers \ {h} : call'[g] = call[g]
    PROVE  UNCHANGED <<managerPc, managerCall>>
BY DEF AtRest, managerPc, managerCall, Controlling

LEMMA BarHandler ==
    ASSUME AtRest, NEW h \in Handlers
    PROVE  /\ managerPc[h] = IF pc[h] \in Controlling THEN "idle" ELSE pc[h]
           /\ pc[h] \notin Controlling => managerCall[h] = call[h]
BY DEF AtRest, managerPc, managerCall

LEMMA BarStdio ==
    ASSUME \A c \in IDs : Uncollected(c)' <=> Uncollected(c),
           \A c \in IDs : \/ Uncollected(c)
                          \/ (record'[c].state = "running") <=> (record[c].state = "running"),
           \A h \in Handlers : (pc'[h] = "kill") <=> (pc[h] = "kill"),
           \A h \in Handlers : pc[h] = "kill" => call'[h].id = call[h].id
    PROVE  UNCHANGED <<managerStdin, managerInPipe>>
<1>1. \A c \in IDs : Unpersisted(c)' <=> Unpersisted(c)
  BY DEF Unpersisted
<1>2. ASSUME NEW c \in IDs
      PROVE  (~Uncollected(c)' /\ (record'[c].state = "running" \/ Unpersisted(c)'))
             <=> (~Uncollected(c) /\ (record[c].state = "running" \/ Unpersisted(c)))
  BY <1>1
<1>3. managerInPipe' = managerInPipe
  BY <1>2 DEF managerInPipe
<1>4. managerStdin' = managerStdin
  BY DEF managerStdin
<1> QED
  BY <1>3, <1>4

----------------------------------------------------------------------------
(* Every step of the manager is the step it is without its clients.        *)

LEMMA CardinalityOf == \A S : M!Cardinality(S) = Cardinality(S)
BY DEF M!Cardinality, Cardinality, M!IsFiniteSet, IsFiniteSet

\* The pipe of a child that runs is open, whether or not the record says so.
LEMMA BarPersistRunning ==
    ASSUME AtRest, M!IInv, NEW h \in Handlers, NEW c, c = call[h].id, PersistRunning(h)
    PROVE  M!PersistRunning(h)
<1> DEFINE started == [record[c] EXCEPT !.state = "running"]
<1> USE DEF memory, disk, child, stdio, history, M!memory, M!disk, M!child, M!stdio, M!history
<1>a. M!Types /\ M!Ownership /\ pc[h] = "running"
  BY Instance, M!TypesAre DEF M!IInv, PersistRunning
<1>b. managerPc[h] = pc[h] /\ managerCall[h] = call[h]
  BY <1>a, BarHandler DEF Controlling
<1>1. cpc[c] = "none" /\ c \in IDs /\ record \in [IDs -> M!Records] /\ pc[h] = "running"
  BY <1>a, <1>b DEF M!Ownership, M!Owned, M!Starting, M!Types
<1>2. \/ /\ Persisted(c, started)
         /\ record' = [record EXCEPT ![c] = started]
         /\ notifyLocked(c)
         /\ Return(h)
      \/ /\ PersistFails(c, started)
         /\ Goto(h, "kill")
         /\ UNCHANGED <<record, waiters>>
  BY DEF PersistRunning
<1>3. cpc' = [cpc EXCEPT ![c] = "collect"] /\ cpc \in [IDs -> M!Collecting \cup {"none", "done"}]
  BY <1>a DEF PersistRunning, M!Types, M!Collecting
<1>c. \A d \in IDs : ~Uncollected(d)' <=> (d = c \/ ~Uncollected(d))
  BY <1>1, <1>3 DEF Uncollected
<1>4. managerStdin' = [managerStdin EXCEPT ![c] = TRUE]
  BY <1>c DEF managerStdin
<1>5. \A d \in IDs \ {c} : record'[d] = record[d]
  BY <1>1, <1>2
<1>6. \A d \in IDs \ {c} : Unpersisted(d)' <=> Unpersisted(d)
  BY <1>1, <1>2 DEF Unpersisted, Return, Goto, AtRest
<1>7. record'[c].state = "running" \/ Unpersisted(c)'
  <2>1. CASE Goto(h, "kill")
    BY <2>1 DEF Goto, AtRest, Unpersisted
  <2>2. CASE record' = [record EXCEPT ![c] = started]
    BY <1>1, <2>2 DEF M!Records
  <2> QED
    BY <1>2, <2>1, <2>2
<1>8. managerInPipe' = [managerInPipe EXCEPT ![c] = TRUE]
  <2>2. ASSUME NEW d \in IDs
        PROVE  (~Uncollected(d)' /\ (record'[d].state = "running" \/ Unpersisted(d)'))
               <=> (d = c \/ (~Uncollected(d) /\ (record[d].state = "running" \/ Unpersisted(d))))
    BY <1>c, <1>5, <1>6, <1>7
  <2> QED
    BY <2>2 DEF managerInPipe
<1>9. (Return(h) => M!Return(h)) /\ (Goto(h, "kill") => M!Goto(h, "kill"))
  BY <1>1, BarReturn, BarGoto DEF Controlling
<1> QED
  BY <1>b, <1>2, <1>4, <1>8, <1>9 DEF PersistRunning, M!PersistRunning, Persisted,
     M!Persisted, PersistFails, M!PersistFails, notifyLocked, M!notifyLocked

LEMMA BarKillUnpersisted ==
    ASSUME HandlersInv, NEW h \in Handlers, NEW c, c = call[h].id, KillUnpersisted(h)
    PROVE  M!KillUnpersisted(h)
<1> USE DEF memory, disk, child, stdio, history, M!memory, M!disk, M!child, M!stdio, M!history
<1>b. managerPc[h] = pc[h] /\ managerCall[h] = call[h]
  BY BarHandler DEF HandlersInv, KillUnpersisted, Controlling
<1>1. pc[h] = "kill" /\ UNCHANGED <<cpc, record>> /\ Return(h)
  BY DEF KillUnpersisted
<1>2. M!Return(h) /\ UNCHANGED managerStdin /\ \A d \in IDs : Uncollected(d)' <=> Uncollected(d)
  BY <1>1, BarReturn DEF HandlersInv, managerStdin, Uncollected
<1>3. ~Unpersisted(c)' /\ \A d \in IDs \ {c} : Unpersisted(d)' <=> Unpersisted(d)
  <2>1. /\ pc'[h] = "idle"
        /\ \A g \in Handlers \ {h} : pc'[g] = pc[g] /\ call'[g] = call[g]
                                     /\ (pc[g] = "kill" => call[g].id # c)
    BY <1>1 DEF Return, HandlersInv, AtRest, KillersInv
  <2> QED
    BY <1>1, <2>1 DEF Unpersisted
<1>4. record[c].state # "running"
  BY <1>1 DEF HandlersInv, KillersInv
<1>5. managerInPipe' = [managerInPipe EXCEPT ![c] = FALSE]
  <2>1. ASSUME NEW d \in IDs
        PROVE  (~Uncollected(d)' /\ (record'[d].state = "running" \/ Unpersisted(d)'))
               <=> (d # c /\ ~Uncollected(d) /\ (record[d].state = "running" \/ Unpersisted(d)))
    BY <1>1, <1>2, <1>3, <1>4
  <2> QED
    BY <2>1 DEF managerInPipe
<1> QED
  BY <1>b, <1>2, <1>5 DEF KillUnpersisted, M!KillUnpersisted, ClosePipe,
     M!ClosePipe, Kill, M!Kill

LEMMA BarStart ==
    ASSUME HandlersInv, M!IInv, NEW h \in Handlers, Start(h) \/ StartStep(h)
    PROVE  M!Start(h) \/ M!StartStep(h)
<1>0. AtRest
  BY DEF HandlersInv
<1> USE <1>0
<1> DEFINE c == call[h].id
<1>1. managerPc[h] = pc[h] /\ managerCall[h] = call[h] /\ pc[h] \notin Controlling
  BY BarHandler DEF Start, StartStep, StartReplay, StartLimit, StartNew, Mkdir, PersistStarting,
     PersistStartingFails, Spawn, startFailed, PersistRunning, KillUnpersisted, Controlling
<1>2. M!Unused /\ M!Ownership /\ M!Types
  BY Instance, M!TypesAre DEF M!IInv
<1>3. pc[h] \in M!Starting => c \in IDs /\ cpc[c] = "none"
  BY <1>1, <1>2 DEF M!Ownership, M!Owned
<1>4. ASSUME UNCHANGED cpc, pc[h] # "kill", pc'[h] # "kill",
             \A g \in Handlers \ {h} : pc'[g] = pc[g] /\ call'[g] = call[g],
             \A d \in IDs : cpc[d] # "none" => record'[d] = record[d]
      PROVE  UNCHANGED <<managerStdin, managerInPipe>>
  BY <1>4, BarStdio DEF Uncollected
<1>5. ASSUME Return(h)
      PROVE  pc'[h] # "kill" /\ \A g \in Handlers \ {h} : pc'[g] = pc[g] /\ call'[g] = call[g]
  BY <1>5 DEF Return, AtRest
<1>6. ASSUME NEW label, label # "kill", Goto(h, label)
      PROVE  pc'[h] # "kill" /\ \A g \in Handlers \ {h} : pc'[g] = pc[g] /\ call'[g] = call[g]
  BY <1>6 DEF Goto, AtRest
<1> USE <1>1 DEF memory, disk, child, stdio, history, M!memory, M!disk, M!child, M!stdio, M!history
<1>a. CASE Start(h)
  <2>1. PICK r \in Reqs, s \in Specs :
            call' = [call EXCEPT ![h] = [req |-> r, spec |-> s, id |-> None]]
    BY <1>a DEF Start
  <2>2. /\ managerPc' = [managerPc EXCEPT ![h] = "start"]
        /\ managerCall' = [managerCall EXCEPT ![h] = [req |-> r, spec |-> s, id |-> None]]
    BY <1>a, <2>1, BarCall DEF Start, Controlling
  <2>3. UNCHANGED <<managerStdin, managerInPipe>>
    BY <1>a, <1>4, <2>1 DEF Start, AtRest
  <2> QED
    BY <1>a, <2>2, <2>3 DEF Start, M!Start
<1>b. CASE StartReplay(h)
  <2>1. M!Return(h) /\ UNCHANGED <<managerStdin, managerInPipe>>
    BY <1>b, <1>4, <1>5, BarReturn DEF StartReplay
  <2> QED
    BY <1>b, <2>1 DEF StartReplay, M!StartStep, M!StartReplay, Report, M!Report, Terminal,
       M!Terminal
<1>c. CASE StartLimit(h)
  <2>1. M!Return(h) /\ UNCHANGED <<managerStdin, managerInPipe>>
    BY <1>c, <1>4, <1>5, BarReturn DEF StartLimit
  <2> QED
    BY <1>c, <2>1, CardinalityOf DEF StartLimit, M!StartStep, M!StartLimit
<1>d. CASE StartNew(h)
  <2>1. PICK d \in IDs :
        /\ reqOf[d] = None
        /\ mu' = h
        /\ commands' = commands \cup {d}
        /\ requests' = [requests EXCEPT ![call[h].req] = d]
        /\ record' = [record EXCEPT ![d] = Fresh]
        /\ reqOf' = [reqOf EXCEPT ![d] = call[h].req]
        /\ specOf' = [specOf EXCEPT ![d] = call[h].spec]
        /\ call' = [call EXCEPT ![h] = [call[h] EXCEPT !.id = d]]
    BY <1>d DEF StartNew
  <2>2. /\ managerPc' = [managerPc EXCEPT ![h] = "mkdir"]
        /\ managerCall' = [managerCall EXCEPT ![h] = [call[h] EXCEPT !.id = d]]
    <3> DEFINE rec == [call[h] EXCEPT !.id = d]
    <3>1. call' = [call EXCEPT ![h] = rec] /\ pc' = [pc EXCEPT ![h] = "mkdir"]
      BY <1>d, <2>1 DEF StartNew
    <3> HIDE DEF rec
    <3>2. managerPc' = [managerPc EXCEPT ![h] = "mkdir"] /\
          managerCall' = [managerCall EXCEPT ![h] = rec]
      BY <3>1, BarCall DEF Controlling
    <3> QED
      BY <3>2 DEF rec
  <2>3. cpc[d] = "none" /\ record \in [IDs -> M!Records]
    BY <1>2, <2>1 DEF M!Unused, M!Types
  <2>4. UNCHANGED <<managerStdin, managerInPipe>>
    BY <1>d, <1>4, <2>1, <2>3 DEF StartNew, AtRest
  <2>5. managerCall' = [managerCall EXCEPT ![h].id = d]
    BY <2>2
  <2> QED
    BY <1>d, <2>1, <2>2, <2>4, <2>5, CardinalityOf DEF StartNew, M!StartStep, M!StartNew, Fresh,
       M!Fresh
<1>e. CASE Mkdir(h)
  <2>1. M!Goto(h, "persist") /\ UNCHANGED <<managerStdin, managerInPipe>>
    BY <1>e, <1>4, <1>6, BarGoto DEF Mkdir, Controlling
  <2> QED
    BY <1>e, <2>1 DEF Mkdir, M!StartStep, M!Mkdir
<1>f. CASE PersistStarting(h)
  <2>1. M!Goto(h, "spawn") /\ UNCHANGED <<managerStdin, managerInPipe>>
    BY <1>f, <1>4, <1>6, BarGoto DEF PersistStarting, Controlling
  <2> QED
    BY <1>f, <2>1 DEF PersistStarting, M!StartStep, M!PersistStarting, Persisted, M!Persisted,
       Fresh, M!Fresh
<1>g. CASE PersistStartingFails(h)
  <2>1. M!Return(h) /\ UNCHANGED <<managerStdin, managerInPipe>>
    BY <1>g, <1>4, <1>5, BarReturn DEF PersistStartingFails
  <2> QED
    BY <1>g, <2>1 DEF PersistStartingFails, M!StartStep, M!PersistStartingFails, PersistFails,
       M!PersistFails, Fresh, M!Fresh
<1>h. CASE Spawn(h)
  <2>1. /\ Goto(h, "running") => M!Goto(h, "running")
        /\ Goto(h, "lost") => M!Goto(h, "lost")
    BY <1>h, BarGoto DEF Spawn, Controlling
  <2>2. UNCHANGED <<managerStdin, managerInPipe>>
    BY <1>h, <1>4, <1>6 DEF Spawn
  <2> QED
    BY <1>h, <2>1, <2>2 DEF Spawn, M!StartStep, M!Spawn
<1>i. CASE startFailed(h)
  <2>1. cpc[c] = "none" /\ c \in IDs /\ record \in [IDs -> M!Records]
    BY <1>i, <1>2, <1>3 DEF startFailed, M!Starting, M!Types
  <2>2. \A d \in IDs : cpc[d] # "none" => record'[d] = record[d]
    BY <1>i, <2>1 DEF startFailed
  <2>3. M!Return(h) /\ UNCHANGED <<managerStdin, managerInPipe>>
    BY <1>i, <1>4, <1>5, <2>2, BarReturn DEF startFailed
  <2> QED
    BY <1>i, <2>3 DEF startFailed, M!StartStep, M!startFailed, Persisted, M!Persisted,
       PersistFails, M!PersistFails, notifyLocked, M!notifyLocked
<1>j. CASE PersistRunning(h)
  BY <1>j, BarPersistRunning DEF M!StartStep
<1>k. CASE KillUnpersisted(h)
  BY <1>k, BarKillUnpersisted DEF M!StartStep
<1> QED
  BY <1>a, <1>b, <1>c, <1>d, <1>e, <1>f, <1>g, <1>h, <1>i, <1>j, <1>k DEF StartStep

LEMMA BarWait ==
    ASSUME AtRest, NEW h \in Handlers, Wait(h) \/ WaitStep(h) \/ WaitGivesUp(h)
    PROVE  M!Wait(h) \/ M!WaitStep(h) \/ M!WaitGivesUp(h)
<1>1. managerPc[h] = pc[h] /\ managerCall[h] = call[h] /\ pc[h] \notin Controlling
  BY BarHandler DEF Wait, WaitStep, WaitGivesUp, WaitRead, WaitWakes, Controlling
<1>2. /\ UNCHANGED <<cpc, record>>
      /\ pc[h] # "kill" /\ pc'[h] # "kill"
      /\ \A g \in Handlers \ {h} : pc'[g] = pc[g] /\ call'[g] = call[g]
  BY DEF Wait, WaitStep, WaitGivesUp, WaitRead, WaitWakes, Goto, Return, AtRest
<1>3. UNCHANGED <<managerStdin, managerInPipe>>
  BY <1>2, BarStdio DEF Uncollected
<1> USE <1>1, <1>3
    DEF memory, disk, child, stdio, history, M!memory, M!disk, M!child, M!stdio, M!history
<1>a. CASE Wait(h)
  <2>1. PICK c \in commands : call' = [call EXCEPT ![h] = [call[h] EXCEPT !.id = c]]
    BY <1>a DEF Wait
  <2> DEFINE rec == [call[h] EXCEPT !.id = c]
  <2>2. call' = [call EXCEPT ![h] = rec] /\ pc' = [pc EXCEPT ![h] = "read"]
    BY <1>a, <2>1 DEF Wait
  <2> HIDE DEF rec
  <2>3. managerPc' = [managerPc EXCEPT ![h] = "read"] /\
        managerCall' = [managerCall EXCEPT ![h] = rec]
    BY <2>2, BarCall DEF Controlling
  <2>4. managerCall' = [managerCall EXCEPT ![h].id = c]
    BY <2>3 DEF rec
  <2> QED
    BY <1>a, <2>3, <2>4 DEF Wait, M!Wait
<1>c. CASE WaitRead(h)
  <2>1. (Return(h) => M!Return(h)) /\ (Goto(h, "blocked") => M!Goto(h, "blocked"))
    BY <1>c, BarReturn, BarGoto DEF WaitRead, Controlling
  <2> QED
    BY <1>c, <2>1 DEF WaitRead, M!WaitStep, M!WaitRead, Report, M!Report, Terminal, M!Terminal
<1>d. CASE WaitWakes(h)
  <2>1. (Return(h) => M!Return(h)) /\ (Goto(h, "read") => M!Goto(h, "read"))
    BY <1>d, BarReturn, BarGoto DEF WaitWakes, Controlling
  <2> QED
    BY <1>d, <2>1 DEF WaitWakes, M!WaitStep, M!WaitWakes
<1>e. CASE WaitGivesUp(h)
  <2>1. M!Return(h)
    BY <1>e, BarReturn DEF WaitGivesUp
  <2> QED
    BY <1>e, <2>1 DEF WaitGivesUp, M!WaitGivesUp
<1> QED
  BY <1>a, <1>c, <1>d, <1>e DEF WaitStep

\* Steps that no handler takes.
LEMMA BarHandlers ==
    ASSUME UNCHANGED <<pc, call>>
    PROVE  UNCHANGED <<managerPc, managerCall>> /\ \A c \in IDs : Unpersisted(c)' <=> Unpersisted(c)
BY DEF managerPc, managerCall, Unpersisted

LEMMA BarCollect ==
    ASSUME M!IInv, NEW c \in IDs, CollectStep(c)
    PROVE  M!CollectStep(c)
<1>1. M!Types
  BY Instance, M!TypesAre DEF M!IInv
<1>2. record \in [IDs -> M!Records] /\ cpc \in [IDs -> M!Collecting \cup {"none", "done"}]
  BY <1>1 DEF M!Types, M!Collecting
<1>3. UNCHANGED <<pc, call>>
  BY DEF CollectStep, Chunk, AppendEvent, AppendFails, Advance, Finish, FinishRest
<1>4. UNCHANGED <<managerPc, managerCall>>
  BY <1>3, BarHandlers
<1>5. ASSUME NEW label \in M!Collecting, cpc[c] \in M!Collecting, cpc' = [cpc EXCEPT ![c] = label],
             \A d \in IDs : record'[d].state = record[d].state
      PROVE  UNCHANGED <<managerStdin, managerInPipe>>
  BY <1>2, <1>3, <1>5, BarStdio DEF Uncollected, M!Collecting
<1> USE <1>4
    DEF memory, disk, child, stdio, history, M!memory, M!disk, M!child, M!stdio, M!history,
        M!CollectStep
<1>a. CASE Chunk(c)
  <2>1. cpc' = [cpc EXCEPT ![c] = "collect"] \/ cpc' = [cpc EXCEPT ![c] = "append"]
    BY <1>a, <1>2 DEF Chunk
  <2>2. UNCHANGED <<managerStdin, managerInPipe>>
    BY <1>a, <1>5, <2>1 DEF Chunk, M!Collecting
  <2> QED
    BY <1>a, <2>2 DEF Chunk, M!Chunk
<1>b. CASE AppendEvent(c)
  <2>1. UNCHANGED <<managerStdin, managerInPipe>>
    BY <1>b, <1>5 DEF AppendEvent, M!Collecting
  <2> QED
    BY <1>b, <2>1 DEF AppendEvent, M!AppendEvent
<1>c. CASE AppendFails(c)
  <2>1. UNCHANGED <<managerStdin, managerInPipe>>
    BY <1>c, <1>5 DEF AppendFails, M!Collecting
  <2> QED
    BY <1>c, <2>1 DEF AppendFails, M!AppendFails, Interrupted, M!Interrupted, Kill, M!Kill
<1>d. CASE Advance(c)
  <2>1. \A d \in IDs : record'[d].state = record[d].state
    BY <1>d, <1>2 DEF Advance, M!Records
  <2>2. UNCHANGED <<managerStdin, managerInPipe>>
    BY <1>d, <1>5, <2>1 DEF Advance, M!Collecting
  <2> QED
    BY <1>d, <2>2 DEF Advance, M!Advance, Persisted, M!Persisted, PersistFails, M!PersistFails,
       notifyLocked, M!notifyLocked, Kill, M!Kill
<1>e. CASE Finish(c)
  <2>1. /\ cpc' = [cpc EXCEPT ![c] = "done"]
        /\ \A d \in IDs \ {c} : record'[d] = record[d]
    BY <1>e, <1>2 DEF Finish
  <2>2. \A d \in IDs : ~Uncollected(d)' <=> (d # c /\ ~Uncollected(d))
    BY <1>2, <2>1 DEF Uncollected
  <2>3. managerStdin' = [managerStdin EXCEPT ![c] = FALSE]
    BY <2>2 DEF managerStdin
  <2>4. ASSUME NEW d \in IDs
        PROVE  (~Uncollected(d)' /\ (record'[d].state = "running" \/ Unpersisted(d)'))
               <=> (d # c /\ ~Uncollected(d) /\ (record[d].state = "running" \/ Unpersisted(d)))
    BY <1>3, BarHandlers, <2>1, <2>2
  <2>5. managerInPipe' = [managerInPipe EXCEPT ![c] = FALSE]
    BY <2>4 DEF managerInPipe
  <2> QED
    BY <1>e, <2>3, <2>5 DEF Finish, M!Finish, FinishRest, M!FinishRest, ClosePipe, M!ClosePipe,
       Persisted, M!Persisted, PersistFails, M!PersistFails, notifyLocked, M!notifyLocked,
       Outcome, M!Outcome, Ended, M!Ended
<1> QED
  BY <1>a, <1>b, <1>c, <1>d, <1>e DEF CollectStep

LEMMA BarCommand ==
    ASSUME M!IInv, NEW c \in IDs,
           \/ Status(c) \/ Connect(c) \/ loadEntry(c) \/ loadRefuses(c)
           \/ Output(c) \/ CloseOutput(c) \/ Die(c)
    PROVE  \/ M!Status(c) \/ M!Connect(c) \/ M!loadEntry(c) \/ M!loadRefuses(c)
           \/ M!Output(c) \/ M!CloseOutput(c) \/ M!Die(c)
<1>1. UNCHANGED <<pc, call, cpc>>
  BY DEF Status, Connect, Output, CloseOutput, Die, loadEntry, loadRefuses
<1>2. UNCHANGED record \/ \A d \in IDs : cpc[d] = "none"
  BY DEF Status, Connect, Output, CloseOutput, Die, loadEntry, loadRefuses, M!IInv, M!Stopped
<1>3. UNCHANGED <<managerPc, managerCall, managerStdin, managerInPipe>>
  BY <1>1, <1>2, BarHandlers, BarStdio DEF Uncollected
<1> USE <1>3
    DEF memory, disk, child, stdio, history, M!memory, M!disk, M!child, M!stdio, M!history
<1>4. M!Terminal = Terminal /\ M!Fresh = Fresh /\ M!Recovered(c) = Recovered(c)
  BY DEF Terminal, M!Terminal, Fresh, M!Fresh, Recovered, M!Recovered
<1>5. (M!Unreadable(c) <=> Unreadable(c)) /\ (M!Recoverable(c) <=> Recoverable(c))
  BY DEF Recoverable, M!Recoverable, Unreadable, M!Unreadable
<1>6. Truncated(c) => M!Truncated(c)
  BY DEF Truncated, M!Truncated
<1>7. /\ LoadEnds("down") => M!LoadEnds("down")
      /\ LoadEnds("refused") => M!LoadEnds("refused")
  BY <1>4 DEF LoadEnds, M!LoadEnds
<1>a. CASE Status(c) \/ Connect(c)
  BY <1>a, <1>4 DEF Status, M!Status, Connect, M!Connect, Report, M!Report
<1>b. CASE Output(c) \/ CloseOutput(c) \/ Die(c)
  <2>1. M!Chunks = Chunks
    BY DEF Chunks, M!Chunks, FoldFunction, M!FoldFunction, FoldFunctionOnSet,
       M!FoldFunctionOnSet, MapThenFoldSet, M!MapThenFoldSet
  <2> QED
    BY <1>b, <2>1 DEF Output, M!Output, CloseOutput, M!CloseOutput, Die, M!Die
<1>c. CASE loadEntry(c)
  BY <1>c, <1>4, <1>5, <1>6, <1>7 DEF loadEntry, M!loadEntry
<1>d. CASE loadRefuses(c)
  BY <1>d, <1>4, <1>5, <1>6, <1>7 DEF loadRefuses, M!loadRefuses
<1> QED
  BY <1>a, <1>b, <1>c, <1>d

LEMMA BarSupervisor ==
    ASSUME NewManager \/ loadDone \/ Crash
    PROVE  M!NewManager \/ M!loadDone \/ M!Crash
<1> USE DEF memory, disk, child, stdio, history, M!memory, M!disk, M!child, M!stdio, M!history
<1>1. CASE NewManager \/ loadDone
  <2>1. UNCHANGED <<managerPc, managerCall, managerStdin, managerInPipe>>
    BY <1>1, BarHandlers, BarStdio DEF NewManager, loadDone, Uncollected
  <2> QED
    BY <1>1, <2>1, CardinalityOf DEF NewManager, M!NewManager, loadDone, M!loadDone
<1>2. CASE Crash
  <2>1. /\ pc' = [h \in Handlers |-> "idle"] /\ call' = [h \in Handlers |-> NoCall]
        /\ cpc' = [c \in IDs |-> "none"]
    BY <1>2 DEF Crash
  <2>2. managerPc' = [h \in Handlers |-> "idle"] /\ managerCall' = [h \in Handlers |-> M!NoCall]
    BY <2>1 DEF managerPc, managerCall, Controlling, NoCall, M!NoCall
  <2>3. managerStdin' = [c \in IDs |-> FALSE] /\ managerInPipe' = [c \in IDs |-> FALSE]
    <3>1. \A c \in IDs : Uncollected(c)'
      BY <2>1 DEF Uncollected
    <3> QED
      BY <3>1 DEF managerStdin, managerInPipe
  <2> QED
    BY <1>2, <2>2, <2>3 DEF Crash, M!Crash, Interrupted, M!Interrupted, Fresh, M!Fresh
<1> QED
  BY <1>1, <1>2

\* What clients do to a running command.
ControlStep(h) ==
    \/ Signal(h) \/ SignalStep(h) \/ KillAll(h) \/ KillStep(h)
    \/ Stdin(h) \/ StdinStep(h) \/ StdinRead(h) \/ CloseStdin(h) \/ CloseStdinCloses(h)

\* Nothing but a child's death shows in the manager.
LEMMA BarControl ==
    ASSUME AtRest, M!IInv, NEW h \in Handlers, ControlStep(h)
    PROVE  UNCHANGED M!vars \/ \E c \in IDs : M!Die(c)
<1> USE DEF memory, disk, child, stdio, history, control, M!memory, M!disk, M!child, M!stdio,
        M!history, M!vars
<1>1. /\ pc[h] \in {"idle"} \cup Controlling
      /\ UNCHANGED <<up, memory, mu, record, waiters, todo, cpc, spoolFailed, disk, history>>
      /\ \A g \in Handlers \ {h} : call'[g] = call[g]
      /\ \E label \in {"idle"} \cup Controlling : pc' = [pc EXCEPT ![h] = label]
  <2> USE DEF Controlling, AtRest
  <2>1. CASE Signal(h) \/ SignalStep(h)
    BY <2>1 DEF Signal, SignalStep, SignalCloses, SignalSent, Goto, Return
  <2>2. CASE KillAll(h) \/ KillStep(h)
    BY <2>2 DEF KillAll, KillStep, KillNext, KillSent, KillAllReturns, Goto, Return
  <2>3. CASE Stdin(h) \/ StdinStep(h) \/ StdinRead(h) \/ CloseStdin(h) \/ CloseStdinCloses(h)
    BY <2>3 DEF Stdin, StdinStep, StdinLocks, StdinFails, StdinRead, WriteReturns, CloseStdin,
       CloseStdinCloses, Goto, Return
  <2> QED
    BY <2>1, <2>2, <2>3 DEF ControlStep
<1>2. UNCHANGED <<managerPc, managerCall>>
  BY <1>1, BarRest
<1>3. \A g \in Handlers : /\ (pc'[g] = "kill") <=> (pc[g] = "kill")
                          /\ pc[g] = "kill" => call'[g].id = call[g].id
  BY <1>1 DEF AtRest, Controlling
<1>4. UNCHANGED <<managerStdin, managerInPipe>>
  BY <1>1, <1>3, BarStdio DEF Uncollected
<1>5. UNCHANGED child \/ (UNCHANGED <<open, pipe, produced>> /\ Kill(call[h].id))
  BY DEF ControlStep, Signal, SignalStep, SignalCloses, SignalSent, KillAll, KillStep, KillNext,
     KillSent, KillAllReturns, Stdin, StdinStep, StdinLocks, StdinFails, StdinRead, WriteReturns,
     CloseStdin, CloseStdinCloses
<1>6. ASSUME UNCHANGED <<open, pipe, produced>>, Kill(call[h].id)
      PROVE  UNCHANGED child \/ \E c \in IDs : M!Die(c)
  <2>1. proc \in [IDs -> {"none", "alive", "exited", "signaled"}]
    BY Instance, M!TypesAre DEF M!IInv, M!Types
  <2>2. CASE call[h].id \in IDs /\ proc[call[h].id] = "alive"
    BY <1>1, <1>2, <1>4, <1>6, <2>2 DEF Kill, M!Die
  <2>3. CASE ~(call[h].id \in IDs /\ proc[call[h].id] = "alive")
    BY <1>6, <2>1, <2>3 DEF Kill
  <2> QED
    BY <2>2, <2>3
<1> QED
  BY <1>1, <1>2, <1>4, <1>5, <1>6

LEMMA BarStep ==
    ASSUME HandlersInv, M!IInv, [ControlNext]_controlVars
    PROVE  [M!Next]_M!vars
<1>0. AtRest
  BY DEF HandlersInv
<1> USE <1>0
<1>1. ASSUME NEW h \in Handlers, Begin(h) \/ HandlerStep(h) \/ HandlerReleased(h)
      PROVE  [M!Next]_M!vars
  BY <1>1, BarStart, BarWait, BarControl DEF Begin, HandlerStep, HandlerReleased, ControlStep,
     M!Next
<1>2. ASSUME NEW c \in IDs, \/ CollectStep(c) \/ Status(c) \/ Connect(c) \/ loadEntry(c)
                            \/ loadRefuses(c) \/ Output(c) \/ CloseOutput(c) \/ Die(c)
      PROVE  [M!Next]_M!vars
  BY <1>2, BarCollect, BarCommand DEF M!Next
<1>3. ASSUME NewManager \/ loadDone \/ Exit
      PROVE  [M!Next]_M!vars
  BY <1>3, BarSupervisor DEF Exit, M!Next
<1>4. ASSUME UNCHANGED controlVars
      PROVE  UNCHANGED M!vars
  BY <1>4, BarHandlers, BarStdio DEF Uncollected, controlVars, vars, M!vars, memory, disk,
     child, stdio, history,
     M!memory, M!disk, M!child, M!stdio, M!history
<1> QED
  BY <1>1, <1>2, <1>3, <1>4 DEF ControlNext

----------------------------------------------------------------------------
(* What the manager must know of its handlers stays true.                  *)

\* A handler of a supervisor that is up moves on.
LEMMA MoveAtRest ==
    ASSUME AtRest, NEW h \in Handlers, NEW label \in Labels, NEW rec \in M!Calls,
           pc' = [pc EXCEPT ![h] = label], call' = [call EXCEPT ![h] = rec],
           label = "idle" => rec = NoCall, up' = up, up = "up" \/ pc[h] # "idle"
    PROVE  AtRest'
BY DEF AtRest

LEMMA NamesAtRest ==
    ASSUME AtRest, NEW h \in Handlers
    PROVE  /\ NoCall \in M!Calls /\ "idle" \in Labels
           /\ \A c \in IDs : [call[h] EXCEPT !.id = c] \in M!Calls
           /\ call = [call EXCEPT ![h] = call[h]] /\ call[h] \in M!Calls
BY DEF AtRest, NoCall, M!Calls, Labels, M!HandlerPCs

LEMMA GotoAtRest ==
    ASSUME AtRest, NEW h \in Handlers, NEW label \in Labels, Goto(h, label), label # "idle",
           up' = up, up = "up" \/ pc[h] # "idle"
    PROVE  AtRest'
BY MoveAtRest, NamesAtRest DEF Goto

LEMMA ReturnAtRest ==
    ASSUME AtRest, NEW h \in Handlers, Return(h), up' = up, pc[h] # "idle"
    PROVE  AtRest'
BY MoveAtRest, NamesAtRest DEF Return

LEMMA CallAtRest ==
    ASSUME AtRest, NEW h \in Handlers, NEW label \in Labels, NEW c \in IDs, label # "idle",
           pc' = [pc EXCEPT ![h] = label], call' = [call EXCEPT ![h].id = c],
           up' = up, up = "up" \/ pc[h] # "idle"
    PROVE  AtRest'
<1> DEFINE rec == [call[h] EXCEPT !.id = c]
<1>1. rec \in M!Calls /\ call' = [call EXCEPT ![h] = rec]
  BY NamesAtRest
<1> HIDE DEF rec
<1> QED
  BY <1>1, MoveAtRest

LEMMA HandlerAtRest ==
    ASSUME AtRest, NEW h \in Handlers, commands \subseteq IDs, killing[h] \subseteq IDs,
           Begin(h) \/ HandlerStep(h) \/ HandlerReleased(h)
    PROVE  AtRest'
<1> USE DEF Labels, M!HandlerPCs, Controlling
<1>1. CASE Start(h) \/ StartStep(h)
  <2>1. CASE Start(h)
    <3>1. PICK r \in Reqs, s \in Specs :
              call' = [call EXCEPT ![h] = [req |-> r, spec |-> s, id |-> None]]
      BY <2>1 DEF Start
    <3>2. [req |-> r, spec |-> s, id |-> None] \in M!Calls
      BY DEF M!Calls
    <3> QED
      BY <2>1, <3>1, <3>2, MoveAtRest DEF Start
  <2>2. CASE StartNew(h)
    <3>1. PICK c \in IDs : call' = [call EXCEPT ![h].id = c]
      BY <2>2 DEF StartNew
    <3> QED
      BY <2>2, <3>1, CallAtRest DEF StartNew
  <2>3. CASE StartStep(h) /\ ~StartNew(h) /\ Return(h)
    BY <2>3, ReturnAtRest DEF StartStep, StartReplay, StartLimit, StartNew, Mkdir,
       PersistStarting, PersistStartingFails, Spawn, startFailed, PersistRunning, KillUnpersisted
  <2>4. CASE /\ StartStep(h) /\ ~StartNew(h)
             /\ \E label \in {"persist", "spawn", "running", "lost", "kill"} : Goto(h, label)
    BY <2>4, GotoAtRest DEF StartStep, StartReplay, StartLimit, StartNew, Mkdir,
       PersistStarting, PersistStartingFails, Spawn, startFailed, PersistRunning, KillUnpersisted
  <2> QED
    BY <1>1, <2>1, <2>2, <2>3, <2>4 DEF StartStep, StartReplay, StartLimit, Mkdir,
       PersistStarting, PersistStartingFails, Spawn, startFailed, PersistRunning, KillUnpersisted
<1>2. CASE Wait(h) \/ WaitStep(h) \/ WaitGivesUp(h)
  <2>1. CASE Wait(h)
    <3>1. PICK c \in IDs : call' = [call EXCEPT ![h].id = c]
      BY <2>1 DEF Wait
    <3> QED
      BY <2>1, <3>1, CallAtRest DEF Wait
  <2>2. CASE WaitRead(h) \/ WaitWakes(h) \/ WaitGivesUp(h)
    BY <2>2, ReturnAtRest, GotoAtRest DEF WaitRead, WaitWakes, WaitGivesUp
  <2> QED
    BY <1>2, <2>1, <2>2 DEF WaitStep
<1>3. CASE Signal(h) \/ CloseStdin(h) \/ Stdin(h)
  <2>1. PICK c \in IDs : call' = [call EXCEPT ![h].id = c]
    BY <1>3 DEF Signal, CloseStdin, Stdin
  <2>2. \E label \in Labels \ {"idle"} : pc' = [pc EXCEPT ![h] = label]
    BY <1>3 DEF Signal, CloseStdin, Stdin
  <2> QED
    BY <1>3, <2>1, <2>2, CallAtRest DEF Signal, CloseStdin, Stdin
<1>4. CASE KillNext(h)
  <2>1. CASE UNCHANGED <<pc, call>>
    BY <1>4, <2>1 DEF KillNext, AtRest
  <2>2. ASSUME NEW c \in killing[h], call' = [call EXCEPT ![h].id = c],
               pc' = [pc EXCEPT ![h] = IF stdin[c] THEN "killClose" ELSE "killSend"]
        PROVE  AtRest'
    <3>1. PICK label \in Labels \ {"idle"} : pc' = [pc EXCEPT ![h] = label]
      <4>1. \A b : (IF b THEN "killClose" ELSE "killSend") \in Labels \ {"idle"}
        OBVIOUS
      <4> QED
        BY <2>2, <4>1
    <3> QED
      BY <1>4, <2>2, <3>1, CallAtRest DEF KillNext
  <2> QED
    BY <1>4, <2>1, <2>2 DEF KillNext
<1>5. CASE SignalStep(h) \/ KillAll(h) \/ KillSent(h) \/ KillAllReturns(h)
  BY <1>5, ReturnAtRest, GotoAtRest DEF SignalStep, SignalCloses, SignalSent, KillAll, KillSent,
     KillAllReturns
<1>6. CASE StdinStep(h) \/ StdinRead(h) \/ CloseStdinCloses(h)
  BY <1>6, ReturnAtRest, GotoAtRest DEF StdinStep, StdinLocks, StdinFails, StdinRead,
     WriteReturns, CloseStdinCloses
<1> QED
  BY <1>1, <1>2, <1>3, <1>4, <1>5, <1>6 DEF Begin, HandlerStep, HandlerReleased, KillStep

\* What the manager knows of a command that is being started.
LEMMA StarterFacts ==
    ASSUME AtRest, M!IInv, NEW h \in Handlers
    PROVE  LET c == call[h].id IN
           /\ pc[h] \in M!Starting =>
                /\ c \in IDs /\ reqOf[c] # None /\ record[c] = Fresh
                /\ \A g \in Handlers \ {h} : pc[g] \in M!Starting => call[g].id # c
           /\ pc[h] = "kill" => c \in IDs /\ reqOf[c] # None
<1>1. /\ M!Types /\ M!Ownership /\ M!Indexed
      /\ \A g \in Handlers : pc[g] \in M!Starting \cup {"kill"} =>
            managerPc[g] = pc[g] /\ managerCall[g] = call[g]
  BY Instance, M!TypesAre, BarHandler DEF M!IInv, M!Starting, Controlling
<1>2. pc[h] \in M!Starting => call[h].id \in IDs /\ M!Owned(h, call[h].id)
  BY <1>1 DEF M!Ownership
<1>3. pc[h] \in M!Starting \cup {"kill"} => call[h].id \in commands
  BY <1>1, <1>2 DEF M!Ownership, M!Owned
<1>4. \A c \in commands : c \in IDs /\ reqOf[c] # None
  BY <1>1 DEF M!Types, M!Indexed
<1>5. pc[h] \in M!Starting => record[call[h].id] = Fresh
  BY <1>2 DEF M!Owned, Fresh, M!Fresh
<1>6. \A g \in Handlers \ {h} : pc[h] \in M!Starting /\ pc[g] \in M!Starting =>
        call[g].id # call[h].id
  BY <1>1 DEF M!Ownership
<1> QED
  BY <1>3, <1>4, <1>5, <1>6

\* Most steps neither begin a command nor record that one runs.
NobodyStarts ==
    /\ \A g \in Handlers : pc'[g] \in {"kill"} \cup M!Starting =>
        /\ call'[g].id = call[g].id
        /\ pc'[g] = "kill" => pc[g] = "kill"
        /\ pc'[g] \in M!Starting => pc[g] \in M!Starting
    /\ \A c \in IDs : record'[c].state = "running" => record[c].state = "running"

LEMMA KillersFrame ==
    ASSUME HandlersInv, M!IInv, NobodyStarts
    PROVE  KillersInv'
<1>1. \A h \in Handlers : pc[h] = "kill" => call[h].id \in IDs
  BY StarterFacts DEF HandlersInv
<1> QED
  BY <1>1 DEF HandlersInv, KillersInv, NobodyStarts, M!Starting

LEMMA HandlerKillers ==
    ASSUME HandlersInv, M!IInv, NEW h \in Handlers, Begin(h) \/ HandlerStep(h) \/ HandlerReleased(h)
    PROVE  KillersInv'
<1>0. AtRest /\ M!Types
  BY Instance, M!TypesAre DEF HandlersInv, M!IInv
<1>1. record \in [IDs -> M!Records] /\ pc \in [Handlers -> Labels]
  BY <1>0 DEF M!Types, AtRest
<1>a. CASE StartNew(h)
  <2>1. PICK d \in IDs :
        /\ reqOf[d] = None
        /\ record' = [record EXCEPT ![d] = Fresh]
        /\ call' = [call EXCEPT ![h].id = d]
    BY <1>a DEF StartNew
  <2>2. /\ \A g \in Handlers \ {h} : pc'[g] = pc[g] /\ call'[g] = call[g]
        /\ pc'[h] = "mkdir"
    BY <1>0, <1>a, <2>1 DEF StartNew, AtRest
  <2>3. call'[h].id = d
    BY <1>0, <2>1 DEF AtRest, M!Calls
  <2>4. \A g \in Handlers : pc[g] = "kill" => call[g].id \in IDs \ {d}
    BY <1>0, <2>1, StarterFacts
  <2>5. record'[d].state = "starting" /\ \A c \in IDs \ {d} : record'[c] = record[c]
    BY <1>1, <2>1 DEF Fresh
  <2> QED
    BY <2>2, <2>3, <2>4, <2>5 DEF HandlersInv, KillersInv, M!Starting
<1>b. CASE PersistRunning(h)
  <2> DEFINE c == call[h].id
  <2>1. pc[h] \in M!Starting /\ c \in IDs /\ record[c] = Fresh
        /\ \A g \in Handlers \ {h} : pc[g] \in M!Starting => call[g].id # c
    BY <1>0, <1>b, StarterFacts DEF PersistRunning, M!Starting
  <2>2. \A g \in Handlers \ {h} : pc[g] = "kill" => call[g].id # c
    BY <2>1 DEF HandlersInv, KillersInv
  <2>3. CASE Goto(h, "kill") /\ UNCHANGED record
    BY <1>1, <2>1, <2>2, <2>3 DEF Goto, HandlersInv, KillersInv, Fresh, M!Starting
  <2>4. CASE Return(h) /\ record' = [record EXCEPT ![c] = [record[c] EXCEPT !.state = "running"]]
    <3>1. /\ pc'[h] = "idle"
          /\ \A g \in Handlers \ {h} : pc'[g] = pc[g] /\ call'[g] = call[g]
      BY <1>0, <1>1, <2>4 DEF Return, AtRest
    <3>2. \A d \in IDs \ {c} : record'[d] = record[d]
      BY <1>1, <2>4
    <3>3. \A g \in Handlers : pc[g] = "kill" => call[g].id \in IDs
      BY <1>0, StarterFacts
    <3> QED
      BY <2>2, <3>1, <3>2, <3>3 DEF HandlersInv, KillersInv, M!Starting
  <2> QED
    BY <1>b, <2>3, <2>4 DEF PersistRunning
<1>c. CASE startFailed(h)
  <2>1. call[h].id \in IDs /\ record[call[h].id] = Fresh
    BY <1>0, <1>c, StarterFacts DEF startFailed, M!Starting
  <2>2. \A c \in IDs : record'[c].state = "running" => record[c].state = "running"
    BY <1>1, <1>c, <2>1 DEF startFailed, M!Records
  <2>3. NobodyStarts
    BY <1>0, <1>1, <1>c, <2>2 DEF startFailed, Return, NobodyStarts, M!Starting, AtRest
  <2> QED
    BY <2>3, KillersFrame
<1>d. ASSUME UNCHANGED record,
             \A g \in Handlers \ {h} : pc'[g] = pc[g] /\ call'[g] = call[g],
             \/ pc'[h] \notin {"kill"} \cup M!Starting
             \/ pc[h] \in M!Starting /\ pc'[h] \in M!Starting /\ call'[h].id = call[h].id
      PROVE  KillersInv'
  BY <1>d, KillersFrame DEF NobodyStarts, M!Starting
<1>e. CASE Start(h) \/ StartReplay(h) \/ StartLimit(h) \/ PersistStartingFails(h)
           \/ KillUnpersisted(h)
  BY <1>0, <1>1, <1>d, <1>e DEF Start, StartReplay, StartLimit, PersistStartingFails,
     KillUnpersisted, Return, M!Starting, AtRest
<1>f. CASE Mkdir(h) \/ PersistStarting(h) \/ Spawn(h)
  BY <1>0, <1>1, <1>d, <1>f DEF Mkdir, PersistStarting, Spawn, Goto, M!Starting
<1>g. CASE Wait(h) \/ WaitStep(h) \/ WaitGivesUp(h)
  BY <1>0, <1>1, <1>d, <1>g DEF Wait, WaitStep, WaitRead, WaitWakes, WaitGivesUp,
     Goto, Return, M!Starting, AtRest
<1>h. CASE Signal(h) \/ SignalStep(h) \/ KillAll(h) \/ KillStep(h)
  <2>1. CASE Signal(h) \/ SignalStep(h)
    BY <1>0, <1>1, <1>d, <2>1 DEF Signal, SignalStep, SignalCloses, SignalSent, Goto, Return,
       M!Starting, AtRest
  <2>2. CASE KillAll(h) \/ KillStep(h)
    BY <1>0, <1>1, <1>d, <2>2 DEF KillAll, KillStep, KillNext, KillSent, KillAllReturns, Goto,
       Return, M!Starting, AtRest
  <2> QED
    BY <1>h, <2>1, <2>2
<1>i. CASE Stdin(h) \/ StdinStep(h) \/ StdinRead(h) \/ CloseStdin(h) \/ CloseStdinCloses(h)
  BY <1>0, <1>1, <1>d, <1>i DEF Stdin, StdinStep, StdinLocks, StdinFails, StdinRead,
     WriteReturns, CloseStdin, CloseStdinCloses, Goto, Return, M!Starting, AtRest
<1> QED
  BY <1>a, <1>b, <1>c, <1>e, <1>f, <1>g, <1>h, <1>i DEF Begin, HandlerStep, HandlerReleased,
     StartStep

LEMMA OtherKillers ==
    ASSUME HandlersInv, M!IInv,
           \/ \E c \in IDs : \/ CollectStep(c) \/ Status(c) \/ Connect(c)
                             \/ Output(c) \/ CloseOutput(c) \/ Die(c)
                             \/ loadEntry(c) \/ loadRefuses(c)
           \/ NewManager \/ loadDone \/ Exit \/ UNCHANGED controlVars
    PROVE  HandlersInv'
<1>0. AtRest /\ M!Types
  BY Instance, M!TypesAre DEF HandlersInv, M!IInv
<1>1. record \in [IDs -> M!Records]
  BY <1>0 DEF M!Types
<1>2. ASSUME UNCHANGED <<pc, call>>,
             up' # "up" => \A h \in Handlers : pc[h] = "idle",
             \/ \A c \in IDs : record'[c].state = "running" => record[c].state = "running"
             \/ up # "up"
      PROVE  HandlersInv'
  <2>1. AtRest'
    BY <1>0, <1>2 DEF AtRest
  <2>2. CASE up # "up"
    BY <1>0, <1>2, <2>1, <2>2 DEF HandlersInv, AtRest, KillersInv
  <2>3. CASE \A c \in IDs : record'[c].state = "running" => record[c].state = "running"
    <3>1. NobodyStarts
      BY <1>2, <2>3 DEF NobodyStarts
    <3> QED
      BY <2>1, <3>1, KillersFrame DEF HandlersInv
  <2> QED
    BY <1>2, <2>2, <2>3
<1>a. ASSUME NEW c \in IDs, CollectStep(c) PROVE HandlersInv'
  <2>1. CASE Chunk(c) \/ AppendEvent(c) \/ AppendFails(c)
    BY <1>0, <1>2, <2>1 DEF Chunk, AppendEvent, AppendFails, AtRest
  <2>2. CASE Advance(c)
    <3>1. \A d \in IDs : record'[d].state = record[d].state
      BY <1>1, <2>2 DEF Advance, M!Records
    <3> QED
      BY <1>0, <1>2, <2>2, <3>1 DEF Advance, AtRest
  <2>3. CASE Finish(c)
    <3>1. Outcome(c) # "running"
      BY <2>3 DEF Finish, Ended, Outcome
    <3>2. \A d \in IDs : record'[d].state = "running" => record[d].state = "running"
      BY <1>1, <2>3, <3>1 DEF Finish, M!Records
    <3> QED
      BY <1>0, <1>2, <2>3, <3>2 DEF Finish, FinishRest, AtRest
  <2> QED
    BY <1>a, <2>1, <2>2, <2>3 DEF CollectStep
<1>b. ASSUME NEW c \in IDs,
             Status(c) \/ Connect(c) \/ Output(c) \/ CloseOutput(c) \/ Die(c)
      PROVE  HandlersInv'
  BY <1>0, <1>2, <1>b DEF Status, Connect, Output, CloseOutput, Die, AtRest
<1>c. ASSUME NEW c \in IDs, loadEntry(c) \/ loadRefuses(c) PROVE HandlersInv'
  BY <1>0, <1>2, <1>c DEF loadEntry, loadRefuses, LoadEnds, AtRest
<1>d. CASE NewManager \/ loadDone
  BY <1>0, <1>2, <1>d DEF NewManager, loadDone, AtRest
<1>e. CASE Exit
  BY <1>e, NamesAtRest DEF Exit, Crash, HandlersInv, AtRest, KillersInv, NoCall, M!Calls, Labels,
     M!HandlerPCs
<1>f. CASE UNCHANGED controlVars
  BY <1>0, <1>2, <1>f DEF controlVars, vars, AtRest
<1> QED
  BY <1>a, <1>b, <1>c, <1>d, <1>e, <1>f

----------------------------------------------------------------------------
(* KillAll.                                                                *)

Killing == {"killAll", "killClose", "killSend"}

\* A command that was running when KillAll began runs still or has ended, and
\* KillAll is past it only when its child is dead or could not be signalled.
HuntInv ==
    /\ killing \in [Handlers -> SUBSET IDs] /\ targets \in [Handlers -> SUBSET IDs]
    /\ firstFailure \in [Handlers -> BOOLEAN]
    /\ \A h \in Handlers : pc[h] \in Killing =>
        \A c \in targets[h] :
            /\ reqOf[c] # None
            /\ record[c].state \in {"running"} \cup Terminal
            /\ c \in killing[h] \/ proc[c] # "alive" \/ firstFailure[h]

\* A record becomes terminal when the child has ended: as long as it lives, its
\* handler or its collect goroutine has the command.
LEMMA Settled ==
    ASSUME M!IInv
    PROVE  \A c \in IDs : record[c].state \in Terminal => proc[c] # "alive"
<1> SUFFICES ASSUME NEW c \in IDs, proc[c] = "alive"
             PROVE  record[c].state \notin Terminal
  OBVIOUS
<1>1. cpc[c] \in M!Collecting \/ M!Started(c)
  BY DEF M!IInv, M!Collected, M!CollectedAt
<1>2. CASE cpc[c] \in M!Collecting
  BY <1>2 DEF M!IInv, M!Collected, M!CollectedAt, Terminal
<1>3. ASSUME NEW h \in Handlers, managerPc[h] = "running", managerCall[h].id = c
      PROVE  record[c].state \notin Terminal
  BY <1>3 DEF M!IInv, M!Ownership, M!Owned, M!Starting, M!Fresh, Terminal
<1> QED
  BY <1>1, <1>2, <1>3 DEF M!Started

\* What the steps outside of KillAll do to a command that has been running.
Onward ==
    /\ UNCHANGED kills
    /\ \A h \in Handlers : pc'[h] \in Killing => pc[h] \in Killing
    /\ \A c \in IDs : reqOf[c] # None =>
        /\ reqOf'[c] # None
        /\ record'[c].state \in {record[c].state, "running"} \cup Terminal
        /\ proc'[c] = "alive" => proc[c] = "alive" \/ record[c].state = "starting"

LEMMA OnwardKeeps ==
    ASSUME HuntInv, Onward
    PROVE  HuntInv'
<1> USE DEF HuntInv, Onward, kills
<1>1. ASSUME NEW h \in Handlers, pc'[h] \in Killing, NEW c \in targets[h]
      PROVE  /\ reqOf'[c] # None
             /\ record'[c].state \in {"running"} \cup Terminal
             /\ c \in killing[h] \/ proc'[c] # "alive" \/ firstFailure[h]
  <2>1. /\ c \in IDs /\ reqOf[c] # None /\ record[c].state \in {"running"} \cup Terminal
        /\ c \in killing[h] \/ proc[c] # "alive" \/ firstFailure[h]
    BY <1>1
  <2>2. record[c].state # "starting"
    BY <2>1 DEF Terminal
  <2> QED
    BY <2>1, <2>2
<1> QED
  BY <1>1

\* The child of a command is signalled, or dies.
LEMMA KillEffect ==
    ASSUME M!IInv, NEW c, Kill(c) \/ UNCHANGED proc
    PROVE  /\ \A d \in IDs : proc'[d] = "alive" => proc[d] = "alive"
           /\ \A d \in IDs : Kill(c) /\ proc'[d] = "alive" => d # c
<1>1. proc \in [IDs -> {"none", "alive", "exited", "signaled"}]
  BY Instance, M!TypesAre DEF M!IInv, M!Types
<1> QED
  BY <1>1 DEF Kill

\* A step of a handler that begins no command and no KillAll.
LEMMA AloneOnward ==
    ASSUME AtRest, NEW h \in Handlers, UNCHANGED <<record, reqOf, kills>>,
           \A g \in Handlers \ {h} : pc'[g] = pc[g], pc'[h] \in Killing => pc[h] \in Killing,
           \A c \in IDs : proc'[c] = "alive" => proc[c] = "alive"
    PROVE  Onward
BY DEF Onward

LEMMA StartOnward ==
    ASSUME AtRest, M!IInv, NEW h \in Handlers, Start(h) \/ StartStep(h), UNCHANGED control
    PROVE  Onward
<1>1. record \in [IDs -> M!Records] /\ proc \in [IDs -> {"none", "alive", "exited", "signaled"}]
      /\ reqOf \in [IDs -> Reqs \cup {None}]
  BY Instance, M!TypesAre DEF M!IInv, M!Types
<1>2. \A g \in Handlers : pc'[g] \in Killing => pc[g] \in Killing
  BY DEF AtRest, Killing, Start, StartStep, StartReplay, StartLimit, StartNew, Mkdir,
     PersistStarting, PersistStartingFails, Spawn, startFailed, PersistRunning, KillUnpersisted,
     Goto, Return
<1>3. UNCHANGED kills
  BY DEF control
<1> USE <1>2, <1>3 DEF Onward
<1>a. CASE Start(h) \/ StartReplay(h) \/ StartLimit(h) \/ Mkdir(h) \/ PersistStarting(h)
           \/ PersistStartingFails(h)
  BY <1>a DEF Start, StartReplay, StartLimit, Mkdir, PersistStarting, PersistStartingFails,
     memory, disk, child
<1>b. CASE StartNew(h)
  BY <1>1, <1>b DEF StartNew, child
<1>c. CASE Spawn(h)
  <2>1. call[h].id \in IDs /\ record[call[h].id].state = "starting"
    BY <1>c, StarterFacts DEF Spawn, M!Starting, Fresh
  <2> QED
    BY <1>1, <1>c, <2>1 DEF Spawn, disk
<1>d. CASE startFailed(h)
  BY <1>1, <1>d DEF startFailed, M!Records, Terminal, child
<1>e. CASE PersistRunning(h)
  <2>1. UNCHANGED record \/ record' = [record EXCEPT ![call[h].id].state = "running"]
    BY <1>e DEF PersistRunning
  <2>2. \A c \in IDs : record'[c].state \in {record[c].state, "running"}
    BY <1>1, <2>1 DEF M!Records
  <2> QED
    BY <1>e, <2>2 DEF PersistRunning, child
<1>f. CASE KillUnpersisted(h)
  <2>1. \A c \in IDs : proc'[c] = "alive" => proc[c] = "alive"
    BY <1>f, KillEffect DEF KillUnpersisted
  <2> QED
    BY <1>f, <2>1 DEF KillUnpersisted, disk
<1> QED
  BY <1>a, <1>b, <1>c, <1>d, <1>e, <1>f DEF StartStep

LEMMA WaitOnward ==
    ASSUME AtRest, M!IInv, NEW h \in Handlers, Wait(h) \/ WaitStep(h) \/ WaitGivesUp(h),
           UNCHANGED control
    PROVE  Onward
<1>1. /\ UNCHANGED <<record, reqOf, proc, kills>>
      /\ \A g \in Handlers \ {h} : pc'[g] = pc[g]
      /\ pc'[h] \notin Killing
  BY DEF AtRest, Wait, WaitStep, WaitRead, WaitWakes, WaitGivesUp, Goto, Return,
     control, disk, child, Killing
<1> QED
  BY <1>1, AloneOnward

LEMMA SignalOnward ==
    ASSUME AtRest, M!IInv, NEW h \in Handlers, Signal(h) \/ SignalStep(h)
    PROVE  Onward
<1>1. /\ UNCHANGED <<record, reqOf, kills>>
      /\ \A g \in Handlers \ {h} : pc'[g] = pc[g]
      /\ pc'[h] \in Killing => pc[h] \in Killing
  BY DEF AtRest, Signal, SignalStep, SignalCloses, SignalSent, Goto, Return, control, disk,
     Killing
<1>2. \A c \in IDs : proc'[c] = "alive" => proc[c] = "alive"
  BY KillEffect DEF Signal, SignalStep, SignalCloses, SignalSent, child
<1> QED
  BY <1>1, <1>2, AloneOnward

LEMMA StdinOnward ==
    ASSUME AtRest, M!IInv, NEW h \in Handlers,
           \/ Stdin(h) \/ StdinStep(h) \/ StdinRead(h)
           \/ CloseStdin(h) \/ CloseStdinCloses(h)
    PROVE  Onward
<1>1. /\ UNCHANGED <<record, reqOf, proc, kills>>
      /\ \A g \in Handlers \ {h} : pc'[g] = pc[g]
      /\ pc'[h] \notin Killing
  BY DEF AtRest, Stdin, StdinStep, StdinLocks, StdinFails, StdinRead, WriteReturns, CloseStdin,
     CloseStdinCloses, Goto, Return, control, disk, child, Killing
<1> QED
  BY <1>1, AloneOnward

LEMMA CommandOnward ==
    ASSUME AtRest, M!IInv, NEW c \in IDs, UNCHANGED control,
           CollectStep(c) \/ Status(c) \/ Connect(c) \/ Output(c) \/ CloseOutput(c) \/ Die(c)
    PROVE  Onward
<1>1. /\ record \in [IDs -> M!Records]
      /\ proc \in [IDs -> {"none", "alive", "exited", "signaled"}]
  BY Instance, M!TypesAre DEF M!IInv, M!Types
<1>2. UNCHANGED <<pc, reqOf, kills>>
  BY DEF control, CollectStep, Chunk, AppendEvent, AppendFails, Advance, Finish, FinishRest,
     Status, Connect, Output, CloseOutput, Die, disk
<1>3. \A d \in IDs : record'[d].state \in {record[d].state} \cup Terminal
  <2>1. CASE UNCHANGED record
    BY <2>1
  <2>2. CASE Advance(c)
    BY <1>1, <2>2 DEF Advance, M!Records
  <2>3. CASE Finish(c)
    <3>1. Outcome(c) \in Terminal
      BY <2>3 DEF Finish, Ended, Outcome, Terminal
    <3> QED
      BY <1>1, <2>3, <3>1 DEF Finish, M!Records
  <2> QED
    BY <2>1, <2>2, <2>3 DEF CollectStep, Chunk, AppendEvent, AppendFails, Status, Connect,
       Output, CloseOutput, Die
<1>4. \A d \in IDs : proc'[d] = "alive" => proc[d] = "alive"
  <2>1. CASE UNCHANGED proc
    BY <2>1
  <2>2. CASE Kill(c)
    BY <2>2, KillEffect
  <2>3. CASE Die(c)
    BY <1>1, <2>3 DEF Die
  <2> QED
    BY <2>1, <2>2, <2>3 DEF CollectStep, Chunk, AppendEvent, AppendFails, Advance, Finish,
       FinishRest, Status, Connect, Output, CloseOutput, child
<1> QED
  BY <1>2, <1>3, <1>4 DEF Onward

\* The steps of KillAll itself.
LEMMA KillAllKeeps ==
    ASSUME AtRest, M!IInv, HuntInv, NEW h \in Handlers, KillAll(h) \/ KillStep(h)
    PROVE  HuntInv'
<1> USE DEF HuntInv, Killing, disk, child
<1>1. /\ commands \subseteq IDs /\ \A c \in commands : reqOf[c] # None
      /\ pc \in [Handlers -> Labels]
  BY Instance, M!TypesAre DEF M!IInv, M!Types, M!Indexed, AtRest
<1>2. CASE KillAll(h)
  BY <1>1, <1>2 DEF KillAll, Goto
<1>3. CASE KillNext(h)
  <2>1. UNCHANGED <<record, reqOf, proc, firstFailure, targets>> /\ pc[h] = "killAll"
    BY <1>3 DEF KillNext
  <2>2. CASE UNCHANGED killing
    BY <1>1, <1>3, <2>1, <2>2 DEF KillNext
  <2>3. ASSUME NEW c \in killing[h], record[c].state # "running",
               killing' = [killing EXCEPT ![h] = @ \ {c}], UNCHANGED <<pc, call>>
        PROVE  HuntInv'
    <3>1. c \in targets[h] => proc[c] # "alive"
      BY <2>1, <2>3, Settled
    <3> QED
      BY <2>1, <2>3, <3>1
  <2> QED
    BY <1>3, <2>2, <2>3 DEF KillNext
<1>4. CASE KillSent(h)
  <2>1. \A d \in IDs : proc'[d] = "alive" =>
            proc[d] = "alive" /\ (d # call[h].id \/ firstFailure'[h])
    BY <1>4, KillEffect DEF KillSent
  <2>2. /\ UNCHANGED <<reqOf, record, targets>>
        /\ firstFailure' = firstFailure \/ firstFailure' = [firstFailure EXCEPT ![h] = TRUE]
        /\ killing' = [killing EXCEPT ![h] = @ \ {call[h].id}]
        /\ pc' = [pc EXCEPT ![h] = "killAll"] /\ pc[h] = "killSend"
    BY <1>4 DEF KillSent, Goto
  <2> QED
    BY <1>1, <2>1, <2>2
<1>5. CASE KillAllReturns(h)
  BY <1>1, <1>5 DEF KillAllReturns, Return
<1> QED
  BY <1>2, <1>3, <1>4, <1>5 DEF KillStep

\* A supervisor that starts or ends kills nobody's commands.
LEMMA StoppedKeeps ==
    ASSUME AtRest, HuntInv,
           \/ Exit
           \/ UNCHANGED control /\ \/ NewManager \/ loadDone
                                   \/ \E c \in IDs : loadEntry(c) \/ loadRefuses(c)
    PROVE  HuntInv'
<1>1. CASE Exit
  BY <1>1 DEF Exit, Crash, HuntInv, Killing
<1>2. ASSUME up # "up", UNCHANGED <<pc, control>> PROVE HuntInv'
  BY <1>2 DEF AtRest, HuntInv, Killing, control, kills
<1>3. CASE NewManager \/ loadDone
  BY <1>1, <1>2, <1>3 DEF NewManager, loadDone, Exit
<1>4. ASSUME NEW c \in IDs, loadEntry(c) \/ loadRefuses(c), UNCHANGED control PROVE HuntInv'
  BY <1>2, <1>4 DEF loadEntry, loadRefuses
<1> QED
  BY <1>1, <1>2, <1>3, <1>4 DEF NewManager, loadDone

LEMMA HuntStep ==
    ASSUME AtRest, M!IInv, HuntInv, [ControlNext]_controlVars
    PROVE  HuntInv'
<1>1. ASSUME NEW h \in Handlers, Begin(h) \/ HandlerStep(h) \/ HandlerReleased(h)
      PROVE  HuntInv'
  BY <1>1, StartOnward, WaitOnward, SignalOnward, StdinOnward, OnwardKeeps, KillAllKeeps
  DEF Begin, HandlerStep, HandlerReleased
<1>2. ASSUME NEW c \in IDs, UNCHANGED control,
             CollectStep(c) \/ Status(c) \/ Connect(c) \/ Output(c) \/ CloseOutput(c) \/ Die(c)
      PROVE  HuntInv'
  BY <1>2, CommandOnward, OnwardKeeps
<1>3. CASE UNCHANGED controlVars
  BY <1>3 DEF HuntInv, controlVars, vars, control, kills, disk, child
<1> QED
  BY <1>1, <1>2, <1>3, StoppedKeeps DEF ControlNext

----------------------------------------------------------------------------
(* The invariant of the manager under its clients.                         *)

ControlInv == M!IInv /\ HandlersInv /\ HuntInv

LEMMA ControlInitially == Init /\ ControlInit => ControlInv /\ M!Init
<1> SUFFICES ASSUME Init, ControlInit
             PROVE  ControlInv /\ M!Init
  OBVIOUS
<1>1. \A c \in IDs : Uncollected(c)
  BY DEF Init, Uncollected
<1>2. managerStdin = [c \in IDs |-> FALSE] /\ managerInPipe = [c \in IDs |-> FALSE]
  BY <1>1 DEF managerStdin, managerInPipe
<1>3. /\ managerPc = [h \in Handlers |-> "idle"]
      /\ managerCall = [h \in Handlers |-> M!NoCall]
  BY DEF Init, managerPc, managerCall, Controlling, NoCall, M!NoCall
<1>4. M!Init
  BY <1>2, <1>3 DEF Init, M!Init, Fresh, M!Fresh
<1>5. HandlersInv
  BY NamesAtRest DEF Init, HandlersInv, AtRest, KillersInv, Labels, M!HandlerPCs, M!Calls, NoCall
<1>6. HuntInv
  BY DEF Init, ControlInit, HuntInv, Killing
<1> QED
  BY <1>4, <1>5, <1>6, Instance, M!InitInv DEF ControlInv

LEMMA ControlKeeps ==
    ASSUME ControlInv, [ControlNext]_controlVars
    PROVE  ControlInv' /\ [M!Next]_M!vars
<1> USE DEF ControlInv
<1>1. [M!Next]_M!vars
  BY BarStep
<1>2. M!IInv'
  BY <1>1, Instance, M!NextInv
<1>3. HuntInv'
  BY HuntStep DEF HandlersInv
<1>4. HandlersInv'
  <2>1. AtRest /\ commands \subseteq IDs /\ killing \in [Handlers -> SUBSET IDs]
    BY Instance, M!TypesAre DEF M!IInv, M!Types, HandlersInv, HuntInv
  <2>2. ASSUME NEW h \in Handlers, Begin(h) \/ HandlerStep(h) \/ HandlerReleased(h)
        PROVE  HandlersInv'
    <3>1. AtRest'
      BY <2>1, <2>2, HandlerAtRest
    <3>2. KillersInv'
      BY <2>2, HandlerKillers
    <3> QED
      BY <3>1, <3>2 DEF HandlersInv
  <2> QED
    BY <2>2, OtherKillers DEF ControlNext
<1> QED
  BY <1>1, <1>2, <1>3, <1>4

----------------------------------------------------------------------------
(* CommandControl implements CommandManager.                               *)

LEMMA CardinalityManager == \A S : Manager!Cardinality(S) = Cardinality(S)
BY DEF Manager!Cardinality, Cardinality, Manager!IsFiniteSet, IsFiniteSet

\* The same manager, without the proofs about it.
LEMMA SameManager ==
    /\ M!Init => Manager!Init
    /\ [M!Next]_M!vars => [Manager!Next]_Manager!vars
<1> USE DEF M!memory, Manager!memory, M!disk, Manager!disk, M!child, Manager!child, M!stdio,
    Manager!stdio, M!history, Manager!history, M!Terminal, Manager!Terminal, M!Fresh,
    Manager!Fresh, M!NoCall, Manager!NoCall
<1>1. M!Init => Manager!Init
  BY DEF M!Init, Manager!Init
<1>2. ASSUME NEW h \in Handlers
      PROVE  /\ M!Start(h) => Manager!Start(h)
             /\ M!StartReplay(h) => Manager!StartReplay(h)
  BY DEF M!Start, Manager!Start, M!StartReplay, Manager!StartReplay, M!Return, Manager!Return,
     M!Report, Manager!Report
<1>3. ASSUME NEW h \in Handlers
      PROVE  /\ M!StartLimit(h) => Manager!StartLimit(h)
             /\ M!StartNew(h) => Manager!StartNew(h)
  BY CardinalityOf, CardinalityManager DEF M!StartLimit, Manager!StartLimit, M!StartNew,
     Manager!StartNew, M!Return, Manager!Return
<1>4. ASSUME NEW h \in Handlers
      PROVE  /\ M!Mkdir(h) => Manager!Mkdir(h)
             /\ M!PersistStarting(h) => Manager!PersistStarting(h)
             /\ M!PersistStartingFails(h) => Manager!PersistStartingFails(h)
  BY DEF M!Mkdir, Manager!Mkdir, M!PersistStarting, Manager!PersistStarting,
     M!PersistStartingFails, Manager!PersistStartingFails, M!Goto, Manager!Goto, M!Persisted,
     Manager!Persisted, M!Return, Manager!Return, M!PersistFails, Manager!PersistFails
<1>5. ASSUME NEW h \in Handlers
      PROVE  /\ M!Spawn(h) => Manager!Spawn(h)
             /\ M!startFailed(h) => Manager!startFailed(h)
  BY DEF M!Spawn, Manager!Spawn, M!startFailed, Manager!startFailed, M!Goto, Manager!Goto,
     M!Return, Manager!Return, M!Persisted, Manager!Persisted, M!PersistFails,
     Manager!PersistFails, M!notifyLocked, Manager!notifyLocked
<1>6. ASSUME NEW h \in Handlers
      PROVE  /\ M!PersistRunning(h) => Manager!PersistRunning(h)
             /\ M!KillUnpersisted(h) => Manager!KillUnpersisted(h)
  BY DEF M!PersistRunning, Manager!PersistRunning, M!KillUnpersisted, Manager!KillUnpersisted,
     M!Goto, Manager!Goto, M!Return, Manager!Return, M!Persisted, Manager!Persisted,
     M!PersistFails, Manager!PersistFails, M!notifyLocked, Manager!notifyLocked, M!Kill,
     Manager!Kill, M!ClosePipe, Manager!ClosePipe
<1>7. ASSUME NEW h \in Handlers
      PROVE  /\ M!Wait(h) => Manager!Wait(h)
             /\ M!WaitRead(h) => Manager!WaitRead(h)
             /\ M!WaitWakes(h) => Manager!WaitWakes(h)
             /\ M!WaitGivesUp(h) => Manager!WaitGivesUp(h)
  BY DEF M!Wait, Manager!Wait, M!WaitRead, Manager!WaitRead,
     M!WaitWakes, Manager!WaitWakes, M!WaitGivesUp, Manager!WaitGivesUp, M!Goto, Manager!Goto,
     M!Return, Manager!Return, M!Report, Manager!Report
<1>8. ASSUME NEW c \in IDs
      PROVE  /\ M!Chunk(c) => Manager!Chunk(c)
             /\ M!AppendEvent(c) => Manager!AppendEvent(c)
             /\ M!AppendFails(c) => Manager!AppendFails(c)
  BY DEF M!Chunk, Manager!Chunk, M!AppendEvent, Manager!AppendEvent, M!AppendFails,
     Manager!AppendFails, M!Kill, Manager!Kill, M!Interrupted, Manager!Interrupted
<1>9. ASSUME NEW c \in IDs
      PROVE  /\ M!Advance(c) => Manager!Advance(c)
             /\ M!Finish(c) => Manager!Finish(c)
  BY DEF M!Advance, Manager!Advance, M!Finish, Manager!Finish, M!Ended, Manager!Ended,
     M!Persisted, Manager!Persisted,
     M!PersistFails, Manager!PersistFails, M!notifyLocked, Manager!notifyLocked, M!Kill,
     Manager!Kill, M!Outcome, Manager!Outcome, M!FinishRest, Manager!FinishRest, M!ClosePipe,
     Manager!ClosePipe
<1>10. ASSUME NEW c \in IDs
      PROVE  /\ M!Status(c) => Manager!Status(c)
             /\ M!Connect(c) => Manager!Connect(c)
             /\ M!Die(c) => Manager!Die(c)
  BY DEF M!Status, Manager!Status, M!Connect, Manager!Connect, M!Die, Manager!Die, M!Report,
     Manager!Report
<1>11. ASSUME NEW c \in IDs
      PROVE  /\ M!Output(c) => Manager!Output(c)
             /\ M!CloseOutput(c) => Manager!CloseOutput(c)
  BY DEF M!Output, Manager!Output, M!CloseOutput, Manager!CloseOutput, M!Chunks, Manager!Chunks,
     M!FoldFunction,
     Manager!FoldFunction, M!FoldFunctionOnSet, Manager!FoldFunctionOnSet, M!MapThenFoldSet,
     Manager!MapThenFoldSet
<1>12. ASSUME NEW c \in IDs
      PROVE  /\ M!loadEntry(c) => Manager!loadEntry(c)
             /\ M!loadRefuses(c) => Manager!loadRefuses(c)
  BY DEF M!loadEntry, Manager!loadEntry, M!loadRefuses, Manager!loadRefuses, M!Recoverable,
     Manager!Recoverable, M!Unreadable, Manager!Unreadable, M!Recovered, Manager!Recovered,
     M!Truncated, Manager!Truncated, M!LoadEnds, Manager!LoadEnds
<1>13. M!NewManager => Manager!NewManager
  BY CardinalityOf, CardinalityManager DEF M!NewManager, Manager!NewManager
<1>14. (M!Crash => Manager!Crash) /\ (M!loadDone => Manager!loadDone)
  BY DEF M!Crash, Manager!Crash, M!loadDone, Manager!loadDone, M!Interrupted, Manager!Interrupted
<1>15. M!Next => Manager!Next
  BY <1>2, <1>3, <1>4, <1>5, <1>6, <1>7, <1>8, <1>9, <1>10, <1>11, <1>12, <1>13, <1>14
     DEF M!Next, Manager!Next, M!StartStep, Manager!StartStep, M!WaitStep, Manager!WaitStep,
     M!CollectStep, Manager!CollectStep
<1>16. UNCHANGED M!vars => UNCHANGED Manager!vars
  BY DEF M!vars, Manager!vars
<1> QED
  BY <1>1, <1>15, <1>16

\* Signal, KillAll, Stdin and CloseStdin, interleaved in any way with Start, Wait,
\* collect, crashes and recovery, are invisible to the manager: every behaviour
\* with them is one it has without them.
THEOREM ControlIsInvisible == ControlSpec => Manager!Spec
<1>1. Init /\ ControlInit => ControlInv /\ Manager!Init
  BY ControlInitially, SameManager
<1>2. ControlInv /\ [ControlNext]_controlVars => ControlInv' /\ [Manager!Next]_Manager!vars
  BY ControlKeeps, SameManager
<1> QED
  BY <1>1, <1>2, PTL DEF ControlSpec, Manager!Spec

\* What the invariant says of the manager its clients use.
LEMMA ControlGives ==
    ASSUME ControlInv
    PROVE  /\ KillAllReaches /\ AtMostOnce /\ TerminalIsDurable /\ OutputComplete
           /\ CursorsStayValid /\ NoLostWakeup
<1> USE DEF ControlInv, M!IInv
<1>1. KillAllReaches
  BY DEF KillAllReaches, HuntInv, Killing
<1>2. AtMostOnce /\ TerminalIsDurable
  BY DEF AtMostOnce, M!AtMostOnce, TerminalIsDurable, M!TerminalIsDurable
<1>3. OutputComplete /\ CursorsStayValid
  BY DEF OutputComplete, M!OutputComplete, CursorsStayValid, M!CursorsStayValid
<1>4. NoLostWakeup
  BY DEF NoLostWakeup, M!NoLostWakeup, Terminal, M!Terminal
<1> QED
  BY <1>1, <1>2, <1>3, <1>4

LEMMA ControlInvariant == ControlSpec => []ControlInv
BY ControlInitially, ControlKeeps, PTL DEF ControlSpec

\* However many clients signal, kill and wait, and whatever finishes, starts or
\* crashes meanwhile: when KillAll has gone through its list and no signal has
\* failed, the group leader of every command that was running when it began is dead.
THEOREM KillAllReachesAll == ControlSpec => []KillAllReaches
BY ControlInvariant, ControlGives, PTL

\* Whatever clients do to running commands: one child for a requestId, terminal
\* states that stay, all the output of a command that ended, cursors that stay
\* valid, and no Wait asleep on a command that has ended.
THEOREM ManagerUnderClients ==
    ControlSpec => [](/\ AtMostOnce /\ TerminalIsDurable /\ OutputComplete
                      /\ CursorsStayValid /\ NoLostWakeup)
BY ControlInvariant, ControlGives, PTL

----------------------------------------------------------------------------
(* The manager behind the server.                                          *)

\* The maps and the disk the server starts with agree.
LEMMA ServerMaps ==
    ASSUME ServerInit
    PROVE  /\ reqOf \in [IDs -> Reqs] /\ requests \in [Reqs -> IDs \cup {None}]
           /\ \A c, d \in IDs : reqOf[c] = reqOf[d] => c = d
           /\ \A c \in IDs : requests[reqOf[c]] = c
           /\ \A r \in Reqs : requests[r] # None => requests[r] \in IDs /\ reqOf[requests[r]] = r
<1>1. reqOf \in Injection(IDs, Reqs)
  BY ServerAssumption DEF ServerInit
<1>2. reqOf \in [IDs -> Reqs] /\ \A c, d \in IDs : reqOf[c] = reqOf[d] => c = d
  BY <1>1 DEF Injection, IsInjective
<1> DEFINE used == {reqOf[c] : c \in IDs}
<1>3. Range(reqOf) = used /\ used \subseteq Reqs
  BY <1>2 DEF Range
<1>4. AntiFunction(reqOf) = [r \in used |-> CHOOSE c \in IDs : r \in used => reqOf[c] = r]
  BY <1>2, <1>3 DEF AntiFunction, Inverse
<1>5. requests = [r \in Reqs |-> IF r \in used THEN AntiFunction(reqOf)[r] ELSE None]
  BY <1>3 DEF ServerInit
<1>6. \A r \in used : AntiFunction(reqOf)[r] \in IDs /\ reqOf[AntiFunction(reqOf)[r]] = r
  BY <1>4
<1>7. \A c \in IDs : requests[reqOf[c]] = c
  BY <1>2, <1>3, <1>5, <1>6
<1>8. requests \in [Reqs -> IDs \cup {None}]
  BY <1>5, <1>6
<1> QED
  BY <1>2, <1>5, <1>6, <1>7, <1>8

LEMMA ServerInitially == ServerInit => ControlInv
<1> SUFFICES ASSUME ServerInit
             PROVE  ControlInv
  OBVIOUS
<1>1. /\ record = [c \in IDs |-> [state |-> "running", nextSeq |-> 1]] /\ meta = record
      /\ todo = {} /\ commands = IDs
      /\ \A x \in spawned : x[2] \in IDs /\ x[1] = reqOf[x[2]]
      /\ spool = [c \in IDs |-> [last |-> 0, torn |-> "no"]]
      /\ reported = [c \in IDs |-> None] /\ cursor = [c \in IDs |-> 0]
      /\ waiters = [h \in Handlers |-> None]
  <2>1. [Fresh EXCEPT !.state = "running"] = [state |-> "running", nextSeq |-> 1]
    BY DEF Fresh
  <2> QED
    BY <2>1 DEF ServerInit
<1>2. /\ managerPc = [h \in Handlers |-> "idle"]
      /\ managerCall = [h \in Handlers |-> NoCall]
  BY DEF ServerInit, managerPc, managerCall, Controlling
<1>3. \A c \in IDs : ~Uncollected(c)
  BY DEF ServerInit, Uncollected
<1>4. managerStdin \in [IDs -> BOOLEAN] /\ managerInPipe \in [IDs -> BOOLEAN]
  BY DEF managerStdin, managerInPipe, Uncollected
<1>5. HandlersInv /\ HuntInv
  BY NamesAtRest DEF ServerInit, ControlInit, HandlersInv, AtRest, KillersInv, HuntInv, Killing,
     Labels, M!HandlerPCs, M!Calls, NoCall
<1>6. M!TypeOK
  <2>1. (CHOOSE s \in Specs : TRUE) \in Specs
    BY ServerAssumption
  <2>2. M!HandlerTypes
    BY <1>2 DEF M!HandlerTypes, M!HandlerPCs, M!Calls, NoCall
  <2>3. record \in [IDs -> M!Records] /\ meta \in [IDs -> M!DiskRecords]
    BY <1>1 DEF M!Records, M!DiskRecords, M!States
  <2>4. specOf \in [IDs -> Specs \cup {None}] /\ spool \in [IDs -> M!Spools]
    BY <1>1, <2>1 DEF ServerInit, M!Spools
  <2>6. spawned \subseteq Reqs \X IDs
    <3>1. spawned = {<<reqOf[c], c>> : c \in IDs} /\ \A c \in IDs : reqOf[c] \in Reqs
      BY ServerMaps DEF ServerInit
    <3> QED
      BY <3>1
  <2>7. /\ up = "up" /\ unhealthy = FALSE /\ mu = None
        /\ cpc \in [IDs -> {"none", "collect", "append", "advance", "done"}]
        /\ spoolFailed \in [IDs -> BOOLEAN]
        /\ open \in [IDs -> BOOLEAN] /\ pipe \in [IDs -> BOOLEAN]
        /\ proc \in [IDs -> {"none", "alive", "exited", "signaled"}]
        /\ produced \in [IDs -> Nat]
    BY DEF ServerInit
  <2>5. M!Types
    BY <1>1, <1>4, <2>2, <2>3, <2>4, <2>6, <2>7, ServerMaps DEF M!Types
  <2> QED
    BY <2>5, Instance, M!TypesAre
<1>7. M!Indexed /\ M!Unused
  BY <1>1, ServerMaps, ManagerAssumption DEF M!Indexed, M!Unused
<1>12. M!Stopped /\ M!Locked /\ M!Created
  BY <1>1, <1>2, ManagerAssumption DEF ServerInit, M!Stopped, M!Locked, M!Created
<1>8. M!Ownership /\ M!Collected
  <2>1. M!Ownership
    BY <1>2 DEF M!Ownership, M!Starting
  <2>2. /\ cpc = [c \in IDs |-> "collect"] /\ proc = [c \in IDs |-> "alive"]
        /\ pipe = [c \in IDs |-> FALSE] /\ produced = [c \in IDs |-> 0]
    BY DEF ServerInit
  <2>3. ASSUME NEW c \in IDs PROVE M!CollectedAt(c)
    BY <1>1, <2>2, <2>3 DEF M!CollectedAt, M!Collecting
  <2> QED
    BY <2>1, <2>3 DEF M!Collected
<1>9. M!Children
  BY <1>1 DEF ServerInit, M!Children
<1>13. M!Behind
  BY <1>1 DEF M!Behind, M!Terminal
<1>10. M!AtMostOnce
  <2>1. \A x \in spawned : \E c \in IDs : x = <<reqOf[c], c>>
    BY DEF ServerInit
  <2> QED
    BY <2>1, ServerMaps DEF M!AtMostOnce
<1>11. M!TerminalIsDurable /\ M!OutputComplete /\ M!CursorsStayValid /\ M!NoLostWakeup
  BY <1>1 DEF M!TerminalIsDurable, M!OutputComplete, M!CursorsStayValid, M!NoLostWakeup
<1> QED
  BY <1>5, <1>6, <1>7, <1>8, <1>9, <1>10, <1>11, <1>12, <1>13 DEF ControlInv, M!IInv

\* Whatever the server does to the manager one of its clients does.
LEMMA ServerControls == [ServerNext]_allVars => [ControlNext]_controlVars
<1> SUFFICES ASSUME [ServerNext]_allVars
             PROVE  [ControlNext]_controlVars
  OBVIOUS
<1>1. UNCHANGED manager => UNCHANGED controlVars
  BY DEF manager
<1>2. ASSUME NEW h \in Handlers, Dispatch(h) \/ OperationStep(h) \/ ServingReleased(h)
      PROVE  [ControlNext]_controlVars
  BY <1>1, <1>2 DEF Dispatch, OperationStep, Serving, WaitCancelled, ServingReleased,
     HandlerReleased, ControlNext
<1>3. ASSUME NEW c \in IDs, CollectStepOf(c) \/ ChildStep(c)
      PROVE  [ControlNext]_controlVars
  BY <1>3 DEF CollectStepOf, ChildStep, ControlNext
<1>4. ServeReturns => ControlNext
  BY DEF ServeReturns, ControlNext
<1> QED
  BY <1>1, <1>2, <1>3, <1>4
  DEF ServerNext, allVars, server, Sigterm, CloseListener, TakeSlot, StopServing, AcceptFails,
      Accept, Leave, ConnectionStep, ReadFails, Hangup, WatcherEnds, writeResponse

LEMMA ServerInvariant == ServerSpec => []ControlInv
<1>1. ControlInv /\ [ServerNext]_allVars => ControlInv'
  BY ControlKeeps, ServerControls
<1> QED
  BY <1>1, ServerInitially, PTL DEF ServerSpec

\* Behind the server, too, what clients do to a running command, and how they
\* leave, is invisible to the manager.
THEOREM ServerTakesManagerSteps == ServerSpec => ManagerSteps
<1>1. ControlInv /\ [ServerNext]_allVars => ControlInv' /\ [Manager!Next]_Manager!vars
  BY ControlKeeps, SameManager, ServerControls
<1> QED
  BY <1>1, ServerInitially, PTL DEF ServerSpec, ManagerSteps

\* A KillAll that succeeds misses no command of a client either, whatever the other clients do,
\* whoever hangs up, and whenever the server is told to stop.
THEOREM KillAllIsComplete == ServerSpec => []KillAllReaches
BY ServerInvariant, ControlGives, PTL

\* Nor do disconnects, cancelled Waits and shutdown cost the manager any of what it
\* promises about records, output, cursors and waiters.
THEOREM ManagerBehindServer ==
    ServerSpec => [](/\ AtMostOnce /\ TerminalIsDurable /\ OutputComplete
                     /\ CursorsStayValid /\ NoLostWakeup)
BY ServerInvariant, ControlGives, PTL

----------------------------------------------------------------------------
(* The slots.                                                              *)

\* SlotsHeld speaks of a cardinality: it is inductive only with what conn holds
\* and with the finiteness of the set it counts.
SlotsInv ==
    /\ conn \in [Handlers -> {"none", "reading", "serving"}]
    /\ IsFiniteSet(Served)
    /\ clients \in Int
    /\ SlotsHeld

\* One goroutine more, or one less, to serve a connection.
LEMMA ServedOneMore ==
    ASSUME SlotsInv, NEW h \in Handlers, conn[h] = "none",
           conn' = [conn EXCEPT ![h] = "reading"]
    PROVE IsFiniteSet(Served') /\ Cardinality(Served') = Cardinality(Served) + 1
<1>1. Served' = Served \cup {h} /\ h \notin Served
  BY DEF SlotsInv, Served
<1> QED
  BY <1>1, FS_AddElement DEF SlotsInv

LEMMA ServedOneLess ==
    ASSUME SlotsInv, NEW h \in Handlers, conn[h] # "none",
           conn' = [conn EXCEPT ![h] = "none"]
    PROVE IsFiniteSet(Served') /\ Cardinality(Served') = Cardinality(Served) - 1
<1>1. Served' = Served \ {h} /\ h \in Served
  BY DEF SlotsInv, Served
<1> QED
  BY <1>1, FS_RemoveElement DEF SlotsInv

\* The connections that are served stay the same.
LEMMA ServedAsBefore ==
    ASSUME SlotsInv, conn' \in [Handlers -> {"none", "reading", "serving"}],
           \A h \in Handlers : conn[h] = "none" <=> conn'[h] = "none",
           clients' = clients, serve' = "accept" <=> serve = "accept"
    PROVE SlotsInv'
<1>1. Served' = Served
  BY DEF SlotsInv, Served
<1> QED
  BY <1>1 DEF SlotsInv, SlotsHeld

LEMMA SlotsStep ==
    ASSUME SlotsInv, [ServerNext]_allVars
    PROVE SlotsInv'
<1> USE DEF SlotsInv
<1>a. Cardinality(Served) \in Int
  BY FS_CardinalityType
<1>1. CASE UNCHANGED <<serve, clients, conn>>
  BY <1>1, ServedAsBefore
<1>2. CASE TakeSlot
  <2>1. Served' = Served
    BY <1>2 DEF TakeSlot, Served
  <2> QED
    BY <1>a, <1>2, <2>1 DEF TakeSlot, SlotsHeld
<1>3. CASE StopServing \/ ServeReturns
  BY <1>3, ServedAsBefore DEF StopServing, ServeReturns
<1>4. CASE AcceptFails
  <2>1. Served' = Served
    BY <1>4 DEF AcceptFails, Served
  <2> QED
    BY <1>a, <1>4, <2>1 DEF AcceptFails, SlotsHeld
<1>5. ASSUME NEW h \in Handlers, Accept(h) PROVE SlotsInv'
  <2>1. IsFiniteSet(Served') /\ Cardinality(Served') = Cardinality(Served) + 1
    BY <1>5, ServedOneMore DEF Accept
  <2>2. conn' \in [Handlers -> {"none", "reading", "serving"}]
    BY <1>5 DEF Accept
  <2> QED
    BY <1>5, <2>1, <1>a, <2>2 DEF Accept, SlotsHeld
<1>6. ASSUME NEW h \in Handlers, conn[h] # "none", Hangup(h) PROVE SlotsInv'
  <2>1. IsFiniteSet(Served') /\ Cardinality(Served') = Cardinality(Served) - 1
    BY <1>6, ServedOneLess DEF Hangup
  <2>2. conn' \in [Handlers -> {"none", "reading", "serving"}]
    BY <1>6 DEF Hangup
  <2> QED
    BY <1>6, <2>1, <1>a, <2>2 DEF Hangup, SlotsHeld
<1>7. ASSUME NEW h \in Handlers, Dispatch(h) PROVE SlotsInv'
  BY <1>7, ServedAsBefore DEF Dispatch
<1> QED
  BY <1>1, <1>2, <1>3, <1>4, <1>5, <1>6, <1>7
  DEF ServerNext, allVars, server, Sigterm, CloseListener, ConnectionStep, ReadFails,
      WatcherEnds, writeResponse, Dispatched, Leave, OperationStep, Serving, WaitCancelled,
      ServingReleased, CollectStepOf, ChildStep

\* Whatever happens to clients, operations and the listener, every connection
\* that is served holds one slot and gives it back once.
THEOREM SlotsAreHeld == ServerSpec => []SlotsHeld
<1>1. ServerInit => SlotsInv
  <2>1. ServerInit => /\ conn = [h \in Handlers |-> "none"]
                      /\ clients = 0 /\ serve = "slot" /\ Served = {}
    BY DEF ServerInit, Served
  <2> QED
    BY <2>1, FS_EmptySet DEF SlotsInv, SlotsHeld
<1>2. SlotsInv /\ [ServerNext]_allVars => SlotsInv'
  BY SlotsStep
<1>3. SlotsInv => SlotsHeld
  BY DEF SlotsInv
<1> QED
  BY <1>1, <1>2, <1>3, PTL DEF ServerSpec
=============================================================================
