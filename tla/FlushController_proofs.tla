----------------------- MODULE FlushController_proofs -----------------------
(***************************************************************************)
(* The controller keeps its data and its threads in order for any number   *)
(* of clients, threads, rows and metrics.  IInv is inductive: DataInv is   *)
(* kept by the lemmas of BpannBackend_proofs, the control part because a   *)
(* handle moves between the slot and one client and is joined by whoever   *)
(* holds it.  What ties them together is Alone: a mutator that reaches     *)
(* the data knows of every thread there is.                                *)
(***************************************************************************)
EXTENDS FlushController, BpannBackend_proofs, FiniteSetTheorems

(* A mutator that reaches the data is alone.                               *)
LEMMA Alone == IInv => MutatorsAlone
  <1> SUFFICES ASSUME IInv, NEW c \in Clients,
                      op[c] \in Exclusive, pc[c] = "write"
               PROVE  job = None /\ \A w \in Workers : worker[w] = "idle"
    BY DEF MutatorsAlone
  <1>1. job = None
    BY DEF IInv, BorrowInv
  <1>2. ASSUME NEW d \in Clients
        PROVE  held[d] = None
    BY DEF IInv, BorrowInv, HeldInv
  <1>3. ASSUME NEW w \in Workers
        PROVE  worker[w] = "idle"
    BY <1>1, <1>2, ControllerAssumption DEF IInv, OwnerInv
  <1> QED BY <1>1, <1>3

(* The initial state.                                                      *)
LEMMA InitInv == Init => IInv
  <1> SUFFICES ASSUME Init PROVE IInv
    OBVIOUS
  <1> USE DEF Init
  <1>1. Consistent(db)
    <2>1. PICK n \in 0 .. OpenRows : db \in OpenStates(n)
      OBVIOUS
    <2>2. PICK b \in OpenBackends(n, Unscaled) : db \in {b, EnsureSync(b)}
      BY <2>1 DEF OpenStates
    <2>3. Consistent(b)
      BY OpenedConsistent, ControllerAssumption, BackendAssumption
    <2> QED BY <2>2, <2>3, EnsureSyncConsistent
  <1>2. TypeOK
    BY <1>1 DEF TypeOK, Consistent, Phases, Labels
  <1>3. DataInv
    BY <1>1 DEF DataInv, DetachedBuildIsCurrent
  <1>4. HeldInv /\ OwnerInv
    BY DEF HeldInv, OwnerInv
  <1>5. BorrowInv
    BY DEF BorrowInv, Exclusive
  <1> QED BY <1>2, <1>3, <1>4, <1>5 DEF IInv

(* A step that adds no row, changes no metric and finishes no build keeps  *)
(* DataInv if it keeps the backend consistent.                             *)
LEMMA SameRows ==
  ASSUME DataInv, Consistent(db'),
         db'.rows = db.rows, db'.metric = db.metric,
         \A w \in Workers : worker'[w] = "built" =>
           worker[w] = "built" /\ built'[w] = built[w]
  PROVE  DataInv'
  BY DEF DataInv, DetachedBuildIsCurrent

(* A step that leaves the backend and the threads' results alone.          *)
LEMMA UnchangedData ==
  ASSUME DataInv, UNCHANGED db,
         \A w \in Workers : worker'[w] = "built" =>
           worker[w] = "built" /\ built'[w] = built[w]
  PROVE  DataInv'
  BY DEF DataInv, DetachedBuildIsCurrent

(* A step after which no thread is between its build and its publish.      *)
LEMMA NoneBuilt ==
  ASSUME Consistent(db'), \A w \in Workers : worker'[w] # "built"
  PROVE  DataInv'
  BY DEF DataInv, DetachedBuildIsCurrent
(* One step per action.                                                    *)
LEMMA StepInv == IInv /\ [Next]_vars => IInv'
  <1> SUFFICES ASSUME IInv, [Next]_vars PROVE IInv'
    OBVIOUS
  <1>1. ASSUME NEW c \in Clients, Begin(c)
        PROVE  IInv'
    <2> USE <1>1 DEF Begin, Enter, Goto, flush, Waiting
    <2>1. DataInv'
      BY UnchangedData DEF IInv, TypeOK
    <2>2. TypeOK'
      BY <2>1, ControllerAssumption
         DEF IInv, DataInv, Consistent, TypeOK, Phases, Labels, Exclusive,
             Shared
    <2>3. HeldInv'
      BY ControllerAssumption DEF IInv, TypeOK, HeldInv, OwnerInv
    <2>4. OwnerInv'
      BY ControllerAssumption DEF IInv, TypeOK, HeldInv, OwnerInv
    <2>5. BorrowInv'
      <3>1. PICK o \in Ops : Enter(c, o, Waiting)
        OBVIOUS
      <3>2. o \in Exclusive \cup Shared /\ Exclusive \cap Shared = {}
        BY ControllerAssumption DEF Exclusive, Shared
      <3>3. ASSUME NEW d \in Clients
            PROVE  op'[d] = "none" <=> pc'[d] = "idle"
        BY <3>1, <3>2 DEF IInv, TypeOK, BorrowInv, Exclusive, Shared
      <3>4. ASSUME NEW d \in Clients, op'[d] \in Exclusive
            PROVE  /\ \A e \in Clients \ {d} : pc'[e] = "idle"
                   /\ pc'[d] \in {"take", "join", "latch", "write"}
                   /\ pc'[d] # "take" => job' = None
        <4>1. CASE d = c
          <5>1. o \in Exclusive /\ o \in Waiting
            BY <3>1, <3>4, <4>1 DEF IInv, TypeOK, Exclusive
          <5>2. \A e \in Clients \ {c} : pc'[e] = "idle"
            BY <3>1, <3>2, <5>1 DEF IInv, TypeOK
          <5> QED BY <3>1, <4>1, <5>1, <5>2 DEF IInv, TypeOK
        <4>2. CASE d # c
          <5>1. op[d] \in Exclusive /\ pc[d] # "idle"
            BY <3>1, <3>4, <4>2 DEF IInv, TypeOK, BorrowInv, Exclusive
          <5> QED BY <3>1, <3>2, <4>2, <5>1
        <4> QED BY <4>1, <4>2
      <3> QED BY <3>3, <3>4 DEF BorrowInv
    <2> QED BY <2>1, <2>2, <2>3, <2>4, <2>5 DEF IInv
  <1>2. ASSUME NEW c \in Clients, TakeJob(c)
        PROVE  IInv'
    <2> USE <1>2 DEF TakeJob, Goto, flush
    <2>1. DataInv'
      BY UnchangedData DEF IInv, TypeOK
    <2>2. TypeOK'
      BY <2>1, ControllerAssumption
         DEF IInv, DataInv, Consistent, TypeOK, Phases, Labels, Exclusive,
             Shared
    <2>3. HeldInv'
      BY ControllerAssumption DEF IInv, TypeOK, HeldInv, OwnerInv
    <2>4. OwnerInv'
      BY ControllerAssumption DEF IInv, TypeOK, HeldInv, OwnerInv
    <2>5. BorrowInv'
      BY DEF IInv, TypeOK, HeldInv, BorrowInv, Exclusive, Shared
    <2> QED BY <2>1, <2>2, <2>3, <2>4, <2>5 DEF IInv
  <1>3. ASSUME NEW c \in Clients, JoinJob(c)
        PROVE  IInv'
    <2> USE <1>3 DEF JoinJob, Goto, Return
    <2>1. DataInv'
      BY UnchangedData DEF IInv, TypeOK
    <2>2. TypeOK'
      BY <2>1, ControllerAssumption
         DEF IInv, DataInv, Consistent, TypeOK, Phases, Labels, Exclusive,
             Shared
    <2>3. HeldInv'
      BY ControllerAssumption DEF IInv, TypeOK, HeldInv, OwnerInv
    <2>4. OwnerInv'
      BY ControllerAssumption DEF IInv, TypeOK, HeldInv, OwnerInv
    <2>5. BorrowInv'
      BY DEF IInv, TypeOK, HeldInv, BorrowInv, Exclusive, Shared
    <2> QED BY <2>1, <2>2, <2>3, <2>4, <2>5 DEF IInv
  <1>4. ASSUME NEW c \in Clients, CheckLatch(c)
        PROVE  IInv'
    <2> USE <1>4 DEF CheckLatch, Goto, Return, flush
    <2>1. DataInv'
      BY UnchangedData DEF IInv, TypeOK
    <2>2. TypeOK'
      BY <2>1, ControllerAssumption
         DEF IInv, DataInv, Consistent, TypeOK, Phases, Labels, Exclusive,
             Shared
    <2>3. HeldInv'
      BY ControllerAssumption DEF IInv, TypeOK, HeldInv, OwnerInv
    <2>4. OwnerInv'
      BY ControllerAssumption DEF IInv, TypeOK, HeldInv, OwnerInv
    <2>5. BorrowInv'
      BY DEF IInv, TypeOK, HeldInv, BorrowInv, Exclusive, Shared
    <2> QED BY <2>1, <2>2, <2>3, <2>4, <2>5 DEF IInv
  <1>5. ASSUME NEW c \in Clients, ScheduleErrCheck(c)
        PROVE  IInv'
    <2> USE <1>5 DEF ScheduleErrCheck, Goto, Return, flush
    <2>1. DataInv'
      BY UnchangedData DEF IInv, TypeOK
    <2>2. TypeOK'
      BY <2>1, ControllerAssumption
         DEF IInv, DataInv, Consistent, TypeOK, Phases, Labels, Exclusive,
             Shared
    <2>3. HeldInv'
      BY ControllerAssumption DEF IInv, TypeOK, HeldInv, OwnerInv
    <2>4. OwnerInv'
      BY ControllerAssumption DEF IInv, TypeOK, HeldInv, OwnerInv
    <2>5. BorrowInv'
      BY DEF IInv, TypeOK, HeldInv, BorrowInv, Exclusive, Shared
    <2> QED BY <2>1, <2>2, <2>3, <2>4, <2>5 DEF IInv
  <1>6. ASSUME NEW c \in Clients, Snapshot(c)
        PROVE  IInv'
    <2> USE <1>6 DEF Snapshot, Goto, Return, flush
    <2>1. DataInv'
      BY UnchangedData DEF IInv, TypeOK
    <2>2. TypeOK'
      BY <2>1, ControllerAssumption
         DEF IInv, DataInv, Consistent, TypeOK, Phases, Labels, Exclusive,
             Shared
    <2>3. HeldInv'
      BY ControllerAssumption DEF IInv, TypeOK, HeldInv, OwnerInv
    <2>4. OwnerInv'
      BY ControllerAssumption DEF IInv, TypeOK, HeldInv, OwnerInv
    <2>5. BorrowInv'
      BY DEF IInv, TypeOK, HeldInv, BorrowInv, Exclusive, Shared
    <2> QED BY <2>1, <2>2, <2>3, <2>4, <2>5 DEF IInv
  <1>7. ASSUME NEW c \in Clients, SlotTaken(c)
        PROVE  IInv'
    <2> USE <1>7 DEF SlotTaken, Goto, Return, flush
    <2>1. DataInv'
      BY UnchangedData DEF IInv, TypeOK
    <2>2. TypeOK'
      BY <2>1, ControllerAssumption
         DEF IInv, DataInv, Consistent, TypeOK, Phases, Labels, Exclusive,
             Shared
    <2>3. HeldInv'
      BY ControllerAssumption DEF IInv, TypeOK, HeldInv, OwnerInv
    <2>4. OwnerInv'
      BY ControllerAssumption DEF IInv, TypeOK, HeldInv, OwnerInv
    <2>5. BorrowInv'
      BY DEF IInv, TypeOK, HeldInv, BorrowInv, Exclusive, Shared
    <2> QED BY <2>1, <2>2, <2>3, <2>4, <2>5 DEF IInv
  <1>8. ASSUME NEW c \in Clients, Spawn(c)
        PROVE  IInv'
    <2> USE <1>8 DEF Spawn, Goto
    <2>1. DataInv'
      BY UnchangedData DEF IInv, TypeOK
    <2>2. TypeOK'
      BY <2>1, ControllerAssumption
         DEF IInv, DataInv, Consistent, TypeOK, Phases, Labels, Exclusive,
             Shared
    <2>3. HeldInv'
      BY ControllerAssumption DEF IInv, TypeOK, HeldInv, OwnerInv
    <2>4. OwnerInv'
      BY ControllerAssumption DEF IInv, TypeOK, HeldInv, OwnerInv
    <2>5. BorrowInv'
      BY DEF IInv, TypeOK, HeldInv, BorrowInv, Exclusive, Shared
    <2> QED BY <2>1, <2>2, <2>3, <2>4, <2>5 DEF IInv
  <1>9. ASSUME NEW c \in Clients, StoreJob(c)
        PROVE  IInv'
    <2> USE <1>9 DEF StoreJob, Goto, Return, flush
    <2>1. DataInv'
      BY UnchangedData DEF IInv, TypeOK
    <2>2. TypeOK'
      BY <2>1, ControllerAssumption
         DEF IInv, DataInv, Consistent, TypeOK, Phases, Labels, Exclusive,
             Shared
    <2>3. HeldInv'
      BY ControllerAssumption DEF IInv, TypeOK, HeldInv, OwnerInv
    <2>4. OwnerInv'
      BY ControllerAssumption DEF IInv, TypeOK, HeldInv, OwnerInv
    <2>5. BorrowInv'
      BY DEF IInv, TypeOK, HeldInv, BorrowInv, Exclusive, Shared
    <2> QED BY <2>1, <2>2, <2>3, <2>4, <2>5 DEF IInv
  <1>10. ASSUME NEW c \in Clients, FindSlotTaken(c)
        PROVE  IInv'
    <2> USE <1>10 DEF FindSlotTaken, Goto, flush
    <2>1. DataInv'
      BY UnchangedData DEF IInv, TypeOK
    <2>2. TypeOK'
      BY <2>1, ControllerAssumption
         DEF IInv, DataInv, Consistent, TypeOK, Phases, Labels, Exclusive,
             Shared
    <2>3. HeldInv'
      BY ControllerAssumption DEF IInv, TypeOK, HeldInv, OwnerInv
    <2>4. OwnerInv'
      BY ControllerAssumption DEF IInv, TypeOK, HeldInv, OwnerInv
    <2>5. BorrowInv'
      BY DEF IInv, TypeOK, HeldInv, BorrowInv, Exclusive, Shared
    <2> QED BY <2>1, <2>2, <2>3, <2>4, <2>5 DEF IInv
  <1>11. ASSUME NEW c \in Clients, JoinSpare(c)
        PROVE  IInv'
    <2> USE <1>11 DEF JoinSpare, Goto, Return
    <2>1. DataInv'
      BY UnchangedData DEF IInv, TypeOK
    <2>2. TypeOK'
      BY <2>1, ControllerAssumption
         DEF IInv, DataInv, Consistent, TypeOK, Phases, Labels, Exclusive,
             Shared
    <2>3. HeldInv'
      BY ControllerAssumption DEF IInv, TypeOK, HeldInv, OwnerInv
    <2>4. OwnerInv'
      BY ControllerAssumption DEF IInv, TypeOK, HeldInv, OwnerInv
    <2>5. BorrowInv'
      BY DEF IInv, TypeOK, HeldInv, BorrowInv, Exclusive, Shared
    <2> QED BY <2>1, <2>2, <2>3, <2>4, <2>5 DEF IInv
  <1>12. ASSUME NEW c \in Clients, HardFlushFails(c)
        PROVE  IInv'
    <2> USE <1>12 DEF HardFlushFails, Locked, Goto, Return, flush
    <2>1. DataInv'
      BY UnchangedData DEF IInv, TypeOK
    <2>2. TypeOK'
      BY <2>1, ControllerAssumption
         DEF IInv, DataInv, Consistent, TypeOK, Phases, Labels, Exclusive,
             Shared
    <2>3. HeldInv'
      BY ControllerAssumption DEF IInv, TypeOK, HeldInv, OwnerInv
    <2>4. OwnerInv'
      BY ControllerAssumption DEF IInv, TypeOK, HeldInv, OwnerInv
    <2>5. BorrowInv'
      BY DEF IInv, TypeOK, HeldInv, BorrowInv, Exclusive, Shared
    <2> QED BY <2>1, <2>2, <2>3, <2>4, <2>5 DEF IInv
  <1>13. ASSUME NEW c \in Clients, SearchBegin(c)
        PROVE  IInv'
    <2> USE <1>13 DEF SearchBegin, Goto
    <2>1. DataInv'
      BY UnchangedData DEF IInv, TypeOK
    <2>2. TypeOK'
      BY <2>1, ControllerAssumption
         DEF IInv, DataInv, Consistent, TypeOK, Phases, Labels, Exclusive,
             Shared
    <2>3. HeldInv'
      BY ControllerAssumption DEF IInv, TypeOK, HeldInv, OwnerInv
    <2>4. OwnerInv'
      BY ControllerAssumption DEF IInv, TypeOK, HeldInv, OwnerInv
    <2>5. BorrowInv'
      BY DEF IInv, TypeOK, HeldInv, BorrowInv, Exclusive, Shared
    <2> QED BY <2>1, <2>2, <2>3, <2>4, <2>5 DEF IInv
  <1>14. ASSUME NEW c \in Clients, AppendLocked(c)
        PROVE  IInv'
    <2> USE <1>14 DEF AppendLocked, Locked, Goto, Return, flush
    <2>1. \A v \in Workers : worker'[v] # "built"
      BY Alone DEF MutatorsAlone, Exclusive
    <2>2. Consistent(db')
      BY AppendConsistent, ControllerAssumption DEF IInv, DataInv
    <2>3. DataInv'
      BY <2>1, <2>2, NoneBuilt
    <2>4. TypeOK'
      BY <2>3, ControllerAssumption
         DEF IInv, DataInv, Consistent, TypeOK, Phases, Labels, Exclusive,
             Shared
    <2>5. HeldInv'
      BY ControllerAssumption DEF IInv, TypeOK, HeldInv, OwnerInv
    <2>6. OwnerInv'
      BY ControllerAssumption DEF IInv, TypeOK, HeldInv, OwnerInv
    <2>7. BorrowInv'
      BY DEF IInv, TypeOK, HeldInv, BorrowInv, Exclusive, Shared
    <2> QED BY <2>3, <2>4, <2>5, <2>6, <2>7 DEF IInv
  <1>15. ASSUME NEW c \in Clients, SetMetricLocked(c)
        PROVE  IInv'
    <2> USE <1>15 DEF SetMetricLocked, Locked, Goto, Return, flush
    <2>1. \A v \in Workers : worker'[v] # "built"
      BY Alone DEF MutatorsAlone, Exclusive
    <2>2. Consistent(db')
      BY SetMetricConsistent, ControllerAssumption DEF IInv, DataInv
    <2>3. DataInv'
      BY <2>1, <2>2, NoneBuilt
    <2>4. TypeOK'
      BY <2>3, ControllerAssumption
         DEF IInv, DataInv, Consistent, TypeOK, Phases, Labels, Exclusive,
             Shared
    <2>5. HeldInv'
      BY ControllerAssumption DEF IInv, TypeOK, HeldInv, OwnerInv
    <2>6. OwnerInv'
      BY ControllerAssumption DEF IInv, TypeOK, HeldInv, OwnerInv
    <2>7. BorrowInv'
      BY DEF IInv, TypeOK, HeldInv, BorrowInv, Exclusive, Shared
    <2> QED BY <2>3, <2>4, <2>5, <2>6, <2>7 DEF IInv
  <1>16. ASSUME NEW c \in Clients, SyncLocked(c)
        PROVE  IInv'
    <2> USE <1>16 DEF SyncLocked, Locked, Goto, Return, flush
    <2>1. Consistent(db') /\ db'.rows = db.rows /\ db'.metric = db.metric
      BY EnsureSyncConsistent, EnsureSyncFailedConsistent DEF IInv, DataInv
    <2>2. DataInv'
      BY <2>1, SameRows DEF IInv
    <2>3. TypeOK'
      BY <2>2, ControllerAssumption
         DEF IInv, DataInv, Consistent, TypeOK, Phases, Labels, Exclusive,
             Shared
    <2>4. HeldInv'
      BY ControllerAssumption DEF IInv, TypeOK, HeldInv, OwnerInv
    <2>5. OwnerInv'
      BY ControllerAssumption DEF IInv, TypeOK, HeldInv, OwnerInv
    <2>6. BorrowInv'
      BY DEF IInv, TypeOK, HeldInv, BorrowInv, Exclusive, Shared
    <2> QED BY <2>2, <2>3, <2>4, <2>5, <2>6 DEF IInv
  <1>17. ASSUME NEW c \in Clients, PersistLocked(c)
        PROVE  IInv'
    <2> USE <1>17 DEF PersistLocked, Locked, Goto, Return, flush
    <2>1. Consistent(db') /\ db'.rows = db.rows /\ db'.metric = db.metric
      BY PersistConsistent DEF IInv, DataInv
    <2>2. DataInv'
      BY <2>1, SameRows DEF IInv
    <2>3. TypeOK'
      BY <2>2, ControllerAssumption
         DEF IInv, DataInv, Consistent, TypeOK, Phases, Labels, Exclusive,
             Shared
    <2>4. HeldInv'
      BY ControllerAssumption DEF IInv, TypeOK, HeldInv, OwnerInv
    <2>5. OwnerInv'
      BY ControllerAssumption DEF IInv, TypeOK, HeldInv, OwnerInv
    <2>6. BorrowInv'
      BY DEF IInv, TypeOK, HeldInv, BorrowInv, Exclusive, Shared
    <2> QED BY <2>2, <2>3, <2>4, <2>5, <2>6 DEF IInv
  <1>18. ASSUME NEW c \in Clients, HardFlush(c)
        PROVE  IInv'
    <2> USE <1>18 DEF HardFlush, Locked, Goto, Return, flush
    <2>1. Consistent(db') /\ db'.rows = db.rows /\ db'.metric = db.metric
      BY SoftBuildCurrent, PublishConsistent, ControllerAssumption
         DEF IInv, DataInv
    <2>2. DataInv'
      BY <2>1, SameRows DEF IInv
    <2>3. TypeOK'
      BY <2>2, ControllerAssumption
         DEF IInv, DataInv, Consistent, TypeOK, Phases, Labels, Exclusive,
             Shared
    <2>4. HeldInv'
      BY ControllerAssumption DEF IInv, TypeOK, HeldInv, OwnerInv
    <2>5. OwnerInv'
      BY ControllerAssumption DEF IInv, TypeOK, HeldInv, OwnerInv
    <2>6. BorrowInv'
      BY DEF IInv, TypeOK, HeldInv, BorrowInv, Exclusive, Shared
    <2> QED BY <2>2, <2>3, <2>4, <2>5, <2>6 DEF IInv
  <1>19. ASSUME NEW c \in Clients, SearchEnd(c)
        PROVE  IInv'
    <2> USE <1>19 DEF SearchEnd, Goto, Return
    <2>1. Consistent(db') /\ db'.rows = db.rows /\ db'.metric = db.metric
      BY FillCacheConsistent DEF IInv, DataInv
    <2>2. DataInv'
      BY <2>1, SameRows DEF IInv
    <2>3. TypeOK'
      BY <2>2, ControllerAssumption
         DEF IInv, DataInv, Consistent, TypeOK, Phases, Labels, Exclusive,
             Shared
    <2>4. HeldInv'
      BY ControllerAssumption DEF IInv, TypeOK, HeldInv, OwnerInv
    <2>5. OwnerInv'
      BY ControllerAssumption DEF IInv, TypeOK, HeldInv, OwnerInv
    <2>6. BorrowInv'
      BY DEF IInv, TypeOK, HeldInv, BorrowInv, Exclusive, Shared
    <2> QED BY <2>2, <2>3, <2>4, <2>5, <2>6 DEF IInv
  <1>20. ASSUME NEW w \in Workers, BuildBegin(w)
        PROVE  IInv'
    <2> USE <1>20 DEF BuildBegin
    <2>1. DataInv'
      BY UnchangedData DEF IInv, TypeOK
    <2>2. TypeOK'
      BY <2>1, ControllerAssumption
         DEF IInv, DataInv, Consistent, TypeOK, Phases, Labels, Exclusive,
             Shared
    <2>3. HeldInv'
      BY ControllerAssumption DEF IInv, TypeOK, HeldInv, OwnerInv
    <2>4. OwnerInv'
      BY ControllerAssumption DEF IInv, TypeOK, HeldInv, OwnerInv
    <2>5. BorrowInv'
      BY DEF IInv, TypeOK, HeldInv, BorrowInv, Exclusive, Shared
    <2> QED BY <2>1, <2>2, <2>3, <2>4, <2>5 DEF IInv
  <1>21. ASSUME NEW w \in Workers, BuildEnd(w)
        PROVE  IInv'
    <2> USE <1>21 DEF BuildEnd
    <2>1. SoftBuild(db) # None =>
            db.rows # 0 /\ SoftBuild(db) \in Index
            /\ SoftBuild(db) = [rows |-> db.rows, metrics |-> {db.metric}]
      BY SoftBuildCurrent, ControllerAssumption DEF IInv, DataInv
    <2>2. DataInv'
      BY <2>1 DEF IInv, DataInv, DetachedBuildIsCurrent, TypeOK, Phases
    <2>3. TypeOK'
      BY <2>2, <2>1, ControllerAssumption
         DEF IInv, DataInv, Consistent, TypeOK, Phases, Labels, Exclusive,
             Shared
    <2>4. HeldInv'
      BY ControllerAssumption DEF IInv, TypeOK, HeldInv, OwnerInv
    <2>5. OwnerInv'
      BY ControllerAssumption DEF IInv, TypeOK, HeldInv, OwnerInv
    <2>6. BorrowInv'
      BY DEF IInv, TypeOK, HeldInv, BorrowInv, Exclusive, Shared
    <2> QED BY <2>2, <2>3, <2>4, <2>5, <2>6 DEF IInv
  <1>22. ASSUME NEW w \in Workers, Publish(w)
        PROVE  IInv'
    <2> USE <1>22 DEF Publish
    <2>1. Consistent(db') /\ db'.rows = db.rows /\ db'.metric = db.metric
      BY PublishConsistent DEF IInv, DataInv, DetachedBuildIsCurrent
    <2>2. \A v \in Workers : worker'[v] = "built" =>
            worker[v] = "built" /\ built'[v] = built[v]
      BY DEF IInv, TypeOK
    <2>3. DataInv'
      BY <2>1, <2>2, SameRows DEF IInv
    <2>4. TypeOK'
      BY <2>3, ControllerAssumption
         DEF IInv, DataInv, Consistent, TypeOK, Phases, Labels, Exclusive,
             Shared
    <2>5. HeldInv'
      BY ControllerAssumption DEF IInv, TypeOK, HeldInv, OwnerInv
    <2>6. OwnerInv'
      BY ControllerAssumption DEF IInv, TypeOK, HeldInv, OwnerInv
    <2>7. BorrowInv'
      BY DEF IInv, TypeOK, HeldInv, BorrowInv, Exclusive, Shared
    <2> QED BY <2>3, <2>4, <2>5, <2>6, <2>7 DEF IInv
  <1>23. CASE UNCHANGED vars
    BY <1>23
       DEF vars, IInv, TypeOK, DataInv, DetachedBuildIsCurrent, HeldInv,
           OwnerInv, BorrowInv
  <1> QED
    BY <1>1, <1>2, <1>3, <1>4, <1>5, <1>6, <1>7, <1>8, <1>9, <1>10, <1>11,
       <1>12, <1>13, <1>14, <1>15, <1>16, <1>17, <1>18, <1>19, <1>20, <1>21,
       <1>22, <1>23
       DEF Next, LockedStep, Continue

(* The inductive invariant holds in every reachable state.                 *)
THEOREM Invariance == Spec => []IInv
  <1>1. Init => IInv
    BY InitInv
  <1>2. IInv /\ [Next]_vars => IInv'
    BY StepInv
  <1> QED BY <1>1, <1>2, PTL DEF Spec

(* The controller's type invariant.                                        *)
THEOREM TypeCorrect == Spec => []TypeOK
  <1>1. IInv => TypeOK
    BY DEF IInv
  <1> QED BY <1>1, Invariance, PTL

(* soft_publish zeroing the count of the moment never loses a row.         *)
THEOREM BacklogIsCounted == Spec => []BacklogCounted
  <1>1. IInv => BacklogCounted
    BY Fields DEF IInv, DataInv, BacklogCounted
  <1> QED BY <1>1, Invariance, PTL

(* A build that waits for the write lock is never stale.                   *)
THEOREM BuildsAreCurrent == Spec => []DetachedBuildIsCurrent
  <1>1. IInv => DetachedBuildIsCurrent
    BY DEF IInv, DataInv
  <1> QED BY <1>1, Invariance, PTL

(* wait_flush and Rust's borrow rules leave a mutator alone with the data. *)
THEOREM MutatorsAreAlone == Spec => []MutatorsAlone
  BY Invariance, Alone, PTL

(* Every spawned thread is owned by exactly one place until it is joined.  *)
THEOREM ThreadsAreOwned == Spec => []OneOwnerPerThread
  <1>1. IInv => OneOwnerPerThread
    <2> SUFFICES ASSUME IInv, NEW w \in Workers
                 PROVE  /\ worker[w] # "idle" <=> job = w \/ Owners(w) # {}
                        /\ job = w => Owners(w) = {}
                        /\ \A c, d \in Owners(w) : c = d
      BY DEF OneOwnerPerThread
    <2>1. w # None
      BY ControllerAssumption
    <2> QED BY <2>1 DEF IInv, HeldInv, OwnerInv, Owners
  <1> QED BY <1>1, Invariance, PTL

(* No search ever reuses rows scaled by an earlier metric.                 *)
THEOREM CacheIsCoherent == Spec => []CacheCoherent
  <1>1. IInv => CacheCoherent
    BY Fields DEF IInv, DataInv, CacheCoherent, CacheUsable
  <1> QED BY <1>1, Invariance, PTL

(* persist_index never skips its work while a row is not indexed.          *)
THEOREM CleanIsIndexed == Spec => []CleanMeansIndexed
  <1>1. IInv => CleanMeansIndexed
    BY Fields DEF IInv, DataInv, CleanMeansIndexed
  <1> QED BY <1>1, Invariance, PTL

(* What one step does to the rows, the metric and the index: it appends,   *)
(* or it changes the metric, or it leaves both alone; and only a metric    *)
(* change gives up indexed rows.                                           *)
LEMMA StepEffect ==
  ASSUME IInv, [Next]_vars
  PROVE  /\ \/ db'.rows \in Nat /\ db'.rows > db.rows /\ db'.metric = db.metric
            \/ db'.rows = db.rows /\ db'.metric \in Metrics
         /\ db'.metric # db.metric \/ db.index.rows <= db'.index.rows
  <1>0. /\ Consistent(db) /\ db.rows \in Nat /\ db.metric \in Metrics
        /\ db.index.rows \in Nat /\ db.index.rows <= db.rows
    BY Fields DEF IInv, DataInv
  <1>1. /\ Consistent(db) /\ db.rows \in Nat /\ db.metric \in Metrics
        /\ db.index.rows <= db.rows /\ db.index.rows <= db.index.rows
    BY <1>0
  <1>2. CASE UNCHANGED db
    BY <1>1, <1>2
  <1>3. ASSUME NEW c \in Clients, AppendLocked(c)
        PROVE  /\ db'.rows \in Nat /\ db'.rows > db.rows /\ db'.metric = db.metric
               /\ db.index.rows <= db'.index.rows
    <2>1. PICK n \in 1 .. MaxBatch :
            db' \in {AppendRows(db, n)} \cup AppendRowsFailed(db, n)
      BY <1>3 DEF AppendLocked
    <2>2. n \in Nat /\ n > 0
      BY ControllerAssumption
    <2>3. db'.rows = db.rows + n /\ db'.metric = db.metric
      BY <1>1, <2>1, <2>2, AppendConsistent
    <2>4. db.index.rows <= db'.index.rows
      BY <1>1, <2>1, <2>2, AppendKeepsIndex
    <2> QED BY <1>1, <2>2, <2>3, <2>4
  <1>4. ASSUME NEW c \in Clients, SetMetricLocked(c)
        PROVE  /\ db'.rows = db.rows /\ db'.metric \in Metrics
               /\ db'.metric # db.metric \/ db' = db
    <2>1. PICK m \in Metrics, rebuild \in BOOLEAN : db' = SetMetric(db, m, rebuild)
      BY <1>4 DEF SetMetricLocked
    <2>2. db'.rows = db.rows /\ db'.metric = m
      BY <1>1, <2>1, SetMetricConsistent
    <2>3. m = db.metric => db' = db
      BY <2>1 DEF SetMetric
    <2> QED BY <2>2, <2>3
  <1>5. ASSUME NEW c \in Clients, SyncLocked(c)
        PROVE  /\ db'.rows = db.rows /\ db'.metric = db.metric
               /\ db.index.rows <= db'.index.rows
    BY <1>1, <1>5, EnsureSyncConsistent, EnsureSyncFailedConsistent,
       SyncKeepsIndex
    DEF SyncLocked
  <1>6. ASSUME NEW c \in Clients, PersistLocked(c)
        PROVE  /\ db'.rows = db.rows /\ db'.metric = db.metric
               /\ db.index.rows <= db'.index.rows
    BY <1>1, <1>6, PersistConsistent, PersistKeepsIndex DEF PersistLocked
  <1>7. ASSUME NEW ix, ix = [rows |-> db.rows, metrics |-> {db.metric}],
               db' = SoftPublish(db, ix)
        PROVE  /\ db'.rows = db.rows /\ db'.metric = db.metric
               /\ db.index.rows <= db'.index.rows
    <2>1. db \in Backend /\ ix.rows = db.rows
      BY <1>1, <1>7 DEF Consistent
    <2>2. db'.rows = db.rows /\ db'.metric = db.metric /\ db'.index = ix
      BY <1>7, <2>1 DEF SoftPublish, Backend
    <2> QED BY <1>1, <2>1, <2>2
  <1>8. ASSUME NEW c \in Clients, HardFlush(c), db' # db
        PROVE  /\ db'.rows = db.rows /\ db'.metric = db.metric
               /\ db.index.rows <= db'.index.rows
    BY <1>1, <1>7, <1>8, SoftBuildCurrent, ControllerAssumption DEF HardFlush
  <1>9. ASSUME NEW w \in Workers, Publish(w)
        PROVE  /\ db'.rows = db.rows /\ db'.metric = db.metric
               /\ db.index.rows <= db'.index.rows
    BY <1>7, <1>9 DEF Publish, IInv, DataInv, DetachedBuildIsCurrent
  <1>10. ASSUME NEW c \in Clients, SearchEnd(c)
         PROVE  /\ db'.rows = db.rows /\ db'.metric = db.metric
                /\ db.index.rows <= db'.index.rows
    <2>1. db'.rows = db.rows /\ db'.metric = db.metric
      BY <1>1, <1>10, FillCacheConsistent DEF SearchEnd
    <2>2. db'.index = db.index
      BY <1>1, <1>10 DEF SearchEnd, FillCache, Consistent, Backend
    <2> QED BY <1>1, <2>1, <2>2
  <1> QED
    BY <1>1, <1>2, <1>3, <1>4, <1>5, <1>6, <1>8, <1>9, <1>10
    DEF Next, LockedStep, Continue, vars, flush, Begin, Enter, TakeJob, JoinJob,
        CheckLatch, ScheduleErrCheck, Snapshot, SlotTaken, Spawn, StoreJob,
        FindSlotTaken, JoinSpare, HardFlushFails, SearchBegin, BuildBegin,
        BuildEnd

(* Indexed rows are given up only by a metric change that rebuilds.        *)
THEOREM IndexIsKept == Spec => IndexShrinksOnlyOnRebuild
  <1>1. IInv /\ [Next]_vars =>
          [db'.index.rows < db.index.rows => db'.metric # db.metric]_db
    <2> SUFFICES ASSUME IInv, [Next]_vars, db'.index.rows < db.index.rows
                 PROVE  db'.metric # db.metric
      OBVIOUS
    <2>1. db.index.rows \in Nat /\ db'.index.rows \in Nat
      BY StepInv, Fields DEF IInv, DataInv, TypeOK, Backend, Index
    <2> QED BY <2>1, StepEffect
  <1> QED BY <1>1, Invariance, PTL DEF Spec, IndexShrinksOnlyOnRebuild

(* A model starts with an unscaled backend.                                *)
LEMMA OpenedUnscaled == Init => db.metric = Unscaled
  <1> SUFFICES ASSUME Init PROVE db.metric = Unscaled
    OBVIOUS
  <1>1. PICK n \in 0 .. OpenRows : db \in OpenStates(n)
    BY DEF Init
  <1>2. PICK b \in OpenBackends(n, Unscaled) : db \in {b, EnsureSync(b)}
    BY <1>1 DEF OpenStates
  <1>3. Consistent(b) /\ b.metric = Unscaled
    BY OpenedConsistent, ControllerAssumption, BackendAssumption
  <1> QED BY <1>2, <1>3, EnsureSyncConsistent

(* Whatever flushes, caches and persists do, searches see exactly the      *)
(* appended rows under the metric in force: the controller implements      *)
(* SearchableRows.                                                         *)
THEOREM Refinement == Spec => SearchesSeeEveryRow
  <1>1. IInv => [r \in Reachable(db) |-> RankedUnder(db, r)]
                  = [r \in 0 .. db.rows - 1 |-> {db.metric}]
    BY ConsistentSearch DEF IInv, DataInv
  <1>2. Init => Visible!Init
    <2> SUFFICES ASSUME Init PROVE Visible!Init
      OBVIOUS
    <2>1. IInv
      BY InitInv
    <2>2. db.rows \in Nat
      BY <2>1, Fields DEF IInv, DataInv
    <2>3. db.metric = Unscaled
      BY OpenedUnscaled
    <2> QED BY <1>1, <2>1, <2>2, <2>3 DEF Visible!Init, Visible!AllUnder
  <1>3. IInv /\ [Next]_vars => [Visible!Next]_(Visible!searchVars)
    <2> SUFFICES ASSUME IInv, [Next]_vars
                 PROVE  [Visible!Next]_(Visible!searchVars)
      OBVIOUS
    <2>1. [r \in Reachable(db') |-> RankedUnder(db', r)]
            = [r \in 0 .. db'.rows - 1 |-> {db'.metric}]
      BY StepInv, ConsistentSearch DEF IInv, DataInv
    <2> QED
      BY <1>1, <2>1, StepEffect
      DEF Visible!Next, Visible!Append, Visible!ChangeMetric, Visible!AllUnder,
          Visible!searchVars
  <1> QED BY <1>2, <1>3, Invariance, PTL DEF Spec, SearchesSeeEveryRow, Visible!Spec

-----------------------------------------------------------------------------
(* Nobody is stuck.  PlaceInv says who holds the lock and which operation  *)
(* may be where; it is kept beside IInv.                                   *)

LEMMA RowsKept ==
  ASSUME IInv, NEW c \in Clients,
         SetMetricLocked(c) \/ SyncLocked(c) \/ PersistLocked(c)
           \/ HardFlush(c) \/ SearchEnd(c)
  PROVE  db'.rows = db.rows
  <1>1. Consistent(db)
    BY DEF IInv, DataInv
  <1>2. CASE SetMetricLocked(c)
    BY <1>1, <1>2, SetMetricConsistent DEF SetMetricLocked
  <1>3. CASE SyncLocked(c)
    BY <1>1, <1>3, EnsureSyncConsistent, EnsureSyncFailedConsistent DEF SyncLocked
  <1>4. CASE PersistLocked(c)
    BY <1>1, <1>4, PersistConsistent DEF PersistLocked
  <1>5. CASE HardFlush(c)
    BY <1>1, <1>5, SoftBuildCurrent, PublishConsistent, ControllerAssumption DEF HardFlush
  <1>6. CASE SearchEnd(c)
    BY <1>1, <1>6, FillCacheConsistent DEF SearchEnd
  <1> QED BY <1>2, <1>3, <1>4, <1>5, <1>6

LEMMA InitPlace == Init => PlaceInv
  BY DEF Init, PlaceInv

LEMMA StepPlace ==
  ASSUME IInv, PlaceInv, [Next]_vars
  PROVE  PlaceInv'
  <1> USE DEF PlaceInv
  <1>1. /\ pc \in [Clients -> Labels] /\ op \in [Clients -> Exclusive \cup Shared \cup {"none"}]
        /\ worker \in [Workers -> Phases] /\ BorrowInv
        /\ Clients \cap Workers = {} /\ None \notin Workers
        /\ held \in [Clients -> Workers \cup {None}]
        /\ \A c \in Clients : held[c] # None <=> pc[c] \in {"join", "store", "spare"}
    BY ControllerAssumption DEF IInv, TypeOK, HeldInv
  <1>2. ASSUME NEW c \in Clients, Begin(c)
        PROVE  PlaceInv'
    <2>1. PICK o \in Ops : Enter(c, o, Waiting)
      BY <1>2 DEF Begin
    <2>2. o \in Exclusive \cup Shared
      BY ControllerAssumption
    <2> QED BY <1>1, <2>1, <2>2 DEF Enter, Goto, flush, Waiting, Exclusive, Shared
  <1>3. ASSUME NEW c \in Clients, TakeJob(c)
        PROVE  PlaceInv'
    BY <1>1, <1>3 DEF TakeJob, Goto, flush
  <1>4. ASSUME NEW c \in Clients, JoinJob(c)
        PROVE  PlaceInv'
    BY <1>1, <1>4 DEF JoinJob, Goto, Return
  <1>5. ASSUME NEW c \in Clients, CheckLatch(c)
        PROVE  PlaceInv'
    BY <1>1, <1>5 DEF CheckLatch, Goto, Return, flush
  <1>6. ASSUME NEW c \in Clients, ScheduleErrCheck(c)
        PROVE  PlaceInv'
    BY <1>1, <1>6 DEF ScheduleErrCheck, Goto, Return, flush
  <1>7. ASSUME NEW c \in Clients, Snapshot(c)
        PROVE  PlaceInv'
    BY <1>1, <1>7 DEF Snapshot, Goto, Return, flush
  <1>8. ASSUME NEW c \in Clients, SlotTaken(c)
        PROVE  PlaceInv'
    BY <1>1, <1>8 DEF SlotTaken, Goto, Return, flush
  <1>9. ASSUME NEW c \in Clients, StoreJob(c)
        PROVE  PlaceInv'
    BY <1>1, <1>9 DEF StoreJob, Goto, Return, flush
  <1>10. ASSUME NEW c \in Clients, FindSlotTaken(c)
        PROVE  PlaceInv'
    BY <1>1, <1>10 DEF FindSlotTaken, Goto, flush
  <1>11. ASSUME NEW c \in Clients, JoinSpare(c)
        PROVE  PlaceInv'
    BY <1>1, <1>11 DEF JoinSpare, Goto, Return
  <1>12. ASSUME NEW c \in Clients, HardFlushFails(c)
        PROVE  PlaceInv'
    BY <1>1, <1>12 DEF HardFlushFails, Locked, Goto, Return, flush
  <1>13. ASSUME NEW c \in Clients, SearchBegin(c)
        PROVE  PlaceInv'
    BY <1>1, <1>13 DEF SearchBegin, Goto
  <1>14. ASSUME NEW c \in Clients, AppendLocked(c)
        PROVE  PlaceInv'
    BY <1>1, <1>14 DEF AppendLocked, Locked, Goto, Return, flush, BorrowInv, Exclusive, Shared
  <1>15. ASSUME NEW c \in Clients, SetMetricLocked(c)
        PROVE  PlaceInv'
    BY <1>1, <1>15, RowsKept DEF SetMetricLocked, Locked, Goto, Return, flush
  <1>16. ASSUME NEW c \in Clients, SyncLocked(c)
        PROVE  PlaceInv'
    BY <1>1, <1>16, RowsKept DEF SyncLocked, Locked, Goto, Return, flush
  <1>17. ASSUME NEW c \in Clients, PersistLocked(c)
        PROVE  PlaceInv'
    BY <1>1, <1>17, RowsKept DEF PersistLocked, Locked, Goto, Return, flush
  <1>18. ASSUME NEW c \in Clients, HardFlush(c)
        PROVE  PlaceInv'
    BY <1>1, <1>18, RowsKept DEF HardFlush, Locked, Goto, Return, flush
  <1>19. ASSUME NEW c \in Clients, SearchEnd(c)
        PROVE  PlaceInv'
    BY <1>1, <1>19, RowsKept DEF SearchEnd, Goto, Return
  <1>20. ASSUME NEW c \in Clients, Spawn(c)
        PROVE  PlaceInv'
    BY <1>1, <1>20 DEF Spawn, Goto
  <1>21. ASSUME NEW w \in Workers, BuildBegin(w)
        PROVE  PlaceInv'
    BY <1>1, <1>21 DEF BuildBegin
  <1>22. ASSUME NEW w \in Workers, BuildEnd(w)
        PROVE  PlaceInv'
    BY <1>1, <1>22 DEF BuildEnd
  <1>23. ASSUME NEW w \in Workers, Publish(w)
        PROVE  PlaceInv'
    <2>1. db'.rows = db.rows
      BY <1>23, PublishConsistent DEF Publish, IInv, DataInv, DetachedBuildIsCurrent
    <2> QED BY <1>1, <1>23, <2>1 DEF Publish
  <1>24. CASE UNCHANGED vars
    BY <1>24 DEF vars
  <1> HIDE DEF PlaceInv
  <1> QED
    BY <1>2, <1>3, <1>4, <1>5, <1>6, <1>7, <1>8, <1>9, <1>10, <1>11, <1>12, <1>13, <1>14, <1>15, <1>16, <1>17, <1>18, <1>19, <1>20, <1>21, <1>22, <1>23, <1>24
    DEF Next, LockedStep, Continue

(* Whoever holds the read lock goes on.                                    *)
LEMMA ReaderGoes ==
  ASSUME PlaceInv, readers # {}
  PROVE  (\E c \in Clients : Going(c)) \/ (\E v \in Workers : Working(v))
  <1>1. PICK r \in readers : TRUE
    OBVIOUS
  <1>2. (r \in Clients /\ pc[r] = "scan") \/ (r \in Workers /\ worker[r] = "building")
    BY <1>1 DEF PlaceInv
  <1> QED BY <1>2 DEF Going, Working

(* A client that waits for the write lock has something to do under it.    *)
LEMMA WriteGoes ==
  ASSUME IInv, PlaceInv, MaxBatch >= 1, Metrics # {Unscaled},
         NEW c \in Clients, pc[c] = "write", readers = {}
  PROVE  Going(c)
  <1>1. op[c] \in {"add", "metric", "sync", "persist", "schedule"}
    BY DEF IInv, TypeOK, BorrowInv, PlaceInv, Exclusive, Shared
  <1>2. CASE op[c] = "add"
    <2>1. db.rows \in Nat /\ db.rows < MaxRows
      BY <1>2, Fields DEF IInv, DataInv, PlaceInv
    <2>2. 1 \in 1 .. MaxBatch /\ db.rows + 1 <= MaxRows
      BY <2>1, ControllerAssumption
    <2> QED BY <1>2, <2>2 DEF Going, WriteLockFree
  <1>3. CASE op[c] # "add"
    BY <1>1, <1>3 DEF Going, WriteLockFree
  <1> QED BY <1>2, <1>3

(* Readers wait for a writer only while the writer can go on.              *)
LEMMA WriterGoes ==
  ASSUME IInv, PlaceInv, MaxBatch >= 1, Metrics # {Unscaled},
         ~ReadLockFree, readers = {}
  PROVE  (\E c \in Clients : Going(c)) \/ (\E v \in Workers : Working(v))
  <1>1. (\E c \in Clients : pc[c] = "write") \/ (\E v \in Workers : worker[v] = "built")
    BY DEF ReadLockFree
  <1>2. \A c \in Clients : pc[c] = "write" => Going(c)
    BY WriteGoes
  <1>3. \A v \in Workers : worker[v] = "built" => Working(v)
    BY DEF Working, WriteLockFree
  <1> QED BY <1>1, <1>2, <1>3

(* A thread that has not ended works, or somebody else does.               *)
LEMMA UnfinishedThread ==
  ASSUME IInv, PlaceInv, MaxBatch >= 1, Metrics # {Unscaled},
         NEW w \in Workers, worker[w] \in {"spawned", "building", "built"}
  PROVE  (\E c \in Clients : Going(c)) \/ (\E v \in Workers : Working(v))
  <1>1. CASE readers # {}
    BY <1>1, ReaderGoes
  <1>2. CASE readers = {} /\ worker[w] # "spawned"
    BY <1>2 DEF Working, WriteLockFree
  <1>3. CASE readers = {} /\ worker[w] = "spawned" /\ ReadLockFree
    BY <1>3 DEF Working
  <1>4. CASE readers = {} /\ ~ReadLockFree
    BY <1>4, WriterGoes
  <1> QED BY <1>1, <1>2, <1>3, <1>4

(* While an operation has not returned, someone has a step to take.        *)
LEMMA SomeoneGoes ==
  ASSUME IInv, PlaceInv, Workers # {}, MaxBatch >= 1, Metrics # {Unscaled}
  PROVE  NobodyIsStuck
  <1> DEFINE Goal == (\E c \in Clients : Going(c)) \/ (\E v \in Workers : Working(v))
  <1> SUFFICES ASSUME NEW c \in Clients, pc[c] # "idle"
               PROVE  Goal
    BY DEF NobodyIsStuck
  <1>0. pc[c] \in Labels
    BY DEF IInv, TypeOK
  <1>1. CASE pc[c] \in {"take", "latch", "errcheck", "store", "scan"}
    BY <1>1 DEF Going
  <1>2. CASE pc[c] \in {"join", "spare"}
    <2>1. held[c] \in Workers /\ worker[held[c]] \in Phases /\ worker[held[c]] # "idle"
      BY <1>2 DEF IInv, TypeOK, HeldInv, OwnerInv
    <2>2. CASE worker[held[c]] \in {"ok", "failed"}
      BY <1>2, <2>2 DEF Going
    <2>3. CASE worker[held[c]] \in {"spawned", "building", "built"}
      BY <2>1, <2>3, UnfinishedThread
    <2> QED BY <2>1, <2>2, <2>3 DEF Phases
  <1>3. CASE pc[c] = "slot"
    <2>1. CASE job # None \/ \E w \in Workers : worker[w] = "idle"
      BY <1>3, <2>1 DEF Going
    <2>2. CASE job = None /\ \A w \in Workers : worker[w] # "idle"
      <3>1. PICK w \in Workers : TRUE
        OBVIOUS
      <3>2. worker[w] \in Phases \ {"idle"}
        BY <2>2 DEF IInv, TypeOK
      <3>3. CASE worker[w] \in {"spawned", "building", "built"}
        BY <3>3, UnfinishedThread
      <3>4. CASE worker[w] \in {"ok", "failed"}
        <4>1. PICK d \in Clients : held[d] = w
          BY <2>2, <3>2, ControllerAssumption DEF IInv, OwnerInv
        <4>2. pc[d] \in {"join", "store", "spare"}
          BY <4>1, ControllerAssumption DEF IInv, HeldInv
        <4> QED BY <3>4, <4>1, <4>2 DEF Going
      <3> QED BY <3>2, <3>3, <3>4 DEF Phases
    <2> QED BY <2>1, <2>2
  <1>4. CASE pc[c] \in {"snapshot", "search", "write"} /\ readers # {}
    BY <1>4, ReaderGoes
  <1>5. CASE pc[c] \in {"snapshot", "search"} /\ readers = {}
    <2>1. CASE ReadLockFree
      BY <1>5, <2>1 DEF Going
    <2>2. CASE ~ReadLockFree
      BY <1>5, <2>2, WriterGoes
    <2> QED BY <2>1, <2>2
  <1>6. CASE pc[c] = "write" /\ readers = {}
    BY <1>6, WriteGoes
  <1> QED BY <1>0, <1>1, <1>2, <1>3, <1>4, <1>5, <1>6 DEF Labels

-----------------------------------------------------------------------------
(* Steps run out.                                                          *)

(* The steps ahead of clients at places p and threads in phases t.         *)
Ahead(p, t) ==
  {x \in Clients \X (1 .. 8) : x[2] <= ClientSteps[p[x[1]]]}
    \cup {x \in Workers \X (1 .. 3) : x[2] <= ThreadSteps[t[x[1]]]}

LEMMA Ranks ==
  /\ \A l \in Labels : ClientSteps[l] \in 0 .. 8
  /\ \A f \in Phases : ThreadSteps[f] \in 0 .. 3
  BY DEF Labels, Phases, ClientSteps, ThreadSteps

LEMMA AheadFinite ==
  ASSUME IsFiniteSet(Clients), IsFiniteSet(Workers), NEW p, NEW t
  PROVE  IsFiniteSet(Ahead(p, t))
  <1>1. IsFiniteSet(Clients \X (1 .. 8)) /\ IsFiniteSet(Workers \X (1 .. 3))
    <2>1. \A m \in Nat : IsFiniteSet(1 .. m)
      BY FS_Interval
    <2>2. IsFiniteSet(1 .. 8) /\ IsFiniteSet(1 .. 3)
      BY <2>1
    <2> QED BY <2>2, FS_Product
  <1>2. IsFiniteSet((Clients \X (1 .. 8)) \cup (Workers \X (1 .. 3)))
    BY <1>1, FS_Union
  <1>3. Ahead(p, t) \in SUBSET ((Clients \X (1 .. 8)) \cup (Workers \X (1 .. 3)))
    BY DEF Ahead
  <1> QED BY <1>2, <1>3, FS_Subset

LEMMA AheadMembers ==
  ASSUME NEW p, NEW t
  PROVE  /\ \A c \in Clients, k \in 1 .. 8 :
              <<c, k>> \in Ahead(p, t) <=> k <= ClientSteps[p[c]]
         /\ \A w \in Workers, k \in 1 .. 3 :
              <<w, k>> \in Ahead(p, t) <=> k <= ThreadSteps[t[w]]
  BY ControllerAssumption DEF Ahead

(* A client or a thread that goes on, while nobody goes back, leaves fewer. *)
LEMMA FewerAhead ==
  ASSUME IsFiniteSet(Clients), IsFiniteSet(Workers),
         NEW p \in [Clients -> Labels], NEW q \in [Clients -> Labels],
         NEW t \in [Workers -> Phases], NEW u \in [Workers -> Phases],
         \A c \in Clients : ClientSteps[q[c]] <= ClientSteps[p[c]],
         \A w \in Workers : ThreadSteps[u[w]] <= ThreadSteps[t[w]],
         \/ \E c \in Clients : ClientSteps[q[c]] < ClientSteps[p[c]]
         \/ \E w \in Workers : ThreadSteps[u[w]] < ThreadSteps[t[w]]
  PROVE  Cardinality(Ahead(q, u)) < Cardinality(Ahead(p, t))
  <1>1. /\ \A c \in Clients : ClientSteps[p[c]] \in 0 .. 8 /\ ClientSteps[q[c]] \in 0 .. 8
        /\ \A w \in Workers : ThreadSteps[t[w]] \in 0 .. 3 /\ ThreadSteps[u[w]] \in 0 .. 3
    BY Ranks
  <1>2. Ahead(q, u) \in SUBSET Ahead(p, t)
    BY <1>1 DEF Ahead
  <1>3. Ahead(q, u) # Ahead(p, t)
    <2>1. CASE \E c \in Clients : ClientSteps[q[c]] < ClientSteps[p[c]]
      <3>1. PICK c \in Clients : ClientSteps[q[c]] < ClientSteps[p[c]]
        BY <2>1
      <3>2. PICK k \in 1 .. 8 : k <= ClientSteps[p[c]] /\ ~(k <= ClientSteps[q[c]])
        BY <1>1, <3>1
      <3>3. <<c, k>> \in Ahead(p, t)
        BY <3>2, AheadMembers
      <3>4. <<c, k>> \notin Ahead(q, u)
        BY <3>2, AheadMembers
      <3> QED BY <3>3, <3>4
    <2>2. CASE \E w \in Workers : ThreadSteps[u[w]] < ThreadSteps[t[w]]
      <3>1. PICK w \in Workers : ThreadSteps[u[w]] < ThreadSteps[t[w]]
        BY <2>2
      <3>2. PICK k \in 1 .. 3 : k <= ThreadSteps[t[w]] /\ ~(k <= ThreadSteps[u[w]])
        BY <1>1, <3>1
      <3>3. <<w, k>> \in Ahead(p, t)
        BY <3>2, AheadMembers
      <3>4. <<w, k>> \notin Ahead(q, u)
        BY <3>2, AheadMembers
      <3> QED BY <3>3, <3>4
    <2> QED BY <2>1, <2>2
  <1>4. IsFiniteSet(Ahead(p, t))
    BY AheadFinite
  <1>5. /\ Cardinality(Ahead(q, u)) <= Cardinality(Ahead(p, t))
        /\ Cardinality(Ahead(q, u)) # Cardinality(Ahead(p, t))
    BY <1>2, <1>3, <1>4, FS_Subset
  <1>6. Cardinality(Ahead(p, t)) \in Nat /\ Cardinality(Ahead(q, u)) \in Nat
    BY AheadFinite, FS_CardinalityType
  <1> QED BY <1>5, <1>6

(* A spawn leaves fewer too: the client's next steps are four fewer, and   *)
(* the thread's three more.                                                *)
LEMMA SpawnAhead ==
  ASSUME IsFiniteSet(Clients), IsFiniteSet(Workers),
         NEW p \in [Clients -> Labels], NEW t \in [Workers -> Phases],
         NEW c \in Clients, p[c] = "slot", NEW w \in Workers, t[w] = "idle"
  PROVE  Cardinality(Ahead([p EXCEPT ![c] = "store"], [t EXCEPT ![w] = "spawned"]))
           < Cardinality(Ahead(p, t))
  <1> DEFINE q == [p EXCEPT ![c] = "store"]
             u == [t EXCEPT ![w] = "spawned"]
             A == Ahead(p, t)
             B == Ahead(q, u)
             A3 == A \ {<<c, 3>>}   A4 == A3 \ {<<c, 4>>}
             A5 == A4 \ {<<c, 5>>}  A6 == A5 \ {<<c, 6>>}
             B1 == A6 \cup {<<w, 1>>}  B2 == B1 \cup {<<w, 2>>}
             B3 == B2 \cup {<<w, 3>>}
  <1>0. c # w
    BY ControllerAssumption
  <1>1. \A k \in 3 .. 6 : <<c, k>> \in A
    <2>1. ClientSteps[p[c]] = 6
      BY DEF ClientSteps
    <2>2. ASSUME NEW k \in 3 .. 6
          PROVE  k \in 1 .. 8 /\ k <= ClientSteps[p[c]]
      BY <2>1
    <2> QED BY <2>2, AheadMembers
  <1>2. B \in SUBSET B3
    <2>1. ASSUME NEW x \in B
          PROVE  x \in B3
      <3>1. CASE x \in Clients \X (1 .. 8) /\ x[2] <= ClientSteps[q[x[1]]]
        <4>1. PICK d \in Clients, k \in 1 .. 8 : x = <<d, k>>
          BY <3>1
        <4>2. CASE d = c
          <5>1. ClientSteps[q[c]] = 2 /\ ClientSteps[p[c]] = 6
            BY DEF ClientSteps
          <5>2. k <= 2
            BY <3>1, <4>1, <4>2, <5>1
          <5>3. k <= ClientSteps[p[c]]
            BY <5>1, <5>2
          <5>4. x \in A
            BY <4>1, <4>2, <5>3, AheadMembers
          <5>5. k \notin 3 .. 6 /\ c # w
            BY <5>2, ControllerAssumption
          <5> QED BY <4>1, <5>4, <5>5
        <4>3. CASE d # c
          <5>1. q[d] = p[d]
            BY <4>3
          <5>2. x \in A
            BY <3>1, <4>1, <5>1, AheadMembers
          <5> QED BY <4>1, <4>3, <5>2
        <4> QED BY <4>2, <4>3
      <3>2. CASE x \in Workers \X (1 .. 3) /\ x[2] <= ThreadSteps[u[x[1]]]
        <4>1. PICK v \in Workers, k \in 1 .. 3 : x = <<v, k>>
          BY <3>2
        <4>2. CASE v = w
          BY <4>1, <4>2
        <4>3. CASE v # w
          <5>1. u[v] = t[v] /\ v # c
            BY <4>3, ControllerAssumption
          <5>2. x \in A
            BY <3>2, <4>1, <5>1, AheadMembers
          <5> QED BY <4>1, <5>1, <5>2
        <4> QED BY <4>2, <4>3
      <3> QED BY <2>1, <3>1, <3>2 DEF Ahead
    <2> QED BY <2>1
  <1>3. IsFiniteSet(A)
    BY AheadFinite
  <1> HIDE DEF A, B
  <1>4. IsFiniteSet(A3) /\ Cardinality(A3) = Cardinality(A) - 1
    <2>1. <<c, 3>> \in A
      BY <1>1
    <2> QED BY <1>3, <2>1, FS_RemoveElement
  <1>5. IsFiniteSet(A4) /\ Cardinality(A4) = Cardinality(A3) - 1
    <2>1. <<c, 4>> \in A3
      BY <1>1
    <2> HIDE DEF A3
    <2> QED BY <1>4, <2>1, FS_RemoveElement
  <1>6. IsFiniteSet(A5) /\ Cardinality(A5) = Cardinality(A4) - 1
    <2>1. <<c, 5>> \in A4
      BY <1>1
    <2> HIDE DEF A4
    <2> QED BY <1>5, <2>1, FS_RemoveElement
  <1>7. IsFiniteSet(A6) /\ Cardinality(A6) = Cardinality(A5) - 1
    <2>1. <<c, 6>> \in A5
      BY <1>1
    <2> HIDE DEF A5
    <2> QED BY <1>6, <2>1, FS_RemoveElement
  <1> HIDE DEF A3, A4, A5, A6
  <1>8. Cardinality(A6) = Cardinality(A) - 4 /\ Cardinality(A) \in Nat /\ Cardinality(A6) \in Nat
    <2>1. /\ Cardinality(A) \in Nat /\ Cardinality(A3) \in Nat /\ Cardinality(A4) \in Nat
          /\ Cardinality(A5) \in Nat /\ Cardinality(A6) \in Nat
      BY <1>3, <1>4, <1>5, <1>6, <1>7, FS_CardinalityType
    <2> QED BY <1>4, <1>5, <1>6, <1>7, <2>1
  <1>9. /\ IsFiniteSet(B1) /\ Cardinality(B1) \in Nat
        /\ Cardinality(B1) <= Cardinality(A6) + 1
    <2>1. /\ IsFiniteSet(B1)
          /\ Cardinality(B1) \in {Cardinality(A6), Cardinality(A6) + 1}
      BY <1>7, <1>8, FS_AddElement
    <2> HIDE DEF B1
    <2>2. Cardinality(B1) \in Nat
      BY <2>1, FS_CardinalityType
    <2> QED BY <1>7, <1>8, <2>1, <2>2
  <1> HIDE DEF B1
  <1>10. /\ IsFiniteSet(B2) /\ Cardinality(B2) \in Nat
         /\ Cardinality(B2) <= Cardinality(B1) + 1
    <2>1. /\ IsFiniteSet(B2)
          /\ Cardinality(B2) \in {Cardinality(B1), Cardinality(B1) + 1}
      BY <1>9, FS_AddElement
    <2> HIDE DEF B2
    <2>2. Cardinality(B2) \in Nat
      BY <2>1, FS_CardinalityType
    <2> QED BY <1>9, <2>1, <2>2
  <1> HIDE DEF B2
  <1>11. /\ IsFiniteSet(B3) /\ Cardinality(B3) \in Nat
         /\ Cardinality(B3) <= Cardinality(B2) + 1
    <2>1. /\ IsFiniteSet(B3)
          /\ Cardinality(B3) \in {Cardinality(B2), Cardinality(B2) + 1}
      BY <1>10, FS_AddElement
    <2> HIDE DEF B3
    <2>2. Cardinality(B3) \in Nat
      BY <2>1, FS_CardinalityType
    <2> QED BY <1>10, <2>1, <2>2
  <1> HIDE DEF B3
  <1>12. Cardinality(B) <= Cardinality(B3) /\ Cardinality(B) \in Nat
    BY <1>2, <1>11, FS_Subset, FS_CardinalityType
  <1>13. Cardinality(B) < Cardinality(A)
    BY <1>8, <1>9, <1>10, <1>11, <1>12
  <1> QED BY <1>13 DEF A, B

(* A client's step takes it to a place with fewer steps left and sets back *)
(* no thread, unless it spawns one.                                        *)
Onward(c) ==
  /\ \E l \in Labels : pc' = [pc EXCEPT ![c] = l] /\ ClientSteps[l] < ClientSteps[pc[c]]
  /\ \A w \in Workers : worker'[w] \in {worker[w], "idle"}

LEMMA ClientsGoOn ==
  ASSUME TypeOK, HeldInv, NEW c \in Clients, Continue(c) \/ LockedStep(c), ~Spawn(c)
  PROVE  Onward(c)
  <1> USE DEF Onward, Labels, ClientSteps
  <1>1. /\ worker \in [Workers -> Phases] /\ held \in [Clients -> Workers \cup {None}]
        /\ None \notin Workers
        /\ pc[c] \in {"join", "spare"} => held[c] \in Workers
    BY ControllerAssumption DEF TypeOK, HeldInv
  <1>2. CASE TakeJob(c)
    <2>1. CASE job = None
      BY <1>1, <1>2, <2>1 DEF TakeJob, Goto, flush
    <2>2. CASE job # None
      BY <1>1, <1>2, <2>2 DEF TakeJob, Goto, flush
    <2> QED BY <2>1, <2>2
  <1>3. CASE JoinJob(c)
    BY <1>1, <1>3 DEF JoinJob, Goto, Return
  <1>4. CASE CheckLatch(c)
    BY <1>1, <1>4 DEF CheckLatch, Goto, Return, flush
  <1>5. CASE ScheduleErrCheck(c)
    BY <1>1, <1>5 DEF ScheduleErrCheck, Goto, Return, flush
  <1>6. CASE Snapshot(c)
    BY <1>1, <1>6 DEF Snapshot, Goto, Return, flush
  <1>7. CASE SlotTaken(c)
    BY <1>1, <1>7 DEF SlotTaken, Goto, Return, flush
  <1>8. CASE StoreJob(c)
    BY <1>1, <1>8 DEF StoreJob, Goto, Return, flush
  <1>9. CASE FindSlotTaken(c)
    BY <1>1, <1>9 DEF FindSlotTaken, Goto, flush
  <1>10. CASE JoinSpare(c)
    BY <1>1, <1>10 DEF JoinSpare, Goto, Return
  <1>11. CASE HardFlushFails(c)
    BY <1>1, <1>11 DEF HardFlushFails, Locked, Goto, Return, flush
  <1>12. CASE SearchBegin(c)
    BY <1>1, <1>12 DEF SearchBegin, Goto
  <1>13. CASE AppendLocked(c)
    BY <1>1, <1>13 DEF AppendLocked, Locked, Goto, Return, flush
  <1>14. CASE SetMetricLocked(c)
    BY <1>1, <1>14 DEF SetMetricLocked, Locked, Goto, Return, flush
  <1>15. CASE SyncLocked(c)
    BY <1>1, <1>15 DEF SyncLocked, Locked, Goto, Return, flush
  <1>16. CASE PersistLocked(c)
    BY <1>1, <1>16 DEF PersistLocked, Locked, Goto, Return, flush
  <1>17. CASE HardFlush(c)
    BY <1>1, <1>17 DEF HardFlush, Locked, Goto, Return, flush
  <1>18. CASE SearchEnd(c)
    BY <1>1, <1>18 DEF SearchEnd, Goto, Return
  <1> QED
    BY <1>2, <1>3, <1>4, <1>5, <1>6, <1>7, <1>8, <1>9, <1>10, <1>11, <1>12, <1>13, <1>14, <1>15, <1>16, <1>17, <1>18
    DEF LockedStep, Continue

LEMMA ThreadsGoOn ==
  ASSUME TypeOK, NEW w \in Workers, BuildBegin(w) \/ BuildEnd(w) \/ Publish(w)
  PROVE  /\ UNCHANGED pc
         /\ \E f \in Phases : /\ worker' = [worker EXCEPT ![w] = f]
                             /\ ThreadSteps[f] < ThreadSteps[worker[w]]
  BY DEF TypeOK, Phases, ThreadSteps, BuildBegin, BuildEnd, Publish

LEMMA FewerSteps ==
  ASSUME IsFiniteSet(Clients), IsFiniteSet(Workers), IInv, IInv', Next,
         \A c \in Clients : pc[c] = "idle" => pc'[c] = "idle"
  PROVE  StepsAhead' < StepsAhead
  <1>1. /\ StepsAhead = Cardinality(Ahead(pc, worker))
        /\ StepsAhead' = Cardinality(Ahead(pc', worker'))
    BY DEF StepsAhead, Ahead
  <1>2. /\ TypeOK /\ HeldInv
        /\ pc \in [Clients -> Labels] /\ pc' \in [Clients -> Labels]
        /\ worker \in [Workers -> Phases] /\ worker' \in [Workers -> Phases]
    BY DEF IInv, TypeOK
  <1>3. /\ \A l \in Labels : ClientSteps[l] \in 0 .. 8
        /\ \A f \in Phases : ThreadSteps[f] \in 0 .. 3
    BY Ranks
  <1>4. ASSUME NEW c \in Clients, Begin(c)
        PROVE  FALSE
    <2>1. PICK o \in Ops : Enter(c, o, Waiting)
      BY <1>4 DEF Begin
    <2> QED BY <1>2, <2>1 DEF Enter, Goto
  <1>5. ASSUME NEW c \in Clients, Continue(c) \/ LockedStep(c), ~Spawn(c)
        PROVE  Cardinality(Ahead(pc', worker')) < Cardinality(Ahead(pc, worker))
    <2>1. Onward(c)
      BY <1>2, <1>5, ClientsGoOn
    <2>2. /\ \A d \in Clients : ClientSteps[pc'[d]] <= ClientSteps[pc[d]]
          /\ ClientSteps[pc'[c]] < ClientSteps[pc[c]]
      BY <1>2, <1>3, <2>1 DEF Onward
    <2>3. \A w \in Workers : ThreadSteps[worker'[w]] <= ThreadSteps[worker[w]]
      <3>1. ThreadSteps["idle"] = 0
        BY DEF ThreadSteps
      <3> QED BY <1>2, <1>3, <2>1, <3>1 DEF Onward
    <2> QED BY <1>2, <2>2, <2>3, FewerAhead
  <1>6. ASSUME NEW c \in Clients, Spawn(c)
        PROVE  Cardinality(Ahead(pc', worker')) < Cardinality(Ahead(pc, worker))
    <2>1. PICK w \in Workers : worker[w] = "idle" /\ worker' = [worker EXCEPT ![w] = "spawned"]
      BY <1>6 DEF Spawn
    <2>2. pc[c] = "slot" /\ pc' = [pc EXCEPT ![c] = "store"]
      BY <1>6 DEF Spawn, Goto
    <2> QED BY <1>2, <2>1, <2>2, SpawnAhead
  <1>7. ASSUME NEW w \in Workers, BuildBegin(w) \/ BuildEnd(w) \/ Publish(w)
        PROVE  Cardinality(Ahead(pc', worker')) < Cardinality(Ahead(pc, worker))
    <2>1. /\ UNCHANGED pc
          /\ \E f \in Phases : /\ worker' = [worker EXCEPT ![w] = f]
                               /\ ThreadSteps[f] < ThreadSteps[worker[w]]
      BY <1>2, <1>7, ThreadsGoOn
    <2>2. /\ \A v \in Workers : ThreadSteps[worker'[v]] <= ThreadSteps[worker[v]]
          /\ ThreadSteps[worker'[w]] < ThreadSteps[worker[w]]
      BY <1>2, <1>3, <2>1
    <2>3. \A c \in Clients : ClientSteps[pc'[c]] <= ClientSteps[pc[c]]
      BY <1>2, <1>3, <2>1
    <2> QED BY <1>2, <2>2, <2>3, FewerAhead
  <1> QED BY <1>1, <1>4, <1>5, <1>6, <1>7 DEF Next

(* Joins, the slot and the lock never have everyone wait for someone who   *)
(* waits, for any number of clients and threads, whichever way the lock    *)
(* prefers: while an operation has not returned, someone has a step to     *)
(* take.  There has to be a thread to spawn on, a row to append and a      *)
(* scale to set.                                                           *)
THEOREM NobodyIsEverStuck ==
  ASSUME Workers # {}, MaxBatch >= 1, Metrics # {Unscaled}
  PROVE  Spec => []NobodyIsStuck
  <1>1. Init => IInv /\ PlaceInv
    BY InitInv, InitPlace
  <1>2. IInv /\ PlaceInv /\ [Next]_vars => (IInv /\ PlaceInv)'
    BY StepInv, StepPlace
  <1>3. IInv /\ PlaceInv => NobodyIsStuck
    BY SomeoneGoes
  <1> QED BY <1>1, <1>2, <1>3, PTL DEF Spec

(* Every step that begins no operation uses up one of a bounded number:    *)
(* with NobodyIsEverStuck, once no operation begins any more, each one     *)
(* that has begun returns, whatever order threads are scheduled in.        *)
THEOREM StepsAlwaysRunOut ==
  ASSUME IsFiniteSet(Clients), IsFiniteSet(Workers)
  PROVE  Spec => StepsRunOut
  <1>1. IInv /\ [Next]_vars =>
          [(\A c \in Clients : pc[c] = "idle" => pc'[c] = "idle")
             => StepsAhead' < StepsAhead]_vars
    BY StepInv, FewerSteps
  <1> QED BY <1>1, Invariance, PTL DEF Spec, StepsRunOut
=============================================================================
