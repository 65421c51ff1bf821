------------------------ MODULE RunnerLifecycleProofs ------------------------
(***************************************************************************)
(* Proofs about RunnerLifecycle, for any number of goroutines of each kind  *)
(* and any admission bound.                                                 *)
(***************************************************************************)
EXTENDS RunnerLifecycle, FiniteSetTheorems, TLAPS

USE DEF RW!Unlocked, RW!Shared, RW!Exclusive, RW!AfterRLock, RW!AfterBlockedRLock,
        RW!AfterRUnlock, RW!AfterAnnounce, RW!AfterUnlock, RW!Lock

\* The lock bookkeeping survives every step of a caller.
LEMMA CallerLocks ==
    ASSUME TypeOK, LockInv, NEW p \in Callers, CallerStep(p)
    PROVE  LockInv'
<1> USE ProcAssumption DEF TypeOK, LockInv, Proc, LeasePC, GenPC, CallerPC, TunerPC,
        ControllerPC, PlannerPC, CloserPC, Goto, locks, resources
<1>1. CASE Count(p) BY <1>1 DEF Count
<1>2. CASE Cancel(p) BY <1>2 DEF Cancel
<1>3. CASE TryLease(p) BY <1>3 DEF TryLease
<1>4. CASE StartPolling(p) BY <1>4 DEF StartPolling
<1>5. CASE StopPolling(p) BY <1>5 DEF StopPolling
<1>6. CASE CheckOpen(p) BY <1>6 DEF CheckOpen
<1>7. CASE TakeGenLock(p, "gencheck") BY <1>7 DEF TakeGenLock
<1>8. CASE StopWaiting(p) BY <1>8 DEF StopWaiting
<1>9. CASE CheckAfterLock(p) BY <1>9 DEF CheckAfterLock
<1>10. CASE StartRender(p) BY <1>10 DEF StartRender
<1>11. CASE EndRender(p) BY <1>11 DEF EndRender
<1>12. CASE EndGenerate(p) BY <1>12 DEF EndGenerate
<1>13. CASE ReleaseGenLock(p, "ungen", "unlease") BY <1>13 DEF ReleaseGenLock
<1>14. CASE ReleaseLease(p, "uncount") BY <1>14 DEF ReleaseLease
<1>15. CASE Uncount(p) BY <1>15 DEF Uncount
<1> QED BY <1>1, <1>2, <1>3, <1>4, <1>5, <1>6, <1>7, <1>8, <1>9, <1>10, <1>11,
           <1>12, <1>13, <1>14, <1>15 DEF CallerStep

\* The lock bookkeeping survives every step of a calibration or measurement.
LEMMA TunerLocks ==
    ASSUME TypeOK, LockInv, NEW p \in Tuners, TunerStep(p)
    PROVE  LockInv'
<1> USE ProcAssumption DEF TypeOK, LockInv, Proc, LeasePC, GenPC, CallerPC, TunerPC,
        ControllerPC, PlannerPC, CloserPC, Goto, locks, resources
<1>1. CASE Lease(p) BY <1>1 DEF Lease
<1>2. CASE BlockOnLease(p) BY <1>2 DEF BlockOnLease
<1>3. CASE WakeWithLease(p) BY <1>3 DEF WakeWithLease
<1>4. CASE CheckLease(p) BY <1>4 DEF CheckLease
<1>5. CASE EndMeasure(p) BY <1>5 DEF EndMeasure
<1>6. CASE TakeGenLock(p, "tune") BY <1>6 DEF TakeGenLock
<1>7. CASE EndTune(p) BY <1>7 DEF EndTune
<1>8. CASE ReleaseGenLock(p, "ungen", "unlease") BY <1>8 DEF ReleaseGenLock
<1>9. CASE ReleaseLease(p, "idle") BY <1>9 DEF ReleaseLease
<1> QED BY <1>1, <1>2, <1>3, <1>4, <1>5, <1>6, <1>7, <1>8, <1>9 DEF TunerStep

\* ... every step of a cache control and of a planner,
LEMMA ControllerPlannerLocks ==
    ASSUME TypeOK, LockInv,
           \/ \E p \in Controllers : ControllerStep(p)
           \/ \E p \in Planners : PlannerStep(p)
    PROVE  LockInv'
<1> USE ProcAssumption DEF TypeOK, LockInv, Proc, LeasePC, GenPC, CallerPC, TunerPC,
        ControllerPC, PlannerPC, CloserPC, Goto, locks, resources
<1>1. ASSUME NEW p \in Controllers, RequestControl(p) PROVE LockInv'
  BY <1>1 DEF RequestControl
<1>2. ASSUME NEW p \in Controllers, TakeGenLock(p, "control") PROVE LockInv'
  BY <1>2 DEF TakeGenLock
<1>3. ASSUME NEW p \in Controllers, ReleaseGenLock(p, "control", "idle") PROVE LockInv'
  BY <1>3 DEF ReleaseGenLock
<1>4. ASSUME NEW p \in Planners, StartPlan(p) PROVE LockInv'
  BY <1>4 DEF StartPlan
<1>5. ASSUME NEW p \in Planners, WakePlan(p) PROVE LockInv'
  BY <1>5 DEF WakePlan
<1>6. ASSUME NEW p \in Planners, EndPlan(p) PROVE LockInv'
  BY <1>6 DEF EndPlan
<1> QED BY <1>1, <1>2, <1>3, <1>4, <1>5, <1>6 DEF ControllerStep, PlannerStep

\* ... and every step of Close.
LEMMA CloserLocks ==
    ASSUME TypeOK, LockInv, NEW p \in Closers, CloserStep(p)
    PROVE  LockInv'
<1>a. pc[p] # "idle" => modelMu.writer = p /\ \A q \in Closers : pc[q] # "idle" => q = p
  BY ProcAssumption DEF LockInv, Proc
<1>b. pc[p] \notin {"idle", "drain"} => modelMu.readers = {} /\ closed
  BY DEF LockInv
<1> USE ProcAssumption DEF TypeOK, LockInv, Proc, LeasePC, GenPC, CallerPC, TunerPC,
        ControllerPC, PlannerPC, CloserPC, Goto, locks, resources
<1>1. CASE StartClose(p) BY <1>1 DEF StartClose
<1>2. CASE MarkClosed(p) BY <1>2, <1>a, <1>b DEF MarkClosed
<1>3. CASE TakeGenLock(p, "clear") BY <1>3 DEF TakeGenLock
<1>4. CASE ClearWeights(p) BY <1>4, <1>a, <1>b DEF ClearWeights
<1>5. CASE LockTower(p) BY <1>5 DEF LockTower
<1>6. CASE ReleaseTower(p) BY <1>6, <1>a, <1>b DEF ReleaseTower
<1>7. CASE UnmapWeights(p) BY <1>7, <1>a, <1>b DEF UnmapWeights
<1>8. CASE ReleaseGenLock(p, "ungen", "unlock") BY <1>8 DEF ReleaseGenLock
<1>9. CASE EndClose(p) BY <1>9, <1>a, <1>b DEF EndClose
<1> QED BY <1>1, <1>2, <1>3, <1>4, <1>5, <1>6, <1>7, <1>8, <1>9 DEF CloserStep

-----------------------------------------------------------------------------
(* The admission counter.                                                   *)

InCall == {p \in Callers : pc[p] # "idle"}

\* Entering a call makes the set of callers inside one larger by one.
LEMMA EnterCounts ==
    ASSUME TypeOK, NEW p \in Callers, NEW to \in CallerPC \ {"idle"},
           Goto(p, "idle", to)
    PROVE  Cardinality(InCall') = Cardinality(InCall) + 1
<1>1. InCall' = InCall \cup {p} /\ p \notin InCall
  BY DEF TypeOK, Goto, InCall, CallerPC, Proc
<1>2. IsFiniteSet(InCall)
  BY ProcAssumption, FS_Subset DEF InCall
<1> QED BY <1>1, <1>2, FS_AddElement

\* Returning from a call makes it smaller by one.
LEMMA LeaveCounts ==
    ASSUME TypeOK, NEW p \in Callers, NEW from \in CallerPC \ {"idle"},
           Goto(p, from, "idle")
    PROVE  Cardinality(InCall') = Cardinality(InCall) - 1
<1>1. InCall' = InCall \ {p} /\ p \in InCall
  BY DEF TypeOK, Goto, InCall, CallerPC, Proc
<1>2. IsFiniteSet(InCall)
  BY ProcAssumption, FS_Subset DEF InCall
<1> QED BY <1>1, <1>2, FS_RemoveElement

CounterInv == PendingExact /\ AdmissionBound

\* The number of callers, which bounds the counter, is a natural number, and so
\* is the size of any set of callers.
LEMMA CallerCardinality ==
    \A S : S \subseteq Callers => IsFiniteSet(S) /\ Cardinality(S) \in 0 .. Cardinality(Callers)
BY ProcAssumption, FS_Subset, FS_CardinalityType

\* The counter stays exact, and the admitted calls within the bound, when a
\* caller takes a step.
LEMMA CallerCounts ==
    ASSUME TypeOK, CounterInv, NEW p \in Callers, CallerStep(p)
    PROVE  CounterInv' /\ pending' \in 0 .. Cardinality(Callers)
<1> USE DEF CounterInv, PendingExact, AdmissionBound
<1>0. /\ IsFiniteSet(InCall) /\ IsFiniteSet(InCall') /\ IsFiniteSet(Admitted)
      /\ Cardinality(InCall') \in 0 .. Cardinality(Callers)
      /\ Cardinality(Admitted) \in Nat /\ Cardinality(Admitted') \in Nat
      /\ Cardinality(InCall) \in Nat
  <2> InCall \subseteq Callers /\ InCall' \subseteq Callers
    BY DEF InCall
  <2> Admitted \subseteq Callers /\ Admitted' \subseteq Callers
    BY DEF Admitted
  <2> Cardinality(Callers) \in Nat
    BY ProcAssumption, FS_CardinalityType
  <2> QED BY CallerCardinality
<1>1. CASE Count(p)
  <2>1. Cardinality(InCall') = pending + 1 /\ pending' = pending + 1
    <3> DEFINE to == IF pending + 1 > MaxPending THEN "uncount" ELSE "try"
    <3>1. to \in CallerPC \ {"idle"} /\ Goto(p, "idle", to)
      BY <1>1 DEF Count, CallerPC
    <3> QED BY <3>1, <1>1, EnterCounts DEF Count, InCall
  <2>2. Admitted' \subseteq InCall' /\ (pending + 1 > MaxPending => Admitted' = Admitted)
    BY <1>1 DEF Count, Goto, Admitted, InCall, TypeOK, Proc
  <2>3. Cardinality(Admitted') <= Cardinality(InCall')
    BY <2>2, <1>0, FS_Subset
  <2> QED BY <2>1, <2>2, <2>3, <1>0, MaxPendingAssumption DEF InCall
<1>2. CASE Uncount(p)
  <2>1. Cardinality(InCall') = pending - 1 /\ pending' = pending - 1
    BY <1>2, LeaveCounts DEF Uncount, InCall, CallerPC
  <2>2. Admitted' = Admitted
    BY <1>2 DEF Uncount, Goto, Admitted, TypeOK, Proc
  <2> QED BY <2>1, <2>2, <1>0 DEF InCall
<1>3. CASE ~Count(p) /\ ~Uncount(p)
  <2>1. InCall' = InCall /\ Admitted' \subseteq Admitted /\ pending' = pending
    BY <1>3 DEF CallerStep, Cancel, TryLease, StartPolling, StopPolling, CheckOpen,
           TakeGenLock, StopWaiting, CheckAfterLock, StartRender, EndRender, EndGenerate,
           ReleaseGenLock, ReleaseLease, Goto, TypeOK, Proc, InCall, Admitted
  <2>2. Cardinality(Admitted') <= Cardinality(Admitted)
    BY <2>1, <1>0, FS_Subset
  <2> QED BY <2>1, <2>2, <1>0, MaxPendingAssumption DEF InCall
<1> QED BY <1>1, <1>2, <1>3
\* A step of another goroutine leaves the callers and their counter alone.
LEMMA OthersCount ==
    ASSUME TypeOK, CounterInv,
           \/ \E p \in Tuners : TunerStep(p)
           \/ \E p \in Controllers : ControllerStep(p)
           \/ \E p \in Planners : PlannerStep(p)
           \/ \E p \in Closers : CloserStep(p)
    PROVE  CounterInv' /\ pending' = pending
<1>1. pending' = pending /\ \A c \in Callers : pc'[c] = pc[c]
  BY ProcAssumption
     DEF TunerStep, ControllerStep, PlannerStep, CloserStep, Lease, BlockOnLease,
         WakeWithLease, CheckLease, EndMeasure, TakeGenLock, EndTune, ReleaseGenLock,
         ReleaseLease, RequestControl, StartPlan, WakePlan, EndPlan, StartClose, MarkClosed,
         ClearWeights, LockTower, ReleaseTower, UnmapWeights, EndClose, Goto, TypeOK, Proc
<1>2. InCall' = InCall /\ Admitted' = Admitted
  BY <1>1 DEF InCall, Admitted
<1> QED BY <1>1, <1>2 DEF CounterInv, PendingExact, AdmissionBound, InCall

\* Every step keeps the variables in their types (the counter aside).
LEMMA StepTypes ==
    ASSUME TypeOK, LockInv, Next, pending' \in 0 .. Cardinality(Callers)
    PROVE  TypeOK'
<1> USE ProcAssumption DEF TypeOK, Proc, Goto, locks, resources, CallerPC, TunerPC,
        ControllerPC, PlannerPC, CloserPC
<1>1. ASSUME NEW p \in Callers, CallerStep(p) PROVE TypeOK'
  <2>1. CASE Count(p) BY <2>1 DEF Count
  <2>2. CASE Cancel(p) \/ Uncount(p) BY <2>2 DEF Cancel, Uncount
  <2>3. CASE TryLease(p) BY <2>3 DEF TryLease
  <2>8. CASE ReleaseLease(p, "uncount") BY <2>8 DEF ReleaseLease
  <2>4. CASE StartPolling(p) \/ StopPolling(p) \/ StopWaiting(p) \/ EndGenerate(p)
    BY <2>4 DEF StartPolling, StopPolling, StopWaiting, EndGenerate
  <2>5. CASE CheckOpen(p) \/ CheckAfterLock(p) BY <2>5 DEF CheckOpen, CheckAfterLock
  <2>6. CASE TakeGenLock(p, "gencheck") \/ ReleaseGenLock(p, "ungen", "unlease")
    BY <2>6 DEF TakeGenLock, ReleaseGenLock
  <2>7. CASE StartRender(p) \/ EndRender(p) BY <2>7 DEF StartRender, EndRender
  <2> QED BY <1>1, <2>1, <2>2, <2>3, <2>4, <2>5, <2>6, <2>7, <2>8 DEF CallerStep
<1>2. ASSUME NEW p \in Tuners, TunerStep(p) PROVE TypeOK'
  BY <1>2 DEF TunerStep, Lease, BlockOnLease, WakeWithLease, CheckLease, EndMeasure,
     TakeGenLock, EndTune, ReleaseGenLock, ReleaseLease
<1>3. ASSUME NEW p \in Controllers, ControllerStep(p) PROVE TypeOK'
  BY <1>3 DEF ControllerStep, RequestControl, TakeGenLock, ReleaseGenLock
<1>4. ASSUME NEW p \in Planners, PlannerStep(p) PROVE TypeOK'
  BY <1>4 DEF PlannerStep, StartPlan, WakePlan, EndPlan
<1>5. ASSUME NEW p \in Closers, CloserStep(p) PROVE TypeOK'
  <2>1. CASE StartClose(p) \/ EndClose(p) BY <2>1 DEF StartClose, EndClose
  <2>2. CASE MarkClosed(p) BY <2>2 DEF MarkClosed
  <2>3. CASE TakeGenLock(p, "clear") \/ ReleaseGenLock(p, "ungen", "unlock")
    BY <2>3 DEF TakeGenLock, ReleaseGenLock
  <2>4. CASE ClearWeights(p) \/ UnmapWeights(p) BY <2>4 DEF ClearWeights, UnmapWeights
  <2>5. CASE LockTower(p) \/ ReleaseTower(p) BY <2>5 DEF LockTower, ReleaseTower
  <2> QED BY <1>5, <2>1, <2>2, <2>3, <2>4, <2>5 DEF CloserStep
<1> QED BY <1>1, <1>2, <1>3, <1>4, <1>5 DEF Next
-----------------------------------------------------------------------------
(* The theorems.                                                            *)

IInv == TypeOK /\ LockInv /\ CounterInv

\* IInv is inductive: it holds initially and every step keeps it.
LEMMA Inductive == (Init => IInv) /\ (IInv /\ [Next]_vars => IInv')
<1>1. ASSUME Init PROVE IInv
  <2>1. TypeOK
    BY <1>1, CallerCardinality, FS_EmptySet, ProcAssumption, FS_CardinalityType
       DEF Init, TypeOK, CallerPC, TunerPC, ControllerPC, PlannerPC, CloserPC, Proc
  <2>2. LockInv
    BY <1>1, ProcAssumption DEF Init, LockInv, LeasePC, GenPC, Proc
  <2>3. InCall = {} /\ Admitted = {}
    BY <1>1 DEF Init, InCall, Admitted, Proc
  <2>4. CounterInv
    BY <2>3, <1>1, FS_EmptySet, MaxPendingAssumption
       DEF Init, CounterInv, PendingExact, AdmissionBound, InCall
  <2> QED BY <2>1, <2>2, <2>4 DEF IInv
<1>2. ASSUME IInv, Next PROVE IInv'
  <2>1. LockInv'
    BY <1>2, CallerLocks, TunerLocks, ControllerPlannerLocks, CloserLocks DEF IInv, Next
  <2>2. CounterInv' /\ pending' \in 0 .. Cardinality(Callers)
    <3>1. CASE \E p \in Callers : CallerStep(p)
      BY <3>1, <1>2, CallerCounts DEF IInv
    <3>2. CASE ~ \E p \in Callers : CallerStep(p)
      BY <3>2, <1>2, OthersCount DEF IInv, Next, TypeOK
    <3> QED BY <3>1, <3>2
  <2>3. TypeOK'
    BY <1>2, <2>2, StepTypes DEF IInv
  <2> QED BY <2>1, <2>2, <2>3 DEF IInv
<1>3. ASSUME IInv, UNCHANGED vars PROVE IInv'
  BY <1>3 DEF IInv, TypeOK, LockInv, CounterInv, PendingExact, AdmissionBound, Admitted, vars
<1> QED BY <1>1, <1>2, <1>3

\* TypeOK, LockInv, PendingExact and AdmissionBound hold of every behaviour,
\* because they are inductive together.
THEOREM Correctness == Spec => []IInv
BY Inductive, PTL DEF Spec

\* The variables keep their types: the record shape of both RWMutexes, the
\* places each kind of goroutine can be in, and a counter within 0..|Callers|.
THEOREM TypeCorrect == Spec => []TypeOK
<1>1. IInv => TypeOK BY DEF IInv
<1> QED BY <1>1, Correctness, PTL

\* acquireInference neither leaks a pending slot nor exceeds the bound.
THEOREM AdmissionCorrect == Spec => []AdmissionExact
<1>1. IInv => AdmissionExact BY DEF IInv, CounterInv, AdmissionExact
<1> QED BY <1>1, Correctness, PTL

\* No weight or tower is used while or after Close gives it up: a goroutine past
\* the closed check holds the lease, and Close owns the lease exclusively.
THEOREM UseBeforeClose == Spec => []NoUseAfterClose
<1>1. IInv => NoUseAfterClose
  BY DEF IInv, TypeOK, LockInv, NoUseAfterClose, UsingWeights, LeasePC, Proc,
         ControllerPC, PlannerPC, CloserPC
<1> QED BY <1>1, Correctness, PTL

\* What genLock guards has one user at a time: being in the workspace means
\* holding the one token of genLock.
THEOREM WorkspaceExclusion == Spec => []OneWorkspaceUser
<1>1. IInv => OneWorkspaceUser
  BY DEF IInv, LockInv, OneWorkspaceUser, InWorkspace, GenPC
<1> QED BY <1>1, Correctness, PTL
\* Rendering under a lease never waits for Close: a Close that has announced
\* itself on visionMu already owns modelMu, so no leased generation is left.
THEOREM LockOrder == Spec => []NoTowerWait
<1>1. IInv => NoTowerWait
  BY DEF IInv, LockInv, NoTowerWait, LeasePC, RW!Shared
<1> QED BY <1>1, Correctness, PTL

\* Only ReleaseTower changes the tower, and it owns visionMu without readers.
THEOREM TowerNeverTorn == Spec => TowerHeld
<1>1. IInv /\ [Next]_vars => [tower' # tower => \A p \in Proc : pc[p] \notin {"render", "plan"}]_vars
  <2> SUFFICES ASSUME IInv, Next, tower' # tower, NEW q \in Proc
               PROVE  pc[q] \notin {"render", "plan"}
    OBVIOUS
  <2>1. PICK c \in Closers : ReleaseTower(c)
    BY DEF Next, CallerStep, TunerStep, ControllerStep, PlannerStep, CloserStep, resources,
       Count, Cancel, TryLease, StartPolling, StopPolling, CheckOpen, TakeGenLock, StopWaiting,
       CheckAfterLock, StartRender, EndRender, EndGenerate, ReleaseGenLock, ReleaseLease,
       Uncount, Lease, BlockOnLease, WakeWithLease, CheckLease, EndMeasure, EndTune,
       RequestControl, StartPlan, WakePlan, EndPlan, StartClose, MarkClosed, ClearWeights,
       LockTower, UnmapWeights, EndClose
  <2>2. visionMu.readers = {}
    BY <2>1 DEF ReleaseTower
  <2> QED BY <2>2 DEF IInv, LockInv, TypeOK, Proc, TunerPC, ControllerPC, CloserPC, CallerPC,
          PlannerPC
<1> QED BY <1>1, Correctness, PTL DEF Spec, TowerHeld

-----------------------------------------------------------------------------
(* RunnerLifecycle implements ModelLease.                                   *)

\* The worker of the abstract lease.
Worker == IF genLock \in Callers \cup Tuners THEN genLock ELSE None

\* The initial states are abstract initial states.
LEMMA LeaseInit == Init => Lease_!Init
BY ProcAssumption DEF Init, Lease_!Init, LeaseUsers, LeasePC, Proc

\* A step that moves no goroutine into or out of the users, changes neither the
\* worker nor the resources, is invisible to the abstract lease.
LEMMA LeaseStutter ==
    ASSUME LeaseUsers' = LeaseUsers, Worker' = Worker, UNCHANGED <<closed, weights>>
    PROVE  UNCHANGED Lease_!vars
BY DEF Lease_!vars, Worker

\* Every step of a caller is a step of the abstract lease, or invisible to it.
LEMMA CallerLease ==
    ASSUME IInv, NEW p \in Callers, CallerStep(p)
    PROVE  [Lease_!Next]_(Lease_!vars)
<1> USE ProcAssumption DEF IInv, TypeOK, LockInv, Goto, locks, resources, LeaseUsers, LeasePC,
        GenPC, Proc, Worker
<1>1. CASE CheckOpen(p)
  <2>1. CASE closed \/ p \in cancelled
    BY <1>1, <2>1, LeaseStutter DEF CheckOpen
  <2>2. CASE ~closed /\ p \notin cancelled
    <3>1. Lease_!Begin(p)
      BY <1>1, <2>2 DEF CheckOpen, Lease_!Begin
    <3> QED BY <3>1 DEF Lease_!Next
  <2> QED BY <2>1, <2>2
<1>2. CASE TakeGenLock(p, "gencheck")
  <2>1. Lease_!Work(p)
    BY <1>2 DEF TakeGenLock, Lease_!Work
  <2> QED BY <2>1 DEF Lease_!Next
<1>3. CASE StopWaiting(p)
  <2>1. Lease_!End(p)
    BY <1>3 DEF StopWaiting, Lease_!End
  <2> QED BY <2>1 DEF Lease_!Next
<1>4. CASE ReleaseGenLock(p, "ungen", "unlease")
  <2>1. Lease_!End(p)
    BY <1>4 DEF ReleaseGenLock, Lease_!End
  <2> QED BY <2>1 DEF Lease_!Next
<1>5. CASE Count(p) \/ Cancel(p) \/ TryLease(p) \/ StartPolling(p) \/ StopPolling(p)
  BY <1>5, LeaseStutter DEF Count, Cancel, TryLease, StartPolling, StopPolling
<1>6. CASE CheckAfterLock(p) \/ StartRender(p) \/ EndRender(p) \/ EndGenerate(p)
  BY <1>6, LeaseStutter DEF CheckAfterLock, StartRender, EndRender, EndGenerate
<1>7. CASE ReleaseLease(p, "uncount") \/ Uncount(p)
  BY <1>7, LeaseStutter DEF ReleaseLease, Uncount
<1> QED BY <1>1, <1>2, <1>3, <1>4, <1>5, <1>6, <1>7 DEF CallerStep
\* ... every step of a calibration or measurement,
LEMMA TunerLease ==
    ASSUME IInv, NEW p \in Tuners, TunerStep(p)
    PROVE  [Lease_!Next]_(Lease_!vars)
<1> USE ProcAssumption DEF IInv, TypeOK, LockInv, Goto, locks, resources, LeaseUsers, LeasePC,
        GenPC, Proc, Worker
<1>1. CASE CheckLease(p)
  <2>1. CASE closed
    BY <1>1, <2>1, LeaseStutter DEF CheckLease
  <2>2. CASE ~closed
    <3>1. Lease_!Begin(p)
      BY <1>1, <2>2 DEF CheckLease, Lease_!Begin
    <3> QED BY <3>1 DEF Lease_!Next
  <2> QED BY <2>1, <2>2
<1>2. CASE TakeGenLock(p, "tune")
  <2>1. Lease_!Work(p)
    BY <1>2 DEF TakeGenLock, Lease_!Work
  <2> QED BY <2>1 DEF Lease_!Next
<1>3. CASE EndMeasure(p)
  <2>1. Lease_!End(p)
    BY <1>3 DEF EndMeasure, Lease_!End
  <2> QED BY <2>1 DEF Lease_!Next
<1>4. CASE ReleaseGenLock(p, "ungen", "unlease")
  <2>1. Lease_!End(p)
    BY <1>4 DEF ReleaseGenLock, Lease_!End
  <2> QED BY <2>1 DEF Lease_!Next
<1>5. CASE Lease(p) \/ BlockOnLease(p) \/ WakeWithLease(p) \/ EndTune(p) \/ ReleaseLease(p, "idle")
  BY <1>5, LeaseStutter DEF Lease, BlockOnLease, WakeWithLease, EndTune, ReleaseLease
<1> QED BY <1>1, <1>2, <1>3, <1>4, <1>5 DEF TunerStep

\* ... every step of a cache control or a planner, which the lease does not see,
LEMMA ControllerPlannerLease ==
    ASSUME IInv, \/ \E p \in Controllers : ControllerStep(p)
                 \/ \E p \in Planners : PlannerStep(p)
    PROVE  [Lease_!Next]_(Lease_!vars)
<1> USE ProcAssumption DEF IInv, TypeOK, LockInv, Goto, locks, resources, LeaseUsers, LeasePC,
        GenPC, Proc, Worker
<1>1. ASSUME NEW p \in Controllers, ControllerStep(p) PROVE UNCHANGED Lease_!vars
  BY <1>1, LeaseStutter DEF ControllerStep, RequestControl, TakeGenLock, ReleaseGenLock
<1>2. ASSUME NEW p \in Planners, PlannerStep(p) PROVE UNCHANGED Lease_!vars
  BY <1>2, LeaseStutter DEF PlannerStep, StartPlan, WakePlan, EndPlan
<1> QED BY <1>1, <1>2

\* ... and every step of Close: it shuts the lease when its users are gone, and
\* disposes of the storage after that.
LEMMA CloserLease ==
    ASSUME IInv, NEW p \in Closers, CloserStep(p)
    PROVE  [Lease_!Next]_(Lease_!vars)
<1> USE ProcAssumption DEF IInv, TypeOK, LockInv, Goto, locks, resources, LeaseUsers, LeasePC,
        GenPC, Proc, Worker
<1>1. CASE MarkClosed(p)
  <2>1. Lease_!Shut
    BY <1>1 DEF MarkClosed, Lease_!Shut, RW!Exclusive
  <2> QED BY <2>1 DEF Lease_!Next
<1>2. CASE ClearWeights(p) \/ UnmapWeights(p)
  <2>1. Lease_!Dispose
    BY <1>2 DEF ClearWeights, UnmapWeights, Lease_!Dispose
  <2> QED BY <2>1 DEF Lease_!Next
<1>3. CASE StartClose(p) \/ LockTower(p) \/ ReleaseTower(p) \/ EndClose(p)
  BY <1>3, LeaseStutter DEF StartClose, LockTower, ReleaseTower, EndClose
<1>4. CASE TakeGenLock(p, "clear") \/ ReleaseGenLock(p, "ungen", "unlock")
  BY <1>4, LeaseStutter DEF TakeGenLock, ReleaseGenLock
<1> QED BY <1>1, <1>2, <1>3, <1>4 DEF CloserStep

\* The runner's three locks, its counter and Close implement the model lease:
\* operations begin only while it is open, one works at a time, it is shut only
\* when unused, and its storage is given up only after that.
THEOREM LeaseImplemented == Spec => ImplementsModelLease
<1>1. IInv /\ [Next]_vars => [Lease_!Next]_(Lease_!vars)
  <2>1. ASSUME IInv, Next PROVE [Lease_!Next]_(Lease_!vars)
    BY <2>1, CallerLease, TunerLease, ControllerPlannerLease, CloserLease DEF Next
  <2>2. ASSUME UNCHANGED vars PROVE UNCHANGED Lease_!vars
    BY <2>2 DEF vars, Lease_!vars, LeaseUsers
  <2> QED BY <2>1, <2>2
<1> QED BY <1>1, LeaseInit, Correctness, PTL DEF Spec, ImplementsModelLease, Lease_!Spec
=============================================================================
