--------------------------- MODULE RunnerLifecycle ---------------------------
(***************************************************************************)
(* The lifecycle locks of one engine.Runner: admission of inference         *)
(* requests, the model lease (modelMu), the generation lock (genLock), the  *)
(* vision-tower lease (visionMu) and Close, which takes all three and then  *)
(* unmaps the weights.                                                      *)
(*                                                                          *)
(*   Callers      ChatContext / EmbedContext: acquireInference ... release  *)
(*   Tuners       AutoTune: blocking lease, genLock, calibration; and       *)
(*                LoadAutoTune / NearestTokens: the lease alone             *)
(*   Controllers  Set/ClearConversationCache: genLock without a lease       *)
(*   Planners     PrepareChatContext: the vision lease without the others   *)
(*   Closers      Close, possibly concurrently and repeatedly               *)
(*                                                                          *)
(* Every goroutine makes any number of calls, one after another.            *)
(***************************************************************************)
EXTENDS Naturals, FiniteSets

CONSTANTS
    Callers, Tuners, Controllers, Planners, Closers,
    MaxPending,     \* the literal 64 of acquireInference
    None            \* no goroutine

Proc == Callers \cup Tuners \cup Controllers \cup Planners \cup Closers

ASSUME ProcAssumption ==
    /\ IsFiniteSet(Callers)
    /\ Callers \cap (Tuners \cup Controllers \cup Planners \cup Closers) = {}
    /\ Tuners \cap (Controllers \cup Planners \cup Closers) = {}
    /\ Controllers \cap (Planners \cup Closers) = {}
    /\ Planners \cap Closers = {}
    /\ None \notin Proc

ASSUME MaxPendingAssumption == MaxPending \in Nat \ {0}

VARIABLES
    pc,         \* where each goroutine is in its current call
    cancelled,  \* callers whose request context is done
    pending,    \* Runner.inferencePending
    modelMu,    \* Runner.modelMu
    genLock,    \* the goroutine whose token fills Runner.genLock, or None
    visionMu,   \* Runner.visionMu
    closed,     \* Runner.closed
    weights,    \* "live", "cleared" (containers dropped) or "unmapped"
    tower       \* the vision tower: "live" or "released"

vars == <<pc, cancelled, pending, modelMu, genLock, visionMu, closed, weights, tower>>

RW == INSTANCE GoRWMutex

CallerPC == {"idle", "try", "poll", "check", "genwait", "gencheck", "generate",
             "render", "ungen", "unlease", "uncount"}
TunerPC  == {"idle", "blocked", "check", "measure", "genwait", "tune", "ungen", "unlease"}
ControllerPC == {"idle", "genwait", "control"}
PlannerPC    == {"idle", "planwait", "plan"}
CloserPC == {"idle", "drain", "genwait", "clear", "tower", "towerdrain", "unmap", "ungen", "unlock"}

TypeOK ==
    /\ pc \in [Proc -> CallerPC \cup TunerPC \cup ControllerPC \cup PlannerPC \cup CloserPC]
    /\ \A p \in Callers : pc[p] \in CallerPC
    /\ \A p \in Tuners : pc[p] \in TunerPC
    /\ \A p \in Controllers : pc[p] \in ControllerPC
    /\ \A p \in Planners : pc[p] \in PlannerPC
    /\ \A p \in Closers : pc[p] \in CloserPC
    /\ cancelled \in SUBSET Callers
    /\ pending \in 0 .. Cardinality(Callers)
    /\ modelMu \in RW!Lock
    /\ genLock \in Proc \cup {None}
    /\ visionMu \in RW!Lock
    /\ closed \in BOOLEAN
    /\ weights \in {"live", "cleared", "unmapped"}
    /\ tower \in {"live", "released"}

Init ==
    /\ pc = [p \in Proc |-> "idle"]
    /\ cancelled = {}
    /\ pending = 0
    /\ modelMu = RW!Unlocked
    /\ genLock = None
    /\ visionMu = RW!Unlocked
    /\ closed = FALSE
    /\ weights = "live"
    /\ tower = "live"

Goto(p, from, to) == pc[p] = from /\ pc' = [pc EXCEPT ![p] = to]

locks     == <<modelMu, genLock, visionMu>>
resources == <<closed, weights, tower>>

-----------------------------------------------------------------------------
(* Callers: acquireInference, the generation, and the release function.     *)

\* The caller's context may be done at any moment of a call.
Cancel(p) ==
    /\ pc[p] # "idle"
    /\ cancelled' = cancelled \cup {p}
    /\ UNCHANGED <<pc, pending, locks, resources>>

\* Defect: the bound is compared with the value before the increment.
CountOffByOne(p) ==
    /\ Goto(p, "idle", IF pending > MaxPending THEN "uncount" ELSE "try")
    /\ pending' = pending + 1
    /\ UNCHANGED <<cancelled, locks, resources>>

\* inferencePending.Add(1), and the comparison of the value it returned.
Count(p) ==
    /\ Goto(p, "idle", IF pending + 1 > MaxPending THEN "uncount" ELSE "try")
    /\ pending' = pending + 1
    /\ UNCHANGED <<cancelled, locks, resources>>

TryLease(p) ==
    /\ pc[p] \in {"try", "poll"}
    /\ RW!Shared(modelMu)
    /\ pc' = [pc EXCEPT ![p] = "check"]
    /\ modelMu' = RW!AfterRLock(modelMu, p)
    /\ UNCHANGED <<cancelled, pending, genLock, visionMu, resources>>

\* TryRLock failed: from now on the caller polls, and only then sees its context.
StartPolling(p) ==
    /\ ~RW!Shared(modelMu)
    /\ Goto(p, "try", "poll")
    /\ UNCHANGED <<cancelled, pending, locks, resources>>

StopPolling(p) ==
    /\ p \in cancelled
    /\ Goto(p, "poll", "uncount")
    /\ UNCHANGED <<cancelled, pending, locks, resources>>

\* Defect: the lease is granted without looking at closed.
CheckOpenBlindly(p) ==
    /\ Goto(p, "check", IF p \in cancelled THEN "unlease" ELSE "genwait")
    /\ UNCHANGED <<cancelled, pending, locks, resources>>

\* The closed check, and the first context check of LockContext.
CheckOpen(p) ==
    /\ Goto(p, "check", IF closed \/ p \in cancelled THEN "unlease" ELSE "genwait")
    /\ UNCHANGED <<cancelled, pending, locks, resources>>

\* Defect: a caller cancelled behind genLock keeps its model lease.
StopWaitingLeak(p) ==
    /\ p \in cancelled
    /\ Goto(p, "genwait", "uncount")
    /\ UNCHANGED <<cancelled, pending, locks, resources>>

StopWaiting(p) ==
    /\ p \in cancelled
    /\ Goto(p, "genwait", "unlease")
    /\ UNCHANGED <<cancelled, pending, locks, resources>>

\* The token enters the one-slot channel.
TakeGenLock(p, to) ==
    /\ genLock = None
    /\ Goto(p, "genwait", to)
    /\ genLock' = p
    /\ UNCHANGED <<cancelled, pending, modelMu, visionMu, resources>>

\* LockContext looks at its context again once it owns the lock.
CheckAfterLock(p) ==
    /\ Goto(p, "gencheck", IF p \in cancelled THEN "ungen" ELSE "generate")
    /\ UNCHANGED <<cancelled, pending, locks, resources>>

\* The generation renders a chat: RLock on the vision tower for its duration.
StartRender(p) ==
    /\ RW!Shared(visionMu)
    /\ Goto(p, "generate", "render")
    /\ visionMu' = RW!AfterRLock(visionMu, p)
    /\ UNCHANGED <<cancelled, pending, modelMu, genLock, resources>>

EndRender(p) ==
    /\ Goto(p, "render", "generate")
    /\ visionMu' = RW!AfterRUnlock(visionMu, p)
    /\ UNCHANGED <<cancelled, pending, modelMu, genLock, resources>>

EndGenerate(p) ==
    /\ Goto(p, "generate", "ungen")
    /\ UNCHANGED <<cancelled, pending, locks, resources>>

ReleaseGenLock(p, from, to) ==
    /\ Goto(p, from, to)
    /\ genLock' = None
    /\ UNCHANGED <<cancelled, pending, modelMu, visionMu, resources>>

ReleaseLease(p, to) ==
    /\ Goto(p, "unlease", to)
    /\ modelMu' = RW!AfterRUnlock(modelMu, p)
    /\ UNCHANGED <<cancelled, pending, genLock, visionMu, resources>>

\* inferencePending.Add(-1); the call returns and its context dies with it.
Uncount(p) ==
    /\ Goto(p, "uncount", "idle")
    /\ pending' = pending - 1
    /\ cancelled' = cancelled \ {p}
    /\ UNCHANGED <<locks, resources>>

CallerStep(p) ==
    \/ Count(p) \/ Cancel(p)
    \/ TryLease(p) \/ StartPolling(p) \/ StopPolling(p) \/ CheckOpen(p)
    \/ TakeGenLock(p, "gencheck") \/ StopWaiting(p) \/ CheckAfterLock(p)
    \/ StartRender(p) \/ EndRender(p) \/ EndGenerate(p)
    \/ ReleaseGenLock(p, "ungen", "unlease") \/ ReleaseLease(p, "uncount") \/ Uncount(p)
-----------------------------------------------------------------------------
(* Tuners: acquireModelLease blocks, and cannot be cancelled.               *)

Lease(p) ==
    /\ RW!Shared(modelMu)
    /\ Goto(p, "idle", "check")
    /\ modelMu' = RW!AfterRLock(modelMu, p)
    /\ UNCHANGED <<cancelled, pending, genLock, visionMu, resources>>

BlockOnLease(p) ==
    /\ ~RW!Shared(modelMu)
    /\ Goto(p, "idle", "blocked")
    /\ modelMu' = RW!AfterBlockedRLock(modelMu, p)
    /\ UNCHANGED <<cancelled, pending, genLock, visionMu, resources>>

\* The writer's Unlock has made p a reader.
WakeWithLease(p) ==
    /\ p \in modelMu.readers
    /\ Goto(p, "blocked", "check")
    /\ UNCHANGED <<cancelled, pending, locks, resources>>

\* ErrRunnerClosed, or the work: under the lease alone, or with genLock too.
CheckLease(p) ==
    /\ \/ closed /\ Goto(p, "check", "unlease")
       \/ ~closed /\ Goto(p, "check", "measure")
       \/ ~closed /\ Goto(p, "check", "genwait")
    /\ UNCHANGED <<cancelled, pending, locks, resources>>

EndMeasure(p) ==
    /\ Goto(p, "measure", "unlease")
    /\ UNCHANGED <<cancelled, pending, locks, resources>>

EndTune(p) ==
    /\ Goto(p, "tune", "ungen")
    /\ UNCHANGED <<cancelled, pending, locks, resources>>

TunerStep(p) ==
    \/ Lease(p) \/ BlockOnLease(p) \/ WakeWithLease(p) \/ CheckLease(p)
    \/ EndMeasure(p) \/ TakeGenLock(p, "tune") \/ EndTune(p)
    \/ ReleaseGenLock(p, "ungen", "unlease") \/ ReleaseLease(p, "idle")

-----------------------------------------------------------------------------
(* Controllers: genLock.Lock, replace the conversation cache, Unlock.       *)

\* Defect: the conversation cache is replaced without genLock.
RequestControlUnlocked(p) ==
    /\ Goto(p, "idle", "control")
    /\ UNCHANGED <<cancelled, pending, locks, resources>>

RequestControl(p) ==
    /\ Goto(p, "idle", "genwait")
    /\ UNCHANGED <<cancelled, pending, locks, resources>>

ControllerStep(p) ==
    RequestControl(p) \/ TakeGenLock(p, "control") \/ ReleaseGenLock(p, "control", "idle")

-----------------------------------------------------------------------------
(* Planners: PrepareChatContext renders under visionMu.RLock only.          *)

StartPlan(p) ==
    /\ IF RW!Shared(visionMu)
       THEN Goto(p, "idle", "plan") /\ visionMu' = RW!AfterRLock(visionMu, p)
       ELSE Goto(p, "idle", "planwait") /\ visionMu' = RW!AfterBlockedRLock(visionMu, p)
    /\ UNCHANGED <<cancelled, pending, modelMu, genLock, resources>>

WakePlan(p) ==
    /\ p \in visionMu.readers
    /\ Goto(p, "planwait", "plan")
    /\ UNCHANGED <<cancelled, pending, locks, resources>>

EndPlan(p) ==
    /\ Goto(p, "plan", "idle")
    /\ visionMu' = RW!AfterRUnlock(visionMu, p)
    /\ UNCHANGED <<cancelled, pending, modelMu, genLock, resources>>

PlannerStep(p) == StartPlan(p) \/ WakePlan(p) \/ EndPlan(p)

-----------------------------------------------------------------------------
(* Closers: Close.                                                          *)

\* modelMu.Lock announces the writer; a second Close queues behind the first.
StartClose(p) ==
    /\ RW!Shared(modelMu)
    /\ Goto(p, "idle", "drain")
    /\ modelMu' = RW!AfterAnnounce(modelMu, p)
    /\ UNCHANGED <<cancelled, pending, genLock, visionMu, resources>>

\* Defect: Close does not wait for the lease holders.
MarkClosedEarly(p) ==
    /\ Goto(p, "drain", IF closed THEN "unlock" ELSE "genwait")
    /\ closed' = TRUE
    /\ UNCHANGED <<cancelled, pending, locks, weights, tower>>

\* The lease holders have left: closed is tested and set, or there is nothing to do.
MarkClosed(p) ==
    /\ RW!Exclusive(modelMu)
    /\ Goto(p, "drain", IF closed THEN "unlock" ELSE "genwait")
    /\ closed' = TRUE
    /\ UNCHANGED <<cancelled, pending, locks, weights, tower>>

\* Under genLock: accelerator weights are released, the containers dropped.
ClearWeights(p) ==
    /\ Goto(p, "clear", "tower")
    /\ weights' = "cleared"
    /\ UNCHANGED <<cancelled, pending, locks, closed, tower>>

LockTower(p) ==
    /\ RW!Shared(visionMu)
    /\ Goto(p, "tower", "towerdrain")
    /\ visionMu' = RW!AfterAnnounce(visionMu, p)
    /\ UNCHANGED <<cancelled, pending, modelMu, genLock, resources>>

\* Defect: the tower is released under its readers.
ReleaseTowerTorn(p) ==
    /\ Goto(p, "towerdrain", "unmap")
    /\ tower' = "released"
    /\ visionMu' = RW!AfterUnlock(visionMu)
    /\ UNCHANGED <<cancelled, pending, modelMu, genLock, closed, weights>>

ReleaseTower(p) ==
    /\ RW!Exclusive(visionMu)
    /\ Goto(p, "towerdrain", "unmap")
    /\ tower' = "released"
    /\ visionMu' = RW!AfterUnlock(visionMu)
    /\ UNCHANGED <<cancelled, pending, modelMu, genLock, closed, weights>>

\* Caches are dropped and every mapping of the model is closed.
UnmapWeights(p) ==
    /\ Goto(p, "unmap", "ungen")
    /\ weights' = "unmapped"
    /\ UNCHANGED <<cancelled, pending, locks, closed, tower>>

\* The deferred modelMu.Unlock hands the lease to the blocked readers.
EndClose(p) ==
    /\ Goto(p, "unlock", "idle")
    /\ modelMu' = RW!AfterUnlock(modelMu)
    /\ UNCHANGED <<cancelled, pending, genLock, visionMu, resources>>

CloserStep(p) ==
    \/ StartClose(p) \/ MarkClosed(p) \/ TakeGenLock(p, "clear") \/ ClearWeights(p)
    \/ LockTower(p) \/ ReleaseTower(p) \/ UnmapWeights(p)
    \/ ReleaseGenLock(p, "ungen", "unlock") \/ EndClose(p)

-----------------------------------------------------------------------------
Next ==
    \/ \E p \in Callers : CallerStep(p)
    \/ \E p \in Tuners : TunerStep(p)
    \/ \E p \in Controllers : ControllerStep(p)
    \/ \E p \in Planners : PlannerStep(p)
    \/ \E p \in Closers : CloserStep(p)

Spec == Init /\ [][Next]_vars

-----------------------------------------------------------------------------
(* Safety.                                                                  *)

UsingWeights == {p \in Proc : pc[p] \in {"generate", "render", "tune", "measure"}}

InWorkspace == {p \in Proc : pc[p] \in {"generate", "render", "tune", "control",
                                        "clear", "tower", "towerdrain", "unmap"}}

Admitted == {p \in Callers : pc[p] \notin {"idle", "uncount"}}

\* No generation, calibration or measurement runs while Close drops the weight
\* containers, releases the tower or closes the mappings, or after it did
\* (Close takes modelMu exclusively; queued calls must see ErrRunnerClosed).
NoUseAfterClose == UsingWeights # {} => weights = "live" /\ tower = "live"

\* One goroutine at a time touches what genLock guards: the KV workspace, the
\* prefix cache, the conversation snapshots and, in Close, their disposal.
OneWorkspaceUser == \A p, q \in InWorkspace : p = q

\* inferencePending counts exactly the calls that are inside acquireInference
\* or hold its release function: no early return, cancellation or rejection
\* leaks a slot or gives one back twice.
PendingExact == pending = Cardinality({p \in Callers : pc[p] # "idle"})

\* The runner never has more than MaxPending active and waiting inference calls,
\* however the increments of concurrent callers interleave.
AdmissionBound == Cardinality(Admitted) <= MaxPending

\* acquireInference's accounting: the count is exact and the bound is kept.
AdmissionExact == PendingExact /\ AdmissionBound

\* A generation that reaches the image renderer never blocks on visionMu: the
\* lock order modelMu, genLock, visionMu keeps Close out until it has finished.
NoTowerWait == \A p \in Callers : pc[p] = "generate" => RW!Shared(visionMu)

\* Close never releases the tower under a renderer, leased or not.
TowerHeld == [][tower' # tower => \A p \in Proc : pc[p] \notin {"render", "plan"}]_vars

\* Which goroutine holds, waits for or has announced itself on which lock is
\* exactly what its place in its call says, and a call gets past the closed
\* check only while the weights are live (the inductive core of the above).
LeasePC == {"check", "genwait", "gencheck", "generate", "render", "measure", "tune",
            "ungen", "unlease"}
GenPC   == {"gencheck", "generate", "render", "tune", "control", "clear", "tower",
            "towerdrain", "unmap", "ungen"}

LockInv ==
    /\ modelMu.readers \subseteq Callers \cup Tuners
    /\ \A p \in Callers : p \in modelMu.readers <=> pc[p] \in LeasePC
    /\ \A p \in Tuners : /\ pc[p] \in LeasePC => p \in modelMu.readers
                         /\ p \in modelMu.readers => pc[p] \in LeasePC \cup {"blocked"}
    /\ \A p \in modelMu.waiting : p \in Tuners \ modelMu.readers /\ pc[p] = "blocked"
    /\ modelMu.writer \in Closers \cup {None}
    /\ \A p \in Closers : /\ modelMu.writer = p <=> pc[p] # "idle"
                          /\ pc[p] \notin {"idle", "drain"} => modelMu.readers = {} /\ closed
    /\ \A p \in Proc : genLock = p <=> pc[p] \in GenPC
    /\ visionMu.readers \subseteq Callers \cup Planners
    /\ \A p \in Callers : p \in visionMu.readers <=> pc[p] = "render"
    /\ \A p \in Planners : /\ pc[p] = "plan" => p \in visionMu.readers
                           /\ p \in visionMu.readers => pc[p] \in {"plan", "planwait"}
    /\ \A p \in visionMu.waiting : p \in Planners \ visionMu.readers /\ pc[p] = "planwait"
    /\ visionMu.writer \in Closers \cup {None}
    /\ \A p \in Closers : visionMu.writer = p <=> pc[p] = "towerdrain"
    /\ \A p \in Callers \cup Tuners : pc[p] \in LeasePC \ {"check", "unlease"} => ~closed
    /\ ~closed => weights = "live" /\ tower = "live"

\* The locks implement the abstract model lease.
LeaseUsers == {p \in Callers \cup Tuners : pc[p] \in LeasePC \ {"check", "unlease"}}

Lease_ == INSTANCE ModelLease WITH
            open <- ~closed,
            users <- LeaseUsers,
            worker <- IF genLock \in Callers \cup Tuners THEN genLock ELSE None,
            disposed <- weights # "live"

ImplementsModelLease == Lease_!Spec

-----------------------------------------------------------------------------
(* Liveness.  A call that was started keeps being scheduled (WF); genLock is a *)
(* channel, whose blocked senders are served first come first served, so a     *)
(* waiter cannot be overtaken for ever (SF); a generation renders and decodes  *)
(* boundedly often (SF on its end).  Starting a call or cancelling it, and     *)
(* winning the TryRLock poll, are never assumed.                               *)

Fairness ==
    /\ \A p \in Callers :
         /\ WF_vars(TryLease(p) \/ StartPolling(p) \/ StopPolling(p) \/ CheckOpen(p)
                    \/ CheckAfterLock(p) \/ EndRender(p) \/ Uncount(p)
                    \/ ReleaseGenLock(p, "ungen", "unlease") \/ ReleaseLease(p, "uncount"))
         /\ SF_vars(EndGenerate(p))
         /\ SF_vars(TakeGenLock(p, "gencheck") \/ StopWaiting(p))
    /\ \A p \in Tuners :
         /\ WF_vars(TunerStep(p) /\ pc[p] # "idle")
         /\ SF_vars(TakeGenLock(p, "tune"))
    /\ \A p \in Controllers :
         /\ WF_vars(ControllerStep(p) /\ pc[p] # "idle")
         /\ SF_vars(TakeGenLock(p, "control"))
    /\ \A p \in Planners : WF_vars(PlannerStep(p) /\ pc[p] # "idle")
    /\ \A p \in Closers :
         /\ WF_vars(CloserStep(p) /\ pc[p] # "idle")
         /\ SF_vars(TakeGenLock(p, "clear"))

LiveSpec == Spec /\ Fairness

\* A caller whose context is done leaves, whatever it was waiting for.
CancelledReturns == \A p \in Callers : p \in cancelled ~> pc[p] = "idle"

\* Whatever waits uncancellably returns, Close among it.
WaitersReturn ==
    \A p \in Closers \cup Tuners \cup Controllers \cup Planners : pc[p] # "idle" ~> pc[p] = "idle"

\* "Waiting for a model swap/Close must not create an uncancellable goroutine",
\* and Close must not hang behind generations, pollers, planners or cache
\* controls, nor AutoTune, LoadAutoTune, cache controls and planners behind
\* Close and a stream of generations: no order of modelMu, genLock and visionMu
\* makes a cycle, and no early return keeps one of them.
CallsReturn == CancelledReturns /\ WaitersReturn
=============================================================================
