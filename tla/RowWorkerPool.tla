---------------------------- MODULE RowWorkerPool ----------------------------
(***************************************************************************)
(* The process-wide pool of matvec workers: concurrent dispatches lease the *)
(* current pool, queue jobs on its channel, compute a share themselves and  *)
(* wait; a change of the thread count retires the pool and starts another.  *)
(*                                                                          *)
(* A dispatch is static (one chunk per participant, a pooled WaitGroup) or  *)
(* a batch (participants claim further chunks from a shared counter, a      *)
(* pooled rowBatch).  The pooled objects are reused by later dispatches,    *)
(* and a worker knows its batch through the object only.                    *)
(***************************************************************************)
EXTENDS Naturals, FiniteSets, RowPartition

CONSTANTS
    Dispatchers,    \* goroutines calling parallelRows and its variants
    PoolSizes,      \* the thread counts SetNumThreads is called with
    Units,          \* how many independent units (rows, heads) a call may have
    RowCounts,      \* row counts of a call, for RowsComputedOnce
    Batching,       \* which calls are big enough to be batched: a subset of BOOLEAN
    Pools,          \* bound: the pools in existence at one time
    Objects,        \* bound: WaitGroups and rowBatches in existence
    Over,           \* the literal 8: chunks per participant, capacity per thread
    None            \* no pool, no object, no dispatcher

ASSUME SizesAssumption ==
    /\ PoolSizes \subseteq Nat \ {0} /\ Units \subseteq Nat \ {0}
    /\ RowCounts \subseteq Nat
    /\ Over \in Nat \ {0} /\ Batching \subseteq BOOLEAN
    /\ \E n \in PoolSizes : \A k \in PoolSizes : k <= n
    /\ IsFiniteSet(Dispatchers) /\ None \notin Dispatchers \cup Pools \cup Objects

VARIABLES
    rowPool,        \* the global rowPool, or None
    pool,           \* rowWorkerPool: threads, jobs, active, retiring, stopped
    idle,           \* idle[p]: how many workers of p wait in their select
    busy,           \* busy[p]: the workers running a job, as [job, chunk]
    object,         \* the pooled WaitGroup / rowBatch: wg, next, chunks, fn
    free,           \* the objects that are in their sync.Pool
    disp,           \* each dispatcher's local variables
    ran             \* ran[d][c]: how often chunk c of d's current call was run

vars == <<rowPool, pool, idle, busy, object, free, disp, ran>>

MaxThreads == CHOOSE n \in PoolSizes : \A k \in PoolSizes : k <= n
End        == MaxThreads * Over     \* no chunk is left to a participant
Chunk      == 0 .. End - 1

NoPool   == [threads |-> 0, jobs |-> {}, active |-> 0, retiring |-> FALSE, stopped |-> FALSE]
NoObject == [wg |-> 0, next |-> 0, chunks |-> 0, fn |-> None]
NoCall   == [pc |-> "idle", threads |-> 0, parts |-> 0, batch |-> FALSE,
             pool |-> None, object |-> None, sent |-> 0, chunk |-> 0]
Zero     == [c \in Chunk |-> 0]

Init ==
    /\ rowPool = None
    /\ pool = [p \in Pools |-> NoPool]
    /\ idle = [p \in Pools |-> 0]
    /\ busy = [p \in Pools |-> {}]
    /\ object = [o \in Objects |-> NoObject]
    /\ free = Objects
    /\ disp = [d \in Dispatchers |-> NoCall]
    /\ ran = [d \in Dispatchers |-> Zero]

At(d, pc) == disp[d].pc = pc

-----------------------------------------------------------------------------
(* A dispatch.  Calls with fewer than two participants run inline and touch  *)
(* nothing here.                                                             *)

\* SetNumThreads may be called at any time, so the thread count, read here once,
\* may be stale when the pool is leased.
Begin(d) ==
    /\ At(d, "idle")
    /\ \E threads \in PoolSizes, units \in Units, batch \in Batching :
         LET parts == IF units < threads THEN units ELSE threads
         IN  /\ parts > 1
             /\ disp' = [disp EXCEPT ![d] = [NoCall EXCEPT !.pc = "acquire", !.threads = threads,
                                                           !.parts = parts, !.batch = batch]]
    /\ ran' = [ran EXCEPT ![d] = Zero]
    /\ UNCHANGED <<rowPool, pool, idle, busy, object, free>>

Chunks(d) == IF disp[d].batch THEN disp[d].parts * Over ELSE disp[d].parts

Leased(d, p) == disp' = [disp EXCEPT ![d].pool = p, ![d].pc = "prepare"]

Matches(d) == IF rowPool = None THEN FALSE ELSE pool[rowPool].threads = disp[d].threads

Reuse(d) ==
    /\ At(d, "acquire") /\ Matches(d)
    /\ pool' = [pool EXCEPT ![rowPool].active = @ + 1]
    /\ Leased(d, rowPool)
    /\ UNCHANGED <<rowPool, idle, busy, object, free, ran>>

\* retireRowWorkerPoolLocked: an idle pool is stopped at once, a leased one later.
Retired(q) == [q EXCEPT !.retiring = TRUE, !.stopped = q.active = 0]

Replace(d) ==
    /\ At(d, "acquire") /\ ~Matches(d)
    /\ \E p \in Pools :
         /\ pool[p] = NoPool
         /\ pool' = [q \in Pools |->
                       CASE q = p -> [NoPool EXCEPT !.threads = disp[d].threads, !.active = 1]
                         [] q = rowPool -> Retired(pool[q])
                         [] OTHER -> pool[q]]
         /\ idle' = [idle EXCEPT ![p] = disp[d].threads]
         /\ rowPool' = p
         /\ Leased(d, p)
    /\ UNCHANGED <<busy, object, free, ran>>

\* An object is taken from its sync.Pool and set up for this call.
SetUp(d) ==
    IF disp[d].batch
    THEN [wg |-> disp[d].parts - 1, next |-> disp[d].parts, chunks |-> Chunks(d), fn |-> d]
    ELSE [NoObject EXCEPT !.wg = disp[d].parts - 1]

Prepare(d) ==
    /\ At(d, "prepare")
    /\ \E o \in free :
         /\ object' = [object EXCEPT ![o] = SetUp(d)]
         /\ free' = free \ {o}
         /\ disp' = [disp EXCEPT ![d].object = o, ![d].sent = 1, ![d].pc = "send"]
    /\ UNCHANGED <<rowPool, pool, idle, busy, ran>>

\* One job per further participant; the send blocks while the channel is full.
Send(d) ==
    LET p == disp[d].pool
        job == [object |-> disp[d].object, first |-> disp[d].sent,
                fn |-> IF disp[d].batch THEN None ELSE d]
    IN  /\ At(d, "send") /\ disp[d].sent < disp[d].parts
        /\ Cardinality(pool[p].jobs) < pool[p].threads * Over
        /\ pool' = [pool EXCEPT ![p].jobs = @ \cup {job}]
        /\ disp' = [disp EXCEPT ![d].sent = @ + 1]
        /\ UNCHANGED <<rowPool, idle, busy, object, free, ran>>

EndSend(d) ==
    /\ At(d, "send") /\ disp[d].sent = disp[d].parts
    /\ disp' = [disp EXCEPT ![d].chunk = 0, ![d].pc = "run"]
    /\ UNCHANGED <<rowPool, pool, idle, busy, object, free, ran>>

\* Running a chunk and claiming the next: a static job has no next chunk, a batch
\* hands out the old value of its counter while that is below its chunk count.
RunFor(fn, chunk) == ran' = [ran EXCEPT ![fn][chunk] = @ + 1]

Claimed(o) == IF object[o].next < object[o].chunks THEN object[o].next ELSE End

\* Defect: the counter is read but not incremented.
AdvanceNextLost(o) == UNCHANGED object

AdvanceNext(o) == object' = [object EXCEPT ![o].next = @ + 1]

RunOwn(d) ==
    /\ At(d, "run") /\ disp[d].chunk # End
    /\ RunFor(d, disp[d].chunk)
    /\ IF disp[d].batch
       THEN /\ disp' = [disp EXCEPT ![d].chunk = Claimed(disp[d].object)]
            /\ AdvanceNext(disp[d].object)
       ELSE disp' = [disp EXCEPT ![d].chunk = End] /\ UNCHANGED object
    /\ UNCHANGED <<rowPool, pool, idle, busy, free>>

\* Defect: the dispatch does not wait for the queued jobs.
WaitNot(d) ==
    /\ At(d, "run") /\ disp[d].chunk = End
    /\ disp' = [disp EXCEPT ![d].pc = "put"]
    /\ UNCHANGED <<rowPool, pool, idle, busy, object, free, ran>>

Wait(d) ==
    /\ At(d, "run") /\ disp[d].chunk = End
    /\ object[disp[d].object].wg = 0
    /\ disp' = [disp EXCEPT ![d].pc = "put"]
    /\ UNCHANGED <<rowPool, pool, idle, busy, object, free, ran>>

\* The object goes back to its sync.Pool, without the callback it carried.
Put(d) ==
    /\ At(d, "put")
    /\ object' = [object EXCEPT ![disp[d].object] = NoObject]
    /\ free' = free \cup {disp[d].object}
    /\ disp' = [disp EXCEPT ![d].object = None, ![d].pc = "release"]
    /\ UNCHANGED <<rowPool, pool, idle, busy, ran>>

\* Defect: the last lease holder does not stop the retired pool.
ReleaseOnly(d) ==
    /\ At(d, "release")
    /\ pool' = [pool EXCEPT ![disp[d].pool].active = @ - 1]
    /\ disp' = [disp EXCEPT ![d] = NoCall]
    /\ UNCHANGED <<rowPool, idle, busy, object, free, ran>>

Release(d) ==
    LET p == disp[d].pool
    IN  /\ At(d, "release")
        /\ pool' = [pool EXCEPT ![p].active = @ - 1,
                                ![p].stopped = @ \/ (pool[p].retiring /\ pool[p].active = 1)]
        /\ disp' = [disp EXCEPT ![d] = NoCall]
        /\ UNCHANGED <<rowPool, idle, busy, object, free, ran>>

-----------------------------------------------------------------------------
(* A worker: select between the next job and the stop channel.              *)

TakeJob(p, job) ==
    /\ idle[p] > 0
    /\ pool' = [pool EXCEPT ![p].jobs = @ \ {job}]
    /\ busy' = [busy EXCEPT ![p] = @ \cup {[job |-> job, chunk |-> job.first]}]
    /\ idle' = [idle EXCEPT ![p] = @ - 1]
    /\ UNCHANGED <<rowPool, object, free, disp, ran>>

RunJob(p, w) ==
    LET o == w.job.object
        next == IF w.job.fn = None THEN Claimed(o) ELSE End
    IN  /\ w.chunk # End
        /\ RunFor(IF w.job.fn = None THEN object[o].fn ELSE w.job.fn, w.chunk)
        /\ IF w.job.fn = None THEN AdvanceNext(o) ELSE UNCHANGED object
        /\ busy' = [busy EXCEPT ![p] = (@ \ {w}) \cup {[w EXCEPT !.chunk = next]}]
        /\ UNCHANGED <<rowPool, pool, idle, free, disp>>

Done(p, w) ==
    /\ w.chunk = End
    /\ object' = [object EXCEPT ![w.job.object].wg = @ - 1]
    /\ busy' = [busy EXCEPT ![p] = @ \ {w}]
    /\ idle' = [idle EXCEPT ![p] = @ + 1]
    /\ UNCHANGED <<rowPool, pool, free, disp, ran>>

\* Defect: a `break` that leaves the select but not the worker's loop.
StopSelectOnly(p) == idle[p] > 0 /\ pool[p].stopped /\ UNCHANGED vars

\* The last worker to leave a stopped pool leaves it to the garbage collector.
Stop(p) ==
    /\ idle[p] > 0 /\ pool[p].stopped
    /\ idle' = [idle EXCEPT ![p] = @ - 1]
    /\ pool' = IF idle[p] = 1 /\ busy[p] = {} THEN [pool EXCEPT ![p] = NoPool] ELSE pool
    /\ UNCHANGED <<rowPool, busy, object, free, disp, ran>>

-----------------------------------------------------------------------------
Dispatch(d) ==
    \/ Reuse(d) \/ Replace(d) \/ Prepare(d) \/ Send(d) \/ EndSend(d)
    \/ RunOwn(d) \/ Wait(d) \/ Put(d) \/ Release(d)

Work(p) ==
    \/ \E job \in pool[p].jobs : TakeJob(p, job)
    \/ \E w \in busy[p] : RunJob(p, w) \/ Done(p, w)
    \/ Stop(p)

Next ==
    \/ \E d \in Dispatchers : Begin(d) \/ Dispatch(d)
    \/ \E p \in Pools : Work(p)

Spec == Init /\ [][Next]_vars

-----------------------------------------------------------------------------
(* Safety.                                                                  *)

TypeOK ==
    /\ rowPool \in Pools \cup {None} /\ free \subseteq Objects
    /\ \A p \in Pools :
         /\ pool[p].threads \in PoolSizes \cup {0}
         /\ pool[p].active \in 0 .. Cardinality(Dispatchers)
         /\ Cardinality(pool[p].jobs) <= pool[p].threads * Over
         /\ idle[p] + Cardinality(busy[p]) <= pool[p].threads
    /\ \A o \in Objects : object[o].wg \in 0 .. MaxThreads - 1 /\ object[o].fn \in Dispatchers \cup {None}
    /\ \A d \in Dispatchers : disp[d].pool \in Pools \cup {None} /\ disp[d].object \in Objects \cup {None}

\* When a dispatch has waited, each row of its call was computed exactly once,
\* and none beyond: no chunk is skipped between the participants' first chunks
\* and the claimed ones, claimed twice or run for another call
\* (rowBatch.runRows), and the chunks leave no row out.
RowsComputedOnce ==
    \A d \in Dispatchers, n \in RowCounts : disp[d].pc \in {"put", "release"} =>
        \A r \in 0 .. n :
            LET computedBy == {c \in Chunk : ran[d][c] > 0 /\ r \in RowsOf(n, Chunks(d), c)}
            IN  /\ Cardinality(computedBy) = IF r < n THEN 1 ELSE 0
                /\ \A c \in computedBy : ran[d][c] = 1

\* A retired pool is stopped by its last lease holder, and the current pool
\* never is: workers neither leak nor vanish under a later dispatch. "Closing its
\* workers could strand queued jobs": a stopped pool has none left to run.
StoppedExactlyWhenRetired ==
    /\ TypeOK
    /\ \A p \in Pools : pool[p].threads # 0 =>
           /\ pool[p].active = Cardinality({d \in Dispatchers : disp[d].pool = p})
           /\ pool[p].retiring <=> p # rowPool
           /\ pool[p].stopped <=> pool[p].retiring /\ pool[p].active = 0
           /\ pool[p].stopped => pool[p].jobs = {}

\* An object in its sync.Pool is referenced by no job, worker or dispatch, and one
\* outside it belongs to one dispatch: a late worker of an earlier call can
\* neither count down nor read a WaitGroup or batch that was handed on.
ObjectIsolation ==
    LET jobs(o) == {job \in UNION {pool[p].jobs : p \in Pools} : job.object = o}
        busyWith(o) == {w \in UNION {busy[p] : p \in Pools} : w.job.object = o}
        owners(o) == {d \in Dispatchers : disp[d].object = o}
    IN  \A o \in Objects :
          IF o \in free THEN jobs(o) = {} /\ busyWith(o) = {} /\ owners(o) = {}
          ELSE \E d \in owners(o) :
                 /\ owners(o) = {d}
                 /\ object[o].wg = Cardinality(jobs(o)) + Cardinality(busyWith(o))
                                    + disp[d].parts - (IF At(d, "send") THEN disp[d].sent ELSE disp[d].parts)

\* The dispatches implement the abstract parallel loop.
Loop == INSTANCE ParallelFor WITH
          Caller <- Dispatchers, MaxChunks <- End,
          chunks <- [d \in Dispatchers |-> IF At(d, "idle") THEN 0 ELSE Chunks(d)]

ImplementsParallelFor == Loop!Spec

-----------------------------------------------------------------------------
(* Liveness.  Running goroutines are scheduled (WF).  rowPoolMu and a blocked  *)
(* channel send are served in turn, and the sync.Pool and the allocator never  *)
(* run dry (SF on the steps that wait for one of them); a channel delivers in   *)
(* order (SF on the receipt of a call's jobs).  Nobody has to start a dispatch *)
(* or to change the thread count.                                              *)

Fairness ==
    /\ \A d \in Dispatchers : /\ WF_vars(EndSend(d) \/ RunOwn(d) \/ Wait(d) \/ Put(d) \/ Release(d))
                             /\ SF_vars(Reuse(d) \/ Replace(d) \/ Prepare(d) \/ Send(d))
    /\ \A p \in Pools : WF_vars(Stop(p))
    /\ \A o \in Objects :
         /\ WF_vars(\E p \in Pools : \E w \in busy[p] :
                     w.job.object = o /\ (RunJob(p, w) \/ Done(p, w)))
         /\ SF_vars(\E p \in Pools : \E job \in pool[p].jobs : job.object = o /\ TakeJob(p, job))

LiveSpec == Spec /\ Fairness

\* No dispatch waits for a job that nobody runs.
DispatchReturns == \A d \in Dispatchers : ~At(d, "idle") ~> At(d, "idle")

\* The worker goroutines of a replaced pool all end.
RetiredWorkersEnd == \A p \in Pools : pool[p].retiring ~> ~pool[p].retiring

\* SetNumThreads at any time (acquireRowWorkerPool): every dispatch returns,
\* whatever pools are retired under it, and no replaced pool keeps its workers.
ReplacementEnds == DispatchReturns /\ RetiredWorkersEnd
=============================================================================
