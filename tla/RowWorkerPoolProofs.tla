------------------------ MODULE RowWorkerPoolProofs ------------------------
(***************************************************************************)
(* Proofs about RowWorkerPool, for any number of dispatches, workers, rows  *)
(* and pools in existence: pools are stopped exactly when they are retired  *)
(* and unused, the pooled objects are not shared between calls, each row of *)
(* a call is computed once, and the dispatches implement ParallelFor.       *)
(***************************************************************************)
EXTENDS RowWorkerPool, FiniteSetTheorems, TLAPS

-----------------------------------------------------------------------------
(* How the rows of a call are cut into chunks, for every n and c.            *)

\* Integer division is monotone.
LEMMA DivMonotone ==
    ASSUME NEW a \in Nat, NEW b \in Nat, NEW n \in Nat \ {0}, a <= b
    PROVE  a \div n <= b \div n
OBVIOUS

\* A cut is a natural number, and cuts grow with their index.
LEMMA CutMonotone ==
    ASSUME NEW n \in Nat, NEW c \in Nat \ {0}, NEW v \in Nat, NEW w \in Nat, v <= w
    PROVE  Cut(n, c, v) \in Nat /\ Cut(n, c, v) <= Cut(n, c, w)
<1>1. n * v \in Nat /\ n * w \in Nat /\ n * v <= n * w
  OBVIOUS
<1> QED BY <1>1, DivMonotone DEF Cut

\* A cut is a row number.
LEMMA CutNat ==
    ASSUME NEW n \in Nat, NEW c \in Nat \ {0}, NEW v \in Nat
    PROVE  Cut(n, c, v) \in Nat
<1>1. v <= v
  OBVIOUS
<1> QED BY <1>1, CutMonotone

\* The first cut is at row 0 and the last one at the row count.
LEMMA CutEnds ==
    ASSUME NEW n \in Nat, NEW c \in Nat \ {0}
    PROVE  Cut(n, c, 0) = 0 /\ Cut(n, c, c) = n
BY DEF Cut

\* Every row below n lies in some chunk: chunk ((r + 1) * c - 1) \div n.
LEMMA RowHasChunk ==
    ASSUME NEW n \in Nat, NEW c \in Nat \ {0}, NEW r \in 0 .. n - 1
    PROVE  \E w \in 0 .. c - 1 : r \in Cut(n, c, w) .. Cut(n, c, w + 1) - 1
<1> DEFINE x == (r + 1) * c - 1
           w == x \div n
<1>1. x \in Nat /\ n \in Nat \ {0} /\ x < n * c
  <2>1. (r + 1) * c \in Nat \ {0} /\ (r + 1) * c <= n * c
    OBVIOUS
  <2> QED BY <2>1
<1>2. w \in Nat /\ n * w <= x /\ x < n * (w + 1)
  BY <1>1
<1>3. w < c
  BY <1>1, <1>2
<1>4. Cut(n, c, w) <= r
  <2>1. n * w < (r + 1) * c
    BY <1>1, <1>2
  <2>2. n * w \in Nat /\ (n * w) \div c < r + 1
    BY <1>2, <2>1
  <2> QED BY <1>2, <2>2, CutMonotone DEF Cut
<1>5. r + 1 <= Cut(n, c, w + 1)
  <2>1. (r + 1) * c <= n * (w + 1) /\ n * (w + 1) \in Nat /\ (r + 1) * c \in Nat
    BY <1>1, <1>2
  <2>2. ((r + 1) * c) \div c = r + 1
    OBVIOUS
  <2>3. ((r + 1) * c) \div c <= (n * (w + 1)) \div c
    BY <2>1, DivMonotone
  <2> QED BY <2>2, <2>3 DEF Cut
<1>6. Cut(n, c, w) \in Nat /\ Cut(n, c, w + 1) \in Nat
  <2>1. \A u \in Nat : Cut(n, c, u) \in Nat
    <3> TAKE u \in Nat
    <3>1. u <= u OBVIOUS
    <3> QED BY <3>1, CutMonotone
  <2> QED BY <1>2, <2>1
<1>7. w \in 0 .. c - 1 /\ r \in Cut(n, c, w) .. Cut(n, c, w + 1) - 1
  BY <1>2, <1>3, <1>4, <1>5, <1>6
<1> HIDE DEF w
<1> QED BY <1>7

\* Two different chunks share no row.
LEMMA ChunksDisjoint ==
    ASSUME NEW n \in Nat, NEW c \in Nat \ {0}, NEW v \in Nat, NEW w \in Nat, v < w
    PROVE  \A r \in Int : ~(r < Cut(n, c, v + 1) /\ Cut(n, c, w) <= r)
<1>1. v + 1 \in Nat /\ v + 1 <= w
  OBVIOUS
<1>2. Cut(n, c, v + 1) \in Nat /\ Cut(n, c, v + 1) <= Cut(n, c, w)
  BY <1>1, CutMonotone
<1>3. Cut(n, c, w) \in Nat
  BY CutNat
<1> QED BY <1>2, <1>3

\* Whatever the row count and the number of chunks, the chunks of a dispatch
\* partition the rows: a row in two chunks would be a data race on the output,
\* a row in none would keep its stale value.
THEOREM RowsPartitioned ==
    ASSUME NEW n \in Nat, NEW c \in Nat \ {0}, NEW r \in 0 .. n - 1
    PROVE  /\ \E w \in 0 .. c - 1 : r \in RowsOf(n, c, w)
           /\ \A v, w \in 0 .. c - 1 : r \in RowsOf(n, c, v) \cap RowsOf(n, c, w) => v = w
<1>1. \E w \in 0 .. c - 1 : r \in RowsOf(n, c, w)
  BY RowHasChunk DEF RowsOf
<1>2. ASSUME NEW v \in 0 .. c - 1, NEW w \in 0 .. c - 1,
             r \in RowsOf(n, c, v), r \in RowsOf(n, c, w)
      PROVE  v = w
  <2>1. /\ Cut(n, c, v) <= r /\ r < Cut(n, c, v + 1)
        /\ Cut(n, c, w) <= r /\ r < Cut(n, c, w + 1)
    <3>1. v \in Nat /\ v + 1 \in Nat /\ w \in Nat /\ w + 1 \in Nat
      OBVIOUS
    <3>2. Cut(n, c, v) \in Nat /\ Cut(n, c, v + 1) \in Nat
      BY <3>1, CutNat
    <3>3. Cut(n, c, w) \in Nat /\ Cut(n, c, w + 1) \in Nat
      BY <3>1, CutNat
    <3> QED BY <1>2, <3>2, <3>3 DEF RowsOf
  <2>2. ~(v < w) /\ ~(w < v)
    BY <2>1, ChunksDisjoint
  <2> QED BY <2>2
<1> QED BY <1>1, <1>2

\* No chunk reaches outside the rows of its call: it would write past the output.
THEOREM ChunksInRange ==
    ASSUME NEW n \in Nat, NEW c \in Nat \ {0}, NEW w \in 0 .. c - 1
    PROVE  RowsOf(n, c, w) \subseteq 0 .. n - 1
<1>1. w \in Nat /\ w + 1 \in Nat /\ c \in Nat /\ w + 1 <= c
  OBVIOUS
<1>2. Cut(n, c, w) \in Nat /\ Cut(n, c, w + 1) \in Nat
  BY <1>1, CutNat
<1>3. Cut(n, c, w + 1) <= Cut(n, c, c)
  BY <1>1, CutMonotone
<1>4. Cut(n, c, w + 1) <= n
  BY <1>3, CutEnds
<1> QED BY <1>2, <1>4 DEF RowsOf

\* Cutting after a further chunk of n rows adds n \div c rows, or one more.
LEMMA CutStep ==
    ASSUME NEW n \in Nat, NEW c \in Nat \ {0}, NEW v \in Nat
    PROVE  Cut(n, c, v + 1) - Cut(n, c, v) \in {n \div c, n \div c + 1}
<1>1. \A a \in Nat : (a + n) \div c - a \div c \in {n \div c, n \div c + 1}
  OBVIOUS
<1>2. n * v \in Nat /\ n * (v + 1) = n * v + n
  OBVIOUS
<1> QED BY <1>1, <1>2 DEF Cut

\* No participant gets more than one row above another's share, the point of
\* multiplying before dividing.
THEOREM ChunksBalanced ==
    ASSUME NEW n \in Nat, NEW c \in Nat \ {0}, NEW v \in 0 .. c - 1, NEW w \in 0 .. c - 1
    PROVE  Cut(n, c, v + 1) - Cut(n, c, v) <= Cut(n, c, w + 1) - Cut(n, c, w) + 1
<1>1. v \in Nat /\ w \in Nat /\ n \div c \in Int
  OBVIOUS
<1>2. Cut(n, c, v + 1) - Cut(n, c, v) \in {n \div c, n \div c + 1}
  BY <1>1, CutStep
<1>3. Cut(n, c, w + 1) - Cut(n, c, w) \in {n \div c, n \div c + 1}
  BY <1>1, CutStep
<1> QED BY <1>1, <1>2, <1>3

-----------------------------------------------------------------------------
(* The inductive invariant: its clauses about types, pools and objects.     *)

Job    == [object : Objects, first : Nat \ {0}, fn : Dispatchers \cup {None}]
Worker == [job : Job, chunk : 0 .. End]
Pool   == [threads : PoolSizes \cup {0}, jobs : SUBSET Job, active : Nat,
           retiring : BOOLEAN, stopped : BOOLEAN]
Object == [wg : Nat, next : Nat, chunks : Nat, fn : Dispatchers \cup {None}]
Locals == [pc : {"idle", "acquire", "prepare", "send", "run", "put", "release"},
           threads : PoolSizes \cup {0}, parts : Nat, batch : BOOLEAN,
           pool : Pools \cup {None}, object : Objects \cup {None}, sent : Nat, chunk : 0 .. End]

\* What a dispatch has at each of its lines.
AtItsLine(r) ==
    /\ r.pc = "idle" => r = NoCall
    /\ r.pc # "idle" => r.threads \in PoolSizes /\ r.parts \in 2 .. r.threads
    /\ r.pool # None <=> r.pc \in {"prepare", "send", "run", "put", "release"}
    /\ r.object # None <=> r.pc \in {"send", "run", "put"}
    /\ r.pc \in {"acquire", "prepare"} => r.chunk = 0
    /\ r.pc = "send" => r.sent \in 1 .. r.parts /\ r.chunk = 0
    /\ r.pc \in {"run", "put", "release"} => r.sent = r.parts
    /\ r.pc \in {"put", "release"} => r.chunk = End

Types ==
    /\ rowPool \in Pools \cup {None} /\ free \subseteq Objects
    /\ pool \in [Pools -> Pool]
    /\ idle \in [Pools -> Nat]
    /\ busy \in [Pools -> SUBSET Worker]
    /\ object \in [Objects -> Object]
    /\ disp \in [Dispatchers -> Locals] /\ \A d \in Dispatchers : AtItsLine(disp[d])
    /\ ran \in [Dispatchers -> [Chunk -> Nat]]

\* A pooled object is with one dispatch or in its sync.Pool.
Owners ==
    /\ \A d \in Dispatchers : disp[d].object \notin free
    /\ \A o \in Objects \ free : \E d \in Dispatchers : disp[d].object = o
    /\ \A d, e \in Dispatchers : disp[d].object = disp[e].object /\ disp[d].object # None => d = e
    /\ \A o \in free : object[o].wg = 0

\* A job, queued or with a worker, is for the object of a dispatch that leases its pool.
SentBy(d, p, job) == disp[d].pool = p /\ disp[d].object = job.object

JobsSent ==
    \A p \in Pools :
      /\ \A job \in pool[p].jobs : \E d \in Dispatchers : SentBy(d, p, job)
      /\ \A w \in busy[p] : \E d \in Dispatchers : SentBy(d, p, w.job)
      /\ IsFiniteSet(pool[p].jobs) /\ IsFiniteSet(busy[p])

\* The leases of a pool, its two flags and its bounds.
Lessees(p) == {d \in Dispatchers : disp[d].pool = p}

Leases ==
    /\ rowPool # None => pool[rowPool].threads # 0
    /\ \A p \in Pools : pool[p].threads = 0 =>
         pool[p] = NoPool /\ busy[p] = {} /\ idle[p] = 0 /\ Lessees(p) = {}
    /\ \A p \in Pools : pool[p].threads # 0 =>
         /\ pool[p].active = Cardinality(Lessees(p))
         /\ pool[p].retiring <=> p # rowPool
         /\ pool[p].stopped <=> pool[p].retiring /\ pool[p].active = 0

Bounds ==
    \A p \in Pools : /\ Cardinality(pool[p].jobs) <= pool[p].threads * Over
                     /\ idle[p] + Cardinality(busy[p]) <= pool[p].threads

-----------------------------------------------------------------------------
(* The inductive invariant: one call d, as a relation between its local     *)
(* variables r, its object b, the jobs J and the workers W that refer to    *)
(* the object, and how often its chunks were run.                           *)

\* The WaitGroup counts what is queued, what runs and what is not sent yet.
Counted(r, b, J, W) ==
    /\ IsFiniteSet(J) /\ IsFiniteSet(W)
    /\ b.wg = Cardinality(J) + Cardinality(W) + r.parts - r.sent
    /\ b.wg <= r.parts - 1

Batch(d, r, b) ==
    r.batch => /\ b.fn = d /\ b.chunks = r.parts * Over /\ b.next >= r.parts
               /\ r.chunk = End => b.next >= b.chunks

Queued(d, r, J, W) ==
    /\ \A job \in J \cup {w.job : w \in W} :
         job.first \in 1 .. r.sent - 1 /\ job.fn = IF r.batch THEN None ELSE d
    /\ \A w \in W : w.job \notin J
    /\ \A v, w \in W : v.job = w.job => v = w

\* A chunk is given out to one participant, and it has been run when that is done with it.
Given(r, b, c) ==
    \/ c \in 0 .. r.sent - 1
    \/ r.batch /\ c \in r.parts .. b.next - 1 /\ c < b.chunks

Held(r, J, W, c) ==
    r.chunk = c \/ (\E job \in J : job.first = c) \/ (\E w \in W : w.chunk = c)

Claims(r, b, J, W) ==
    /\ r.chunk # End => Given(r, b, r.chunk)
    /\ \A w \in W : w.chunk # End => Given(r, b, w.chunk) /\ w.chunk # r.chunk
    /\ \A job \in J : job.first # r.chunk
    /\ \A job \in J, w \in W : job.first # w.chunk
    /\ \A v, w \in W : v.chunk = w.chunk /\ v.chunk # End => v = w
    /\ \A i, j \in J : i.first = j.first => i = j

RunOnce(r, b, J, W, runs) ==
    \A c \in Chunk : runs[c] = IF Given(r, b, c) /\ ~Held(r, J, W, c) THEN 1 ELSE 0

Sharing(d, r, b, J, W, runs) ==
    /\ Counted(r, b, J, W) /\ Batch(d, r, b) /\ Queued(d, r, J, W)
    /\ Claims(r, b, J, W) /\ RunOnce(r, b, J, W, runs)

JobsOf(p, o)   == {job \in pool[p].jobs : job.object = o}
BusyWith(p, o) == {w \in busy[p] : w.job.object = o}
Jobs(d) == JobsOf(disp[d].pool, disp[d].object)
With(d) == BusyWith(disp[d].pool, disp[d].object)

PerCall(d) ==
    /\ disp[d].pc \in {"acquire", "prepare"} => ran[d] = Zero
    /\ disp[d].pc \in {"send", "run", "put"} =>
         Sharing(d, disp[d], object[disp[d].object], Jobs(d), With(d), ran[d])
    /\ At(d, "put") => object[disp[d].object].wg = 0
    /\ At(d, "release") => \A c \in Chunk : ran[d][c] = IF c < Chunks(d) THEN 1 ELSE 0

Calls == \A d \in Dispatchers : PerCall(d)

IInv == Types /\ Owners /\ JobsSent /\ Leases /\ Bounds /\ Calls

-----------------------------------------------------------------------------
(* Bounds.                                                                  *)

\* MaxThreads is the largest pool size; there is at least one chunk.
LEMMA EndNat ==
    /\ MaxThreads \in PoolSizes /\ \A k \in PoolSizes : k <= MaxThreads
    /\ MaxThreads \in Nat \ {0} /\ End \in Nat \ {0} /\ Over \in Nat \ {0}
<1>1. MaxThreads \in PoolSizes /\ \A k \in PoolSizes : k <= MaxThreads
  BY SizesAssumption DEF MaxThreads
<1>2. MaxThreads \in Nat \ {0} /\ Over \in Nat \ {0}
  BY <1>1, SizesAssumption
<1>3. \A a, b \in Nat \ {0} : a * b \in Nat \ {0}
  OBVIOUS
<1> QED BY <1>1, <1>2, <1>3 DEF End

\* A call has at least one chunk per participant, and End is none of them.
LEMMA ChunksBound ==
    ASSUME NEW r \in Locals, AtItsLine(r), r.pc # "idle"
    PROVE  /\ r.parts \in 2 .. MaxThreads /\ r.parts \in 2 .. End
           /\ r.parts * Over \in r.parts .. End
<1>1. r.threads \in PoolSizes /\ r.parts \in 2 .. r.threads
  BY DEF AtItsLine
<1>2. r.threads \in Nat /\ r.threads <= MaxThreads
  BY <1>1, EndNat, SizesAssumption
<1>3. r.parts \in Nat /\ 2 <= r.parts /\ r.parts <= MaxThreads
  BY <1>1, <1>2, EndNat
<1>4. \A a, b \in Nat, c \in Nat \ {0} : a <= b => a <= a * c /\ a * c <= b * c /\ a * c \in Nat /\ b * c \in Nat
  OBVIOUS
<1>5. r.parts <= r.parts * Over /\ r.parts * Over <= MaxThreads * Over /\ r.parts * Over \in Nat
  BY <1>3, <1>4, EndNat
<1> QED BY <1>3, <1>5, EndNat DEF End

-----------------------------------------------------------------------------
(* What the steps of a call do to its clauses, stated of the values alone.  *)

\* An object set up for a call whose other participants are still to be sent a job.
LEMMA SharingBegins ==
    ASSUME NEW d \in Dispatchers, NEW r \in Locals, NEW b \in Object, AtItsLine(r), r.pc = "send",
           r.sent = 1, r.chunk = 0, b.wg = r.parts - 1,
           r.batch => b.fn = d /\ b.chunks = r.parts * Over /\ b.next = r.parts
    PROVE  Sharing(d, r, b, {}, {}, Zero)
<1>1. r.parts \in Nat \ {0} /\ r.batch \in BOOLEAN
  BY ChunksBound DEF Locals
<1>2. Counted(r, b, {}, {})
  BY <1>1, FS_EmptySet DEF Counted
<1>3. Batch(d, r, b) /\ Queued(d, r, {}, {}) /\ Claims(r, b, {}, {})
  BY <1>1, EndNat DEF Batch, Queued, Claims, Given
<1>4. RunOnce(r, b, {}, {}, Zero)
  BY <1>1, EndNat DEF RunOnce, Given, Held, Zero, Chunk
<1> QED BY <1>2, <1>3, <1>4 DEF Sharing

\* A job is sent for the next participant.
LEMMA SharingSend ==
    ASSUME NEW d \in Dispatchers, NEW r \in Locals, NEW b \in Object, NEW J \in SUBSET Job, NEW W \in SUBSET Worker,
           NEW runs \in [Chunk -> Nat], AtItsLine(r), r.pc = "send", r.sent < r.parts,
           Sharing(d, r, b, J, W, runs), NEW job \in Job, job.first = r.sent,
           job.fn = IF r.batch THEN None ELSE d
    PROVE  Sharing(d, [r EXCEPT !.sent = @ + 1], b, J \cup {job}, W, runs)
<1> DEFINE s == [r EXCEPT !.sent = @ + 1]
<1>0. /\ r.parts \in 2 .. End /\ r.batch \in BOOLEAN /\ r.sent \in Nat /\ r.sent >= 1 /\ r.chunk = 0
      /\ b.wg \in Nat /\ b.next \in Nat /\ b.chunks \in Nat
  BY ChunksBound DEF Locals, AtItsLine, Object
<1>1. s.sent = r.sent + 1 /\ s.parts = r.parts /\ s.batch = r.batch /\ s.chunk = 0
  BY <1>0 DEF Locals
<1>2. \A i \in J \cup {w.job : w \in W} : i.first \in 1 .. r.sent - 1
  BY DEF Sharing, Queued
<1>3. job \notin J /\ \A w \in W : w.job # job
  BY <1>0, <1>2
<1>4. Counted(s, b, J \cup {job}, W)
  <2>1. IsFiniteSet(J) /\ IsFiniteSet(W) /\ b.wg = Cardinality(J) + Cardinality(W) + r.parts - r.sent
        /\ b.wg <= r.parts - 1
    BY DEF Sharing, Counted
  <2>2. IsFiniteSet(J \cup {job}) /\ Cardinality(J \cup {job}) = Cardinality(J) + 1
    BY <1>3, <2>1, FS_AddElement
  <2>3. Cardinality(J) \in Nat /\ Cardinality(W) \in Nat
    BY <2>1, FS_CardinalityType
  <2> QED BY <1>0, <1>1, <2>1, <2>2, <2>3 DEF Counted
<1>5. Batch(d, s, b)
  BY <1>0, <1>1 DEF Sharing, Batch
<1>6. Queued(d, s, J \cup {job}, W)
  BY <1>0, <1>1, <1>2, <1>3 DEF Sharing, Queued
<1>7. r.batch => b.next >= r.parts
  BY DEF Sharing, Batch
<1>8. \A c \in Nat : Given(s, b, c) <=> Given(r, b, c) \/ c = r.sent
  BY <1>0, <1>1 DEF Given
<1>9. ~Given(r, b, r.sent) /\ r.sent < End
  BY <1>0, <1>7, EndNat DEF Given
<1>10. Claims(s, b, J \cup {job}, W)
  <2>1. \A w \in W : w.chunk \in Nat /\ (w.chunk # End => Given(r, b, w.chunk))
    BY EndNat DEF Sharing, Claims, Worker
  <2> QED BY <1>0, <1>1, <1>2, <1>8, <1>9, <2>1 DEF Sharing, Claims
<1>11. RunOnce(s, b, J \cup {job}, W, runs)
  <2>1. \A c \in Chunk : Held(s, J \cup {job}, W, c) <=> Held(r, J, W, c) \/ c = r.sent
    BY <1>0, <1>1 DEF Held
  <2>2. Chunk \subseteq Nat
    BY EndNat DEF Chunk
  <2> QED BY <1>8, <1>9, <2>1, <2>2 DEF Sharing, RunOnce
<1> QED BY <1>4, <1>5, <1>6, <1>10, <1>11 DEF Sharing

\* A worker receives a queued job.
LEMMA SharingTake ==
    ASSUME NEW d \in Dispatchers, NEW r \in Locals, NEW b \in Object, NEW J \in SUBSET Job, NEW W \in SUBSET Worker,
           NEW runs \in [Chunk -> Nat], Sharing(d, r, b, J, W, runs), r.sent <= End, NEW job \in J
    PROVE  Sharing(d, r, b, J \ {job}, W \cup {[job |-> job, chunk |-> job.first]}, runs)
<1> DEFINE w == [job |-> job, chunk |-> job.first]
           U == W \cup {w}
<1>0. w.job = job /\ w.chunk = job.first /\ w \notin W
  BY DEF Sharing, Queued
<1>1. /\ job.first \in 1 .. r.sent - 1 /\ r.sent \in Nat /\ job.first # End
      /\ b.wg \in Nat /\ r.parts \in Nat
  BY EndNat DEF Sharing, Queued, Locals, Object
<1>a. \A u \in U : u = w \/ u \in W
  OBVIOUS
<1> HIDE DEF w
<1>2. Counted(r, b, J \ {job}, U)
  <2>1. IsFiniteSet(J) /\ IsFiniteSet(W) /\ b.wg = Cardinality(J) + Cardinality(W) + r.parts - r.sent
        /\ b.wg <= r.parts - 1
    BY DEF Sharing, Counted
  <2>2. IsFiniteSet(J \ {job}) /\ Cardinality(J \ {job}) = Cardinality(J) - 1
    BY <2>1, FS_RemoveElement
  <2>3. IsFiniteSet(U) /\ Cardinality(U) = Cardinality(W) + 1
    BY <1>0, <2>1, FS_AddElement
  <2>4. Cardinality(J) \in Nat /\ Cardinality(W) \in Nat
    BY <2>1, FS_CardinalityType
  <2> QED BY <1>1, <2>1, <2>2, <2>3, <2>4 DEF Counted
<1>3. Batch(d, r, b)
  BY DEF Sharing
<1>4. Queued(d, r, J \ {job}, U)
  BY <1>0 DEF Sharing, Queued
<1>5. Given(r, b, job.first)
  BY <1>1 DEF Given
<1>6. Claims(r, b, J \ {job}, U)
  BY <1>0, <1>1, <1>5, <1>a DEF Sharing, Claims
<1>7. RunOnce(r, b, J \ {job}, U, runs)
  <2>1. \A c \in Chunk : Held(r, J \ {job}, U, c) <=> Held(r, J, W, c)
    BY <1>0 DEF Sharing, Claims, Held
  <2> QED BY <2>1 DEF Sharing, RunOnce
<1> QED BY <1>2, <1>3, <1>4, <1>6, <1>7 DEF Sharing, w

\* A worker that is done with its job counts the WaitGroup down.
LEMMA SharingDone ==
    ASSUME NEW d \in Dispatchers, NEW r \in Locals, NEW b \in Object, NEW J \in SUBSET Job, NEW W \in SUBSET Worker,
           NEW runs \in [Chunk -> Nat], Sharing(d, r, b, J, W, runs), r.sent <= r.parts, NEW w \in W, w.chunk = End
    PROVE  /\ b.wg - 1 \in Nat
           /\ Sharing(d, r, [b EXCEPT !.wg = @ - 1], J, W \ {w}, runs)
<1> DEFINE e == [b EXCEPT !.wg = @ - 1]
<1>0. r.sent \in Nat /\ r.parts \in Nat /\ b.wg \in Nat
  BY DEF Locals, Object
<1>1. e.wg = b.wg - 1 /\ e.next = b.next /\ e.chunks = b.chunks /\ e.fn = b.fn
  BY DEF Object
<1>2. b.wg - 1 \in Nat /\ Counted(r, e, J, W \ {w})
  <2>1. IsFiniteSet(J) /\ IsFiniteSet(W) /\ b.wg = Cardinality(J) + Cardinality(W) + r.parts - r.sent
        /\ b.wg <= r.parts - 1
    BY DEF Sharing, Counted
  <2>2. IsFiniteSet(W \ {w}) /\ Cardinality(W \ {w}) = Cardinality(W) - 1
    BY <2>1, FS_RemoveElement
  <2>3. Cardinality(J) \in Nat /\ Cardinality(W \ {w}) \in Nat /\ Cardinality(W) \in Nat
    BY <2>1, <2>2, FS_CardinalityType
  <2> QED BY <1>0, <1>1, <2>1, <2>2, <2>3 DEF Counted
<1>3. Batch(d, r, e)
  BY <1>1 DEF Sharing, Batch
<1>4. Queued(d, r, J, W \ {w})
  BY DEF Sharing, Queued
<1>5. \A c : Given(r, e, c) <=> Given(r, b, c)
  BY <1>1 DEF Given
<1>6. Claims(r, e, J, W \ {w})
  BY <1>5 DEF Sharing, Claims
<1>7. RunOnce(r, e, J, W \ {w}, runs)
  <2>1. \A c \in Chunk : Held(r, J, W \ {w}, c) <=> Held(r, J, W, c)
    BY EndNat DEF Held, Chunk
  <2> QED BY <1>5, <2>1 DEF Sharing, RunOnce
<1> QED BY <1>2, <1>3, <1>4, <1>6, <1>7 DEF Sharing

\* The next chunk of a batch, or none, and the counter that moves on.
NextOf(b)    == IF b.next < b.chunks THEN b.next ELSE End
Advanced(b)  == [b EXCEPT !.next = @ + 1]
\* What a participant in a call goes on with, and with which object.
After(r, b)  == IF r.batch THEN NextOf(b) ELSE End
Moved(r, b)  == IF r.batch THEN Advanced(b) ELSE b

\* A participant goes on with a chunk that nobody had, and that is then given out (rowBatch.runRows).
LEMMA MovedOn ==
    ASSUME NEW d \in Dispatchers, NEW r \in Locals, NEW b \in Object, AtItsLine(r), r.pc # "idle", r.sent <= r.parts,
           Batch(d, r, b)
    PROVE  /\ After(r, b) \in 0 .. End /\ Moved(r, b) \in Object
           /\ Moved(r, b).wg = b.wg /\ Moved(r, b).fn = b.fn /\ Moved(r, b).chunks = b.chunks
           /\ r.batch => Moved(r, b).next = b.next + 1
           /\ ~Given(r, b, After(r, b))
           /\ \A c \in Chunk : Given(r, Moved(r, b), c) <=> Given(r, b, c) \/ c = After(r, b)
           /\ r.batch /\ After(r, b) = End => b.next >= b.chunks
<1>1. r.parts \in 2 .. End /\ r.parts * Over \in Nat /\ r.parts * Over <= End /\ r.batch \in BOOLEAN /\ r.sent \in Nat
  BY ChunksBound, EndNat DEF Locals
<1>2. b.next \in Nat /\ b.chunks \in Nat /\ b.wg \in Nat
  BY DEF Object
<1>3. CASE r.batch
  <2>1. b.chunks <= End /\ b.next >= r.parts
    BY <1>1, <1>3 DEF Batch
  <2>2. Moved(r, b) = [b EXCEPT !.next = @ + 1] /\ After(r, b) = IF b.next < b.chunks THEN b.next ELSE End
    BY <1>3 DEF Moved, Advanced, After, NextOf
  <2>3. /\ Moved(r, b) \in Object /\ Moved(r, b).next = b.next + 1
        /\ Moved(r, b).wg = b.wg /\ Moved(r, b).fn = b.fn /\ Moved(r, b).chunks = b.chunks
    BY <1>2, <2>2 DEF Object
  <2>4. After(r, b) \in 0 .. End /\ ~Given(r, b, After(r, b)) /\ (After(r, b) = End => b.next >= b.chunks)
    BY <1>1, <1>2, <1>3, <2>1, <2>2, EndNat DEF Given
  <2>5. \A c \in Chunk : Given(r, Moved(r, b), c) <=> Given(r, b, c) \/ c = After(r, b)
    BY <1>1, <1>2, <1>3, <2>1, <2>2, <2>3, EndNat DEF Given, Chunk
  <2> QED BY <2>3, <2>4, <2>5
<1>4. CASE ~r.batch
  <2>1. Moved(r, b) = b /\ After(r, b) = End
    BY <1>4 DEF Moved, After
  <2> QED BY <1>1, <1>4, <2>1, EndNat DEF Given, Chunk
<1> QED BY <1>3, <1>4, <1>1

\* The dispatch runs its own chunk and goes on.
LEMMA SharingRunOwn ==
    ASSUME NEW d \in Dispatchers, NEW r \in Locals, NEW b \in Object, NEW J \in SUBSET Job, NEW W \in SUBSET Worker,
           NEW runs \in [Chunk -> Nat], AtItsLine(r), r.pc # "idle", r.sent <= r.parts,
           Sharing(d, r, b, J, W, runs), r.chunk # End
    PROVE  /\ runs[r.chunk] = 0 /\ Given(r, b, r.chunk)
           /\ Sharing(d, [r EXCEPT !.chunk = After(r, b)], Moved(r, b), J, W, [runs EXCEPT ![r.chunk] = @ + 1])
<1> DEFINE s == [r EXCEPT !.chunk = After(r, b)]
           m == Moved(r, b)
           runs2 == [runs EXCEPT ![r.chunk] = @ + 1]
<1>0. Batch(d, r, b) /\ r.chunk \in Chunk /\ r.chunk \in 0 .. End /\ After(r, b) \in 0 .. End
  BY MovedOn, EndNat DEF Sharing, Locals, Chunk
<1>1. s.chunk = After(r, b) /\ s.batch = r.batch /\ s.sent = r.sent /\ s.parts = r.parts
  BY DEF Locals
<1>2. /\ m.wg = b.wg /\ m.fn = b.fn /\ m.chunks = b.chunks /\ (r.batch => m.next = b.next + 1)
      /\ ~Given(r, b, After(r, b))
      /\ \A c \in Chunk : Given(r, m, c) <=> Given(r, b, c) \/ c = After(r, b)
      /\ r.batch /\ After(r, b) = End => b.next >= b.chunks
  BY <1>0, MovedOn
<1>3. \A c : Given(s, m, c) <=> Given(r, m, c)
  BY <1>1 DEF Given
<1>a. b.next \in Nat /\ b.chunks \in Nat /\ r.parts \in Nat
  BY DEF Object, Locals
<1>b. \A c \in 0 .. End : c # End => c \in Chunk
  BY EndNat DEF Chunk
<1> HIDE DEF s, m
<1>4. Counted(s, m, J, W) /\ Queued(d, s, J, W)
  BY <1>1, <1>2 DEF Sharing, Counted, Queued
<1>5. Batch(d, s, m)
  BY <1>1, <1>2, <1>a DEF Sharing, Batch
<1>6. Given(r, b, r.chunk) /\ runs[r.chunk] = 0
  BY <1>0 DEF Sharing, Claims, RunOnce, Held
<1>7. \A w \in W : w.chunk \in 0 .. End /\ (w.chunk # End => Given(r, b, w.chunk) /\ w.chunk # r.chunk)
  BY DEF Sharing, Claims, Worker
<1>8. \A job \in J : Given(r, b, job.first) /\ job.first \in Nat /\ job.first # r.chunk
  <2>1. \A job \in J : job.first \in 1 .. r.sent - 1 /\ r.sent \in Nat
    BY DEF Sharing, Queued, Locals
  <2> QED BY <2>1 DEF Sharing, Claims, Given
<1>9. Claims(s, m, J, W)
  <2>1. s.chunk # End => Given(s, m, s.chunk)
    BY <1>0, <1>1, <1>2, <1>3, <1>b
  <2>2. \A w \in W : w.chunk # End => Given(s, m, w.chunk) /\ w.chunk # s.chunk
    BY <1>1, <1>2, <1>3, <1>7, <1>b
  <2>3. \A job \in J : job.first # s.chunk
    BY <1>1, <1>2, <1>8
  <2> QED BY <2>1, <2>2, <2>3 DEF Sharing, Claims
<1>10. RunOnce(s, m, J, W, runs2)
  <2>1. ASSUME NEW c \in Chunk PROVE runs2[c] = IF Given(s, m, c) /\ ~Held(s, J, W, c) THEN 1 ELSE 0
    <3>1. runs[c] = IF Given(r, b, c) /\ ~Held(r, J, W, c) THEN 1 ELSE 0
      BY DEF Sharing, RunOnce
    <3>2. runs2[c] = IF c = r.chunk THEN 1 ELSE runs[c]
      BY <1>6
    <3>3. Given(s, m, c) <=> Given(r, b, c) \/ c = After(r, b)
      BY <1>2, <1>3
    <3>4. CASE c = r.chunk
      <4>1. Given(s, m, c) /\ c # s.chunk
        BY <1>1, <1>2, <1>6, <3>3, <3>4
      <4>2. ~Held(s, J, W, c)
        BY <1>7, <1>8, <3>4, <4>1, EndNat DEF Held, Chunk
      <4> QED BY <3>2, <3>4, <4>1, <4>2
    <3>5. CASE c # r.chunk
      <4>1. Held(s, J, W, c) <=> Held(r, J, W, c) \/ c = After(r, b)
        BY <1>1, <3>5 DEF Held
      <4> QED BY <1>2, <3>1, <3>2, <3>3, <3>5, <4>1
    <3> QED BY <3>4, <3>5
  <2> QED BY <2>1 DEF RunOnce
<1> QED BY <1>4, <1>5, <1>6, <1>9, <1>10 DEF Sharing, s, m

\* A worker runs its chunk and goes on.
LEMMA SharingRunJob ==
    ASSUME NEW d \in Dispatchers, NEW r \in Locals, NEW b \in Object, NEW J \in SUBSET Job, NEW W \in SUBSET Worker,
           NEW runs \in [Chunk -> Nat], AtItsLine(r), r.pc # "idle", r.sent <= r.parts,
           Sharing(d, r, b, J, W, runs), NEW w \in W, w.chunk # End
    PROVE  /\ runs[w.chunk] = 0 /\ Given(r, b, w.chunk)
           /\ Sharing(d, r, Moved(r, b), J, (W \ {w}) \cup {[w EXCEPT !.chunk = After(r, b)]},
                      [runs EXCEPT ![w.chunk] = @ + 1])
<1> DEFINE x == [w EXCEPT !.chunk = After(r, b)]
           U == (W \ {w}) \cup {x}
           m == Moved(r, b)
           runs2 == [runs EXCEPT ![w.chunk] = @ + 1]
<1>0. Batch(d, r, b) /\ w.chunk \in Chunk /\ w.chunk \in 0 .. End /\ After(r, b) \in 0 .. End
  BY MovedOn, EndNat DEF Sharing, Worker, Chunk
<1>1. x.chunk = After(r, b) /\ x.job = w.job
  BY DEF Worker
<1>2. /\ m.wg = b.wg /\ m.fn = b.fn /\ m.chunks = b.chunks /\ (r.batch => m.next = b.next + 1)
      /\ ~Given(r, b, After(r, b))
      /\ \A c \in Chunk : Given(r, m, c) <=> Given(r, b, c) \/ c = After(r, b)
      /\ r.batch /\ After(r, b) = End => b.next >= b.chunks
  BY <1>0, MovedOn
<1>3. x \notin W \ {w}
  BY <1>1 DEF Sharing, Queued
<1>a. b.next \in Nat /\ b.chunks \in Nat /\ r.parts \in Nat
  BY DEF Object, Locals
<1>b. \A c \in 0 .. End : c # End => c \in Chunk
  BY EndNat DEF Chunk
<1>c. \A u \in U : u = x \/ (u \in W /\ u # w)
  OBVIOUS
<1>d. r.chunk \in 0 .. End
  BY DEF Locals
<1> HIDE DEF x, m
<1>4. Counted(r, m, J, U)
  <2>1. IsFiniteSet(J) /\ IsFiniteSet(W) /\ b.wg = Cardinality(J) + Cardinality(W) + r.parts - r.sent
        /\ b.wg <= r.parts - 1
    BY DEF Sharing, Counted
  <2>2. IsFiniteSet(W \ {w}) /\ Cardinality(W \ {w}) = Cardinality(W) - 1
    BY <2>1, FS_RemoveElement
  <2>3. IsFiniteSet(U) /\ Cardinality(U) = Cardinality(W \ {w}) + 1
    BY <1>3, <2>2, FS_AddElement
  <2>4. Cardinality(W) \in Nat
    BY <2>1, FS_CardinalityType
  <2> QED BY <1>2, <2>1, <2>2, <2>3, <2>4 DEF Counted
<1>5. Batch(d, r, m)
  BY <1>2, <1>a DEF Sharing, Batch
<1>6. Queued(d, r, J, U)
  BY <1>1, <1>c DEF Sharing, Queued
<1>7. Given(r, b, w.chunk) /\ runs[w.chunk] = 0
  BY <1>0 DEF Sharing, Claims, RunOnce, Held
<1>8. \A u \in W : u.chunk \in 0 .. End /\ (u.chunk # End => Given(r, b, u.chunk) /\ u.chunk # r.chunk)
  BY DEF Sharing, Claims, Worker
<1>9. \A job \in J : Given(r, b, job.first) /\ job.first \in Nat /\ job.first # r.chunk
  <2>1. \A job \in J : job.first \in 1 .. r.sent - 1 /\ r.sent \in Nat
    BY DEF Sharing, Queued, Locals
  <2> QED BY <2>1 DEF Sharing, Claims, Given
<1>10. r.chunk # End => Given(r, b, r.chunk)
  BY DEF Sharing, Claims
<1>11. Claims(r, m, J, U)
  <2>1. r.chunk # End => Given(r, m, r.chunk)
    BY <1>2, <1>10, <1>b, <1>d
  <2>2. \A u \in U : u.chunk # End => Given(r, m, u.chunk) /\ u.chunk # r.chunk
    BY <1>0, <1>1, <1>2, <1>8, <1>10, <1>b, <1>c
  <2>3. \A job \in J, u \in U : job.first # u.chunk
    BY <1>1, <1>2, <1>9, <1>c DEF Sharing, Claims
  <2>4. \A u, v \in U : u.chunk = v.chunk /\ u.chunk # End => u = v
    BY <1>1, <1>2, <1>8, <1>c DEF Sharing, Claims
  <2> QED BY <2>1, <2>2, <2>3, <2>4 DEF Sharing, Claims
<1>12. RunOnce(r, m, J, U, runs2)
  <2>1. ASSUME NEW c \in Chunk PROVE runs2[c] = IF Given(r, m, c) /\ ~Held(r, J, U, c) THEN 1 ELSE 0
    <3>1. runs[c] = IF Given(r, b, c) /\ ~Held(r, J, W, c) THEN 1 ELSE 0
      BY DEF Sharing, RunOnce
    <3>2. runs2[c] = IF c = w.chunk THEN 1 ELSE runs[c]
      BY <1>7
    <3>3. Given(r, m, c) <=> Given(r, b, c) \/ c = After(r, b)
      BY <1>2
    <3>4. CASE c = w.chunk
      <4>1. Given(r, m, c) /\ c # x.chunk
        BY <1>1, <1>2, <1>7, <3>3, <3>4
      <4>2. c # r.chunk /\ (\A job \in J : job.first # c) /\ \A u \in W \ {w} : u.chunk # c
        BY <3>4, EndNat DEF Sharing, Claims, Chunk
      <4>3. ~Held(r, J, U, c)
        BY <1>c, <4>1, <4>2 DEF Held
      <4> QED BY <3>2, <3>4, <4>1, <4>3
    <3>5. CASE c # w.chunk
      <4>1. Held(r, J, U, c) <=> Held(r, J, W, c) \/ c = After(r, b)
        BY <1>1, <3>5 DEF Held
      <4> QED BY <1>2, <3>1, <3>2, <3>3, <3>5, <4>1
    <3> QED BY <3>4, <3>5
  <2> QED BY <2>1 DEF RunOnce
<1> QED BY <1>4, <1>5, <1>6, <1>7, <1>11, <1>12 DEF Sharing, x, m

\* When the WaitGroup is at zero and the dispatch has no chunk left, every chunk has been run once.
LEMMA SharingEnds ==
    ASSUME NEW d \in Dispatchers, NEW r \in Locals, NEW b \in Object, NEW J \in SUBSET Job, NEW W \in SUBSET Worker,
           NEW runs \in [Chunk -> Nat], AtItsLine(r), r.pc # "idle", r.sent = r.parts, r.chunk = End,
           Sharing(d, r, b, J, W, runs), b.wg = 0
    PROVE  /\ J = {} /\ W = {}
           /\ \A c \in Chunk : runs[c] = IF c < (IF r.batch THEN r.parts * Over ELSE r.parts) THEN 1 ELSE 0
<1>1. J = {} /\ W = {}
  <2>1. IsFiniteSet(J) /\ IsFiniteSet(W) /\ b.wg = Cardinality(J) + Cardinality(W) + r.parts - r.sent
    BY DEF Sharing, Counted
  <2>2. Cardinality(J) \in Nat /\ Cardinality(W) \in Nat /\ r.parts \in Nat
    BY <2>1, FS_CardinalityType DEF Locals
  <2>3. Cardinality(J) = 0 /\ Cardinality(W) = 0
    BY <2>1, <2>2
  <2> QED BY <2>1, <2>3, FS_EmptySet
<1>2. r.parts \in 2 .. End /\ r.parts * Over \in r.parts .. End /\ r.batch \in BOOLEAN /\ b.next \in Nat
  BY ChunksBound DEF Locals, Object
<1>3. \A c \in Chunk : c \in Nat /\ c < End /\ ~Held(r, J, W, c)
  BY <1>1, EndNat DEF Held, Chunk
<1>4. r.batch => b.chunks = r.parts * Over /\ b.next >= b.chunks
  BY DEF Sharing, Batch
<1>5. \A c \in Chunk : Given(r, b, c) <=> c < (IF r.batch THEN r.parts * Over ELSE r.parts)
  BY <1>2, <1>3, <1>4 DEF Given
<1> QED BY <1>1, <1>3, <1>5 DEF Sharing, RunOnce

-----------------------------------------------------------------------------
(* Frames: a step of one call leaves the clauses of the others alone.       *)

\* One dispatch's local variables change, the others' do not.
LEMMA DispStep ==
    ASSUME Types, NEW d \in Dispatchers, NEW r \in Locals, AtItsLine(r), disp' = [disp EXCEPT ![d] = r]
    PROVE  /\ disp' \in [Dispatchers -> Locals] /\ \A e \in Dispatchers : AtItsLine(disp'[e])
           /\ disp'[d] = r /\ \A e \in Dispatchers : e # d => disp'[e] = disp[e]
BY DEF Types

\* A call keeps its clauses when its object, jobs, workers and counts are as before.
LEMMA CallUntouched ==
    ASSUME NEW d \in Dispatchers, PerCall(d), AtItsLine(disp[d]), disp'[d] = disp[d], ran'[d] = ran[d],
           disp[d].object # None =>
             object'[disp[d].object] = object[disp[d].object] /\ Jobs(d)' = Jobs(d) /\ With(d)' = With(d)
    PROVE  PerCall(d)'
BY DEF PerCall, At, Chunks, AtItsLine

\* The jobs and the workers of a call are in the pool it leases, and only those refer to its object.
LEMMA RefersToCall ==
    ASSUME Types, Owners, JobsSent, NEW p \in Pools
    PROVE  /\ \A job \in pool[p].jobs : job.object \in Objects /\ \E d \in Dispatchers :
                SentBy(d, p, job) /\ disp[d].object # None /\ job \in Jobs(d)
           /\ \A w \in busy[p] : w.job.object \in Objects /\ \E d \in Dispatchers :
                SentBy(d, p, w.job) /\ disp[d].object # None /\ w \in With(d)
<1>1. \A job \in pool[p].jobs : job.object \in Objects
  BY DEF Types, Pool, Job
<1>2. \A w \in busy[p] : w.job.object \in Objects
  BY DEF Types, Worker, Job
<1> QED BY <1>1, <1>2, SizesAssumption DEF JobsSent, SentBy, Jobs, With, JobsOf, BusyWith

\* What a dispatch has at each of its lines, with its types.
LEMMA CallTypes ==
    ASSUME Types, NEW d \in Dispatchers
    PROVE  /\ disp[d] \in Locals /\ AtItsLine(disp[d]) /\ ran[d] \in [Chunk -> Nat]
           /\ disp[d].pc \in {"prepare", "send", "run", "put", "release"} => disp[d].pool \in Pools
           /\ disp[d].pc \in {"send", "run", "put"} =>
                /\ disp[d].object \in Objects /\ object[disp[d].object] \in Object
                /\ Jobs(d) \in SUBSET Job /\ With(d) \in SUBSET Worker
                /\ Jobs(d) \subseteq pool[disp[d].pool].jobs /\ With(d) \subseteq busy[disp[d].pool]
                /\ disp[d].sent \in Nat /\ disp[d].parts \in Nat /\ disp[d].sent <= disp[d].parts
                /\ disp[d].parts <= End
<1>1. disp[d] \in Locals /\ AtItsLine(disp[d]) /\ ran[d] \in [Chunk -> Nat]
  BY DEF Types
<1>2. ASSUME disp[d].pc \in {"prepare", "send", "run", "put", "release"} PROVE disp[d].pool \in Pools
  BY <1>1, <1>2 DEF Locals, AtItsLine
<1>3. ASSUME disp[d].pc \in {"send", "run", "put"}
      PROVE  /\ disp[d].object \in Objects /\ object[disp[d].object] \in Object
             /\ Jobs(d) \in SUBSET Job /\ With(d) \in SUBSET Worker
             /\ Jobs(d) \subseteq pool[disp[d].pool].jobs /\ With(d) \subseteq busy[disp[d].pool]
  <2>1. disp[d].object \in Objects
    BY <1>1, <1>3 DEF Locals, AtItsLine
  <2>2. pool[disp[d].pool].jobs \in SUBSET Job /\ busy[disp[d].pool] \in SUBSET Worker
    BY <1>2, <1>3 DEF Types, Pool
  <2> QED BY <2>1, <2>2 DEF Types, Jobs, With, JobsOf, BusyWith
<1>4. ASSUME disp[d].pc \in {"send", "run", "put"}
      PROVE  disp[d].sent \in Nat /\ disp[d].parts \in Nat /\ disp[d].sent <= disp[d].parts /\ disp[d].parts <= End
  <2>1. disp[d].parts \in 2 .. End
    BY <1>1, <1>4, ChunksBound
  <2> QED BY <1>1, <1>4, <2>1, EndNat DEF AtItsLine, Locals
<1> QED BY <1>1, <1>2, <1>3, <1>4

\* A step that changes no pool keeps the clauses about pools if no lease or reference changes.
LEMMA LeasesKept ==
    ASSUME Leases, Bounds, rowPool' = rowPool, pool' = pool, idle' = idle, busy' = busy,
           \A e \in Dispatchers : disp'[e].pool = disp[e].pool
    PROVE  Leases' /\ Bounds'
<1>1. \A p : Lessees(p)' = Lessees(p)
  BY DEF Lessees
<1>2. Leases'
  BY <1>1 DEF Leases
<1>3. Bounds'
  BY DEF Bounds
<1> QED BY <1>2, <1>3

\* Jobs keep their call when no pool changes and only calls without jobs drop their object.
LEMMA JobsSentKept ==
    ASSUME JobsSent, pool' = pool, busy' = busy,
           \A e \in Dispatchers, p \in Pools : disp[e].pool = p /\ disp[e].object # None =>
              /\ disp'[e].pool = disp[e].pool
              /\ disp'[e].object = disp[e].object \/ (Jobs(e) = {} /\ With(e) = {}),
           Types
    PROVE  JobsSent'
<1> SUFFICES ASSUME NEW p \in Pools
             PROVE  /\ \A job \in pool[p].jobs : \E d \in Dispatchers : SentBy(d, p, job)'
                    /\ \A w \in busy[p] : \E d \in Dispatchers : SentBy(d, p, w.job)'
                    /\ IsFiniteSet(pool[p].jobs) /\ IsFiniteSet(busy[p])
  BY DEF JobsSent, SentBy
<1>0. (\A job \in pool[p].jobs : job.object # None) /\ \A w \in busy[p] : w.job.object # None
  BY SizesAssumption DEF Types, Pool, Worker, Job
<1>1. ASSUME NEW job \in pool[p].jobs PROVE \E d \in Dispatchers : SentBy(d, p, job)'
  <2>1. PICK d \in Dispatchers : SentBy(d, p, job)
    BY DEF JobsSent
  <2>2. job \in Jobs(d) /\ disp[d].pool = p /\ disp[d].object # None
    BY <1>0, <2>1 DEF SentBy, Jobs, JobsOf
  <2> QED BY <2>1, <2>2 DEF SentBy
<1>2. ASSUME NEW w \in busy[p] PROVE \E d \in Dispatchers : SentBy(d, p, w.job)'
  <2>1. PICK d \in Dispatchers : SentBy(d, p, w.job)
    BY DEF JobsSent
  <2>2. w \in With(d) /\ disp[d].pool = p /\ disp[d].object # None
    BY <1>0, <2>1 DEF SentBy, With, BusyWith
  <2> QED BY <2>1, <2>2 DEF SentBy
<1> QED BY <1>1, <1>2 DEF JobsSent

-----------------------------------------------------------------------------
(* The steps of a dispatch.                                                 *)

\* Begin (parallelRows) keeps the invariant.
LEMMA BeginInv ==
    ASSUME IInv, NEW d \in Dispatchers, Begin(d)
    PROVE  IInv'
<1> USE DEF IInv, At
<1>1. PICK threads \in PoolSizes, units \in Units, batch \in Batching :
        LET parts == IF units < threads THEN units ELSE threads
        IN  /\ parts > 1
            /\ disp' = [disp EXCEPT ![d] = [NoCall EXCEPT !.pc = "acquire", !.threads = threads,
                                                          !.parts = parts, !.batch = batch]]
  BY DEF Begin
<1> DEFINE parts == IF units < threads THEN units ELSE threads
           r == [NoCall EXCEPT !.pc = "acquire", !.threads = threads, !.parts = parts, !.batch = batch]
<1>2. threads \in Nat \ {0} /\ units \in Nat \ {0} /\ batch \in BOOLEAN /\ parts \in 2 .. threads
  BY <1>1, SizesAssumption
<1> HIDE DEF parts
<1>3. /\ r.pc = "acquire" /\ r.threads = threads /\ r.parts = parts /\ r.batch = batch
      /\ r.pool = None /\ r.object = None /\ r.sent = 0 /\ r.chunk = 0 /\ r \in Locals
  <2>1. NoCall \in Locals
    BY EndNat DEF NoCall, Locals
  <2>2. r \in Locals
    <3>1. \A n \in Locals, t \in PoolSizes, k \in Nat, b \in BOOLEAN :
            [n EXCEPT !.pc = "acquire", !.threads = t, !.parts = k, !.batch = b] \in Locals
      BY DEF Locals
    <3>2. parts \in Nat
      BY <1>2
    <3> QED BY <1>2, <2>1, <3>1, <3>2
  <2>3. NoCall.pool = None /\ NoCall.object = None /\ NoCall.sent = 0 /\ NoCall.chunk = 0
    BY DEF NoCall
  <2> QED BY <2>1, <2>2, <2>3 DEF Locals
<1>4. r \in Locals /\ AtItsLine(r)
  BY <1>2, <1>3 DEF AtItsLine
<1>5. /\ disp' \in [Dispatchers -> Locals] /\ \A e \in Dispatchers : AtItsLine(disp'[e])
      /\ disp'[d] = r /\ \A e \in Dispatchers : e # d => disp'[e] = disp[e]
  BY <1>1, <1>4, DispStep DEF parts
<1>6. disp[d] = NoCall /\ disp'[d].object = None /\ disp'[d].pool = None /\ disp'[d].pc = "acquire"
      /\ disp[d].object = None /\ disp[d].pool = None
  BY <1>3, <1>5 DEF Begin, Types, AtItsLine, NoCall
<1>7. UNCHANGED <<rowPool, pool, idle, busy, object, free>> /\ ran' = [ran EXCEPT ![d] = Zero]
  BY DEF Begin
<1> HIDE DEF r, parts
<1>8. Types'
  <2>1. Zero \in [Chunk -> Nat]
    BY DEF Zero
  <2> QED BY <1>5, <1>7, <2>1 DEF Types
<1>9. \A e \in Dispatchers : disp'[e].object = disp[e].object /\ disp'[e].pool = disp[e].pool
  BY <1>5, <1>6
<1>10. Owners'
  BY <1>7, <1>9 DEF Owners
<1>11. JobsSent' /\ Leases' /\ Bounds'
  BY <1>7, <1>9, JobsSentKept, LeasesKept
<1>12. ASSUME NEW e \in Dispatchers PROVE PerCall(e)'
  <2>1. CASE e = d
    BY <1>6, <1>7, <2>1 DEF PerCall, Types
  <2>2. CASE e # d
    <3>1. disp'[e] = disp[e] /\ ran'[e] = ran[e] /\ object' = object
      BY <1>5, <1>7, <2>2 DEF Types
    <3>2. Jobs(e)' = Jobs(e) /\ With(e)' = With(e)
      BY <1>7, <3>1 DEF Jobs, With, JobsOf, BusyWith
    <3> QED BY <3>1, <3>2, CallUntouched DEF Types, Calls
  <2> QED BY <2>1, <2>2
<1> QED BY <1>8, <1>10, <1>11, <1>12 DEF Calls

\* EndSend and Wait (dispatchRowBatch, dispatchParallelMode) keep the invariant.
LEMMA EndSendInv ==
    ASSUME IInv, NEW d \in Dispatchers, EndSend(d) \/ Wait(d)
    PROVE  IInv'
<1> USE DEF IInv, At
<1> DEFINE pc == IF EndSend(d) THEN "run" ELSE "put"
           r == [disp[d] EXCEPT !.pc = pc]
<1>1. /\ disp[d] \in Locals /\ AtItsLine(disp[d]) /\ disp[d].object \in Objects
      /\ disp[d].pc \in {"send", "run"} /\ disp[d].sent = disp[d].parts
  BY CallTypes DEF EndSend, Wait, AtItsLine
<1>2. /\ disp[d].pc = "send" => EndSend(d) /\ disp[d].chunk = 0
      /\ disp[d].pc = "run" => Wait(d) /\ disp[d].chunk = End /\ object[disp[d].object].wg = 0
  BY <1>1 DEF EndSend, Wait, AtItsLine
<1>3. /\ r.pc = pc /\ r.threads = disp[d].threads /\ r.parts = disp[d].parts /\ r.batch = disp[d].batch
      /\ r.pool = disp[d].pool /\ r.object = disp[d].object /\ r.sent = disp[d].sent /\ r.chunk = disp[d].chunk
      /\ r \in Locals
  BY <1>1 DEF Locals
<1>4. disp' = [disp EXCEPT ![d] = r]
  <2>1. CASE disp[d].pc = "send"
    <3>1. disp' = [disp EXCEPT ![d] = [disp[d] EXCEPT !.chunk = 0, !.pc = "run"]]
      BY <1>2, <2>1 DEF EndSend
    <3>2. [disp[d] EXCEPT !.chunk = 0, !.pc = "run"] = r
      BY <1>1, <1>2, <2>1 DEF Locals
    <3> QED BY <3>1, <3>2
  <2>2. CASE disp[d].pc = "run"
    BY <1>1, <1>2, <2>2 DEF EndSend, Wait
  <2> QED BY <1>1, <2>1, <2>2
<1>5. AtItsLine(r) /\ pc \in {"run", "put"} /\ (pc = "put" => Wait(d))
  BY <1>1, <1>2, <1>3 DEF AtItsLine
<1>6. /\ disp' \in [Dispatchers -> Locals] /\ \A e \in Dispatchers : AtItsLine(disp'[e])
      /\ disp'[d] = r /\ \A e \in Dispatchers : e # d => disp'[e] = disp[e]
  BY <1>3, <1>4, <1>5, DispStep
<1>7. UNCHANGED <<rowPool, pool, idle, busy, object, free, ran>>
  BY DEF EndSend, Wait
<1> HIDE DEF r, pc
<1>8. Types'
  BY <1>6, <1>7 DEF Types
<1>9. \A e \in Dispatchers : disp'[e].object = disp[e].object /\ disp'[e].pool = disp[e].pool
  BY <1>3, <1>6
<1>10. Owners'
  BY <1>7, <1>9 DEF Owners
<1>11. JobsSent' /\ Leases' /\ Bounds'
  BY <1>7, <1>9, JobsSentKept, LeasesKept
<1>12. ASSUME NEW e \in Dispatchers PROVE PerCall(e)'
  <2>0. Jobs(e)' = Jobs(e) /\ With(e)' = With(e) /\ object' = object /\ ran' = ran
    BY <1>7, <1>9 DEF Jobs, With, JobsOf, BusyWith
  <2>1. CASE e = d
    <3>1. Sharing(d, disp[d], object[disp[d].object], Jobs(d), With(d), ran[d])
      BY <1>1 DEF Calls, PerCall
    <3>2. Sharing(d, r, object[disp[d].object], Jobs(d), With(d), ran[d])
      BY <1>3, <3>1 DEF Sharing, Counted, Batch, Queued, Claims, RunOnce, Given, Held
    <3>3. disp'[d].pc \in {"run", "put"} /\ (disp'[d].pc = "put" => object[disp[d].object].wg = 0)
      BY <1>3, <1>5, <1>6 DEF Wait
    <3> QED BY <1>6, <1>9, <2>0, <2>1, <3>2, <3>3 DEF PerCall
  <2>2. CASE e # d
    BY <1>6, <2>0, <2>2, CallUntouched DEF Types, Calls
  <2> QED BY <2>1, <2>2
<1> QED BY <1>8, <1>10, <1>11, <1>12 DEF Calls

\* What the lease of a pool changes of the dispatches.
LEMMA LeasedCalls ==
    ASSUME IInv, NEW d \in Dispatchers, At(d, "acquire"), NEW p \in Pools, Leased(d, p),
           UNCHANGED <<busy, object, free, ran>>,
           \A q \in Pools : pool'[q].jobs = pool[q].jobs
    PROVE  /\ disp' \in [Dispatchers -> Locals] /\ \A e \in Dispatchers : AtItsLine(disp'[e])
           /\ disp[d].pool = None /\ disp'[d].pool = p /\ \A e \in Dispatchers : e # d => disp'[e] = disp[e]
           /\ \A q \in Pools : q # p => Lessees(q)' = Lessees(q)
           /\ Lessees(p)' = Lessees(p) \cup {d} /\ d \notin Lessees(p)
           /\ IsFiniteSet(Lessees(p))
           /\ Owners' /\ JobsSent' /\ Calls'
<1> USE DEF IInv, At
<1> DEFINE r == [disp[d] EXCEPT !.pool = p, !.pc = "prepare"]
<1>1. disp[d] \in Locals /\ AtItsLine(disp[d]) /\ disp[d].pc = "acquire" /\ disp[d].pool = None /\ disp[d].object = None
  BY CallTypes DEF AtItsLine
<1>2. /\ r.pc = "prepare" /\ r.threads = disp[d].threads /\ r.parts = disp[d].parts
      /\ r.pool = p /\ r.object = None /\ r \in Locals
  BY <1>1 DEF Locals
<1>3. AtItsLine(r)
  BY <1>1, <1>2, SizesAssumption DEF AtItsLine
<1>4. disp' = [disp EXCEPT ![d] = r]
  BY DEF Leased
<1>5. /\ disp' \in [Dispatchers -> Locals] /\ \A e \in Dispatchers : AtItsLine(disp'[e])
      /\ disp'[d] = r /\ \A e \in Dispatchers : e # d => disp'[e] = disp[e]
  BY <1>2, <1>3, <1>4, DispStep
<1> HIDE DEF r
<1>6. /\ \A q \in Pools : q # p => Lessees(q)' = Lessees(q)
      /\ Lessees(p)' = Lessees(p) \cup {d} /\ d \notin Lessees(p)
  BY <1>1, <1>2, <1>5, SizesAssumption DEF Lessees
<1>7. IsFiniteSet(Lessees(p))
  BY SizesAssumption, FS_Subset DEF Lessees
<1>8. Owners'
  BY <1>1, <1>2, <1>5 DEF Owners
<1>9. JobsSent'
  <2>1. \A e \in Dispatchers, q \in Pools, job \in Job : SentBy(e, q, job) => SentBy(e, q, job)'
    BY <1>1, <1>2, <1>5, SizesAssumption DEF SentBy, Job
  <2>2. \A q \in Pools : pool[q].jobs \subseteq Job /\ \A w \in busy[q] : w.job \in Job
    BY DEF Types, Pool, Worker
  <2> QED BY <2>1, <2>2 DEF JobsSent
<1>10. ASSUME NEW e \in Dispatchers PROVE PerCall(e)'
  <2>1. CASE e = d
    BY <1>1, <1>2, <1>5, <2>1 DEF PerCall, Calls
  <2>2. CASE e # d
    <3>1. disp'[e] = disp[e] /\ ran'[e] = ran[e] /\ object' = object
      BY <1>5, <2>2
    <3>2. ASSUME disp[e].object # None PROVE Jobs(e)' = Jobs(e) /\ With(e)' = With(e)
      <4>1. disp[e].pool \in Pools
        BY <3>2, CallTypes DEF AtItsLine
      <4> QED BY <3>1, <4>1 DEF Jobs, With, JobsOf, BusyWith
    <3> QED BY <3>1, <3>2, CallUntouched DEF Types, Calls
  <2> QED BY <2>1, <2>2
<1> QED BY <1>1, <1>2, <1>5, <1>6, <1>7, <1>8, <1>9, <1>10 DEF Calls

\* Reuse (acquireRowWorkerPool) keeps the invariant.
LEMMA ReuseInv ==
    ASSUME IInv, NEW d \in Dispatchers, Reuse(d)
    PROVE  IInv'
<1> USE DEF IInv
<1>1. At(d, "acquire") /\ rowPool \in Pools /\ pool[rowPool].threads # 0
      /\ UNCHANGED <<rowPool, idle, busy, object, free, ran>> /\ Leased(d, rowPool)
  BY DEF Reuse, Matches, Leases, Types
<1>2. /\ pool' \in [Pools -> Pool]
      /\ \A q \in Pools : /\ q # rowPool => pool'[q] = pool[q]
                          /\ pool'[q].threads = pool[q].threads /\ pool'[q].jobs = pool[q].jobs
                          /\ pool'[q].retiring = pool[q].retiring /\ pool'[q].stopped = pool[q].stopped
      /\ pool'[rowPool].active = pool[rowPool].active + 1
  <2>1. pool[rowPool] \in Pool /\ pool \in [Pools -> Pool]
    BY <1>1 DEF Types
  <2> DEFINE new == [pool[rowPool] EXCEPT !.active = @ + 1]
  <2>2. pool' = [pool EXCEPT ![rowPool] = new]
    BY DEF Reuse
  <2>3. /\ new \in Pool /\ new.threads = pool[rowPool].threads /\ new.jobs = pool[rowPool].jobs
        /\ new.retiring = pool[rowPool].retiring /\ new.stopped = pool[rowPool].stopped
        /\ new.active = pool[rowPool].active + 1
    BY <2>1 DEF Pool
  <2> HIDE DEF new
  <2> QED BY <1>1, <2>1, <2>2, <2>3
<1>3. /\ disp' \in [Dispatchers -> Locals] /\ \A e \in Dispatchers : AtItsLine(disp'[e])
      /\ \A q \in Pools : q # rowPool => Lessees(q)' = Lessees(q)
      /\ Lessees(rowPool)' = Lessees(rowPool) \cup {d} /\ d \notin Lessees(rowPool)
      /\ IsFiniteSet(Lessees(rowPool))
      /\ Owners' /\ JobsSent' /\ Calls'
  BY <1>1, <1>2, LeasedCalls
<1>4. Types'
  BY <1>1, <1>2, <1>3 DEF Types
<1>5. Cardinality(Lessees(rowPool)') = Cardinality(Lessees(rowPool)) + 1
  BY <1>3, FS_AddElement
<1>6. /\ pool[rowPool].active \in Nat /\ pool[rowPool].active = Cardinality(Lessees(rowPool))
      /\ ~pool[rowPool].retiring /\ ~pool[rowPool].stopped
  BY <1>1 DEF Leases, Types, Pool
<1>7. Leases'
  <2>1. ASSUME NEW p \in Pools, pool'[p].threads = 0
        PROVE  pool'[p] = NoPool /\ busy'[p] = {} /\ idle'[p] = 0 /\ Lessees(p)' = {}
    BY <1>1, <1>2, <1>3, <2>1 DEF Leases
  <2>2. ASSUME NEW p \in Pools, pool'[p].threads # 0
        PROVE  /\ pool'[p].active = Cardinality(Lessees(p)')
               /\ pool'[p].retiring <=> p # rowPool
               /\ pool'[p].stopped <=> pool'[p].retiring /\ pool'[p].active = 0
    BY <1>1, <1>2, <1>3, <1>5, <1>6, <2>2 DEF Leases
  <2>3. Cardinality(Lessees(rowPool)') = Cardinality(Lessees(rowPool))'
    OBVIOUS
  <2> QED BY <1>1, <1>2, <2>1, <2>2 DEF Leases
<1>8. Bounds'
  BY <1>1, <1>2 DEF Bounds
<1> QED BY <1>3, <1>4, <1>7, <1>8

\* The pool that acquireRowWorkerPool makes.
LEMMA NewPool ==
    ASSUME NEW t \in PoolSizes
    PROVE  LET n == [NoPool EXCEPT !.threads = t, !.active = 1]
           IN  /\ n.threads = t /\ n.jobs = {} /\ n.active = 1
               /\ n.retiring = FALSE /\ n.stopped = FALSE /\ n \in Pool
<1>1. NoPool \in Pool /\ NoPool.jobs = {} /\ NoPool.retiring = FALSE /\ NoPool.stopped = FALSE
  BY DEF NoPool, Pool
<1>2. \A q \in Pool : LET n == [q EXCEPT !.threads = t, !.active = 1]
                      IN  n \in Pool /\ n.threads = t /\ n.active = 1 /\ n.jobs = q.jobs
                          /\ n.retiring = q.retiring /\ n.stopped = q.stopped
  BY DEF Pool
<1> QED BY <1>1, <1>2

\* Replace (acquireRowWorkerPool, retireRowWorkerPoolLocked) keeps the invariant.
LEMMA ReplaceInv ==
    ASSUME IInv, NEW d \in Dispatchers, Replace(d)
    PROVE  IInv'
<1> USE DEF IInv
<1>1. PICK p \in Pools :
        /\ pool[p] = NoPool
        /\ pool' = [q \in Pools |->
                      CASE q = p -> [NoPool EXCEPT !.threads = disp[d].threads, !.active = 1]
                        [] q = rowPool -> Retired(pool[q])
                        [] OTHER -> pool[q]]
        /\ idle' = [idle EXCEPT ![p] = disp[d].threads]
        /\ rowPool' = p
        /\ Leased(d, p)
  BY DEF Replace
<1>2. At(d, "acquire") /\ UNCHANGED <<busy, object, free, ran>>
  BY DEF Replace
<1>3. disp[d].threads \in PoolSizes /\ disp[d].threads \in Nat \ {0}
  BY <1>2, CallTypes, SizesAssumption DEF AtItsLine, At
<1>4. /\ pool[p].threads = 0 /\ pool[p].jobs = {} /\ pool[p].active = 0 /\ ~pool[p].retiring /\ ~pool[p].stopped
      /\ busy[p] = {} /\ idle[p] = 0 /\ Lessees(p) = {} /\ p # rowPool /\ p # None
  BY <1>1, SizesAssumption DEF NoPool, Leases
<1>5. /\ pool'[p].threads = disp[d].threads /\ pool'[p].jobs = {} /\ pool'[p].active = 1
      /\ pool'[p].retiring = FALSE /\ pool'[p].stopped = FALSE /\ pool'[p] \in Pool
  <2> DEFINE F(q) == CASE q = p -> [NoPool EXCEPT !.threads = disp[d].threads, !.active = 1]
                      [] q = rowPool -> Retired(pool[q])
                      [] OTHER -> pool[q]
  <2>1. F(p) = [NoPool EXCEPT !.threads = disp[d].threads, !.active = 1]
    BY <1>4
  <2>2. pool' = [q \in Pools |-> F(q)]
    BY <1>1
  <2> HIDE DEF F
  <2>3. pool'[p] = [NoPool EXCEPT !.threads = disp[d].threads, !.active = 1]
    BY <2>1, <2>2
  <2> QED BY <1>3, <2>3, NewPool
<1>6. \A q \in Pools : q # p /\ q # rowPool => pool'[q] = pool[q]
  BY <1>1
<1>7. \A q \in Pools : q # p /\ q = rowPool =>
        /\ pool'[q].threads = pool[q].threads /\ pool'[q].jobs = pool[q].jobs /\ pool'[q].active = pool[q].active
        /\ pool'[q].retiring = TRUE /\ (pool'[q].stopped <=> pool[q].active = 0) /\ pool'[q] \in Pool
  <2> SUFFICES ASSUME NEW q \in Pools, q # p, q = rowPool
               PROVE  /\ pool'[q].threads = pool[q].threads /\ pool'[q].jobs = pool[q].jobs
                      /\ pool'[q].active = pool[q].active
                      /\ pool'[q].retiring = TRUE /\ (pool'[q].stopped <=> pool[q].active = 0) /\ pool'[q] \in Pool
    OBVIOUS
  <2>1. pool'[q] = Retired(pool[q]) /\ pool[q] \in Pool
    BY <1>1 DEF Types
  <2> QED BY <2>1 DEF Retired, Pool
<1>8. pool' \in [Pools -> Pool] /\ \A q \in Pools : pool'[q].jobs = pool[q].jobs
  <2>1. \A q \in Pools : pool'[q] \in Pool /\ pool'[q].jobs = pool[q].jobs
    BY <1>4, <1>5, <1>6, <1>7 DEF Types
  <2> QED BY <1>1, <2>1
<1>9. /\ disp' \in [Dispatchers -> Locals] /\ \A e \in Dispatchers : AtItsLine(disp'[e])
      /\ \A q \in Pools : q # p => Lessees(q)' = Lessees(q)
      /\ Lessees(p)' = {d}
      /\ Owners' /\ JobsSent' /\ Calls'
  BY <1>1, <1>2, <1>4, <1>8, LeasedCalls
<1>10. Types'
  BY <1>1, <1>2, <1>3, <1>8, <1>9 DEF Types
<1>11. Leases'
  <2>1. ASSUME NEW q \in Pools, pool'[q].threads = 0
        PROVE  pool'[q] = NoPool /\ busy'[q] = {} /\ idle'[q] = 0 /\ Lessees(q)' = {}
    <3>1. q # p
      BY <1>3, <1>5, <2>1
    <3>2. q # rowPool
      BY <1>7, <2>1, <3>1, SizesAssumption DEF Leases
    <3> QED BY <1>1, <1>2, <1>6, <1>9, <2>1, <3>1, <3>2 DEF Leases, Types
  <2>2. ASSUME NEW q \in Pools, pool'[q].threads # 0
        PROVE  /\ pool'[q].active = Cardinality(Lessees(q)')
               /\ pool'[q].retiring <=> q # p
               /\ pool'[q].stopped <=> pool'[q].retiring /\ pool'[q].active = 0
    <3>1. CASE q = p
      <4>1. Cardinality({d}) = 1
        BY FS_Singleton
      <4> QED BY <1>5, <1>9, <3>1, <4>1
    <3>2. CASE q # p /\ q = rowPool
      BY <1>7, <1>9, <2>2, <3>2 DEF Leases
    <3>3. CASE q # p /\ q # rowPool
      BY <1>6, <1>9, <2>2, <3>3 DEF Leases
    <3> QED BY <3>1, <3>2, <3>3
  <2> QED BY <1>1, <1>3, <1>5, <2>1, <2>2 DEF Leases
<1>12. Bounds'
  <2>1. Cardinality({}) = 0
    BY FS_EmptySet
  <2>2. \A q \in Pools : q # p => pool'[q].threads = pool[q].threads /\ pool'[q].jobs = pool[q].jobs /\ idle'[q] = idle[q]
    BY <1>1, <1>6, <1>7
  <2>3. /\ Cardinality(pool'[p].jobs) = 0 /\ pool'[p].threads * Over \in Nat
        /\ idle'[p] = pool'[p].threads /\ Cardinality(busy'[p]) = 0
    <3>1. \A a, b \in Nat : a * b \in Nat
      OBVIOUS
    <3>2. pool'[p].threads * Over \in Nat
      BY <1>3, <1>5, <3>1, EndNat
    <3> QED BY <1>1, <1>2, <1>4, <1>5, <2>1, <3>2 DEF Types
  <2>4. pool'[p].threads \in Nat /\ 0 <= pool'[p].threads * Over
    BY <1>3, <1>5, <2>3
  <2>5. \A q \in Pools : /\ Cardinality(pool'[q].jobs) <= pool'[q].threads * Over
                         /\ idle'[q] + Cardinality(busy'[q]) <= pool'[q].threads
    BY <1>2, <2>2, <2>3, <2>4 DEF Bounds
  <2> QED BY <2>5 DEF Bounds
<1> QED BY <1>9, <1>10, <1>11, <1>12

\* Prepare (dispatchParallelMode) keeps the invariant: an object in its sync.Pool has no job.
LEMMA PrepareInv ==
    ASSUME IInv, NEW d \in Dispatchers, Prepare(d)
    PROVE  IInv'
<1> USE DEF IInv, At
<1>1. PICK o \in free :
        /\ object' = [object EXCEPT ![o] = SetUp(d)]
        /\ free' = free \ {o}
        /\ disp' = [disp EXCEPT ![d].object = o, ![d].sent = 1, ![d].pc = "send"]
  BY DEF Prepare
<1> DEFINE r == [disp[d] EXCEPT !.object = o, !.sent = 1, !.pc = "send"]
<1>2. /\ disp[d] \in Locals /\ AtItsLine(disp[d]) /\ disp[d].pc = "prepare" /\ disp[d].object = None
      /\ o \in Objects /\ o # None /\ UNCHANGED <<rowPool, pool, idle, busy, ran>>
  BY CallTypes, SizesAssumption DEF Prepare, AtItsLine, Types
<1>3. /\ r.pc = "send" /\ r.threads = disp[d].threads /\ r.parts = disp[d].parts /\ r.batch = disp[d].batch
      /\ r.pool = disp[d].pool /\ r.object = o /\ r.sent = 1 /\ r.chunk = disp[d].chunk /\ r \in Locals
  BY <1>2 DEF Locals
<1>4. disp[d].chunk = 0 /\ ran[d] = Zero
  BY <1>2 DEF Calls, PerCall, AtItsLine
<1>5. AtItsLine(r) /\ r.parts \in Nat
  <2>1. disp[d].parts \in 2 .. End
    BY <1>2, ChunksBound
  <2> QED BY <1>2, <1>3, <1>4, <2>1, EndNat DEF AtItsLine
<1>6. /\ disp' \in [Dispatchers -> Locals] /\ \A e \in Dispatchers : AtItsLine(disp'[e])
      /\ disp'[d] = r /\ \A e \in Dispatchers : e # d => disp'[e] = disp[e]
  BY <1>1, <1>3, <1>5, DispStep
<1>7. /\ SetUp(d) \in Object /\ SetUp(d).wg = r.parts - 1
      /\ r.batch => SetUp(d).fn = d /\ SetUp(d).chunks = r.parts * Over /\ SetUp(d).next = r.parts
  <2>1. r.parts - 1 \in Nat /\ r.parts * Over \in Nat
    <3>1. disp[d].parts \in 2 .. End /\ disp[d].parts * Over \in disp[d].parts .. End
      BY <1>2, ChunksBound
    <3>2. disp[d].parts - 1 \in Nat /\ disp[d].parts * Over \in Nat
      BY <3>1, EndNat
    <3> QED BY <1>3, <3>2
  <2>2. CASE r.batch
    <3>1. SetUp(d) = [wg |-> r.parts - 1, next |-> r.parts, chunks |-> r.parts * Over, fn |-> d]
      BY <1>3, <2>2 DEF SetUp, Chunks
    <3> QED BY <1>5, <2>1, <3>1 DEF Object
  <2>3. CASE ~r.batch
    <3>1. SetUp(d) = [NoObject EXCEPT !.wg = r.parts - 1]
      BY <1>3, <2>3 DEF SetUp
    <3> QED BY <2>1, <2>3, <3>1 DEF Object, NoObject
  <2> QED BY <2>2, <2>3
<1> HIDE DEF r
<1>8. Types'
  BY <1>1, <1>2, <1>6, <1>7 DEF Types
<1>9. object'[o] = SetUp(d) /\ \A x \in Objects : x # o => object'[x] = object[x]
  BY <1>1, <1>2 DEF Types
<1>10. Owners'
  <2>1. \A e \in Dispatchers : disp'[e].object = (IF e = d THEN o ELSE disp[e].object) /\ disp[e].object # o
    BY <1>1, <1>3, <1>6 DEF Owners
  <2>0. free' = free \ {o}
    BY <1>1
  <2>2. \A e \in Dispatchers : disp'[e].object \notin free'
    BY <2>0, <2>1 DEF Owners
  <2>3. \A x \in Objects \ free' : \E e \in Dispatchers : disp'[e].object = x
    <3> SUFFICES ASSUME NEW x \in Objects, x \notin free'
                 PROVE  \E e \in Dispatchers : disp'[e].object = x
      OBVIOUS
    <3>1. CASE x = o
      BY <2>1, <3>1
    <3>2. CASE x # o
      <4>1. PICK e \in Dispatchers : disp[e].object = x
        BY <2>0, <3>2 DEF Owners
      <4>2. e # d
        BY <1>2, <4>1, SizesAssumption
      <4> QED BY <2>1, <4>1, <4>2
    <3> QED BY <3>1, <3>2
  <2>4. \A e, f \in Dispatchers : disp'[e].object = disp'[f].object /\ disp'[e].object # None => e = f
    BY <2>1 DEF Owners
  <2>5. \A x \in free' : object'[x].wg = 0
    BY <1>1, <1>9 DEF Owners, Types
  <2> QED BY <2>2, <2>3, <2>4, <2>5 DEF Owners
<1>11. JobsSent' /\ Leases' /\ Bounds'
  <2>1. \A e \in Dispatchers : disp'[e].pool = disp[e].pool /\ (disp[e].object # None => disp'[e].object = disp[e].object)
    BY <1>2, <1>3, <1>6
  <2> QED BY <1>2, <2>1, JobsSentKept, LeasesKept
<1>12. ASSUME NEW e \in Dispatchers PROVE PerCall(e)'
  <2>1. CASE e = d
    <3>1. r.pool \in Pools
      BY <1>2, <1>3, CallTypes
    <3>2. Jobs(d)' = {} /\ With(d)' = {}
      <4>1. (\A job \in pool[r.pool].jobs : job.object # o) /\ \A w \in busy[r.pool] : w.job.object # o
        BY <3>1 DEF JobsSent, SentBy, Owners
      <4> QED BY <1>2, <1>3, <1>6, <4>1 DEF Jobs, With, JobsOf, BusyWith
    <3>3. Sharing(d, r, SetUp(d), {}, {}, Zero)
      BY <1>3, <1>4, <1>5, <1>7, SharingBegins
    <3> QED BY <1>2, <1>3, <1>4, <1>6, <1>9, <2>1, <3>2, <3>3 DEF PerCall
  <2>2. CASE e # d
    <3>1. disp'[e] = disp[e] /\ ran'[e] = ran[e]
      BY <1>2, <1>6, <2>2
    <3>2. Jobs(e)' = Jobs(e) /\ With(e)' = With(e)
      BY <1>2, <3>1 DEF Jobs, With, JobsOf, BusyWith
    <3>3. disp[e].object # None => disp[e].object # o /\ disp[e].object \in Objects
      BY CallTypes DEF Owners, Locals
    <3> QED BY <1>9, <3>1, <3>2, <3>3, CallUntouched DEF Types, Calls
  <2> QED BY <2>1, <2>2
<1> QED BY <1>8, <1>10, <1>11, <1>12 DEF Calls

\* Send (dispatchParallelMode) keeps the invariant.
LEMMA SendInv ==
    ASSUME IInv, NEW d \in Dispatchers, Send(d)
    PROVE  IInv'
<1> USE DEF IInv, At
<1> DEFINE p == disp[d].pool
           o == disp[d].object
           job == [object |-> o, first |-> disp[d].sent, fn |-> IF disp[d].batch THEN None ELSE d]
           r == [disp[d] EXCEPT !.sent = @ + 1]
           new == [pool[p] EXCEPT !.jobs = @ \cup {job}]
<1>1. /\ disp[d].pc = "send" /\ disp[d].sent < disp[d].parts
      /\ Cardinality(pool[p].jobs) < pool[p].threads * Over
      /\ pool' = [pool EXCEPT ![p].jobs = @ \cup {job}]
      /\ disp' = [disp EXCEPT ![d] = r]
      /\ UNCHANGED <<rowPool, idle, busy, object, free, ran>>
  BY DEF Send
<1>2. /\ disp[d] \in Locals /\ AtItsLine(disp[d]) /\ p \in Pools /\ o \in Objects /\ object[o] \in Object
      /\ disp[d].sent \in Nat \ {0} /\ disp[d].parts \in Nat
      /\ Jobs(d) \in SUBSET Job /\ With(d) \in SUBSET Worker /\ ran[d] \in [Chunk -> Nat]
  BY <1>1, CallTypes DEF AtItsLine
<1>3. job \in Job /\ job.object = o /\ job.first = disp[d].sent /\ job.fn = IF disp[d].batch THEN None ELSE d
  BY <1>2 DEF Job
<1>4. /\ r.pc = "send" /\ r.threads = disp[d].threads /\ r.parts = disp[d].parts
      /\ r.pool = p /\ r.object = o /\ r.sent = disp[d].sent + 1 /\ r.chunk = disp[d].chunk /\ r \in Locals
  BY <1>1, <1>2 DEF Locals
<1>5. AtItsLine(r)
  BY <1>1, <1>2, <1>4 DEF AtItsLine
<1>6. /\ disp' \in [Dispatchers -> Locals] /\ \A e \in Dispatchers : AtItsLine(disp'[e])
      /\ disp'[d] = r /\ \A e \in Dispatchers : e # d => disp'[e] = disp[e]
  BY <1>1, <1>4, <1>5, DispStep
<1> HIDE DEF job
<1>7. /\ pool[p] \in Pool /\ new \in Pool /\ new.threads = pool[p].threads /\ new.jobs = pool[p].jobs \cup {job}
      /\ new.active = pool[p].active /\ new.retiring = pool[p].retiring /\ new.stopped = pool[p].stopped
  <2>1. pool[p] \in Pool
    BY <1>2 DEF Types
  <2> QED BY <1>3, <2>1 DEF Pool
<1>8. pool' = [pool EXCEPT ![p] = new]
  BY <1>1
<1> HIDE DEF r, new, p, o
<1>9. pool' \in [Pools -> Pool] /\ pool'[p] = new /\ \A q \in Pools : q # p => pool'[q] = pool[q]
  BY <1>2, <1>7, <1>8 DEF Types
<1>10. Types'
  BY <1>1, <1>6, <1>9 DEF Types
<1>11. \A e \in Dispatchers : disp'[e].object = disp[e].object /\ disp'[e].pool = disp[e].pool
  BY <1>4, <1>6 DEF p, o
<1>12. Owners'
  BY <1>1, <1>11 DEF Owners
<1>13. JobsSent'
  <2>1. \A e \in Dispatchers, q \in Pools, j \in Job : SentBy(e, q, j)' <=> SentBy(e, q, j)
    BY <1>11 DEF SentBy
  <2>2. SentBy(d, p, job)
    BY <1>3 DEF SentBy, p, o
  <2>3. \A q \in Pools : pool[q].jobs \subseteq Job /\ \A w \in busy[q] : w.job \in Job
    BY DEF Types, Pool, Worker
  <2>4. IsFiniteSet(pool[p].jobs \cup {job})
    BY <1>2, FS_AddElement DEF JobsSent
  <2>5. ASSUME NEW q \in Pools
        PROVE  /\ \A j \in pool'[q].jobs : \E e \in Dispatchers : SentBy(e, q, j)'
               /\ \A w \in busy'[q] : \E e \in Dispatchers : SentBy(e, q, w.job)'
               /\ IsFiniteSet(pool'[q].jobs) /\ IsFiniteSet(busy'[q])
    <3>1. \A w \in busy'[q] : \E e \in Dispatchers : SentBy(e, q, w.job)'
      BY <1>1, <2>1, <2>3 DEF JobsSent
    <3>2. CASE q = p
      BY <1>1, <1>3, <1>7, <1>9, <2>1, <2>2, <2>3, <2>4, <3>1, <3>2 DEF JobsSent
    <3>3. CASE q # p
      BY <1>1, <1>9, <2>1, <2>3, <3>1, <3>3 DEF JobsSent
    <3> QED BY <3>2, <3>3
  <2> QED BY <2>5 DEF JobsSent
<1>14. Leases'
  <2>1. \A q : Lessees(q)' = Lessees(q)
    BY <1>11 DEF Lessees
  <2>2. pool[p].threads # 0
    BY <1>2 DEF Leases, Lessees, p
  <2>3. /\ \A q \in Pools : pool'[q].threads = pool[q].threads /\ pool'[q].active = pool[q].active
             /\ pool'[q].retiring = pool[q].retiring /\ pool'[q].stopped = pool[q].stopped
      /\ \A q \in Pools : pool[q].threads = 0 => pool'[q] = pool[q]
    BY <1>7, <1>9, <2>2
  <2>4. rowPool \in Pools \cup {None}
    BY DEF Types
  <2> QED BY <1>1, <2>1, <2>3, <2>4 DEF Leases
<1>15. Bounds'
  <2>1. IsFiniteSet(pool[p].jobs)
    BY <1>2 DEF JobsSent
  <2>2. Cardinality(pool[p].jobs \cup {job}) <= Cardinality(pool[p].jobs) + 1 /\ Cardinality(pool[p].jobs) \in Nat
    <3>1. Cardinality(pool[p].jobs) \in Nat
      BY <2>1, FS_CardinalityType
    <3>2. Cardinality(pool[p].jobs \cup {job}) =
            IF job \in pool[p].jobs THEN Cardinality(pool[p].jobs) ELSE Cardinality(pool[p].jobs) + 1
      BY <2>1, FS_AddElement
    <3> QED BY <3>1, <3>2
  <2>3. pool[p].threads * Over \in Nat
    <3>1. \A a, b \in Nat : a * b \in Nat
      OBVIOUS
    <3> QED BY <1>7, <3>1, EndNat, SizesAssumption DEF Pool
  <2>4. Cardinality(pool'[p].jobs) <= pool'[p].threads * Over
    <3>1. Cardinality(pool[p].jobs \cup {job}) \in Nat
      <4>1. IsFiniteSet(pool[p].jobs \cup {job})
        BY <2>1, FS_AddElement
      <4> QED BY <4>1, FS_CardinalityType
    <3>2. Cardinality(pool[p].jobs) < pool[p].threads * Over
      BY <1>1 DEF p
    <3>3. Cardinality(pool[p].jobs \cup {job}) <= pool[p].threads * Over
      BY <2>2, <2>3, <3>1, <3>2
    <3> QED BY <1>7, <1>9, <3>3
  <2>5. \A q \in Pools : pool'[q].threads = pool[q].threads /\ (q # p => pool'[q].jobs = pool[q].jobs)
    BY <1>7, <1>9
  <2>6. \A q \in Pools : Cardinality(pool'[q].jobs) <= pool'[q].threads * Over
    BY <2>4, <2>5 DEF Bounds
  <2> QED BY <1>1, <2>5, <2>6 DEF Bounds
<1>16. ASSUME NEW e \in Dispatchers PROVE PerCall(e)'
  <2>1. With(e)' = With(e) /\ ran'[e] = ran[e] /\ object' = object
    BY <1>1, <1>11 DEF With, BusyWith
  <2>2. CASE e = d
    <3>1. Jobs(d)' = Jobs(d) \cup {job}
      BY <1>2, <1>3, <1>7, <1>9, <1>11 DEF Jobs, JobsOf, p, o
    <3>2. Sharing(d, disp[d], object[o], Jobs(d), With(d), ran[d])
      BY <1>1 DEF Calls, PerCall, o
    <3>3. Sharing(d, r, object[o], Jobs(d) \cup {job}, With(d), ran[d])
      BY <1>1, <1>2, <1>3, <3>2, SharingSend DEF r
    <3> QED BY <1>4, <1>6, <2>1, <2>2, <3>1, <3>3 DEF PerCall
  <2>3. CASE e # d
    <3>1. disp'[e] = disp[e]
      BY <1>6, <2>3
    <3>2. ASSUME disp[e].object # None PROVE Jobs(e)' = Jobs(e)
      <4>1. disp[e].pool \in Pools /\ disp[e].object # o
        BY <1>2, <2>3, <3>2, CallTypes DEF AtItsLine, Owners, o
      <4> QED BY <1>3, <1>7, <1>9, <3>1, <4>1 DEF Jobs, JobsOf
    <3> QED BY <2>1, <3>1, <3>2, CallUntouched DEF Types, Calls
  <2> QED BY <2>2, <2>3
<1> QED BY <1>10, <1>12, <1>13, <1>14, <1>15, <1>16 DEF Calls

\* RunOwn (dispatchParallelMode) keeps the invariant.
LEMMA RunOwnInv ==
    ASSUME IInv, NEW d \in Dispatchers, RunOwn(d)
    PROVE  IInv'
<1> USE DEF IInv, At
<1> DEFINE o == disp[d].object
           b == object[o]
           r == [disp[d] EXCEPT !.chunk = After(disp[d], b)]
           runs == [ran[d] EXCEPT ![disp[d].chunk] = @ + 1]
<1>1. /\ disp[d].pc = "run" /\ disp[d].chunk # End
      /\ ran' = [ran EXCEPT ![d] = runs]
      /\ UNCHANGED <<rowPool, pool, idle, busy, free>>
  BY DEF RunOwn, RunFor
<1>2. /\ disp[d] \in Locals /\ AtItsLine(disp[d]) /\ o \in Objects /\ b \in Object
      /\ disp[d].sent <= disp[d].parts
      /\ Jobs(d) \in SUBSET Job /\ With(d) \in SUBSET Worker /\ ran[d] \in [Chunk -> Nat]
  BY <1>1, CallTypes
<1>3. Sharing(d, disp[d], b, Jobs(d), With(d), ran[d])
  BY <1>1 DEF Calls, PerCall
<1>4. disp' = [disp EXCEPT ![d] = r] /\ object' = [object EXCEPT ![o] = Moved(disp[d], b)]
  <2>1. CASE disp[d].batch
    <3>1. /\ disp' = [disp EXCEPT ![d].chunk = Claimed(o)] /\ AdvanceNext(o)
      BY <2>1 DEF RunOwn
    <3>2. Claimed(o) = After(disp[d], b)
      BY <2>1 DEF Claimed, After, NextOf
    <3>3. object' = [object EXCEPT ![o] = Moved(disp[d], b)]
      BY <2>1, <3>1 DEF AdvanceNext, Moved, Advanced
    <3> QED BY <3>1, <3>2, <3>3
  <2>2. CASE ~disp[d].batch
    <3>1. disp' = [disp EXCEPT ![d].chunk = End] /\ object' = object
      BY <2>2 DEF RunOwn
    <3>2. After(disp[d], b) = End /\ Moved(disp[d], b) = object[o]
      BY <2>2 DEF After, Moved
    <3>3. object' = [object EXCEPT ![o] = object[o]]
      BY <1>2, <3>1 DEF Types
    <3> QED BY <3>1, <3>2, <3>3
  <2> QED BY <2>1, <2>2
<1>5. /\ After(disp[d], b) \in 0 .. End /\ Moved(disp[d], b) \in Object /\ Moved(disp[d], b).wg = b.wg
  <2>1. Batch(d, disp[d], b) /\ disp[d].pc # "idle"
    BY <1>1, <1>3 DEF Sharing
  <2> QED BY <1>2, <2>1, MovedOn
<1>6. /\ Sharing(d, r, Moved(disp[d], b), Jobs(d), With(d), runs) /\ disp[d].chunk \in Chunk
  <2>1. disp[d].pc # "idle"
    BY <1>1
  <2>2. disp[d].chunk \in Chunk
    BY <1>1, <1>2, EndNat DEF Locals, Chunk
  <2> QED BY <1>1, <1>2, <1>3, <2>1, <2>2, SharingRunOwn
<1>7. /\ r.pc = "run" /\ r.threads = disp[d].threads /\ r.parts = disp[d].parts /\ r.sent = disp[d].sent
      /\ r.pool = disp[d].pool /\ r.object = o /\ r \in Locals
  BY <1>1, <1>2, <1>5 DEF Locals
<1>8. AtItsLine(r)
  BY <1>1, <1>2, <1>7 DEF AtItsLine
<1>9. /\ disp' \in [Dispatchers -> Locals] /\ \A e \in Dispatchers : AtItsLine(disp'[e])
      /\ disp'[d] = r /\ \A e \in Dispatchers : e # d => disp'[e] = disp[e]
  BY <1>4, <1>7, <1>8, DispStep
<1>10. runs \in [Chunk -> Nat] /\ ran'[d] = runs /\ \A e \in Dispatchers : e # d => ran'[e] = ran[e]
  BY <1>1, <1>2, <1>6 DEF Types
<1> HIDE DEF r, runs, b, o
<1>11. object'[o] = Moved(disp[d], b) /\ \A x \in Objects : x # o => object'[x] = object[x]
  BY <1>2, <1>4 DEF Types
<1>12. Types'
  BY <1>1, <1>2, <1>4, <1>5, <1>9, <1>10 DEF Types
<1>13. \A e \in Dispatchers : disp'[e].object = disp[e].object /\ disp'[e].pool = disp[e].pool
  BY <1>7, <1>9 DEF o
<1>14. Owners'
  <2>1. o \notin free
    BY DEF Owners, o
  <2>2. \A x \in free' : object'[x].wg = 0
    BY <1>1, <1>11, <2>1 DEF Owners, Types
  <2>3. \A e \in Dispatchers : disp'[e].object \notin free'
    BY <1>1, <1>13 DEF Owners
  <2>4. \A x \in Objects \ free' : \E e \in Dispatchers : disp'[e].object = x
    BY <1>1, <1>13 DEF Owners
  <2>5. \A e, f \in Dispatchers : disp'[e].object = disp'[f].object /\ disp'[e].object # None => e = f
    BY <1>13 DEF Owners
  <2> QED BY <2>2, <2>3, <2>4, <2>5 DEF Owners
<1>15. JobsSent' /\ Leases' /\ Bounds'
  BY <1>1, <1>13, JobsSentKept, LeasesKept
<1>16. ASSUME NEW e \in Dispatchers PROVE PerCall(e)'
  <2>1. Jobs(e)' = Jobs(e) /\ With(e)' = With(e)
    BY <1>1, <1>13 DEF Jobs, With, JobsOf, BusyWith
  <2>2. CASE e = d
    BY <1>6, <1>7, <1>9, <1>10, <1>11, <2>1, <2>2 DEF PerCall
  <2>3. CASE e # d
    <3>1. disp[e].object # None => disp[e].object # o /\ disp[e].object \in Objects
      BY <2>3, CallTypes DEF Owners, Locals, o
    <3> QED BY <1>9, <1>10, <1>11, <2>1, <2>3, <3>1, CallUntouched DEF Types, Calls
  <2> QED BY <2>2, <2>3
<1> QED BY <1>12, <1>14, <1>15, <1>16 DEF Calls

\* When the call has waited, nothing refers to its object and its chunks have been run.
LEMMA PutReady ==
    ASSUME IInv, NEW d \in Dispatchers, At(d, "put")
    PROVE  /\ Jobs(d) = {} /\ With(d) = {}
           /\ \A c \in Chunk : ran[d][c] = IF c < Chunks(d) THEN 1 ELSE 0
<1> USE DEF IInv, At
<1>1. /\ disp[d] \in Locals /\ AtItsLine(disp[d]) /\ object[disp[d].object] \in Object
      /\ Jobs(d) \in SUBSET Job /\ With(d) \in SUBSET Worker /\ ran[d] \in [Chunk -> Nat]
  BY CallTypes
<1>2. disp[d].sent = disp[d].parts /\ disp[d].chunk = End
  BY <1>1 DEF AtItsLine
<1>3. Sharing(d, disp[d], object[disp[d].object], Jobs(d), With(d), ran[d]) /\ object[disp[d].object].wg = 0
  BY DEF Calls, PerCall
<1>4. disp[d].pc # "idle"
  OBVIOUS
<1> QED BY <1>1, <1>2, <1>3, <1>4, SharingEnds DEF Chunks

\* Put (dispatchRowBatch) keeps the invariant.
LEMMA PutInv ==
    ASSUME IInv, NEW d \in Dispatchers, Put(d)
    PROVE  IInv'
<1> USE DEF IInv, At
<1> DEFINE o == disp[d].object
           r == [disp[d] EXCEPT !.object = None, !.pc = "release"]
<1>1. /\ disp[d].pc = "put" /\ object' = [object EXCEPT ![o] = NoObject] /\ free' = free \cup {o}
      /\ disp' = [disp EXCEPT ![d] = r] /\ UNCHANGED <<rowPool, pool, idle, busy, ran>>
  BY DEF Put
<1>2. /\ disp[d] \in Locals /\ AtItsLine(disp[d]) /\ o \in Objects /\ o # None
      /\ Jobs(d) = {} /\ With(d) = {} /\ \A c \in Chunk : ran[d][c] = IF c < Chunks(d) THEN 1 ELSE 0
  BY <1>1, CallTypes, PutReady, SizesAssumption
<1>3. /\ r.pc = "release" /\ r.threads = disp[d].threads /\ r.parts = disp[d].parts /\ r.batch = disp[d].batch
      /\ r.pool = disp[d].pool /\ r.object = None /\ r.sent = disp[d].sent /\ r.chunk = disp[d].chunk /\ r \in Locals
  BY <1>1, <1>2 DEF Locals
<1>4. AtItsLine(r)
  BY <1>1, <1>2, <1>3 DEF AtItsLine
<1>5. /\ disp' \in [Dispatchers -> Locals] /\ \A e \in Dispatchers : AtItsLine(disp'[e])
      /\ disp'[d] = r /\ \A e \in Dispatchers : e # d => disp'[e] = disp[e]
  BY <1>1, <1>3, <1>4, DispStep
<1> HIDE DEF r
<1>6. NoObject \in Object /\ NoObject.wg = 0
  BY DEF NoObject, Object
<1>7. object'[o] = NoObject /\ \A x \in Objects : x # o => object'[x] = object[x]
  BY <1>1, <1>2 DEF Types
<1>8. Types'
  BY <1>1, <1>2, <1>5, <1>6 DEF Types
<1>9. Owners'
  <2>1. \A e \in Dispatchers : disp'[e].object = (IF e = d THEN None ELSE disp[e].object)
                                /\ (disp[e].object = o => e = d)
    BY <1>2, <1>3, <1>5 DEF Owners
  <2>2. \A e \in Dispatchers : disp'[e].object \notin free'
    BY <1>1, <1>2, <2>1, SizesAssumption DEF Owners, Types
  <2>3. ASSUME NEW x \in Objects \ free' PROVE \E e \in Dispatchers : disp'[e].object = x
    <3>1. x # o /\ x \notin free
      BY <1>1
    <3>2. PICK e \in Dispatchers : disp[e].object = x
      BY <3>1 DEF Owners
    <3> QED BY <2>1, <3>1, <3>2
  <2>4. \A e, f \in Dispatchers : disp'[e].object = disp'[f].object /\ disp'[e].object # None => e = f
    BY <2>1 DEF Owners
  <2>5. \A x \in free' : object'[x].wg = 0
    BY <1>1, <1>6, <1>7 DEF Owners, Types
  <2> QED BY <2>2, <2>3, <2>4, <2>5 DEF Owners
<1>10. JobsSent' /\ Leases' /\ Bounds'
  <2>1. \A e \in Dispatchers : disp'[e].pool = disp[e].pool /\ (e # d => disp'[e].object = disp[e].object)
    BY <1>3, <1>5
  <2> QED BY <1>1, <1>2, <2>1, JobsSentKept, LeasesKept
<1>11. ASSUME NEW e \in Dispatchers PROVE PerCall(e)'
  <2>1. CASE e = d
    <3>1. Chunks(d)' = Chunks(d)
      BY <1>3, <1>5 DEF Chunks
    <3> QED BY <1>1, <1>2, <1>3, <1>5, <2>1, <3>1 DEF PerCall
  <2>2. CASE e # d
    <3>1. disp'[e] = disp[e] /\ ran'[e] = ran[e]
      BY <1>1, <1>5, <2>2
    <3>2. Jobs(e)' = Jobs(e) /\ With(e)' = With(e)
      BY <1>1, <3>1 DEF Jobs, With, JobsOf, BusyWith
    <3>3. disp[e].object # None => disp[e].object # o /\ disp[e].object \in Objects
      BY <2>2, CallTypes DEF Owners, Locals
    <3> QED BY <1>7, <3>1, <3>2, <3>3, CallUntouched DEF Types, Calls
  <2> QED BY <2>1, <2>2
<1> QED BY <1>8, <1>9, <1>10, <1>11 DEF Calls

\* Release (releaseRowWorkerPool) keeps the invariant.
LEMMA ReleaseInv ==
    ASSUME IInv, NEW d \in Dispatchers, Release(d)
    PROVE  IInv'
<1> USE DEF IInv, At
<1> DEFINE p == disp[d].pool
           new == [pool[p] EXCEPT !.active = @ - 1, !.stopped = @ \/ (pool[p].retiring /\ pool[p].active = 1)]
<1>1. /\ disp[d].pc = "release" /\ pool' = [pool EXCEPT ![p] = new]
      /\ disp' = [disp EXCEPT ![d] = NoCall] /\ UNCHANGED <<rowPool, idle, busy, object, free, ran>>
  BY DEF Release
<1>2. /\ disp[d] \in Locals /\ AtItsLine(disp[d]) /\ p \in Pools /\ p # None /\ disp[d].object = None
      /\ pool[p] \in Pool
  BY <1>1, CallTypes, SizesAssumption DEF AtItsLine, Types
<1>3. /\ NoCall \in Locals /\ AtItsLine(NoCall) /\ NoCall.pool = None /\ NoCall.object = None /\ NoCall.pc = "idle"
  <2>1. NoCall \in Locals /\ NoCall.pool = None /\ NoCall.object = None /\ NoCall.pc = "idle"
    BY EndNat DEF NoCall, Locals
  <2> QED BY <2>1 DEF AtItsLine
<1>4. /\ disp' \in [Dispatchers -> Locals] /\ \A e \in Dispatchers : AtItsLine(disp'[e])
      /\ disp'[d] = NoCall /\ \A e \in Dispatchers : e # d => disp'[e] = disp[e]
  BY <1>1, <1>3, DispStep
<1>5. /\ d \in Lessees(p) /\ IsFiniteSet(Lessees(p)) /\ pool[p].threads # 0
      /\ \A q \in Pools : Lessees(q)' = IF q = p THEN Lessees(p) \ {d} ELSE Lessees(q)
  <2>1. d \in Lessees(p) /\ pool[p].threads # 0
    BY <1>2 DEF Lessees, Leases
  <2>2. IsFiniteSet(Lessees(p))
    BY SizesAssumption, FS_Subset DEF Lessees
  <2>3. \A q \in Pools : Lessees(q)' = IF q = p THEN Lessees(p) \ {d} ELSE Lessees(q)
    BY <1>3, <1>4, SizesAssumption DEF Lessees
  <2> QED BY <2>1, <2>2, <2>3
<1>6. /\ pool[p].active = Cardinality(Lessees(p)) /\ pool[p].active \in Nat \ {0}
      /\ Cardinality(Lessees(p) \ {d}) = pool[p].active - 1
      /\ (pool[p].retiring <=> p # rowPool) /\ ~pool[p].stopped
  <2>1. /\ pool[p].active = Cardinality(Lessees(p)) /\ (pool[p].retiring <=> p # rowPool)
        /\ (pool[p].stopped <=> pool[p].retiring /\ pool[p].active = 0)
    BY <1>2, <1>5 DEF Leases
  <2>2. Cardinality(Lessees(p) \ {d}) = Cardinality(Lessees(p)) - 1 /\ IsFiniteSet(Lessees(p) \ {d})
    BY <1>5, FS_RemoveElement
  <2>3. Cardinality(Lessees(p) \ {d}) \in Nat /\ Cardinality(Lessees(p)) \in Nat
    BY <1>5, <2>2, FS_CardinalityType
  <2> QED BY <2>1, <2>2, <2>3
<1>7. /\ new.threads = pool[p].threads /\ new.jobs = pool[p].jobs /\ new.active = pool[p].active - 1
      /\ new.retiring = pool[p].retiring /\ (new.stopped <=> pool[p].retiring /\ pool[p].active = 1)
      /\ new \in Pool
  <2>1. pool[p].active - 1 \in Nat
    BY <1>6
  <2> QED BY <1>2, <1>6, <2>1 DEF Pool
<1> HIDE DEF new, p
<1>8. pool' \in [Pools -> Pool] /\ pool'[p] = new /\ \A q \in Pools : q # p => pool'[q] = pool[q]
  BY <1>1, <1>2, <1>7 DEF Types
<1>9. Types'
  BY <1>1, <1>4, <1>8 DEF Types
<1>10. \A e \in Dispatchers : disp'[e].object = disp[e].object
  BY <1>2, <1>3, <1>4
<1>11. Owners'
  BY <1>1, <1>10 DEF Owners
<1>12. \A q \in Pools : pool'[q].jobs = pool[q].jobs /\ pool'[q].threads = pool[q].threads
  BY <1>7, <1>8
<1>13. JobsSent'
  <2>1. \A e \in Dispatchers, q \in Pools, j \in Job : SentBy(e, q, j) => SentBy(e, q, j)'
    BY <1>2, <1>4, SizesAssumption DEF SentBy, Job
  <2>2. \A q \in Pools : pool[q].jobs \subseteq Job /\ \A w \in busy[q] : w.job \in Job
    BY DEF Types, Pool, Worker
  <2> QED BY <1>1, <1>12, <2>1, <2>2 DEF JobsSent
<1>14. Leases'
  <2>1. ASSUME NEW q \in Pools, pool'[q].threads = 0
        PROVE  pool'[q] = NoPool /\ busy'[q] = {} /\ idle'[q] = 0 /\ Lessees(q)' = {}
    <3>1. q # p /\ pool[q].threads = 0
      BY <1>5, <1>12, <2>1
    <3> QED BY <1>1, <1>5, <1>8, <3>1 DEF Leases
  <2>2. ASSUME NEW q \in Pools, pool'[q].threads # 0
        PROVE  /\ pool'[q].active = Cardinality(Lessees(q)')
               /\ pool'[q].retiring <=> q # rowPool
               /\ pool'[q].stopped <=> pool'[q].retiring /\ pool'[q].active = 0
    <3>1. CASE q = p
      <4>1. Lessees(q)' = Lessees(p) \ {d}
        BY <1>5, <3>1
      <4> QED BY <1>6, <1>7, <1>8, <3>1, <4>1
    <3>2. CASE q # p
      <4>1. Lessees(q)' = Lessees(q) /\ pool[q].threads # 0
        BY <1>5, <1>12, <2>2, <3>2
      <4> QED BY <1>8, <3>2, <4>1 DEF Leases
    <3> QED BY <3>1, <3>2
  <2>3. rowPool # None => pool'[rowPool].threads # 0
    BY <1>12 DEF Leases, Types
  <2> QED BY <1>1, <2>1, <2>2, <2>3 DEF Leases
<1>15. Bounds'
  BY <1>1, <1>12 DEF Bounds
<1>16. ASSUME NEW e \in Dispatchers PROVE PerCall(e)'
  <2>1. CASE e = d
    BY <1>3, <1>4, <2>1 DEF PerCall
  <2>2. CASE e # d
    <3>1. disp'[e] = disp[e] /\ ran'[e] = ran[e] /\ object' = object
      BY <1>1, <1>4, <2>2
    <3>2. ASSUME disp[e].object # None PROVE Jobs(e)' = Jobs(e) /\ With(e)' = With(e)
      <4>1. disp[e].pool \in Pools
        BY <3>2, CallTypes DEF AtItsLine
      <4> QED BY <1>1, <1>12, <3>1, <4>1 DEF Jobs, With, JobsOf, BusyWith
    <3> QED BY <3>1, <3>2, CallUntouched DEF Types, Calls
  <2> QED BY <2>1, <2>2
<1> QED BY <1>9, <1>11, <1>13, <1>14, <1>15, <1>16 DEF Calls

-----------------------------------------------------------------------------
(* The steps of a worker.                                                   *)

\* A worker's step concerns one call: the one its job is for.
LEMMA WorkerCall ==
    ASSUME IInv, NEW d \in Dispatchers, NEW p \in Pools, disp[d].pool = p, disp[d].object # None
    PROVE  /\ disp[d].pc \in {"send", "run", "put"} /\ disp[d].object \in Objects \ free
           /\ Sharing(d, disp[d], object[disp[d].object], Jobs(d), With(d), ran[d])
           /\ \A e \in Dispatchers : e # d => disp[e].object # disp[d].object
BY CallTypes DEF IInv, AtItsLine, Calls, PerCall, Owners, Types

\* TakeJob (rowWorker) keeps the invariant.
LEMMA TakeJobInv ==
    ASSUME IInv, NEW p \in Pools, NEW job \in pool[p].jobs, TakeJob(p, job)
    PROVE  IInv'
<1> USE DEF IInv, At
<1> DEFINE w == [job |-> job, chunk |-> job.first]
           new == [pool[p] EXCEPT !.jobs = @ \ {job}]
<1>1. /\ idle[p] > 0 /\ pool' = [pool EXCEPT ![p] = new]
      /\ busy' = [busy EXCEPT ![p] = @ \cup {w}] /\ idle' = [idle EXCEPT ![p] = @ - 1]
      /\ UNCHANGED <<rowPool, object, free, disp, ran>>
  BY DEF TakeJob
<1>2. PICK d \in Dispatchers : SentBy(d, p, job) /\ disp[d].object # None /\ job \in Jobs(d)
  BY RefersToCall
<1>3. /\ disp[d].pc \in {"send", "run", "put"} /\ disp[d].object \in Objects \ free /\ disp[d].pool = p
      /\ Sharing(d, disp[d], object[disp[d].object], Jobs(d), With(d), ran[d])
      /\ \A e \in Dispatchers : e # d => disp[e].object # disp[d].object
      /\ disp[d].object = job.object
  BY <1>2, WorkerCall DEF SentBy
<1>4. /\ disp[d] \in Locals /\ object[disp[d].object] \in Object
      /\ Jobs(d) \in SUBSET Job /\ With(d) \in SUBSET Worker /\ ran[d] \in [Chunk -> Nat]
      /\ disp[d].sent \in Nat /\ disp[d].sent <= End
  <2>1. disp[d].sent <= disp[d].parts /\ disp[d].parts <= End /\ disp[d].sent \in Nat /\ disp[d].parts \in Nat
    BY <1>3, CallTypes
  <2> QED BY <1>3, <2>1, CallTypes, EndNat
<1>5. job \in Job /\ pool[p] \in Pool /\ idle[p] \in Nat /\ busy[p] \subseteq Worker
  BY DEF Types, Pool
<1>6. job.first \in 0 .. End /\ w \in Worker
  <2>1. job.first \in 1 .. disp[d].sent - 1
    BY <1>2, <1>3 DEF Sharing, Queued
  <2>2. job.first \in 0 .. End
    BY <1>4, <2>1, EndNat
  <2> QED BY <1>5, <2>2 DEF Worker
<1>7. /\ new \in Pool /\ new.threads = pool[p].threads /\ new.jobs = pool[p].jobs \ {job}
      /\ new.active = pool[p].active /\ new.retiring = pool[p].retiring /\ new.stopped = pool[p].stopped
  BY <1>5 DEF Pool
<1>8. w.job = job /\ w.chunk = job.first /\ w \notin busy[p]
  <2>1. \A u \in busy[p] : u.job = job => u \in With(d)
    BY <1>3 DEF With, BusyWith
  <2> QED BY <1>2, <1>3, <2>1 DEF Sharing, Queued
<1>a. Sharing(d, disp[d], object[disp[d].object], Jobs(d) \ {job}, With(d) \cup {w}, ran[d])
  BY <1>2, <1>3, <1>4, SharingTake
<1> HIDE DEF w, new
<1>9. /\ pool' \in [Pools -> Pool] /\ pool'[p] = new /\ \A q \in Pools : q # p => pool'[q] = pool[q]
      /\ busy' \in [Pools -> SUBSET Worker] /\ busy'[p] = busy[p] \cup {w}
      /\ \A q \in Pools : q # p => busy'[q] = busy[q]
      /\ idle' \in [Pools -> Nat] /\ idle'[p] = idle[p] - 1 /\ \A q \in Pools : q # p => idle'[q] = idle[q]
  <2>1. idle[p] - 1 \in Nat
    BY <1>1, <1>5
  <2> QED BY <1>1, <1>5, <1>6, <1>7, <2>1 DEF Types
<1>10. Types'
  BY <1>1, <1>9 DEF Types
<1>11. Owners'
  BY <1>1 DEF Owners
<1>12. IsFiniteSet(pool[p].jobs) /\ IsFiniteSet(busy[p])
  BY DEF JobsSent
<1>13. JobsSent'
  <2>1. \A e \in Dispatchers, q \in Pools, j \in Job : SentBy(e, q, j)' <=> SentBy(e, q, j)
    BY <1>1 DEF SentBy
  <2>2. \A q \in Pools : pool[q].jobs \subseteq Job /\ \A u \in busy[q] : u.job \in Job
    BY DEF Types, Pool, Worker
  <2>3. IsFiniteSet(pool[p].jobs \ {job}) /\ IsFiniteSet(busy[p] \cup {w})
    BY <1>12, FS_AddElement, FS_RemoveElement
  <2>4. ASSUME NEW q \in Pools
        PROVE  /\ \A j \in pool'[q].jobs : \E e \in Dispatchers : SentBy(e, q, j)'
               /\ \A u \in busy'[q] : \E e \in Dispatchers : SentBy(e, q, u.job)'
               /\ IsFiniteSet(pool'[q].jobs) /\ IsFiniteSet(busy'[q])
    <3>1. CASE q = p
      <4>1. \A j \in pool'[q].jobs : \E e \in Dispatchers : SentBy(e, q, j)'
        BY <1>7, <1>9, <2>1, <2>2, <3>1 DEF JobsSent
      <4>2. \A u \in busy'[q] : u \in busy[q] \/ u = w
        BY <1>9, <3>1
      <4>3. \A u \in busy'[q] : \E e \in Dispatchers : SentBy(e, q, u.job)'
        BY <1>2, <1>5, <1>8, <2>1, <2>2, <3>1, <4>2 DEF JobsSent
      <4> QED BY <1>7, <1>9, <2>3, <3>1, <4>1, <4>3
    <3>2. CASE q # p
      BY <1>9, <2>1, <2>2, <3>2 DEF JobsSent
    <3> QED BY <3>1, <3>2
  <2> QED BY <2>4 DEF JobsSent
<1>14. Leases'
  <2>1. \A q : Lessees(q)' = Lessees(q)
    BY <1>1 DEF Lessees
  <2>2. pool[p].threads # 0
    BY <1>3 DEF Leases, Lessees
  <2>3. /\ \A q \in Pools : pool'[q].threads = pool[q].threads /\ pool'[q].active = pool[q].active
             /\ pool'[q].retiring = pool[q].retiring /\ pool'[q].stopped = pool[q].stopped
      /\ \A q \in Pools : pool[q].threads = 0 => pool'[q] = pool[q] /\ busy'[q] = busy[q] /\ idle'[q] = idle[q]
    BY <1>7, <1>9, <2>2
  <2>4. rowPool \in Pools \cup {None}
    BY DEF Types
  <2> QED BY <1>1, <2>1, <2>3, <2>4 DEF Leases
<1>15. Bounds'
  <2>1. Cardinality(pool[p].jobs \ {job}) = Cardinality(pool[p].jobs) - 1 /\ Cardinality(pool[p].jobs) \in Nat
    BY <1>12, FS_RemoveElement, FS_CardinalityType
  <2>2. Cardinality(busy[p] \cup {w}) = Cardinality(busy[p]) + 1 /\ Cardinality(busy[p]) \in Nat
    BY <1>8, <1>12, FS_AddElement, FS_CardinalityType
  <2>3. pool[p].threads * Over \in Nat
    <3>1. \A a, b \in Nat : a * b \in Nat
      OBVIOUS
    <3> QED BY <1>5, <3>1, EndNat, SizesAssumption DEF Pool
  <2>4. ASSUME NEW q \in Pools
        PROVE  /\ Cardinality(pool'[q].jobs) <= pool'[q].threads * Over
               /\ idle'[q] + Cardinality(busy'[q]) <= pool'[q].threads
    <3>1. CASE q = p
      <4>1. /\ Cardinality(pool[p].jobs) <= pool[p].threads * Over
            /\ idle[p] + Cardinality(busy[p]) <= pool[p].threads
        BY DEF Bounds
      <4>2. Cardinality(pool[p].jobs \ {job}) <= pool[p].threads * Over
        BY <2>1, <2>3, <4>1
      <4>3. (idle[p] - 1) + Cardinality(busy[p] \cup {w}) <= pool[p].threads
        BY <1>5, <2>2, <4>1
      <4> QED BY <1>7, <1>9, <3>1, <4>2, <4>3
    <3>2. CASE q # p
      BY <1>9, <3>2 DEF Bounds
    <3> QED BY <3>1, <3>2
  <2> QED BY <2>4 DEF Bounds
<1>16. ASSUME NEW e \in Dispatchers PROVE PerCall(e)'
  <2>1. CASE e = d
    <3>1. Jobs(d)' = Jobs(d) \ {job}
      BY <1>1, <1>3, <1>7, <1>9 DEF Jobs, JobsOf
    <3>2. With(d)' = With(d) \cup {w}
      BY <1>1, <1>3, <1>8, <1>9 DEF With, BusyWith
    <3> QED BY <1>1, <1>3, <1>a, <2>1, <3>1, <3>2 DEF PerCall, Calls
  <2>2. CASE e # d
    <3>1. ASSUME disp[e].object # None PROVE Jobs(e)' = Jobs(e) /\ With(e)' = With(e)
      <4>1. disp[e].pool \in Pools /\ disp[e].object # job.object
        BY <1>3, <2>2, <3>1, CallTypes DEF AtItsLine
      <4>2. Jobs(e)' = Jobs(e)
        BY <1>1, <1>7, <1>9, <4>1 DEF Jobs, JobsOf
      <4>3. With(e)' = With(e)
        BY <1>1, <1>8, <1>9, <4>1 DEF With, BusyWith
      <4> QED BY <4>2, <4>3
    <3> QED BY <1>1, <3>1, CallUntouched DEF Types, Calls
  <2> QED BY <2>1, <2>2
<1> QED BY <1>10, <1>11, <1>13, <1>14, <1>15, <1>16 DEF Calls

\* What a worker's step with one of its jobs is about.
LEMMA WorkerStep ==
    ASSUME IInv, NEW p \in Pools, NEW w \in busy[p]
    PROVE  \E d \in Dispatchers :
             /\ disp[d].pool = p /\ disp[d].object = w.job.object /\ w \in With(d)
             /\ disp[d].pc \in {"send", "run"} /\ disp[d].object \in Objects \ free
             /\ disp[d] \in Locals /\ AtItsLine(disp[d]) /\ object[disp[d].object] \in Object
             /\ Jobs(d) \in SUBSET Job /\ With(d) \in SUBSET Worker /\ ran[d] \in [Chunk -> Nat]
             /\ disp[d].sent <= disp[d].parts
             /\ Sharing(d, disp[d], object[disp[d].object], Jobs(d), With(d), ran[d])
             /\ \A e \in Dispatchers : e # d => disp[e].object # disp[d].object
<1>1. PICK d \in Dispatchers : SentBy(d, p, w.job) /\ disp[d].object # None /\ w \in With(d)
  BY RefersToCall DEF IInv
<1>2. /\ disp[d].pc \in {"send", "run", "put"} /\ disp[d].object \in Objects \ free
      /\ Sharing(d, disp[d], object[disp[d].object], Jobs(d), With(d), ran[d])
      /\ \A e \in Dispatchers : e # d => disp[e].object # disp[d].object
  BY <1>1, WorkerCall DEF SentBy
<1>3. disp[d].pc # "put"
  BY <1>1, PutReady DEF At
<1>4. /\ disp[d] \in Locals /\ AtItsLine(disp[d]) /\ object[disp[d].object] \in Object
      /\ Jobs(d) \in SUBSET Job /\ With(d) \in SUBSET Worker /\ ran[d] \in [Chunk -> Nat]
      /\ disp[d].sent <= disp[d].parts
  BY <1>2, CallTypes DEF IInv
<1> QED BY <1>1, <1>2, <1>3, <1>4 DEF SentBy

\* A step that only changes what one pool's workers are doing keeps the pools' clauses.
LEMMA WorkersMove ==
    ASSUME IInv, NEW p \in Pools, busy[p] # {}, UNCHANGED <<rowPool, pool, disp, free>>,
           busy' \in [Pools -> SUBSET Worker], idle' \in [Pools -> Nat],
           \A q \in Pools : q # p => busy'[q] = busy[q] /\ idle'[q] = idle[q],
           \A u \in busy'[p] : \E w \in busy[p] : u.job = w.job,
           IsFiniteSet(busy'[p]),
           idle'[p] + Cardinality(busy'[p]) = idle[p] + Cardinality(busy[p])
    PROVE  JobsSent' /\ Leases' /\ Bounds'
<1> USE DEF IInv
<1>1. \A e \in Dispatchers, q \in Pools, j \in Job : SentBy(e, q, j)' <=> SentBy(e, q, j)
  BY DEF SentBy
<1>2. \A q \in Pools : pool[q].jobs \subseteq Job /\ \A u \in busy[q] : u.job \in Job
  BY DEF Types, Pool, Worker
<1>3. JobsSent'
  <2>1. ASSUME NEW q \in Pools
        PROVE  /\ \A j \in pool'[q].jobs : \E e \in Dispatchers : SentBy(e, q, j)'
               /\ \A u \in busy'[q] : \E e \in Dispatchers : SentBy(e, q, u.job)'
               /\ IsFiniteSet(pool'[q].jobs) /\ IsFiniteSet(busy'[q])
    <3>1. CASE q = p
      BY <1>1, <1>2, <3>1 DEF JobsSent
    <3>2. CASE q # p
      BY <1>1, <1>2, <3>2 DEF JobsSent
    <3> QED BY <3>1, <3>2
  <2> QED BY <2>1 DEF JobsSent
<1>4. Leases'
  <2>1. \A q : Lessees(q)' = Lessees(q)
    BY DEF Lessees
  <2>2. pool[p].threads # 0
    BY DEF Leases
  <2> QED BY <2>1, <2>2 DEF Leases
<1>5. Bounds'
  <2>1. ASSUME NEW q \in Pools PROVE idle'[q] + Cardinality(busy'[q]) <= pool[q].threads
    BY DEF Bounds
  <2> QED BY <2>1 DEF Bounds
<1> QED BY <1>3, <1>4, <1>5

\* RunJob (rowWorker) keeps the invariant.
LEMMA RunJobInv ==
    ASSUME IInv, NEW p \in Pools, NEW w \in busy[p], RunJob(p, w)
    PROVE  IInv'
<1> USE DEF IInv, At
<1>1. PICK d \in Dispatchers :
        /\ disp[d].pool = p /\ disp[d].object = w.job.object /\ w \in With(d)
        /\ disp[d].pc \in {"send", "run"} /\ disp[d].object \in Objects \ free
        /\ disp[d] \in Locals /\ AtItsLine(disp[d]) /\ object[disp[d].object] \in Object
        /\ Jobs(d) \in SUBSET Job /\ With(d) \in SUBSET Worker /\ ran[d] \in [Chunk -> Nat]
        /\ disp[d].sent <= disp[d].parts
        /\ Sharing(d, disp[d], object[disp[d].object], Jobs(d), With(d), ran[d])
        /\ \A e \in Dispatchers : e # d => disp[e].object # disp[d].object
  BY WorkerStep
<1> DEFINE o == disp[d].object
           b == object[o]
           x == [w EXCEPT !.chunk = After(disp[d], b)]
           runs == [ran[d] EXCEPT ![w.chunk] = @ + 1]
<1>2. w \in Worker /\ w.chunk # End /\ w.chunk \in Chunk
  BY <1>1, EndNat DEF RunJob, Worker, Chunk
<1>3. w.job.fn = (IF disp[d].batch THEN None ELSE d) /\ (disp[d].batch => b.fn = d) /\ d # None
  BY <1>1, SizesAssumption DEF Sharing, Queued, Batch
<1>4. /\ ran' = [ran EXCEPT ![d] = runs] /\ object' = [object EXCEPT ![o] = Moved(disp[d], b)]
      /\ busy' = [busy EXCEPT ![p] = (@ \ {w}) \cup {x}]
      /\ UNCHANGED <<rowPool, pool, idle, free, disp>>
  <2>1. CASE disp[d].batch
    <3>1. /\ RunFor(d, w.chunk) /\ AdvanceNext(o)
          /\ busy' = [busy EXCEPT ![p] = (@ \ {w}) \cup {[w EXCEPT !.chunk = Claimed(o)]}]
      BY <1>1, <1>3, <2>1 DEF RunJob
    <3>2. Claimed(o) = After(disp[d], b) /\ Moved(disp[d], b) = [object[o] EXCEPT !.next = @ + 1]
      BY <2>1 DEF Claimed, After, NextOf, Moved, Advanced
    <3> QED BY <3>1, <3>2 DEF RunFor, AdvanceNext, RunJob
  <2>2. CASE ~disp[d].batch
    <3>1. /\ RunFor(d, w.chunk) /\ object' = object
          /\ busy' = [busy EXCEPT ![p] = (@ \ {w}) \cup {[w EXCEPT !.chunk = End]}]
      BY <1>1, <1>3, <2>2 DEF RunJob
    <3>2. After(disp[d], b) = End /\ Moved(disp[d], b) = object[o]
      BY <2>2 DEF After, Moved
    <3>3. object' = [object EXCEPT ![o] = object[o]]
      BY <1>1, <3>1 DEF Types
    <3> QED BY <3>1, <3>2, <3>3 DEF RunFor, RunJob
  <2> QED BY <2>1, <2>2
<1>5. /\ After(disp[d], b) \in 0 .. End /\ Moved(disp[d], b) \in Object /\ Moved(disp[d], b).wg = b.wg
  <2>1. Batch(d, disp[d], b) /\ disp[d].pc # "idle"
    BY <1>1 DEF Sharing
  <2> QED BY <1>1, <2>1, MovedOn
<1>6. Sharing(d, disp[d], Moved(disp[d], b), Jobs(d), (With(d) \ {w}) \cup {x}, runs)
  <2>1. disp[d].pc # "idle"
    BY <1>1
  <2> QED BY <1>1, <1>2, <2>1, SharingRunJob
<1>7. x \in Worker /\ x.job = w.job
  BY <1>2, <1>5 DEF Worker
<1>8. runs \in [Chunk -> Nat] /\ ran'[d] = runs /\ \A e \in Dispatchers : e # d => ran'[e] = ran[e]
  BY <1>1, <1>2, <1>4 DEF Types
<1>9. x \notin busy[p] \ {w}
  <2>1. \A u \in busy[p] : u.job = w.job => u \in With(d)
    BY <1>1 DEF With, BusyWith
  <2>2. \A u \in With(d) : u.job = w.job => u = w
    BY <1>1 DEF Sharing, Queued
  <2> QED BY <1>7, <2>1, <2>2
<1> HIDE DEF x, runs, b, o
<1>10. object'[o] = Moved(disp[d], b) /\ \A y \in Objects : y # o => object'[y] = object[y]
  BY <1>1, <1>4 DEF Types, o
<1>11. /\ busy' \in [Pools -> SUBSET Worker] /\ busy'[p] = (busy[p] \ {w}) \cup {x}
       /\ \A q \in Pools : q # p => busy'[q] = busy[q]
  BY <1>4, <1>7 DEF Types
<1>12. Types'
  BY <1>1, <1>4, <1>5, <1>8, <1>11 DEF Types, o
<1>13. Owners'
  <2>1. \A y \in free' : object'[y].wg = 0
    BY <1>1, <1>4, <1>10 DEF Owners, Types, o
  <2> QED BY <1>4, <2>1 DEF Owners
<1>14. JobsSent' /\ Leases' /\ Bounds'
  <2>1. IsFiniteSet(busy[p])
    BY DEF JobsSent
  <2>2. IsFiniteSet(busy[p] \ {w}) /\ Cardinality(busy[p] \ {w}) = Cardinality(busy[p]) - 1 /\ Cardinality(busy[p]) \in Nat
    BY <2>1, FS_RemoveElement, FS_CardinalityType
  <2>3. IsFiniteSet(busy'[p]) /\ Cardinality(busy'[p]) = Cardinality(busy[p] \ {w}) + 1
    <3> DEFINE S == busy[p] \ {w}
    <3>1. IsFiniteSet(S) /\ x \notin S
      BY <1>9, <2>2
    <3> HIDE DEF S
    <3>2. IsFiniteSet(S \cup {x}) /\ Cardinality(S \cup {x}) = Cardinality(S) + 1
      BY <3>1, FS_AddElement
    <3> QED BY <1>11, <3>2 DEF S
  <2>4. Cardinality(busy'[p]) = Cardinality(busy[p])
    BY <2>2, <2>3
  <2>5. \A u \in busy'[p] : \E v \in busy[p] : u.job = v.job
    BY <1>7, <1>11
  <2>6. idle' \in [Pools -> Nat] /\ idle' = idle
    BY <1>4 DEF Types
  <2>7. idle'[p] + Cardinality(busy'[p]) = idle[p] + Cardinality(busy[p])
    BY <2>4, <2>6
  <2>8. \A q \in Pools : q # p => busy'[q] = busy[q] /\ idle'[q] = idle[q]
    BY <1>11, <2>6
  <2> QED BY <1>4, <1>11, <2>3, <2>5, <2>6, <2>7, <2>8, WorkersMove
<1>15. ASSUME NEW e \in Dispatchers PROVE PerCall(e)'
  <2>0. Jobs(e)' = Jobs(e)
    BY <1>4 DEF Jobs, JobsOf
  <2>1. CASE e = d
    <3>1. With(d)' = (With(d) \ {w}) \cup {x}
      BY <1>1, <1>4, <1>7, <1>11 DEF With, BusyWith
    <3> QED BY <1>1, <1>4, <1>6, <1>8, <1>10, <2>0, <2>1, <3>1 DEF PerCall, o
  <2>2. CASE e # d
    <3>1. ASSUME disp[e].object # None PROVE With(e)' = With(e) /\ object'[disp[e].object] = object[disp[e].object]
      <4>1. disp[e].pool \in Pools /\ disp[e].object # w.job.object /\ disp[e].object # o /\ disp[e].object \in Objects
        BY <1>1, <2>2, <3>1, CallTypes DEF AtItsLine, o, Locals
      <4>2. With(e)' = With(e)
        BY <1>1, <1>4, <1>7, <1>11, <4>1 DEF With, BusyWith
      <4> QED BY <1>10, <4>1, <4>2
    <3> QED BY <1>4, <1>8, <2>0, <2>2, <3>1, CallUntouched DEF Types, Calls
  <2> QED BY <2>1, <2>2
<1> QED BY <1>12, <1>13, <1>14, <1>15 DEF Calls

\* Done (rowWorker) keeps the invariant.
LEMMA DoneInv ==
    ASSUME IInv, NEW p \in Pools, NEW w \in busy[p], Done(p, w)
    PROVE  IInv'
<1> USE DEF IInv, At
<1>1. PICK d \in Dispatchers :
        /\ disp[d].pool = p /\ disp[d].object = w.job.object /\ w \in With(d)
        /\ disp[d].pc \in {"send", "run"} /\ disp[d].object \in Objects \ free
        /\ disp[d] \in Locals /\ AtItsLine(disp[d]) /\ object[disp[d].object] \in Object
        /\ Jobs(d) \in SUBSET Job /\ With(d) \in SUBSET Worker /\ ran[d] \in [Chunk -> Nat]
        /\ disp[d].sent <= disp[d].parts
        /\ Sharing(d, disp[d], object[disp[d].object], Jobs(d), With(d), ran[d])
        /\ \A e \in Dispatchers : e # d => disp[e].object # disp[d].object
  BY WorkerStep
<1> DEFINE o == disp[d].object
           b == object[o]
           new == [b EXCEPT !.wg = @ - 1]
<1>2. /\ w.chunk = End /\ object' = [object EXCEPT ![o] = new]
      /\ busy' = [busy EXCEPT ![p] = @ \ {w}] /\ idle' = [idle EXCEPT ![p] = @ + 1]
      /\ UNCHANGED <<rowPool, pool, free, disp, ran>>
  BY <1>1 DEF Done
<1>3. b.wg - 1 \in Nat /\ Sharing(d, disp[d], new, Jobs(d), With(d) \ {w}, ran[d])
  BY <1>1, <1>2, SharingDone
<1>4. new \in Object
  BY <1>1, <1>3 DEF Object
<1> HIDE DEF new, b, o
<1>5. object'[o] = new /\ \A y \in Objects : y # o => object'[y] = object[y]
  BY <1>1, <1>2 DEF Types, o
<1>6. /\ busy' \in [Pools -> SUBSET Worker] /\ busy'[p] = busy[p] \ {w}
      /\ \A q \in Pools : q # p => busy'[q] = busy[q]
      /\ idle' \in [Pools -> Nat] /\ idle'[p] = idle[p] + 1 /\ idle[p] \in Nat
      /\ \A q \in Pools : q # p => idle'[q] = idle[q]
  BY <1>2 DEF Types
<1>7. Types'
  BY <1>1, <1>2, <1>4, <1>6 DEF Types, o
<1>8. Owners'
  <2>1. \A y \in free' : object'[y].wg = 0
    BY <1>1, <1>2, <1>5 DEF Owners, Types, o
  <2> QED BY <1>2, <2>1 DEF Owners
<1>9. JobsSent' /\ Leases' /\ Bounds'
  <2>1. IsFiniteSet(busy[p])
    BY DEF JobsSent
  <2>2. IsFiniteSet(busy'[p]) /\ Cardinality(busy'[p]) = Cardinality(busy[p]) - 1 /\ Cardinality(busy[p]) \in Nat
    BY <1>6, <2>1, FS_RemoveElement, FS_CardinalityType
  <2>3. \A u \in busy'[p] : \E v \in busy[p] : u.job = v.job
    BY <1>6
  <2>4. idle'[p] + Cardinality(busy'[p]) = idle[p] + Cardinality(busy[p])
    BY <1>6, <2>2
  <2> QED BY <1>2, <1>6, <2>2, <2>3, <2>4, WorkersMove
<1>10. ASSUME NEW e \in Dispatchers PROVE PerCall(e)'
  <2>0. Jobs(e)' = Jobs(e)
    BY <1>2 DEF Jobs, JobsOf
  <2>1. CASE e = d
    <3>1. With(d)' = With(d) \ {w}
      BY <1>1, <1>2, <1>6 DEF With, BusyWith
    <3> QED BY <1>1, <1>2, <1>3, <1>5, <2>0, <2>1, <3>1 DEF PerCall, o
  <2>2. CASE e # d
    <3>1. ASSUME disp[e].object # None PROVE With(e)' = With(e) /\ object'[disp[e].object] = object[disp[e].object]
      <4>1. disp[e].pool \in Pools /\ disp[e].object # w.job.object /\ disp[e].object # o /\ disp[e].object \in Objects
        BY <1>1, <2>2, <3>1, CallTypes DEF AtItsLine, o, Locals
      <4>2. With(e)' = With(e)
        BY <1>1, <1>2, <1>6, <4>1 DEF With, BusyWith
      <4> QED BY <1>5, <4>1, <4>2
    <3> QED BY <1>2, <2>0, <2>2, <3>1, CallUntouched DEF Types, Calls
  <2> QED BY <2>1, <2>2
<1> QED BY <1>7, <1>8, <1>9, <1>10 DEF Calls

\* A stopped pool has no lessee, so no queued job and no busy worker.
LEMMA StoppedUnused ==
    ASSUME IInv, NEW p \in Pools, pool[p].stopped
    PROVE  /\ p # rowPool /\ Lessees(p) = {} /\ pool[p].jobs = {} /\ busy[p] = {}
           /\ pool[p].threads # 0
<1> USE DEF IInv
<1>1. pool[p].threads # 0
  BY DEF Leases, NoPool
<1>2. p # rowPool /\ pool[p].active = 0 /\ pool[p].active = Cardinality(Lessees(p))
  BY <1>1 DEF Leases
<1>3. IsFiniteSet(Lessees(p))
  BY SizesAssumption, FS_Subset DEF Lessees
<1>4. Lessees(p) = {}
  BY <1>2, <1>3, FS_EmptySet
<1>5. pool[p].jobs = {} /\ busy[p] = {}
  BY <1>4 DEF JobsSent, SentBy, Lessees
<1> QED BY <1>1, <1>2, <1>4, <1>5

\* Stop (rowWorker) keeps the invariant.
LEMMA StopInv ==
    ASSUME IInv, NEW p \in Pools, Stop(p)
    PROVE  IInv'
<1> USE DEF IInv, At
<1>1. /\ idle[p] > 0 /\ pool[p].stopped /\ idle' = [idle EXCEPT ![p] = @ - 1]
      /\ pool' = IF idle[p] = 1 /\ busy[p] = {} THEN [pool EXCEPT ![p] = NoPool] ELSE pool
      /\ UNCHANGED <<rowPool, busy, object, free, disp, ran>>
  BY DEF Stop
<1>2. p # rowPool /\ Lessees(p) = {} /\ pool[p].jobs = {} /\ busy[p] = {} /\ pool[p].threads # 0
  BY <1>1, StoppedUnused
<1>3. NoPool \in Pool /\ NoPool.jobs = {} /\ NoPool.threads = 0
  BY DEF NoPool, Pool
<1>4. /\ idle' \in [Pools -> Nat] /\ idle'[p] = idle[p] - 1 /\ idle[p] \in Nat
      /\ \A q \in Pools : q # p => idle'[q] = idle[q]
  BY <1>1 DEF Types
<1>5. /\ pool' \in [Pools -> Pool] /\ \A q \in Pools : q # p => pool'[q] = pool[q]
      /\ \A q \in Pools : pool'[q].jobs = pool[q].jobs
      /\ \/ pool'[p] = pool[p] /\ idle[p] # 1
         \/ pool'[p] = NoPool /\ idle[p] = 1
  BY <1>1, <1>2, <1>3 DEF Types
<1>6. Types'
  BY <1>1, <1>4, <1>5 DEF Types
<1>7. Owners'
  BY <1>1 DEF Owners
<1>8. JobsSent'
  <2>1. \A e \in Dispatchers, q \in Pools, j \in Job : SentBy(e, q, j)' <=> SentBy(e, q, j)
    BY <1>1 DEF SentBy
  <2>2. \A q \in Pools : pool[q].jobs \subseteq Job /\ \A u \in busy[q] : u.job \in Job
    BY DEF Types, Pool, Worker
  <2> QED BY <1>1, <1>5, <2>1, <2>2 DEF JobsSent
<1>9. Leases'
  <2>1. \A q : Lessees(q)' = Lessees(q)
    BY <1>1 DEF Lessees
  <2>2. ASSUME NEW q \in Pools, pool'[q].threads = 0
        PROVE  pool'[q] = NoPool /\ busy'[q] = {} /\ idle'[q] = 0 /\ Lessees(q)' = {}
    <3>1. CASE q = p
      BY <1>1, <1>2, <1>4, <1>5, <2>1, <2>2, <3>1
    <3>2. CASE q # p
      BY <1>1, <1>4, <1>5, <2>1, <2>2, <3>2 DEF Leases
    <3> QED BY <3>1, <3>2
  <2>3. ASSUME NEW q \in Pools, pool'[q].threads # 0
        PROVE  /\ pool'[q].active = Cardinality(Lessees(q)')
               /\ pool'[q].retiring <=> q # rowPool
               /\ pool'[q].stopped <=> pool'[q].retiring /\ pool'[q].active = 0
    <3>1. pool'[q] = pool[q] /\ Lessees(q)' = Lessees(q)
      BY <1>3, <1>5, <2>1, <2>3
    <3> QED BY <2>3, <3>1 DEF Leases
  <2>4. rowPool # None => pool'[rowPool].threads # 0
    BY <1>2, <1>5 DEF Leases, Types
  <2> QED BY <1>1, <2>2, <2>3, <2>4 DEF Leases
<1>10. Bounds'
  <2>1. Cardinality({}) = 0
    BY FS_EmptySet
  <2>2. ASSUME NEW q \in Pools
        PROVE  /\ Cardinality(pool'[q].jobs) <= pool'[q].threads * Over
               /\ idle'[q] + Cardinality(busy'[q]) <= pool'[q].threads
    <3>1. CASE q = p /\ pool'[p] = NoPool
      <4>1. 0 * Over = 0
        BY EndNat
      <4>2. idle[p] = 1
        BY <1>2, <1>3, <1>5, <3>1
      <4>3. /\ pool'[q].threads = 0 /\ pool'[q].jobs = {} /\ idle'[q] = 0 /\ busy'[q] = {}
        BY <1>1, <1>2, <1>3, <1>4, <3>1, <4>2
      <4> QED BY <2>1, <4>1, <4>3
    <3>2. CASE q = p /\ pool'[p] = pool[p]
      <4>1. Cardinality(busy[p]) \in Nat /\ idle[p] + Cardinality(busy[p]) <= pool[p].threads
        <5>1. Cardinality(busy[p]) = 0
          BY <1>2, <2>1
        <5> QED BY <5>1 DEF Bounds
      <4>2. idle[p] - 1 + Cardinality(busy[p]) <= pool[p].threads
        <5>1. pool[p].threads \in Nat
          <6>1. pool[p] \in Pool
            BY DEF Types
          <6>2. pool[p].threads \in PoolSizes \cup {0}
            BY <6>1 DEF Pool
          <6>3. \A t \in PoolSizes \cup {0} : t \in Nat
            BY SizesAssumption
          <6> QED BY <6>2, <6>3
        <5> QED BY <1>4, <4>1, <5>1
      <4> QED BY <1>1, <1>4, <3>2, <4>2 DEF Bounds
    <3>3. CASE q # p
      BY <1>1, <1>4, <1>5, <3>3 DEF Bounds
    <3> QED BY <1>5, <3>1, <3>2, <3>3
  <2> QED BY <2>2 DEF Bounds
<1>11. ASSUME NEW e \in Dispatchers PROVE PerCall(e)'
  <2>1. ASSUME disp[e].object # None PROVE Jobs(e)' = Jobs(e) /\ With(e)' = With(e)
    <3>1. disp[e].pool \in Pools
      BY <2>1, CallTypes DEF AtItsLine
    <3> QED BY <1>1, <1>5, <3>1 DEF Jobs, With, JobsOf, BusyWith
  <2> QED BY <1>1, <2>1, CallUntouched DEF Types, Calls
<1> QED BY <1>6, <1>7, <1>8, <1>9, <1>10, <1>11 DEF Calls

-----------------------------------------------------------------------------
(* The invariant holds, and what it says.                                   *)

\* No pool, every object in its sync.Pool: the invariant holds at first.
LEMMA InitHolds == Init => IInv
<1> SUFFICES ASSUME Init PROVE IInv
  OBVIOUS
<1>1. NoPool \in Pool /\ NoObject \in Object /\ NoCall \in Locals
  BY EndNat DEF NoPool, NoObject, NoCall, Pool, Object, Locals
<1>2. /\ NoCall.pc = "idle" /\ NoCall.pool = None /\ NoCall.object = None
      /\ NoObject.wg = 0 /\ NoPool.jobs = {} /\ NoPool.threads = 0
  BY DEF NoCall, NoObject, NoPool
<1>3. Zero \in [Chunk -> Nat]
  BY DEF Zero
<1>4. Types
  BY <1>1, <1>2, <1>3 DEF Init, Types, AtItsLine
<1>5. Owners
  BY <1>2, SizesAssumption DEF Init, Owners
<1>6. JobsSent
  BY <1>2, FS_EmptySet DEF Init, JobsSent
<1>7. Leases
  BY <1>2, SizesAssumption DEF Init, Leases, Lessees
<1>8. Bounds
  <2>1. 0 * Over = 0 /\ Cardinality({}) = 0
    BY EndNat, FS_EmptySet
  <2> QED BY <1>2, <2>1 DEF Init, Bounds
<1>9. Calls
  BY <1>2 DEF Init, Calls, PerCall, At
<1> QED BY <1>4, <1>5, <1>6, <1>7, <1>8, <1>9 DEF IInv

\* Every step of a dispatch or a worker keeps the invariant.
LEMMA StepHolds == IInv /\ [Next]_vars => IInv'
<1> SUFFICES ASSUME IInv, [Next]_vars PROVE IInv'
  OBVIOUS
<1>1. ASSUME NEW d \in Dispatchers, Begin(d) \/ Dispatch(d) PROVE IInv'
  BY <1>1, BeginInv, ReuseInv, ReplaceInv, PrepareInv, SendInv, EndSendInv, RunOwnInv, PutInv, ReleaseInv DEF Dispatch
<1>2. ASSUME NEW p \in Pools, Work(p) PROVE IInv'
  BY <1>2, TakeJobInv, RunJobInv, DoneInv, StopInv DEF Work
<1>3. ASSUME UNCHANGED vars PROVE IInv'
  <2>1. UNCHANGED <<rowPool, pool, idle, busy, object, free, disp, ran>>
    BY <1>3 DEF vars
  <2>2. Types' /\ Owners'
    BY <2>1 DEF IInv, Types, Owners
  <2>3. JobsSent' /\ Leases' /\ Bounds'
    BY <2>1, JobsSentKept, LeasesKept DEF IInv
  <2>4. Calls'
    <3> SUFFICES ASSUME NEW d \in Dispatchers PROVE PerCall(d)'
      BY DEF Calls
    <3>1. Jobs(d)' = Jobs(d) /\ With(d)' = With(d)
      BY <2>1 DEF Jobs, With, JobsOf, BusyWith
    <3> QED BY <2>1, <3>1, CallUntouched DEF IInv, Types, Calls
  <2> QED BY <2>2, <2>3, <2>4 DEF IInv
<1> QED BY <1>1, <1>2, <1>3 DEF Next

\* The inductive invariant holds in every state of dispatchParallelMode and rowWorker.
THEOREM Invariance == Spec => []IInv
BY InitHolds, StepHolds, PTL DEF Spec

\* A pool is retired exactly when it is not the current one, it is stopped exactly when it is
\* retired and unused (releaseRowWorkerPool, retireRowWorkerPoolLocked), and no job is stranded
\* in a stopped pool; the pool's channel and its workers stay within what it was made for.
THEOREM PoolsRetire == Spec => []StoppedExactlyWhenRetired
<1>1. IInv => StoppedExactlyWhenRetired
  <2> SUFFICES ASSUME IInv PROVE StoppedExactlyWhenRetired
    OBVIOUS
  <2> USE DEF IInv
  <2>1. ASSUME NEW p \in Pools
        PROVE  /\ pool[p].threads \in PoolSizes \cup {0}
               /\ pool[p].active \in 0 .. Cardinality(Dispatchers)
    <3>1. pool[p] \in Pool
      BY DEF Types
    <3>2. Cardinality(Dispatchers) \in Nat
      BY SizesAssumption, FS_CardinalityType
    <3>3. CASE pool[p].threads = 0
      BY <3>1, <3>2, <3>3 DEF Leases, NoPool, Pool
    <3>4. CASE pool[p].threads # 0
      <4>1. Cardinality(Lessees(p)) <= Cardinality(Dispatchers)
        BY SizesAssumption, FS_Subset DEF Lessees
      <4>2. pool[p].active = Cardinality(Lessees(p)) /\ pool[p].active \in Nat
        BY <3>1, <3>4 DEF Leases, Pool
      <4> QED BY <3>1, <3>2, <4>1, <4>2 DEF Pool
    <3> QED BY <3>3, <3>4
  <2>2. ASSUME NEW o \in Objects
        PROVE  object[o].wg \in 0 .. MaxThreads - 1 /\ object[o].fn \in Dispatchers \cup {None}
    <3>1. object[o] \in Object
      BY DEF Types
    <3>2. CASE o \in free
      <4>1. object[o].wg = 0
        BY <3>2 DEF Owners
      <4> QED BY <3>1, <4>1, EndNat DEF Object
    <3>3. CASE o \notin free
      <4>1. PICK d \in Dispatchers : disp[d].object = o
        BY <3>3 DEF Owners
      <4>2. disp[d] \in Locals /\ AtItsLine(disp[d]) /\ disp[d].pc \in {"send", "run", "put"}
        BY <4>1, CallTypes, SizesAssumption DEF AtItsLine
      <4>3. object[o].wg <= disp[d].parts - 1
        BY <4>1, <4>2 DEF Calls, PerCall, Sharing, Counted
      <4>4. disp[d].parts \in 2 .. MaxThreads
        BY <4>2, ChunksBound
      <4> QED BY <3>1, <4>3, <4>4, EndNat DEF Object
    <3> QED BY <3>2, <3>3
  <2>3. \A d \in Dispatchers : disp[d].pool \in Pools \cup {None} /\ disp[d].object \in Objects \cup {None}
    BY DEF Types, Locals
  <2>4. TypeOK
    BY <2>1, <2>2, <2>3 DEF TypeOK, Bounds, Types
  <2>5. ASSUME NEW p \in Pools, pool[p].threads # 0
        PROVE  /\ pool[p].active = Cardinality({d \in Dispatchers : disp[d].pool = p})
               /\ pool[p].retiring <=> p # rowPool
               /\ pool[p].stopped <=> pool[p].retiring /\ pool[p].active = 0
               /\ pool[p].stopped => pool[p].jobs = {}
    <3>1. pool[p].stopped => pool[p].jobs = {}
      BY StoppedUnused
    <3> QED BY <2>5, <3>1 DEF Leases, Lessees
  <2> QED BY <2>4, <2>5 DEF StoppedExactlyWhenRetired
<1> QED BY <1>1, Invariance, PTL

\* The WaitGroups and batches that go round through their sync.Pool are with one call at a time:
\* no job or worker of an earlier call still refers to one (dispatchRowBatch, rowWorker).
THEOREM ObjectsApart == Spec => []ObjectIsolation
<1>1. IInv => ObjectIsolation
  <2> SUFFICES ASSUME IInv PROVE ObjectIsolation
    OBVIOUS
  <2> USE DEF IInv
  <2> DEFINE jobs(o) == {job \in UNION {pool[p].jobs : p \in Pools} : job.object = o}
             busyWith(o) == {w \in UNION {busy[p] : p \in Pools} : w.job.object = o}
             owners(o) == {d \in Dispatchers : disp[d].object = o}
  <2>1. ASSUME NEW o \in Objects, o \in free PROVE jobs(o) = {} /\ busyWith(o) = {} /\ owners(o) = {}
    <3>1. owners(o) = {}
      BY <2>1 DEF Owners
    <3>2. ASSUME NEW p \in Pools PROVE (\A job \in pool[p].jobs : job.object # o) /\ \A w \in busy[p] : w.job.object # o
      BY <2>1 DEF JobsSent, SentBy, Owners
    <3> QED BY <3>1, <3>2
  <2>2. ASSUME NEW o \in Objects, o \notin free
        PROVE  \E d \in owners(o) :
                 /\ owners(o) = {d}
                 /\ object[o].wg = Cardinality(jobs(o)) + Cardinality(busyWith(o))
                                    + disp[d].parts - (IF At(d, "send") THEN disp[d].sent ELSE disp[d].parts)
    <3>1. PICK d \in Dispatchers : disp[d].object = o
      BY <2>2 DEF Owners
    <3>2. disp[d].object # None /\ owners(o) = {d}
      BY <3>1, SizesAssumption DEF Owners
    <3>3. /\ disp[d] \in Locals /\ AtItsLine(disp[d]) /\ disp[d].pc \in {"send", "run", "put"}
          /\ disp[d].pool \in Pools
      BY <3>2, CallTypes DEF AtItsLine
    <3>4. jobs(o) = Jobs(d) /\ busyWith(o) = With(d)
      <4>1. ASSUME NEW p \in Pools
            PROVE  /\ \A job \in pool[p].jobs : job.object = o => p = disp[d].pool
                   /\ \A w \in busy[p] : w.job.object = o => p = disp[d].pool
        BY <3>1, <3>2 DEF JobsSent, SentBy, Owners
      <4>2. jobs(o) = Jobs(d)
        BY <3>1, <3>3, <4>1 DEF Jobs, JobsOf
      <4>3. busyWith(o) = With(d)
        BY <3>1, <3>3, <4>1 DEF With, BusyWith
      <4> QED BY <4>2, <4>3
    <3>5. object[o].wg = Cardinality(Jobs(d)) + Cardinality(With(d)) + disp[d].parts - disp[d].sent
      BY <3>1, <3>3 DEF Calls, PerCall, Sharing, Counted
    <3>6. ~At(d, "send") => disp[d].sent = disp[d].parts
      BY <3>3 DEF AtItsLine, At
    <3> HIDE DEF jobs, busyWith, owners
    <3> QED BY <3>2, <3>4, <3>5, <3>6
  <2> QED BY <2>1, <2>2 DEF ObjectIsolation
<1> QED BY <1>1, Invariance, PTL

\* Each row of a call has been computed once when the call has waited for its participants
\* (dispatchParallelMode, rowBatch.runRows), whatever the row count.
THEOREM RowsDone == Spec => []RowsComputedOnce
<1>1. IInv => RowsComputedOnce
  <2> SUFFICES ASSUME IInv, NEW d \in Dispatchers, NEW n \in RowCounts, disp[d].pc \in {"put", "release"},
                      NEW r \in 0 .. n
               PROVE  LET computedBy == {c \in Chunk : ran[d][c] > 0 /\ r \in RowsOf(n, Chunks(d), c)}
                      IN  /\ Cardinality(computedBy) = IF r < n THEN 1 ELSE 0
                          /\ \A c \in computedBy : ran[d][c] = 1
    BY DEF RowsComputedOnce
  <2> DEFINE k == Chunks(d)
             computedBy == {c \in Chunk : ran[d][c] > 0 /\ r \in RowsOf(n, k, c)}
  <2>1. k \in Nat \ {0} /\ k <= End
    <3>1. disp[d] \in Locals /\ AtItsLine(disp[d]) /\ disp[d].pc # "idle"
      BY CallTypes DEF IInv
    <3>2. disp[d].parts \in 2 .. End /\ disp[d].parts * Over \in disp[d].parts .. End
      BY <3>1, ChunksBound
    <3> QED BY <3>2, EndNat DEF Chunks
  <2>2. \A c \in Chunk : ran[d][c] = IF c < k THEN 1 ELSE 0
    <3>1. CASE At(d, "put")
      BY <3>1, PutReady
    <3>2. CASE At(d, "release")
      BY <3>2 DEF IInv, Calls, PerCall
    <3> QED BY <3>1, <3>2 DEF At
  <2>3. n \in Nat
    BY SizesAssumption
  <2> HIDE DEF k
  <2>4. computedBy = {c \in 0 .. k - 1 : r \in RowsOf(n, k, c)}
    BY <2>1, <2>2, EndNat DEF Chunk
  <2>5. Cardinality(computedBy) = IF r < n THEN 1 ELSE 0
    <3>1. CASE r < n
      <4>1. r \in 0 .. n - 1
        BY <2>3, <3>1
      <4>2. PICK w \in 0 .. k - 1 : r \in RowsOf(n, k, w)
        BY <2>1, <2>3, <4>1, RowsPartitioned
      <4>3. \A v \in 0 .. k - 1 : r \in RowsOf(n, k, v) => v = w
        BY <2>1, <2>3, <4>1, <4>2, RowsPartitioned
      <4>4. computedBy = {w}
        BY <2>4, <4>2, <4>3
      <4> QED BY <3>1, <4>4, FS_Singleton
    <3>2. CASE ~(r < n)
      <4>1. \A c \in 0 .. k - 1 : r \notin RowsOf(n, k, c)
        <5>1. \A c \in 0 .. k - 1 : RowsOf(n, k, c) \subseteq 0 .. n - 1
          BY <2>1, <2>3, ChunksInRange
        <5> QED BY <2>3, <3>2, <5>1
      <4>2. computedBy = {}
        BY <2>4, <4>1
      <4> QED BY <3>2, <4>2, FS_EmptySet
    <3> QED BY <3>1, <3>2
  <2>6. \A c \in computedBy : ran[d][c] = 1
    BY <2>2
  <2> QED BY <2>5, <2>6 DEF k
<1> QED BY <1>1, Invariance, PTL

-----------------------------------------------------------------------------
(* The dispatches implement ParallelFor.                                    *)

\* The abstract size of each call.
Sizes == [d \in Dispatchers |-> IF At(d, "idle") THEN 0 ELSE Chunks(d)]

\* A dispatch that stays in its call keeps the call's size.
LEMMA SizesKept ==
    ASSUME Types, NEW d \in Dispatchers, \A e \in Dispatchers : e # d => disp'[e] = disp[e],
           (disp'[d].pc = "idle") <=> (disp[d].pc = "idle"),
           disp'[d].parts = disp[d].parts, disp'[d].batch = disp[d].batch
    PROVE  Sizes' = Sizes
<1>1. \A e \in Dispatchers : (disp'[e].pc = "idle" <=> disp[e].pc = "idle")
        /\ disp'[e].parts = disp[e].parts /\ disp'[e].batch = disp[e].batch
  OBVIOUS
<1> QED BY <1>1 DEF Sizes, At, Chunks

\* A chunk that is given out is one of its call's.
LEMMA GivenInRange ==
    ASSUME NEW d \in Dispatchers, NEW r \in Locals, NEW b \in Object, AtItsLine(r), r.pc # "idle",
           r.sent <= r.parts, Batch(d, r, b), NEW c \in Chunk, Given(r, b, c)
    PROVE  c \in 0 .. (IF r.batch THEN r.parts * Over ELSE r.parts) - 1
<1>1. /\ r.parts \in Nat /\ r.parts * Over \in Nat /\ r.parts <= r.parts * Over /\ r.sent \in Nat
      /\ c \in Nat /\ b.next \in Nat /\ b.chunks \in Nat
  <2>1. r.parts \in 2 .. End /\ r.parts * Over \in r.parts .. End
    BY ChunksBound
  <2> QED BY <2>1, EndNat DEF Locals, Object, Chunk
<1>2. CASE r.batch
  BY <1>1, <1>2 DEF Given, Batch
<1>3. CASE ~r.batch
  BY <1>1, <1>3 DEF Given
<1> QED BY <1>2, <1>3 DEF Locals

\* Running a chunk that has not been run is the abstract RunChunk.
LEMMA RunsChunk ==
    ASSUME IInv, NEW d \in Dispatchers, ~At(d, "idle"), NEW c \in 0 .. Chunks(d) - 1, c \in Chunk,
           ran[d][c] = 0, ran' = [ran EXCEPT ![d] = [ran[d] EXCEPT ![c] = @ + 1]], Sizes' = Sizes
    PROVE  Loop!Next
<1>1. ran' = [ran EXCEPT ![d][c] = 1]
  <2>1. ran[d] \in [Chunk -> Nat]
    BY DEF IInv, Types
  <2> QED BY <2>1
<1>2. Sizes[d] = Chunks(d)
  BY DEF Sizes
<1>3. Loop!RunChunk(d)
  BY <1>1, <1>2 DEF Loop!RunChunk, Sizes
<1> QED BY <1>3 DEF Loop!Next

\* Begin is the abstract Call.
LEMMA BeginsCall ==
    ASSUME IInv, IInv', NEW d \in Dispatchers, Begin(d)
    PROVE  Loop!Next
<1>1. disp[d].pc = "idle" /\ disp'[d].pc = "acquire" /\ \A e \in Dispatchers : e # d => disp'[e] = disp[e]
  BY DEF Begin, IInv, Types, At
<1>2. Sizes[d] = 0 /\ ran' = [ran EXCEPT ![d] = Zero]
  BY <1>1 DEF Begin, Sizes, At
<1>3. Chunks(d)' \in 1 .. End
  <2>1. disp'[d] \in Locals /\ AtItsLine(disp'[d]) /\ disp'[d].pc # "idle"
    BY <1>1 DEF IInv, Types
  <2>2. disp'[d].parts \in 2 .. End /\ disp'[d].parts * Over \in disp'[d].parts .. End
    BY <2>1, ChunksBound
  <2> QED BY <2>2, EndNat DEF Chunks
<1>4. Sizes' = [Sizes EXCEPT ![d] = Chunks(d)']
  BY <1>1 DEF Sizes, At, Chunks
<1>5. Loop!Call(d)
  BY <1>2, <1>3, <1>4 DEF Loop!Call, Sizes, Loop!Zero, Zero, Chunk
<1> QED BY <1>5 DEF Loop!Next

\* Release is the abstract Return: every chunk has been run once.
LEMMA ReleaseReturns ==
    ASSUME IInv, NEW d \in Dispatchers, Release(d)
    PROVE  Loop!Next
<1>1. disp[d].pc = "release" /\ disp'[d].pc = "idle" /\ (\A e \in Dispatchers : e # d => disp'[e] = disp[e]) /\ ran' = ran
  BY DEF Release, IInv, Types, At, NoCall
<1>2. Sizes[d] = Chunks(d) /\ Chunks(d) \in 1 .. End
  <2>1. disp[d] \in Locals /\ AtItsLine(disp[d]) /\ disp[d].pc # "idle"
    BY <1>1 DEF IInv, Types
  <2>2. disp[d].parts \in 2 .. End /\ disp[d].parts * Over \in disp[d].parts .. End
    BY <2>1, ChunksBound
  <2> QED BY <1>1, <2>2, EndNat DEF Chunks, Sizes, At
<1>3. \A c \in 0 .. Chunks(d) - 1 : ran[d][c] = 1
  <2>1. \A c \in 0 .. Chunks(d) - 1 : c \in Chunk /\ c < Chunks(d)
    BY <1>2, EndNat DEF Chunk
  <2> QED BY <1>1, <2>1 DEF IInv, Calls, PerCall, At
<1>4. Sizes' = [Sizes EXCEPT ![d] = 0]
  BY <1>1 DEF Sizes, At, Chunks
<1>5. Sizes[d] # 0
  BY <1>2, EndNat
<1>6. Loop!Return(d)
  BY <1>1, <1>2, <1>3, <1>4, <1>5 DEF Loop!Return, Sizes
<1> QED BY <1>6 DEF Loop!Next

\* RunOwn is the abstract RunChunk.
LEMMA RunOwnRuns ==
    ASSUME IInv, NEW d \in Dispatchers, RunOwn(d)
    PROVE  Loop!Next
<1> USE DEF IInv, At
<1>1. /\ disp[d].pc = "run" /\ disp[d].chunk # End
      /\ ran' = [ran EXCEPT ![d] = [ran[d] EXCEPT ![disp[d].chunk] = @ + 1]]
  BY DEF RunOwn, RunFor
<1>2. /\ disp[d] \in Locals /\ AtItsLine(disp[d]) /\ object[disp[d].object] \in Object
      /\ disp[d].sent <= disp[d].parts
      /\ Jobs(d) \in SUBSET Job /\ With(d) \in SUBSET Worker /\ ran[d] \in [Chunk -> Nat]
      /\ disp[d].pc # "idle"
  BY <1>1, CallTypes
<1>3. Sharing(d, disp[d], object[disp[d].object], Jobs(d), With(d), ran[d])
  BY <1>1 DEF Calls, PerCall
<1>4. disp[d].chunk \in Chunk
  BY <1>1, <1>2, EndNat DEF Locals, Chunk
<1>5. ran[d][disp[d].chunk] = 0 /\ Given(disp[d], object[disp[d].object], disp[d].chunk)
  BY <1>1, <1>3, <1>4 DEF Sharing, Claims, RunOnce, Held
<1>6. disp[d].chunk \in 0 .. Chunks(d) - 1
  <2>1. Batch(d, disp[d], object[disp[d].object])
    BY <1>3 DEF Sharing
  <2> QED BY <1>2, <1>4, <1>5, <2>1, GivenInRange DEF Chunks
<1>7. /\ \A e \in Dispatchers : e # d => disp'[e] = disp[e]
      /\ disp'[d].pc = disp[d].pc /\ disp'[d].parts = disp[d].parts /\ disp'[d].batch = disp[d].batch
  <2>1. PICK c : disp' = [disp EXCEPT ![d].chunk = c]
    BY DEF RunOwn
  <2> QED BY <1>2, <2>1 DEF Types, Locals
<1>8. Sizes' = Sizes
  BY <1>7, SizesKept
<1> QED BY <1>1, <1>4, <1>5, <1>6, <1>8, RunsChunk

\* RunJob is the abstract RunChunk.
LEMMA RunJobRuns ==
    ASSUME IInv, NEW p \in Pools, NEW w \in busy[p], RunJob(p, w)
    PROVE  Loop!Next
<1> USE DEF IInv, At
<1>1. PICK d \in Dispatchers :
        /\ disp[d].pool = p /\ disp[d].object = w.job.object /\ w \in With(d)
        /\ disp[d].pc \in {"send", "run"} /\ disp[d].object \in Objects \ free
        /\ disp[d] \in Locals /\ AtItsLine(disp[d]) /\ object[disp[d].object] \in Object
        /\ Jobs(d) \in SUBSET Job /\ With(d) \in SUBSET Worker /\ ran[d] \in [Chunk -> Nat]
        /\ disp[d].sent <= disp[d].parts
        /\ Sharing(d, disp[d], object[disp[d].object], Jobs(d), With(d), ran[d])
        /\ \A e \in Dispatchers : e # d => disp[e].object # disp[d].object
  BY WorkerStep
<1>2. w.chunk # End /\ w.chunk \in Chunk /\ disp[d].pc # "idle"
  BY <1>1, EndNat DEF RunJob, Worker, Chunk
<1>3. w.job.fn = (IF disp[d].batch THEN None ELSE d) /\ (disp[d].batch => object[disp[d].object].fn = d) /\ d # None
  BY <1>1, SizesAssumption DEF Sharing, Queued, Batch
<1>4. ran' = [ran EXCEPT ![d] = [ran[d] EXCEPT ![w.chunk] = @ + 1]] /\ disp' = disp
  <2>1. CASE disp[d].batch
    BY <1>1, <1>3, <2>1 DEF RunJob, RunFor
  <2>2. CASE ~disp[d].batch
    BY <1>1, <1>3, <2>2 DEF RunJob, RunFor
  <2> QED BY <2>1, <2>2
<1>5. ran[d][w.chunk] = 0 /\ Given(disp[d], object[disp[d].object], w.chunk)
  BY <1>1, <1>2 DEF Sharing, Claims, RunOnce, Held
<1>6. w.chunk \in 0 .. Chunks(d) - 1
  <2>1. Batch(d, disp[d], object[disp[d].object])
    BY <1>1 DEF Sharing
  <2> QED BY <1>1, <1>2, <1>5, <2>1, GivenInRange DEF Chunks
<1>7. Sizes' = Sizes
  BY <1>4 DEF Sizes, At, Chunks
<1> QED BY <1>2, <1>4, <1>5, <1>6, <1>7, RunsChunk

\* The remaining steps change neither the calls nor what has been run.
LEMMA OtherSteps ==
    ASSUME IInv, NEW d \in Dispatchers,
           Reuse(d) \/ Replace(d) \/ Prepare(d) \/ Send(d) \/ EndSend(d) \/ Wait(d) \/ Put(d)
    PROVE  Sizes' = Sizes /\ ran' = ran
<1> USE DEF IInv, At
<1>1. disp[d] \in Locals /\ disp \in [Dispatchers -> Locals]
  BY DEF Types
<1>2. /\ \A e \in Dispatchers : e # d => disp'[e] = disp[e]
      /\ disp[d].pc # "idle" /\ disp'[d].pc # "idle"
      /\ disp'[d].parts = disp[d].parts /\ disp'[d].batch = disp[d].batch /\ ran' = ran
  <2>1. CASE Reuse(d)
    BY <1>1, <2>1 DEF Reuse, Leased, Locals
  <2>2. CASE Replace(d)
    <3>1. PICK p \in Pools : Leased(d, p)
      BY <2>2 DEF Replace
    <3>2. disp[d].pc = "acquire" /\ ran' = ran
      BY <2>2 DEF Replace
    <3> QED BY <1>1, <3>1, <3>2 DEF Leased, Locals
  <2>3. CASE Prepare(d)
    <3>1. PICK o \in free : disp' = [disp EXCEPT ![d].object = o, ![d].sent = 1, ![d].pc = "send"]
      BY <2>3 DEF Prepare
    <3>2. disp[d].pc = "prepare" /\ ran' = ran
      BY <2>3 DEF Prepare
    <3> QED BY <1>1, <3>1, <3>2 DEF Locals
  <2>4. CASE Send(d)
    BY <1>1, <2>4 DEF Send, Locals
  <2>5. CASE EndSend(d)
    BY <1>1, <2>5 DEF EndSend, Locals
  <2>6. CASE Wait(d)
    BY <1>1, <2>6 DEF Wait, Locals
  <2>7. CASE Put(d)
    BY <1>1, <2>7 DEF Put, Locals
  <2> QED BY <2>1, <2>2, <2>3, <2>4, <2>5, <2>6, <2>7
<1> QED BY <1>2, SizesKept

\* Whatever other calls run and whenever the pool is replaced, a parallel call runs each of its
\* chunks exactly once before it returns (dispatchParallelMode, rowWorker).
THEOREM LoopImplemented == Spec => ImplementsParallelFor
<1>1. Init => Loop!Init
  BY DEF Init, Loop!Init, Loop!Zero, Zero, Chunk, At, NoCall
<1>2. IInv /\ IInv' /\ [Next]_vars => [Loop!Next]_Loop!vars
  <2> SUFFICES ASSUME IInv, IInv', [Next]_vars PROVE Loop!Next \/ (Sizes' = Sizes /\ ran' = ran)
    BY DEF Loop!vars, Sizes
  <2>1. ASSUME NEW d \in Dispatchers, Begin(d) \/ Dispatch(d) PROVE Loop!Next \/ (Sizes' = Sizes /\ ran' = ran)
    BY <2>1, BeginsCall, ReleaseReturns, RunOwnRuns, OtherSteps DEF Dispatch
  <2>2. ASSUME NEW p \in Pools, Work(p) PROVE Loop!Next \/ (Sizes' = Sizes /\ ran' = ran)
    <3>1. ASSUME disp' = disp, ran' = ran PROVE Sizes' = Sizes /\ ran' = ran
      BY <3>1 DEF Sizes, At, Chunks
    <3>2. (\E job \in pool[p].jobs : TakeJob(p, job)) \/ (\E w \in busy[p] : Done(p, w)) \/ Stop(p)
            => disp' = disp /\ ran' = ran
      BY DEF TakeJob, Done, Stop
    <3> QED BY <2>2, <3>1, <3>2, RunJobRuns DEF Work
  <2>3. ASSUME UNCHANGED vars PROVE Sizes' = Sizes /\ ran' = ran
    BY <2>3 DEF vars, Sizes, At, Chunks
  <2> QED BY <2>1, <2>2, <2>3 DEF Next
<1> QED BY <1>1, <1>2, Invariance, PTL DEF Spec, ImplementsParallelFor, Loop!Spec
=============================================================================
