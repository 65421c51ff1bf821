------------------------- MODULE PromptCacheProofs -------------------------
(***************************************************************************)
(* Proofs about PromptCache, for every vocabulary, prompt set, cache size,  *)
(* format, budget and snapshot limit, and for graphs with and without a     *)
(* recurrent state.                                                         *)
(***************************************************************************)
EXTENDS PromptCache, TextLemmas

-----------------------------------------------------------------------------
(* The inductive invariant. *)

\* What the variables hold.
LogitStates == {"empty", "raw", "spoiled"}
Logits    == [text : Seq(Symbols), state : LogitStates]
Greedies   == [has : BOOLEAN, text : Seq(Symbols), penalty : Penalties \cup {0}]
Metadata  == [tokens : Seq(Tok), promptTokens : Nat, logits : Logits, greedy : Greedies]
Caches    == [len : 0 .. MaxSeqLen, fmt : Formats, rows : [1 .. MaxSeqLen -> Seq(Symbols)], rec : Seq(Symbols)]
Snapshots == [tokens : Seq(Tok), fmt : Formats, rows : Seq(Seq(Symbols))]
Requests  ==
    [tokens : Seq(Tok), content : Seq(Symbols), greedy : BOOLEAN, penalty : Penalties \cup {0}, max : Nat,
     len : 0 .. MaxSeqLen, transient : BOOLEAN, eligible : BOOLEAN, reused : Nat, pos : Nat, offset : Nat,
     cached : Metadata, promptLogits : Logits, promptGreedy : Greedies, next : Greedies, generated : Seq(Tok)]

Types ==
    /\ recurrent \in BOOLEAN /\ format \in Formats
    /\ ws \in Caches /\ tmp \in Caches
    /\ prefix \in Metadata /\ prefix.promptTokens <= Len(prefix.tokens)
    /\ convs \in [entries : Seq(Snapshots), limit : 0 .. DefaultLimit]
    /\ logits \in Logits /\ req \in Requests
    /\ pc \in {"idle", "workspace", "reused", "prefill", "decode", "save"}

\* The first n rows of cache c were computed from text, and so was its recurrent state.
RowsHold(c, text, n)  == n <= Len(text) /\ n <= c.len /\ \A i \in 1 .. n : c.rows[i] = SubSeq(text, 1, i)
StateHolds(c, text, n) == recurrent => c.rec = SubSeq(text, 1, n)

Resting == pc = "idle" => req = NoRequest /\ tmp = NoCache

Answering == pc \in {"prefill", "decode", "save"}

\* A request in progress has a prompt and a cache that its answer fits in; one that may not
\* use the metadata retires it before it writes the shared rows.
Admitted ==
    pc # "idle" =>
      /\ req.tokens \in Prompts /\ Len(req.content) = Len(req.tokens) /\ req.penalty \in Penalties
      /\ Len(req.tokens) < req.len /\ req.len <= Cache.len
      /\ req.reused <= Len(req.tokens)
      /\ req.eligible => req.content = req.tokens /\ ~req.transient /\ FitsRecurrent(ws.len, ws.fmt)
      /\ ~req.eligible => req.reused = 0
      /\ ~req.eligible /\ ~req.transient => MustRetire

\* Between the choice of rows and the first write, the reused rows are the prompt's.
Reused ==
    pc \in {"workspace", "reused"} =>
      /\ req.generated = <<>> /\ req.pos = 0
      /\ pc = "workspace" => req.reused = 0
      /\ RowsHold(Cache, req.tokens, req.reused)
      /\ req.reused > 0 => StateHolds(ws, req.tokens, req.reused)
      /\ pc = "reused" /\ ~req.eligible /\ ~req.transient => prefix = Cleared

\* From the first write to the end nothing is advertised of the rows in use, which are
\* the prompt's and the answer's.
Written ==
    Answering =>
      /\ ~req.transient => prefix = Cleared
      /\ RowsHold(Cache, req.content \o req.generated, req.pos)
      /\ StateHolds(Cache, req.content \o req.generated, req.pos)
      /\ req.pos <= req.len
      /\ pc = "prefill" => req.generated = <<>>
      /\ pc = "decode" => req.pos = Len(req.tokens) + Len(req.generated)
      /\ pc = "save" => req.pos + 1 = Len(req.tokens) + Len(req.generated) /\ req.generated # <<>>

Budgeted ==
    /\ Fits(ws.len, ws.fmt)
    /\ prefix.tokens # <<>> => FitsRecurrent(ws.len, ws.fmt)

IInv ==
    /\ Types /\ Resting /\ Admitted /\ Reused /\ Written
    /\ ResidentRowsMatch /\ SnapshotRowsMatch /\ Budgeted
-----------------------------------------------------------------------------
(* Texts. *)

\* What sharedTokenPrefix counts: two texts have that beginning in common.
LEMMA SharedBeginning ==
    ASSUME NEW S, NEW a \in Seq(S), NEW b \in Seq(S)
    PROVE  /\ Shared(a, b) \in Nat /\ Shared(a, b) <= Len(a) /\ Shared(a, b) <= Len(b)
           /\ SubSeq(a, 1, Shared(a, b)) = SubSeq(b, 1, Shared(a, b))
BY CommonBeginning DEF Shared
-----------------------------------------------------------------------------
(* Snapshots. *)

\* The kth member of a set of numbers.
LEMMA KthMember ==
    ASSUME NEW n \in Nat, NEW S, S \subseteq 1 .. n, NEW k \in 1 .. Cardinality(S)
    PROVE  Kth(S, k) \in S /\ Cardinality({j \in S : j <= Kth(S, k)}) = k
<1> DEFINE upto(m) == {j \in S : j <= m}
<1>0. \A j \in S : j \in Nat /\ 1 <= j /\ j <= n
  OBVIOUS
<1>1. IsFiniteSet(S) /\ Cardinality(S) \in Nat
  BY FS_BoundedSetOfNaturals, FS_CardinalityType
<1>2. ASSUME NEW m \in Nat PROVE IsFiniteSet(upto(m)) /\ Cardinality(upto(m)) \in Nat
  BY <1>1, FS_Subset, FS_CardinalityType
<1>3. Cardinality(upto(n)) = Cardinality(S)
  <2>1. \A x : x \in upto(n) <=> x \in S
    BY <1>0 DEF upto
  <2>2. upto(n) = S
    BY <2>1, Zenon
  <2> QED BY <2>2
<1>4. Cardinality(upto(0)) = 0
  <2>1. ASSUME NEW x \in upto(0) PROVE FALSE
    <3>1. x \in S /\ x <= 0
      BY <2>1 DEF upto
    <3> QED BY <1>0, <3>1
  <2>2. upto(0) = {}
    BY <2>1, Zenon
  <2> QED BY <2>2, FS_EmptySet
<1>5. ASSUME NEW m \in Nat
      PROVE  Cardinality(upto(m + 1)) = IF m + 1 \in S THEN Cardinality(upto(m)) + 1 ELSE Cardinality(upto(m))
  <2>1. CASE m + 1 \in S
    <3>1. \A x : x \in upto(m + 1) <=> x \in upto(m) \cup {m + 1}
      <4>1. \A x \in S : x <= m + 1 <=> x <= m \/ x = m + 1
        BY <1>0
      <4> QED BY <2>1, <4>1, <1>0 DEF upto
    <3>2. m + 1 \notin upto(m)
      OBVIOUS
    <3> HIDE DEF upto
    <3>3. upto(m + 1) = upto(m) \cup {m + 1}
      BY <3>1, Zenon
    <3> QED BY <1>2, <2>1, <3>2, <3>3, FS_AddElement
  <2>2. CASE m + 1 \notin S
    <3>1. \A x : x \in upto(m + 1) <=> x \in upto(m)
      <4>1. \A x \in S : x <= m + 1 <=> x <= m
        BY <1>0, <2>2
      <4> QED BY <4>1, Zenon DEF upto
    <3>2. upto(m + 1) = upto(m)
      BY <3>1, Zenon
    <3> QED BY <2>2, <3>2
  <2> QED BY <2>1, <2>2
<1> DEFINE enough == {m \in Nat : Cardinality(upto(m)) >= k}
<1> HIDE DEF upto
<1>6. PICK m \in enough : \A x \in enough : m <= x
  <2>1. n \in enough
    BY <1>1, <1>3
  <2>2. enough \subseteq Nat
    OBVIOUS
  <2> HIDE DEF enough
  <2> QED BY <2>1, <2>2, LeastExists
<1>7. m \in Nat /\ m # 0 /\ Cardinality(upto(m)) >= k
  BY <1>1, <1>4, <1>6
<1>8. PICK l \in Nat : m = l + 1
  BY <1>7
<1>9. ~(Cardinality(upto(l)) >= k)
  BY <1>6, <1>8
<1>10. m \in S /\ Cardinality(upto(m)) = k
  BY <1>1, <1>2, <1>5, <1>7, <1>8, <1>9
<1> QED BY <1>10 DEF Kth, upto

\* The lists that touching, subsuming and evicting leave hold no new snapshot.
LEMMA TouchKeeps ==
    ASSUME NEW S, NEW es \in Seq(S), NEW i \in 1 .. Len(es)
    PROVE  Touch(es, i) \in Seq(S) /\ Touch(es, i)[Len(Touch(es, i))] = es[i] /\ Len(Touch(es, i)) \in Nat \ {0}
<1>1. Len(es) \in Nat /\ \A j \in 1 .. Len(es) : es[j] \in S
  BY LenProperties, ElementOfSeq
<1>2. SubSeq(es, 1, i - 1) \in Seq(S) /\ SubSeq(es, i + 1, Len(es)) \in Seq(S)
  BY <1>1, SubSeqProperties
<1>3. RemoveAt(es, i) \in Seq(S)
  BY <1>2, ConcatProperties DEF RemoveAt
<1>4. Len(RemoveAt(es, i)) \in Nat
  BY <1>3, LenProperties
<1> QED BY <1>1, <1>3, <1>4, AppendProperties DEF Touch

\* The snapshots that are not subsumed are among those there were.
LEMMA UnsubsumedKeeps ==
    ASSUME NEW S, NEW es \in Seq(S), NEW kept
    PROVE  Unsubsumed(es, kept) \in Seq(S)
<1> DEFINE left == {i \in DOMAIN es : ~Subsumed(es[i], kept)}
           n == Cardinality(left)
<1>1. Len(es) \in Nat /\ DOMAIN es = 1 .. Len(es) /\ \A j \in 1 .. Len(es) : es[j] \in S
  BY LenProperties, ElementOfSeq
<1>2. left \subseteq 1 .. Len(es)
  BY <1>1
<1> HIDE DEF left
<1>3. n \in Nat
  <2>1. left \in SUBSET Nat /\ \A i \in left : i <= Len(es)
    BY <1>1, <1>2
  <2> QED BY <1>1, <2>1, FS_BoundedSetOfNaturals, FS_CardinalityType
<1>4. \A k \in 1 .. n : Kth(left, k) \in left
  BY <1>1, <1>2, KthMember
<1>5. \A k \in 1 .. n : es[Kth(left, k)] \in S
  BY <1>1, <1>2, <1>4
<1>6. Unsubsumed(es, kept) = [k \in 1 .. n |-> es[Kth(left, k)]]
  BY DEF Unsubsumed, left
<1>7. Unsubsumed(es, kept) \in [1 .. n -> S]
  BY <1>5, <1>6
<1> QED BY <1>3, <1>7, SeqDef

\* So are those that eviction leaves.
LEMMA EvictKeeps ==
    ASSUME NEW S, NEW es \in Seq(S), NEW bytes
    PROVE  Evict(es, bytes) \in Seq(S)
<1>1. Len(es) \in Nat /\ \A j \in 1 .. Len(es) : es[j] \in S
  BY LenProperties, ElementOfSeq
<1> DEFINE room(k) == /\ Len(es) - k < MaxEntries
                      /\ BytesOf(SubSeq(es, k + 1, Len(es))) + bytes <= convs.limit
           stops == {i \in 0 .. Len(es) : room(i) \/ i = Len(es)}
<1>2. Len(es) \in stops
  BY <1>1
<1>3. stops \subseteq 0 .. Len(es)
  OBVIOUS
<1>4. Evict(es, bytes) = SubSeq(es, Min(stops) + 1, Len(es))
  BY DEF Evict
<1> HIDE DEF stops
<1>5. Min(stops) \in 0 .. Len(es)
  <2>1. stops \subseteq Nat /\ stops # {}
    BY <1>2, <1>3
  <2>2. Min(stops) \in stops
    BY <2>1, MinOfSet
  <2> QED BY <1>3, <2>2
<1> QED BY <1>1, <1>4, <1>5, SubSeqProperties

\* A snapshot of the rows that its tokens say.
Exact == {e \in Snapshots : /\ Len(e.rows) = Len(e.tokens)
                            /\ \A i \in DOMAIN e.tokens : e.rows[i] = SubSeq(e.tokens, 1, i)}

\* The list of snapshots is exact when every one in it is.
LEMMA ExactSnapshots ==
    ASSUME convs.entries \in Seq(Snapshots)
    PROVE  SnapshotRowsMatch <=> convs.entries \in Seq(Exact)
<1> DEFINE es == convs.entries
<1>1. Len(es) \in Nat /\ es \in [1 .. Len(es) -> Snapshots] /\ DOMAIN es = 1 .. Len(es)
  BY LenProperties
<1>2. ASSUME SnapshotRowsMatch PROVE es \in Seq(Exact)
  <2>1. \A k \in 1 .. Len(es) : es[k] \in Exact
    BY <1>1, <1>2 DEF SnapshotRowsMatch, Exact
  <2>2. es \in [1 .. Len(es) -> Exact]
    BY <1>1, <2>1
  <2> QED BY <1>1, <2>2, SeqDef
<1>3. ASSUME es \in Seq(Exact) PROVE SnapshotRowsMatch
  <2>1. \A k \in DOMAIN es : es[k] \in Exact
    BY <1>1, <1>3, ElementOfSeq
  <2> QED BY <2>1 DEF SnapshotRowsMatch, Exact
<1> QED BY <1>2, <1>3

\* The snapshot that retainDisplacedConversation takes is one.
LEMMA TakenIsExact ==
    ASSUME Types, ResidentRowsMatch, NEW n \in Nat, n <= Len(prefix.tokens)
    PROVE  [tokens |-> SubSeq(prefix.tokens, 1, n), fmt |-> ws.fmt, rows |-> SubSeq(ws.rows, 1, n)] \in Exact
<1> DEFINE kept == SubSeq(prefix.tokens, 1, n)
           rows == SubSeq(ws.rows, 1, n)
<1>1. /\ prefix.tokens \in Seq(Tok) /\ ws.fmt \in Formats /\ ws.rows \in [1 .. MaxSeqLen -> Seq(Symbols)]
      /\ ws.len <= MaxSeqLen /\ ws.len \in Nat /\ MaxSeqLen \in Nat
  BY SizeAssumption DEF Types, Caches, Metadata
<1>2. Len(prefix.tokens) \in Nat /\ DOMAIN prefix.tokens = 1 .. Len(prefix.tokens) /\ Len(prefix.tokens) <= ws.len
  BY <1>1, LenProperties DEF ResidentRowsMatch
<1>3. kept \in Seq(Tok) /\ Len(kept) = n
  BY <1>1, Beginning
<1>4. \A i \in 1 .. n : ws.rows[i] \in Seq(Symbols)
  BY <1>1, <1>2
<1>5. rows \in Seq(Seq(Symbols)) /\ Len(rows) = n /\ \A i \in 1 .. n : rows[i] = ws.rows[i]
  BY <1>4, SubSeqProperties
<1>6. \A i \in 1 .. n : rows[i] = SubSeq(kept, 1, i)
  <2>1. TAKE i \in 1 .. n
  <2>2. i \in DOMAIN prefix.tokens
    BY <1>2
  <2>3. ws.rows[i] = SubSeq(prefix.tokens, 1, i)
    BY <2>2 DEF ResidentRowsMatch
  <2>4. rows[i] = SubSeq(prefix.tokens, 1, i)
    BY <1>5, <2>3
  <2> QED BY <1>1, <2>4, BeginningOfBeginning
<1>7. DOMAIN kept = 1 .. n
  BY <1>3, LenProperties
<1> HIDE DEF kept, rows
<1> QED BY <1>1, <1>3, <1>5, <1>6, <1>7 DEF Exact, Snapshots, kept, rows

\* What retainDisplacedConversation keeps of a conversation.
KeptLen == Min({Len(prefix.tokens), convs.limit \div SnapshotRow(ws.fmt)})

\* A snapshot is taken of resident tokens.
LEMMA KeptLenFits ==
    ASSUME Types
    PROVE  KeptLen \in Nat /\ KeptLen <= Len(prefix.tokens)
<1>1. prefix.tokens \in Seq(Tok) /\ convs.limit \in Nat /\ SnapshotRow(ws.fmt) \in Nat \ {0}
  <2>1. prefix.tokens \in Seq(Tok) /\ convs.limit \in 0 .. DefaultLimit /\ DefaultLimit \in Nat /\ ws.fmt \in Formats
    BY SizeAssumption DEF Types, Caches, Metadata
  <2>2. RowBytes[ws.fmt] \in Nat
    BY <2>1, SizeAssumption
  <2> QED BY <2>1, <2>2 DEF SnapshotRow
<1>2. Len(prefix.tokens) \in Nat
  BY <1>1, LenProperties
<1>3. \A a \in Nat, b \in Nat \ {0} : a \div b \in Nat
  OBVIOUS
<1>4. convs.limit \div SnapshotRow(ws.fmt) \in Nat
  BY <1>1, <1>3
<1> QED BY <1>2, <1>4, MinOfTwo DEF KeptLen

\* It leaves exact snapshots only, and if the conversation qualifies it ends with one that
\* holds it.
LEMMA RetainKeeps ==
    ASSUME Types, ResidentRowsMatch, NEW es \in Seq(Exact), NEW tokens
    PROVE  /\ Retain(es, tokens) \in Seq(Exact)
           /\ Displaced(tokens) /\ KeptLen >= MinTokens =>
                \E k \in DOMAIN Retain(es, tokens) :
                  /\ Retain(es, tokens)[k].fmt = ws.fmt
                  /\ IsPrefix(SubSeq(prefix.tokens, 1, KeptLen), Retain(es, tokens)[k].tokens)
<1>1. PICK n : n = KeptLen
  OBVIOUS
<1> DEFINE kept == SubSeq(prefix.tokens, 1, n)
           owners == {i \in DOMAIN es : Owns(es[i], kept)}
           taken == [tokens |-> kept, fmt |-> ws.fmt, rows |-> SubSeq(ws.rows, 1, n)]
           left == Evict(Unsubsumed(es, kept), n * SnapshotRow(ws.fmt))
           rest == Retain(es, tokens)
           holds(k) == rest[k].fmt = ws.fmt /\ IsPrefix(kept, rest[k].tokens)
<1>2. n \in Nat /\ n <= Len(prefix.tokens) /\ MinTokens \in Nat /\ prefix.tokens \in Seq(Tok)
  BY <1>1, KeptLenFits, SizeAssumption DEF Types, Metadata
<1>3. rest = IF ~Displaced(tokens) \/ n < MinTokens THEN es
             ELSE IF owners # {} THEN Touch(es, Max(owners)) ELSE Append(left, taken)
  BY <1>1 DEF Retain, KeptLen
<1>4. taken \in Exact
  BY <1>2, TakenIsExact
<1>5. left \in Seq(Exact)
  BY UnsubsumedKeeps, EvictKeeps
<1> HIDE DEF left, rest, taken
<1>6. CASE ~Displaced(tokens) \/ n < MinTokens
  BY <1>1, <1>2, <1>3, <1>6 DEF rest
<1>7. CASE ~(~Displaced(tokens) \/ n < MinTokens) /\ owners # {}
  <2>1. Max(owners) \in owners /\ Max(owners) \in 1 .. Len(es)
    BY <1>7, LastOf
  <2>2. rest = Touch(es, Max(owners))
    BY <1>3, <1>7
  <2>3. rest \in Seq(Exact) /\ rest[Len(rest)] = es[Max(owners)] /\ Len(rest) \in Nat \ {0}
    BY <2>1, <2>2, TouchKeeps
  <2>4. Len(rest) \in DOMAIN rest
    BY <2>3, LenProperties
  <2>5. Owns(es[Max(owners)], kept)
    BY <2>1
  <2>6. holds(Len(rest))
    BY <2>3, <2>5 DEF Owns, Compatible, holds
  <2> QED BY <1>1, <2>3, <2>4, <2>6 DEF rest, holds
<1>8. CASE ~(~Displaced(tokens) \/ n < MinTokens) /\ owners = {}
  <2>1. rest = Append(left, taken)
    BY <1>3, <1>8
  <2>2. rest \in Seq(Exact) /\ rest[Len(left) + 1] = taken /\ Len(rest) = Len(left) + 1 /\ Len(left) \in Nat
    BY <1>4, <1>5, <2>1, AppendProperties, LenProperties
  <2>3. Len(left) + 1 \in DOMAIN rest
    BY <2>2, LenProperties
  <2>4. kept \in Seq(Tok) /\ Len(kept) \in Nat
    BY <1>2, Beginning
  <2>5. holds(Len(left) + 1)
    BY <2>2, <2>4 DEF taken, IsPrefix, holds
  <2> QED BY <1>1, <2>2, <2>3, <2>5 DEF rest, holds
<1> QED BY <1>6, <1>7, <1>8
-----------------------------------------------------------------------------
(* Rows. *)

\* The constants as numbers.
LEMMA Sizes ==
    /\ MaxSeqLen \in Nat /\ Chunk \in Nat /\ MinTokens \in Nat /\ DefaultLimit \in Nat
    /\ Formats # {} /\ \A f \in Formats : RowBytes[f] \in Nat
BY SizeAssumption

\* A cache for n positions has room for them, and for no more than the model may read.
LEMMA TargetLenFits ==
    ASSUME Types, NEW n \in Nat, n <= MaxSeqLen, NEW f
    PROVE  TargetLen(n, f) \in n .. MaxSeqLen
<1>1. ws.len \in Nat /\ MaxSeqLen \in Nat /\ Chunk \in Nat
  BY Sizes DEF Types, Caches
<1> DEFINE T == {n, 2 * ws.len, ws.len + Chunk}
<1>2. Max(T) \in T /\ n <= Max(T)
  <2>1. T \subseteq Nat /\ T # {} /\ \A y \in T : y <= n + 2 * ws.len + Chunk
    BY <1>1
  <2>2. n + 2 * ws.len + Chunk \in Nat /\ n \in T
    BY <1>1
  <2> HIDE DEF T
  <2> QED BY <2>1, <2>2, MaxOfSet
<1>3. Max(T) \in Nat
  BY <1>1, <1>2
<1>4. GrownLen(n) = Min({MaxSeqLen, Max(T)})
  BY DEF GrownLen
<1> HIDE DEF T
<1>5. GrownLen(n) \in n .. MaxSeqLen
  BY <1>1, <1>2, <1>3, <1>4, MinOfTwo
<1> QED BY <1>1, <1>5 DEF TargetLen

\* One forward pass continues the text that a cache holds.
LEMMA ForwardHolds ==
    ASSUME recurrent \in BOOLEAN,
           NEW c \in Caches, NEW text \in Seq(Symbols), NEW n \in Nat, n < Len(text), n < c.len,
           RowsHold(c, text, n), StateHolds(c, text, n)
    PROVE  LET d == Forward(c, text[n + 1], n + 1) IN
           /\ d \in Caches /\ d.len = c.len /\ d.fmt = c.fmt
           /\ RowsHold(d, text, n + 1) /\ StateHolds(d, text, n + 1)
<1> DEFINE d == Forward(c, text[n + 1], n + 1)
           t == text[n + 1]
           begin == SubSeq(text, 1, n)
<1>1. /\ c.len \in Nat /\ c.len <= MaxSeqLen /\ MaxSeqLen \in Nat /\ Len(text) \in Nat
      /\ c.rows \in [1 .. MaxSeqLen -> Seq(Symbols)] /\ c.rec \in Seq(Symbols)
  BY Sizes, LenProperties DEF Caches
<1>2. n + 1 \in 1 .. MaxSeqLen
  BY <1>1
<1>3. begin \in Seq(Symbols) /\ Len(begin) = n /\ t \in Symbols /\ Append(begin, t) = SubSeq(text, 1, n + 1)
  BY <1>1, Beginning, NextBeginning
<1>4. ReadBy(c, n + 1) = begin
  <2>1. CASE n = 0
    BY <2>1, SubSeqEmpty DEF ReadBy
  <2>2. CASE n # 0
    BY <2>2 DEF ReadBy, RowsHold
  <2> QED BY <2>1, <2>2
<1>5. \A j \in 1 .. n : c.rows[j] = SubSeq(begin, 1, j)
  <2>1. TAKE j \in 1 .. n
  <2>2. c.rows[j] = SubSeq(text, 1, j)
    BY DEF RowsHold
  <2> QED BY <1>1, <2>2, BeginningOfBeginning
<1> HIDE DEF begin, t
<1>6. Coherent(c, n + 1)
  <2>1. (n + 1) - 1 = n
    OBVIOUS
  <2>2. recurrent => c.rec = begin
    BY DEF StateHolds, begin
  <2> QED BY <1>3, <1>4, <1>5, <2>1, <2>2 DEF Coherent
<1>7. Row(c, t, n + 1) = SubSeq(text, 1, n + 1) /\ SubSeq(text, 1, n + 1) \in Seq(Symbols)
  BY <1>1, <1>3, <1>4, <1>6, Beginning DEF Row
<1>8. d = [c EXCEPT !.rows[n + 1] = SubSeq(text, 1, n + 1), !.rec = IF recurrent THEN Append(c.rec, t) ELSE c.rec]
  BY <1>7 DEF Forward, t
<1>9. recurrent => Append(c.rec, t) = SubSeq(text, 1, n + 1)
  BY <1>3 DEF StateHolds, begin
<1> HIDE DEF d
<1>10. d = [len |-> c.len, fmt |-> c.fmt, rows |-> [c.rows EXCEPT ![n + 1] = SubSeq(text, 1, n + 1)],
            rec |-> IF recurrent THEN SubSeq(text, 1, n + 1) ELSE c.rec]
  BY <1>8, <1>9 DEF Caches
<1>11. [c.rows EXCEPT ![n + 1] = SubSeq(text, 1, n + 1)] \in [1 .. MaxSeqLen -> Seq(Symbols)]
  BY <1>1, <1>7
<1>12. d \in Caches
  BY <1>1, <1>7, <1>10, <1>11 DEF Caches
<1>13. \A i \in 1 .. n + 1 : d.rows[i] = SubSeq(text, 1, i)
  <2>1. TAKE i \in 1 .. n + 1
  <2>2. i \in 1 .. MaxSeqLen
    BY <1>1
  <2>3. d.rows[i] = IF i = n + 1 THEN SubSeq(text, 1, n + 1) ELSE c.rows[i]
    BY <1>1, <1>10, <2>2
  <2>4. i # n + 1 => c.rows[i] = SubSeq(text, 1, i)
    BY DEF RowsHold
  <2> QED BY <2>3, <2>4
<1>14. RowsHold(d, text, n + 1) /\ StateHolds(d, text, n + 1)
  BY <1>1, <1>10, <1>13 DEF RowsHold, StateHolds
<1> QED BY <1>10, <1>12, <1>14 DEF d, t

\* The rows prefixReuse counts are the prompt's.
LEMMA PrefixReuseHolds ==
    ASSUME Types, ResidentRowsMatch, NEW tokens \in Seq(Tok)
    PROVE  LET n == PrefixReuse(tokens) IN
           /\ n \in Nat /\ RowsHold(ws, tokens, n)
           /\ n > 0 => StateHolds(ws, tokens, n)
<1> DEFINE n == PrefixReuse(tokens)
           shared == Shared(tokens, prefix.tokens)
           matched == Min({shared, ws.len})
<1>1. prefix.tokens \in Seq(Tok) /\ ws.len \in Nat /\ recurrent \in BOOLEAN
  BY Sizes DEF Types, Caches, Metadata
<1>2. /\ Len(prefix.tokens) \in Nat /\ Len(tokens) \in Nat /\ DOMAIN prefix.tokens = 1 .. Len(prefix.tokens)
      /\ shared \in Nat /\ shared <= Len(tokens) /\ shared <= Len(prefix.tokens)
      /\ SubSeq(tokens, 1, shared) = SubSeq(prefix.tokens, 1, shared)
  BY <1>1, LenProperties, SharedBeginning
<1>3. matched \in Nat /\ matched <= shared /\ matched <= ws.len
  <2> HIDE DEF shared
  <2>1. matched = IF shared <= ws.len THEN shared ELSE ws.len
    BY <1>1, <1>2, MinOfTwo
  <2> QED BY <1>1, <1>2, <2>1
<1>4. n \in {0, matched} /\ (recurrent /\ n # 0 => n = Len(prefix.tokens))
  BY DEF PrefixReuse
<1> HIDE DEF n, matched, shared
<1>5. \A i \in 1 .. shared : SubSeq(tokens, 1, i) = SubSeq(prefix.tokens, 1, i)
  <2>1. TAKE i \in 1 .. shared
  <2>2. /\ SubSeq(SubSeq(tokens, 1, shared), 1, i) = SubSeq(tokens, 1, i)
        /\ SubSeq(SubSeq(prefix.tokens, 1, shared), 1, i) = SubSeq(prefix.tokens, 1, i)
    BY <1>1, <1>2, BeginningOfBeginning
  <2> QED BY <1>2, <2>2
<1>6. \A i \in 1 .. n : ws.rows[i] = SubSeq(tokens, 1, i)
  <2>1. TAKE i \in 1 .. n
  <2>2. i \in 1 .. shared /\ i \in DOMAIN prefix.tokens
    BY <1>2, <1>3, <1>4
  <2> QED BY <1>5, <2>2 DEF ResidentRowsMatch
<1>7. RowsHold(ws, tokens, n)
  BY <1>1, <1>2, <1>3, <1>4, <1>6 DEF RowsHold
<1>8. ASSUME n > 0, recurrent PROVE ws.rec = SubSeq(tokens, 1, n)
  <2>1. n = Len(prefix.tokens) /\ n = shared /\ n # 0
    BY <1>2, <1>3, <1>4, <1>8
  <2>2. prefix.tokens # <<>>
    BY <2>1, EmptySeq
  <2>3. ws.rec = prefix.tokens
    BY <1>8, <2>2 DEF ResidentRowsMatch
  <2> QED BY <1>1, <1>2, <2>1, <2>3, SubSeqFull
<1> QED BY <1>3, <1>4, <1>7, <1>8 DEF n, StateHolds

\* The rows of a snapshot up to a match are the prompt's.
LEMMA MatchHolds ==
    ASSUME NEW e \in Exact, NEW tokens \in Seq(Tok), tokens # <<>>
    PROVE  /\ Match(tokens, e) \in Nat /\ Match(tokens, e) <= Len(tokens) - 1
           /\ \A j \in 1 .. Match(tokens, e) : e.rows[j] = SubSeq(tokens, 1, j)
<1> DEFINE shared == Shared(tokens, e.tokens)
           m == Match(tokens, e)
<1>1. /\ e.tokens \in Seq(Tok) /\ Len(e.tokens) \in Nat /\ DOMAIN e.tokens = 1 .. Len(e.tokens)
      /\ Len(tokens) \in Nat \ {0}
  BY LenProperties, EmptySeq DEF Exact, Snapshots
<1>2. /\ shared \in Nat /\ shared <= Len(tokens) /\ shared <= Len(e.tokens)
      /\ SubSeq(tokens, 1, shared) = SubSeq(e.tokens, 1, shared)
  BY <1>1, SharedBeginning
<1> HIDE DEF shared
<1>3. m = IF shared <= Len(tokens) - 1 THEN shared ELSE Len(tokens) - 1
  BY <1>1, <1>2, MinOfTwo DEF Match, shared
<1> HIDE DEF m
<1>4. m \in Nat /\ m <= shared /\ m <= Len(tokens) - 1
  BY <1>1, <1>2, <1>3
<1>5. ASSUME NEW j \in 1 .. m PROVE e.rows[j] = SubSeq(tokens, 1, j)
  <2>1. j \in DOMAIN e.tokens
    BY <1>1, <1>2, <1>4
  <2>2. e.rows[j] = SubSeq(e.tokens, 1, j)
    BY <2>1 DEF Exact
  <2>3. /\ SubSeq(SubSeq(tokens, 1, shared), 1, j) = SubSeq(tokens, 1, j)
        /\ SubSeq(SubSeq(e.tokens, 1, shared), 1, j) = SubSeq(e.tokens, 1, j)
    BY <1>1, <1>2, <1>4, BeginningOfBeginning
  <2> QED BY <1>2, <2>2, <2>3
<1> QED BY <1>4, <1>5 DEF m

\* The snapshot that reuseConversation picks holds more of the prompt than the workspace.
LEMMA BestHolds ==
    ASSUME Types, SnapshotRowsMatch, NEW tokens \in Seq(Tok), tokens # <<>>, NEW resident,
           Candidates(tokens, resident) # {}
    PROVE  LET i == BestSnapshot(tokens, resident) e == convs.entries[i] best == Match(tokens, e) IN
           /\ i \in 1 .. Len(convs.entries) /\ e \in Exact
           /\ best \in Nat /\ best > resident /\ best <= Len(tokens) - 1 /\ best <= ws.len
           /\ \A j \in 1 .. best : e.rows[j] = SubSeq(tokens, 1, j)
<1> DEFINE es == convs.entries
           cs == Candidates(tokens, resident)
           matches == {Match(tokens, es[i]) : i \in cs}
           ties == {i \in cs : Match(tokens, es[i]) = Max(matches)}
<1>1. /\ es \in Seq(Exact) /\ DOMAIN es = 1 .. Len(es) /\ Len(es) \in Nat /\ \A i \in 1 .. Len(es) : es[i] \in Exact
      /\ Len(tokens) \in Nat
  BY ExactSnapshots, LenProperties, ElementOfSeq DEF Types
<1>2. cs \subseteq DOMAIN es /\ \A i \in cs : Match(tokens, es[i]) > resident /\ Match(tokens, es[i]) <= ws.len
  BY DEF Candidates, Compatible
<1> HIDE DEF cs
<1>3. \A i \in cs : Match(tokens, es[i]) \in Nat /\ Match(tokens, es[i]) <= Len(tokens)
  BY <1>1, <1>2, MatchHolds
<1>4. matches \subseteq Nat /\ matches # {} /\ \A m \in matches : m <= Len(tokens)
  BY <1>3 DEF cs
<1>5. Max(matches) \in matches
  <2> HIDE DEF matches
  <2> QED BY <1>1, <1>4, MaxOfSet
<1>6. ties # {} /\ ties \subseteq cs
  BY <1>5
<1> HIDE DEF ties
<1>7. Max(ties) \in cs /\ Max(ties) \in 1 .. Len(es)
  BY <1>1, <1>2, <1>6, LastOf
<1>8. BestSnapshot(tokens, resident) = Max(ties)
  BY DEF BestSnapshot, ties, cs
<1> QED BY <1>1, <1>2, <1>7, <1>8, MatchHolds
-----------------------------------------------------------------------------
(* The steps. *)

\* What is there before the first request, and what a runner forgets to.
LEMMA Blanks ==
    /\ NoCache \in Caches /\ NoCache.len = 0 /\ Cleared \in Metadata /\ Cleared.tokens = <<>> /\ Cleared.promptTokens = 0
    /\ NoRequest \in Requests /\ NoToken \in Greedies /\ NoLogits \in Logits /\ Spoiled \in Logits
    /\ Len(<<>>) = 0 /\ DOMAIN <<>> = {} /\ \A S : <<>> \in Seq(S)
<1>1. Len(<<>>) = 0 /\ DOMAIN <<>> = {} /\ \A S : <<>> \in Seq(S)
  BY EmptySeq
<1>2. NoLogits \in Logits /\ Spoiled \in Logits /\ NoToken \in Greedies
  BY <1>1 DEF NoLogits, Spoiled, NoToken, Logits, LogitStates, Greedies
<1>3. Cleared \in Metadata /\ Cleared.tokens = <<>> /\ Cleared.promptTokens = 0
  BY <1>1, <1>2 DEF Cleared, NoPrefix, Metadata
<1>4. NoCache \in Caches /\ NoCache.len = 0
  BY <1>1, Sizes DEF NoCache, Blank, Caches, Broken
<1>5. NoRequest \in Requests
  BY <1>1, <1>2, <1>3, Sizes DEF NoRequest, Requests, Cleared
<1> QED BY <1>1, <1>2, <1>3, <1>4, <1>5

\* A new cache of any size and format.
LEMMA BlankCache ==
    ASSUME NEW n \in 0 .. MaxSeqLen, NEW f \in Formats
    PROVE  Blank(n, f) \in Caches /\ Blank(n, f).len = n /\ Blank(n, f).fmt = f
BY Blanks DEF Blank, Caches, Broken

\* The metadata that survives the choice of a workspace is true of the workspace, and the
\* cache of the request is long enough.
LEMMA WorkspaceHolds ==
    ASSUME Types, ResidentRowsMatch, Budgeted, tmp = NoCache, NEW n \in 1 .. MaxSeqLen,
           Workspace(n, prefix), UNCHANGED <<recurrent, format>>
    PROVE  /\ ws' \in Caches /\ tmp' \in Caches /\ prefix' \in {prefix, Cleared}
           /\ n <= (IF tmp'.len > 0 THEN tmp' ELSE ws').len
           /\ ResidentRowsMatch' /\ Budgeted'
<1> DEFINE len == TargetLen(n, format)
<1>1. /\ ws \in Caches /\ tmp \in Caches /\ tmp.len = 0 /\ prefix \in Metadata /\ format \in Formats
      /\ ws.len \in Nat /\ ws.len <= MaxSeqLen /\ ws.rows \in [1 .. MaxSeqLen -> Seq(Symbols)] /\ ws.rec \in Seq(Symbols)
      /\ MaxSeqLen \in Nat /\ recurrent \in BOOLEAN
  BY Sizes, Blanks DEF Types, Caches
<1>2. len \in n .. MaxSeqLen
  BY <1>1, TargetLenFits
<1>3. Len(prefix.tokens) \in Nat /\ DOMAIN prefix.tokens = 1 .. Len(prefix.tokens) /\ Len(prefix.tokens) <= ws.len
  BY <1>1, LenProperties DEF ResidentRowsMatch, Metadata
<1> HIDE DEF len
<1>4. CASE /\ ShapeCompatible(format) /\ ws.len >= n
           /\ prefix' = prefix /\ UNCHANGED <<ws, tmp>>
  BY <1>1, <1>4 DEF ResidentRowsMatch, Budgeted, Fits, FitsRecurrent
<1>5. CASE /\ ~(ShapeCompatible(format) /\ ws.len >= n) /\ ~Fits(len, format)
           /\ tmp' = Blank(len, format)
           /\ prefix' = (IF ShapeCompatible(format) THEN prefix ELSE Cleared)
           /\ UNCHANGED ws
  <2>1. tmp' \in Caches /\ tmp'.len = len
    BY <1>1, <1>2, <1>5, BlankCache
  <2>2. ResidentRowsMatch' /\ Budgeted'
    <3>1. CASE prefix' = prefix
      BY <1>5, <3>1 DEF ResidentRowsMatch, Budgeted, Fits, FitsRecurrent
    <3>2. CASE prefix' = Cleared
      BY <1>1, <1>5, <3>2, Blanks DEF ResidentRowsMatch, Budgeted, Fits, FitsRecurrent
    <3> QED BY <1>5, <3>1, <3>2
  <2> QED BY <1>1, <1>2, <1>5, <2>1, <2>2
<1>6. CASE /\ ~(ShapeCompatible(format) /\ ws.len >= n) /\ Fits(len, format)
           /\ ws' = [Blank(len, format) EXCEPT
                !.rows = CopyPrefix(IF ShapeCompatible(format) THEN Len(prefix.tokens) ELSE 0),
                !.rec = ws.rec]
           /\ prefix' = (IF ShapeCompatible(format) /\ FitsRecurrent(len, format) THEN prefix ELSE Cleared)
           /\ UNCHANGED tmp
  <2> DEFINE m == IF ShapeCompatible(format) THEN Len(prefix.tokens) ELSE 0
  <2>1. CopyPrefix(m) \in [1 .. MaxSeqLen -> Seq(Symbols)]
    BY <1>1, Blanks DEF CopyPrefix, Broken
  <2>2. ws' = [len |-> len, fmt |-> format, rows |-> CopyPrefix(m), rec |-> ws.rec]
    BY <1>6 DEF Blank
  <2>3. ws' \in Caches /\ ws'.len = len /\ ws'.fmt = format /\ ws'.rows = CopyPrefix(m) /\ ws'.rec = ws.rec
    BY <1>1, <1>2, <2>1, <2>2 DEF Caches
  <2>4. Fits(ws'.len, ws'.fmt)
    BY <1>6, <2>3
  <2>5. CASE ShapeCompatible(format) /\ FitsRecurrent(len, format)
    <3>1. prefix' = prefix /\ ws.len < n /\ m = Len(prefix.tokens)
      BY <1>1, <1>6, <2>5
    <3>2. ASSUME NEW i \in DOMAIN prefix.tokens PROVE ws'.rows[i] = SubSeq(prefix.tokens, 1, i)
      <4>1. i \in 1 .. MaxSeqLen /\ i <= m
        BY <1>1, <1>3, <3>1
      <4>2. ws'.rows[i] = ws.rows[i]
        BY <2>3, <4>1 DEF CopyPrefix
      <4> QED BY <4>2 DEF ResidentRowsMatch
    <3>3. ResidentRowsMatch'
      <4>1. Len(prefix.tokens) <= ws'.len
        BY <1>1, <1>2, <1>3, <2>3, <3>1
      <4>2. recurrent /\ prefix.tokens # <<>> => ws'.rec = prefix.tokens
        BY <2>3 DEF ResidentRowsMatch
      <4> QED BY <3>1, <3>2, <4>1, <4>2 DEF ResidentRowsMatch
    <3>4. Budgeted'
      BY <2>3, <2>4, <2>5, <3>1 DEF Budgeted, Fits, FitsRecurrent
    <3> QED BY <1>1, <1>2, <1>6, <2>3, <3>1, <3>3, <3>4
  <2>6. CASE ~(ShapeCompatible(format) /\ FitsRecurrent(len, format))
    <3>1. prefix' = Cleared
      BY <1>6, <2>6
    <3>2. ResidentRowsMatch' /\ Budgeted'
      BY <1>1, <1>2, <2>3, <2>4, <3>1, Blanks DEF ResidentRowsMatch, Budgeted, Fits
    <3> QED BY <1>1, <1>2, <1>6, <2>3, <3>1, <3>2
  <2> QED BY <2>5, <2>6
<1> QED BY <1>4, <1>5, <1>6 DEF Workspace, len

\* The cache of a request holds its prompt, its answer and one token more, within the
\* context length.
LEMMA CacheLenFits ==
    ASSUME NEW p \in Prompts, NEW max \in MaxTokensSet
    PROVE  /\ CacheLen(Len(p), max) \in Len(p) + 1 .. MaxSeqLen
           /\ p \in Seq(Tok) /\ p \in Seq(Symbols) /\ Len(p) \in Nat \ {0} /\ Len(p) < MaxSeqLen /\ max \in Nat
<1>1. p \in Seq(Tok) /\ p # <<>> /\ Len(p) < MaxSeqLen /\ max \in Nat /\ MaxSeqLen \in Nat
  BY PromptAssumption, SizeAssumption
<1>2. p \in Seq(Symbols) /\ Len(p) \in Nat \ {0}
  BY <1>1, SeqMonotonic, EmptySeq DEF Symbols
<1> QED BY <1>1, <1>2 DEF CacheLen

\* What a model reads for a prompt with an image is not what its tokens say.
LEMMA ContentOf ==
    ASSUME NEW p \in Seq(Tok), p # <<>>, NEW image \in Images
    PROVE  LET content == [i \in DOMAIN p |-> IF i = 1 /\ image # {} THEN CHOOSE x \in image : TRUE ELSE p[i]] IN
           content \in Seq(Symbols) /\ Len(content) = Len(p) /\ (content = p <=> image = {})
<1> DEFINE content == [i \in DOMAIN p |-> IF i = 1 /\ image # {} THEN CHOOSE x \in image : TRUE ELSE p[i]]
<1>1. /\ Len(p) \in Nat \ {0} /\ p \in [1 .. Len(p) -> Tok] /\ DOMAIN p = 1 .. Len(p)
      /\ \A i \in 1 .. Len(p) : p[i] \in Tok /\ p[i] \in Symbols
  BY LenProperties, EmptySeq DEF Symbols
<1>2. image # {} => /\ (CHOOSE x \in image : TRUE) \in Symbols
                    /\ (CHOOSE x \in image : TRUE) \notin Tok
  BY PromptAssumption DEF Images, Symbols
<1>3. content \in [1 .. Len(p) -> Symbols]
  BY <1>1, <1>2
<1>4. content \in Seq(Symbols)
  BY <1>1, <1>3, SeqDef
<1>5. Len(content) = Len(p)
  <2>1. DOMAIN content = 1 .. Len(content) /\ Len(content) \in Nat
    BY <1>4, LenProperties
  <2>2. DOMAIN content = 1 .. Len(p)
    BY <1>1
  <2> HIDE DEF content
  <2>3. Len(p) \in 1 .. Len(content) /\ (Len(content) = 0 \/ Len(content) \in 1 .. Len(p))
    BY <1>1, <2>1, <2>2
  <2>4. \A a \in Nat, b \in Nat \ {0} : b \in 1 .. a /\ (a = 0 \/ a \in 1 .. b) => a = b
    OBVIOUS
  <2> QED BY <1>1, <2>1, <2>3, <2>4
<1>6. image = {} => content = p
  BY <1>1
<1>7. image # {} => content[1] \notin Tok /\ p[1] \in Tok
  BY <1>1, <1>2
<1> QED BY <1>4, <1>5, <1>6, <1>7

\* The choice of a workspace keeps the metadata true of it.
LEMMA BeginStep ==
    ASSUME IInv, UNCHANGED recurrent,
           NEW p \in Prompts, NEW image \in Images, NEW g \in BOOLEAN, NEW r \in Penalties, NEW max \in MaxTokensSet,
           Begin(p, image, g, r, max)
    PROVE  IInv'
<1> DEFINE n == CacheLen(Len(p), max)
           content == [i \in DOMAIN p |-> IF i = 1 /\ image # {} THEN CHOOSE x \in image : TRUE ELSE p[i]]
<1>1. /\ n \in Len(p) + 1 .. MaxSeqLen /\ MaxSeqLen \in Nat
      /\ p \in Seq(Tok) /\ p \in Seq(Symbols) /\ Len(p) \in Nat \ {0} /\ max \in Nat
  BY CacheLenFits, Sizes
<1>2. content \in Seq(Symbols) /\ Len(content) = Len(p) /\ (content = p <=> image = {})
  <2>1. p # <<>>
    BY PromptAssumption
  <2> QED BY <1>1, <2>1, ContentOf
<1>3. pc = "idle" /\ req = NoRequest /\ tmp = NoCache /\ pc' = "workspace" /\ UNCHANGED <<convs, format, logits>>
  BY DEF Begin, IInv, Resting
<1>4. n \in 1 .. MaxSeqLen
  BY <1>1
<1>5. /\ ws' \in Caches /\ tmp' \in Caches /\ prefix' \in {prefix, Cleared}
      /\ n <= (IF tmp'.len > 0 THEN tmp' ELSE ws').len
      /\ ResidentRowsMatch' /\ Budgeted'
  BY <1>3, <1>4, WorkspaceHolds DEF IInv, Begin
<1> HIDE DEF content, n
<1>6. req' = [NoRequest EXCEPT
          !.tokens = p, !.content = content,
          !.greedy = g, !.penalty = r, !.max = max, !.len = n, !.transient = Transient, !.eligible = Eligible(image)]
  BY DEF Begin, content, n
<1>7. req' = [tokens |-> p, content |-> content, greedy |-> g, penalty |-> r, max |-> max, len |-> n,
              transient |-> Transient, eligible |-> Eligible(image), reused |-> 0, pos |-> 0, offset |-> 0, cached |-> NoPrefix,
              promptLogits |-> NoLogits, promptGreedy |-> NoToken, next |-> NoToken, generated |-> <<>>]
  BY <1>6 DEF NoRequest
<1>8. Transient \in BOOLEAN /\ Eligible(image) \in BOOLEAN
  BY DEF Transient, Eligible
<1>9. /\ req'.tokens = p /\ req'.content = content /\ req'.len = n /\ req'.transient = Transient
      /\ req'.eligible = Eligible(image) /\ req'.penalty = r /\ req'.reused = 0 /\ req'.pos = 0 /\ req'.generated = <<>>
  BY <1>7
<1>10. req' \in Requests
  BY <1>1, <1>2, <1>7, <1>8, Blanks DEF Requests, Cleared
<1>11. Types'
  <2>1. prefix' \in Metadata /\ prefix'.promptTokens <= Len(prefix'.tokens)
    BY <1>5, Blanks DEF IInv, Types
  <2> QED BY <1>3, <1>5, <1>10, <2>1 DEF IInv, Types
<1>12. Cache' = IF tmp'.len > 0 THEN tmp' ELSE ws'
  BY <1>9 DEF Cache, Transient
<1>13. Admitted'
  <2>1. Len(req'.tokens) < req'.len /\ req'.len <= Cache'.len /\ req'.reused <= Len(req'.tokens)
    BY <1>1, <1>5, <1>9, <1>12
  <2>2. req'.eligible => req'.content = req'.tokens /\ ~req'.transient /\ FitsRecurrent(ws.len, ws.fmt)'
    BY <1>2, <1>9 DEF Eligible, FitsRecurrent
  <2>3. ~req'.eligible /\ ~req'.transient => MustRetire'
    BY <1>2, <1>9 DEF Eligible, MustRetire, Outgrown, FitsRecurrent
  <2> QED BY <1>2, <1>3, <1>9, <2>1, <2>2, <2>3 DEF Admitted
<1>14. Reused'
  <2>1. Cache'.len \in Nat /\ (Cache' = ws' \/ Cache' = tmp')
    BY <1>5, <1>12, Sizes DEF Caches
  <2>2. RowsHold(Cache', p, 0)
    BY <1>1, <2>1 DEF RowsHold
  <2> QED BY <1>3, <1>9, <2>2 DEF Reused, RowsHold
<1>15. Resting' /\ Written'
  BY <1>3 DEF Resting, Written, Answering
<1>16. SnapshotRowsMatch'
  BY <1>3 DEF IInv, SnapshotRowsMatch
<1> QED BY <1>5, <1>11, <1>13, <1>14, <1>15, <1>16 DEF IInv

\* Of a request that has a prompt.
LEMMA PromptOf ==
    ASSUME Types, Admitted, pc # "idle"
    PROVE  /\ req \in Requests /\ req.tokens \in Seq(Tok) /\ req.tokens \in Seq(Symbols) /\ req.tokens # <<>>
           /\ Len(req.tokens) \in Nat \ {0} /\ req.reused \in Nat /\ req.pos \in Nat /\ req.len \in Nat
           /\ req.content \in Seq(Symbols) /\ req.generated \in Seq(Tok) /\ req.generated \in Seq(Symbols)
           /\ Len(req.generated) \in Nat /\ req.max \in Nat
           /\ Cache \in Caches /\ Cache.len \in Nat /\ Cache.len <= MaxSeqLen /\ MaxSeqLen \in Nat
           /\ recurrent \in BOOLEAN /\ req.eligible \in BOOLEAN /\ req.transient \in BOOLEAN
<1>1. req.tokens \in Seq(Tok) /\ req.tokens # <<>> /\ req \in Requests /\ req.generated \in Seq(Tok)
  BY PromptAssumption DEF Types, Admitted, Requests
<1>2. req.tokens \in Seq(Symbols) /\ req.generated \in Seq(Symbols) /\ Len(req.tokens) \in Nat \ {0} /\ Len(req.generated) \in Nat
  BY <1>1, SeqMonotonic, EmptySeq, LenProperties DEF Symbols
<1>3. Cache \in Caches
  BY DEF Cache, Types
<1> QED BY <1>1, <1>2, <1>3, Sizes DEF Requests, Caches, Types

\* The rows put into place for a prompt are the prompt's; what they displace is captured first.
LEMMA ReuseStep ==
    ASSUME IInv, UNCHANGED recurrent, Reuse
    PROVE  IInv'
<1> DEFINE resident == PrefixReuse(req.tokens)
           pick == Candidates(req.tokens, resident)
           i == BestSnapshot(req.tokens, resident)
           e == convs.entries[i]
           best == Match(req.tokens, e)
           from == Min({resident, best})
           touched == IF pick = {} THEN convs.entries ELSE Touch(convs.entries, i)
           kept == IF SnapshotsSupported THEN Retain(touched, req.tokens) ELSE convs.entries
<1>1. pc = "workspace" /\ pc' = "reused" /\ UNCHANGED <<tmp, format, logits>>
  BY DEF Reuse
<1> USE DEF IInv
<1>2. /\ req \in Requests /\ req.tokens \in Seq(Tok) /\ req.tokens # <<>> /\ Len(req.tokens) \in Nat \ {0}
      /\ recurrent \in BOOLEAN /\ Cache.len \in Nat /\ (Cache = ws \/ Cache = tmp)
  BY <1>1, PromptOf DEF Cache
<1>3. ASSUME ~req.eligible PROVE IInv'
  <2>1. /\ prefix' = (IF MustRetire THEN Cleared ELSE prefix)
        /\ req' = [req EXCEPT !.cached = prefix']
        /\ UNCHANGED <<ws, convs>>
    BY <1>3 DEF Reuse
  <2>2. prefix' \in Metadata /\ prefix' \in {prefix, Cleared} /\ prefix'.promptTokens <= Len(prefix'.tokens)
    BY <2>1, Blanks DEF Types
  <2>3. /\ req' \in Requests /\ \A f \in {"tokens", "content", "len", "transient", "eligible", "penalty", "reused", "pos", "generated"} : req'[f] = req[f]
    BY <1>2, <2>1, <2>2 DEF Requests
  <2>4. Types'
    BY <1>1, <2>1, <2>2, <2>3 DEF Types
  <2>5. Cache' = Cache /\ (MustRetire' <=> MustRetire)
    BY <1>1, <2>1, <2>3 DEF Cache, MustRetire, Outgrown
  <2>6. Admitted'
    BY <1>1, <2>1, <2>3, <2>5 DEF Admitted, FitsRecurrent
  <2>7. Reused'
    <3>1. RowsHold(Cache, req.tokens, 0) /\ req.generated = <<>> /\ req.pos = 0 /\ req.reused = 0
      BY <1>1, <1>2 DEF Reused, RowsHold
    <3>2. ~req.transient => prefix' = Cleared
      BY <1>1, <1>3, <2>1 DEF Admitted
    <3> QED BY <1>1, <2>3, <2>5, <3>1, <3>2 DEF Reused, RowsHold
  <2>8. ResidentRowsMatch' /\ Budgeted'
    BY <2>1, <2>2, <1>2, Blanks, Sizes DEF ResidentRowsMatch, Budgeted, Fits, FitsRecurrent, Types, Caches
  <2>9. Resting' /\ Written' /\ SnapshotRowsMatch'
    BY <1>1, <2>1 DEF Resting, Written, Answering, SnapshotRowsMatch
  <2> QED BY <2>4, <2>6, <2>7, <2>8, <2>9
<1>4. ASSUME req.eligible PROVE IInv'
  <2>1. /\ convs' = [convs EXCEPT !.entries = kept]
        /\ IF SnapshotsSupported /\ pick # {}
           THEN /\ ws' = [ws EXCEPT !.rows = [j \in DOMAIN @ |-> IF j \in from + 1 .. best THEN e.rows[j] ELSE @[j]]]
                /\ prefix' = Cleared
                /\ req' = [req EXCEPT !.cached = prefix, !.reused = best]
           ELSE /\ req' = [req EXCEPT !.cached = prefix, !.reused = resident]
                /\ UNCHANGED <<ws, prefix>>
    BY <1>4 DEF Reuse
  <2>2. resident \in Nat /\ RowsHold(ws, req.tokens, resident) /\ (resident > 0 => StateHolds(ws, req.tokens, resident))
    BY <1>2, PrefixReuseHolds
  <2>3. pick # {} => /\ i \in 1 .. Len(convs.entries) /\ e \in Exact
                     /\ best \in Nat /\ best > resident /\ best <= Len(req.tokens) - 1 /\ best <= ws.len
                     /\ \A j \in 1 .. best : e.rows[j] = SubSeq(req.tokens, 1, j)
    BY <1>2, BestHolds
  <2> HIDE DEF resident, i
  <2>4. convs' \in [entries : Seq(Snapshots), limit : 0 .. DefaultLimit] /\ convs'.entries \in Seq(Exact)
    <3>1. convs.entries \in Seq(Exact) /\ convs \in [entries : Seq(Snapshots), limit : 0 .. DefaultLimit]
      BY ExactSnapshots DEF Types
    <3>2. touched \in Seq(Exact)
      BY <2>3, <3>1, TouchKeeps
    <3> HIDE DEF touched
    <3>3. kept \in Seq(Exact)
      BY <3>1, <3>2, RetainKeeps
    <3>4. kept \in Seq(Snapshots)
      BY <3>3, SeqMonotonic DEF Exact
    <3> QED BY <2>1, <3>1, <3>3, <3>4
  <2>5. SnapshotRowsMatch'
    <3>1. \A k \in DOMAIN convs'.entries : convs'.entries[k] \in Exact
      BY <2>4, LenProperties, ElementOfSeq
    <3> QED BY <3>1 DEF SnapshotRowsMatch, Exact
  <2> HIDE DEF kept, e, best, from, touched, pick
  <2>6. /\ ~req.transient /\ req.content = req.tokens /\ Cache = ws
        /\ req.generated = <<>> /\ req.pos = 0
        /\ ws \in Caches /\ prefix \in Metadata /\ prefix.promptTokens <= Len(prefix.tokens)
    BY <1>1, <1>4 DEF Admitted, Reused, Cache, Types
  <2> DEFINE same == {"tokens", "content", "len", "transient", "eligible", "penalty", "pos", "generated"}
  <2>7. CASE SnapshotsSupported /\ pick # {}
    <3>1. /\ ws' = [ws EXCEPT !.rows = [j \in DOMAIN ws.rows |-> IF j \in from + 1 .. best THEN e.rows[j] ELSE ws.rows[j]]]
          /\ prefix' = Cleared
          /\ req' = [req EXCEPT !.cached = prefix, !.reused = best]
      BY <2>1, <2>7
    <3>2. best \in Nat /\ req' \in Requests /\ req'.reused = best /\ \A f \in same : req'[f] = req[f]
      BY <1>2, <2>3, <2>6, <2>7, <3>1 DEF Requests
    <3>3. from = resident
      BY <2>2, <2>3, <2>7, MinOfTwo DEF from
    <3>4. ws.rows \in [1 .. MaxSeqLen -> Seq(Symbols)] /\ ws.len \in Nat /\ ws.len <= MaxSeqLen /\ MaxSeqLen \in Nat
      BY <2>6, Sizes DEF Caches
    <3>5. \A j \in 1 .. best : SubSeq(req.tokens, 1, j) \in Seq(Symbols)
      <4>1. TAKE j \in 1 .. best
      <4>2. req.tokens \in Seq(Symbols)
        BY <1>1, PromptOf
      <4>3. j \in Nat /\ j <= Len(req.tokens)
        BY <1>2, <2>3, <2>7
      <4> QED BY <4>2, <4>3, Beginning
    <3> DEFINE rows == [j \in 1 .. MaxSeqLen |-> IF j \in from + 1 .. best THEN e.rows[j] ELSE ws.rows[j]]
    <3>6. rows \in [1 .. MaxSeqLen -> Seq(Symbols)]
      <4>1. \A j \in from + 1 .. best : e.rows[j] \in Seq(Symbols)
        <5>1. TAKE j \in from + 1 .. best
        <5>2. j \in 1 .. best
          BY <2>2, <3>2, <3>3
        <5>3. e.rows[j] = SubSeq(req.tokens, 1, j)
          BY <2>3, <2>7, <5>2
        <5> QED BY <3>5, <5>2, <5>3
      <4> QED BY <3>4, <4>1
    <3>7. ws' = [len |-> ws.len, fmt |-> ws.fmt, rows |-> rows, rec |-> ws.rec]
      BY <2>6, <3>1, <3>4 DEF Caches
    <3>8. \A j \in 1 .. best : rows[j] = SubSeq(req.tokens, 1, j)
      <4>1. TAKE j \in 1 .. best
      <4>2. j \in 1 .. MaxSeqLen
        BY <2>3, <2>7, <3>4
      <4>3. CASE j \in from + 1 .. best
        BY <2>3, <2>7, <4>2, <4>3
      <4>4. CASE j \notin from + 1 .. best
        <5>1. j \in 1 .. resident
          BY <2>2, <2>3, <2>7, <3>3, <4>4
        <5> QED BY <2>2, <4>2, <4>4, <5>1 DEF RowsHold
      <4> QED BY <4>3, <4>4
    <3> HIDE DEF rows
    <3>9. ws' \in Caches /\ ws'.len = ws.len /\ ws'.fmt = ws.fmt
      BY <2>6, <3>6, <3>7 DEF Caches
    <3>10. RowsHold(ws', req.tokens, best)
      BY <1>2, <2>3, <2>7, <3>7, <3>8 DEF RowsHold
    <3>11. ~recurrent
      BY <2>7 DEF SnapshotsSupported
    <3>12. Types'
      BY <1>1, <2>4, <3>1, <3>2, <3>9, Blanks DEF Types
    <3>13. Cache' = ws' /\ best <= Len(req.tokens)
      BY <1>2, <2>3, <2>6, <2>7, <3>2 DEF Cache
    <3>14. Admitted'
      BY <1>1, <1>4, <2>6, <3>2, <3>9, <3>13 DEF Admitted, FitsRecurrent
    <3>15. Reused'
      BY <1>1, <1>4, <2>6, <3>2, <3>10, <3>11, <3>13 DEF Reused, RowsHold, StateHolds
    <3>16. ResidentRowsMatch' /\ Budgeted'
      BY <3>1, <3>9, <3>4, Blanks DEF ResidentRowsMatch, Budgeted, Fits, FitsRecurrent
    <3>17. Resting' /\ Written'
      BY <1>1 DEF Resting, Written, Answering
    <3> QED BY <2>5, <3>12, <3>14, <3>15, <3>16, <3>17
  <2>8. CASE ~(SnapshotsSupported /\ pick # {})
    <3>1. req' = [req EXCEPT !.cached = prefix, !.reused = resident] /\ UNCHANGED <<ws, prefix>>
      BY <2>1, <2>8
    <3>2. req' \in Requests /\ req'.reused = resident /\ \A f \in same : req'[f] = req[f]
      BY <1>2, <2>2, <2>6, <3>1 DEF Requests
    <3>3. Types'
      BY <1>1, <2>4, <3>1, <3>2 DEF Types
    <3>4. Cache' = ws' /\ resident <= Len(req.tokens)
      BY <1>2, <2>2, <2>6, <3>2 DEF Cache, RowsHold
    <3>5. Admitted'
      BY <1>1, <1>4, <2>6, <3>1, <3>2, <3>4 DEF Admitted, FitsRecurrent
    <3>6. Reused'
      BY <1>1, <1>4, <2>2, <2>6, <3>1, <3>2, <3>4 DEF Reused, RowsHold, StateHolds
    <3>7. ResidentRowsMatch' /\ Budgeted'
      BY <3>1 DEF ResidentRowsMatch, Budgeted, Fits, FitsRecurrent
    <3>8. Resting' /\ Written'
      BY <1>1 DEF Resting, Written, Answering
    <3> QED BY <2>5, <3>3, <3>5, <3>6, <3>7, <3>8
  <2> QED BY <2>7, <2>8
<1> QED BY <1>3, <1>4

\* What stays of a request from its first choice of rows to its end.
LEMMA AdmittedStays ==
    ASSUME Admitted, pc # "idle", UNCHANGED recurrent,
           \A f \in {"tokens", "content", "len", "transient", "eligible", "penalty", "reused"} : req'[f] = req[f],
           Cache'.len = Cache.len, ws'.len = ws.len, ws'.fmt = ws.fmt
    PROVE  Admitted'
<1>1. /\ req'.tokens = req.tokens /\ req'.content = req.content /\ req'.len = req.len /\ req'.transient = req.transient
      /\ req'.eligible = req.eligible /\ req'.penalty = req.penalty /\ req'.reused = req.reused
  OBVIOUS
<1>2. MustRetire' <=> MustRetire
  BY <1>1 DEF MustRetire, Outgrown
<1> QED BY <1>1, <1>2 DEF Admitted, FitsRecurrent

\* A write to the cache of a request disturbs nothing that is advertised.
LEMMA StoreHolds ==
    ASSUME Types, ResidentRowsMatch, Budgeted, UNCHANGED recurrent, NEW c \in Caches, c.len = Cache.len, c.fmt = Cache.fmt,
           Store(c), req'.transient = req.transient, prefix' \in {prefix, Cleared}, ~req.transient => prefix' = Cleared
    PROVE  /\ ws' \in Caches /\ tmp' \in Caches /\ ws'.len = ws.len /\ ws'.fmt = ws.fmt /\ Cache' = c
           /\ prefix' \in Metadata /\ prefix'.promptTokens <= Len(prefix'.tokens)
           /\ ResidentRowsMatch' /\ Budgeted'
<1>1. ws \in Caches /\ tmp \in Caches /\ ws.len \in Nat /\ prefix \in Metadata /\ prefix.promptTokens <= Len(prefix.tokens)
  BY Sizes DEF Types, Caches
<1>2. prefix' \in Metadata /\ prefix'.promptTokens <= Len(prefix'.tokens)
  BY <1>1, Blanks
<1>3. CASE req.transient
  <2>1. tmp' = c /\ ws' = ws /\ Cache' = c
    BY <1>3 DEF Store, Cache
  <2>2. ResidentRowsMatch' /\ Budgeted'
    BY <1>1, <2>1, Blanks DEF ResidentRowsMatch, Budgeted, Fits, FitsRecurrent
  <2> QED BY <1>1, <1>2, <2>1, <2>2
<1>4. CASE ~req.transient
  <2>1. ws' = c /\ tmp' = tmp /\ Cache' = c /\ prefix' = Cleared /\ Cache = ws
    BY <1>4 DEF Store, Cache
  <2>2. ResidentRowsMatch' /\ Budgeted'
    BY <1>1, <2>1, Blanks DEF ResidentRowsMatch, Budgeted, Fits, FitsRecurrent
  <2> QED BY <1>1, <1>2, <2>1, <2>2
<1> QED BY <1>3, <1>4

\* Rows of a text are rows of its continuation.
LEMMA Continued ==
    ASSUME NEW c, NEW text \in Seq(Symbols), NEW t \in Symbols, NEW n \in Nat, RowsHold(c, text, n), StateHolds(c, text, n)
    PROVE  /\ RowsHold(c, Append(text, t), n) /\ StateHolds(c, Append(text, t), n)
           /\ Append(text, t) \in Seq(Symbols) /\ Len(Append(text, t)) = Len(text) + 1 /\ Append(text, t)[Len(text) + 1] = t
<1>1. Len(text) \in Nat /\ n <= Len(text) /\ n <= c.len
  BY LenProperties DEF RowsHold
<1>2. Append(text, t) = text \o <<t>> /\ <<t>> \in Seq(Symbols)
  BY AppendIsConcat
<1>3. ASSUME NEW i \in 0 .. n PROVE SubSeq(Append(text, t), 1, i) = SubSeq(text, 1, i)
  BY <1>1, <1>2, BeginningOfConcat
<1>4. /\ Append(text, t) \in Seq(Symbols) /\ Len(Append(text, t)) = Len(text) + 1 /\ Append(text, t)[Len(text) + 1] = t
  BY AppendProperties
<1>5. \A i \in 1 .. n : c.rows[i] = SubSeq(Append(text, t), 1, i)
  BY <1>3 DEF RowsHold
<1>6. recurrent => c.rec = SubSeq(Append(text, t), 1, n)
  <2>1. n \in 0 .. n
    OBVIOUS
  <2>2. SubSeq(Append(text, t), 1, n) = SubSeq(text, 1, n)
    BY <1>3, <2>1
  <2> QED BY <2>2 DEF StateHolds
<1> QED BY <1>1, <1>4, <1>5, <1>6 DEF RowsHold, StateHolds

\* The token and the logits a head leaves.
LEMMA HeadLeaves ==
    ASSUME NEW t \in Seq(Symbols), NEW r \in Penalties \cup {0}, NEW old \in Logits
    PROVE  GreedyHead(t, r, old).token \in Greedies /\ GreedyHead(t, r, old).logits \in Logits
<1>1. OutputHead \in {"reduce", "cpu", "materialize"}
  BY KindAssumption DEF HeadKinds
<1>2. GreedyToken(t, r) \in Greedies /\ Raw(t) \in Logits /\ NoToken \in Greedies /\ Spoiled \in Logits
  BY Blanks DEF GreedyToken, Raw, Greedies, Logits, LogitStates
<1>3. CASE OutputHead = "reduce" \/ (OutputHead = "cpu" /\ r = 1)
  BY <1>2, <1>3 DEF GreedyHead
<1>4. CASE OutputHead = "cpu" /\ r # 1
  BY <1>2, <1>4 DEF GreedyHead
<1>5. CASE OutputHead = "materialize"
  BY <1>2, <1>5 DEF GreedyHead
<1> QED BY <1>1, <1>3, <1>4, <1>5

\* From the first write on, the metadata is gone and the reused rows are what the model reads.
LEMMA StartStep ==
    ASSUME IInv, UNCHANGED recurrent, Start
    PROVE  IInv'
<1> DEFINE n == Len(req.tokens)
           same == req.reused = n /\ req.cached.promptTokens = n
           known == same /\ req.cached.logits.state # "empty"
           chosen == same /\ ~known /\ Answered(req.cached)
           offset == IF req.reused < n \/ known \/ chosen THEN req.reused
                     ELSE IF recurrent THEN 0 ELSE n - 1
           next == IF chosen THEN req.cached.greedy ELSE NoToken
           c == ColdState(Cache, offset)
<1>1. /\ pc = "reused" /\ pc' = "prefill" /\ UNCHANGED <<convs, format>>
      /\ prefix' = (IF req.eligible THEN Cleared ELSE prefix)
      /\ Store(c)
      /\ req' = [req EXCEPT !.offset = offset, !.pos = offset, !.next = next, !.promptGreedy = next]
      /\ logits' = IF known THEN req.cached.logits
                   ELSE IF Batched /\ req.greedy /\ offset < n THEN NoLogits ELSE logits
  BY DEF Start
<1> HIDE DEF known, chosen, next, c
<1>2. /\ req \in Requests /\ Cache \in Caches /\ req.content \in Seq(Symbols) /\ req.tokens \in Seq(Symbols)
      /\ n \in Nat \ {0} /\ req.reused \in Nat /\ req.reused <= n /\ recurrent \in BOOLEAN
      /\ Len(req.content) = n /\ n < req.len /\ req.len \in Nat /\ Cache.len \in Nat /\ req.len <= Cache.len
  BY <1>1, PromptOf DEF IInv, Admitted
<1>3. /\ offset \in Nat /\ offset <= req.reused /\ (recurrent => offset = 0 \/ offset = req.reused)
  BY <1>2
<1> HIDE DEF offset
<1>4. next \in Greedies
  BY <1>2, Blanks DEF next, Requests, Metadata
<1>5. /\ req' \in Requests /\ req'.pos = offset
      /\ \A f \in {"tokens", "content", "len", "transient", "eligible", "penalty", "reused", "generated"} : req'[f] = req[f]
  BY <1>1, <1>2, <1>3, <1>4 DEF Requests
<1>6. logits' \in Logits
  BY <1>1, <1>2, Blanks DEF IInv, Types, Requests, Metadata
<1>7. c \in Caches /\ c.len = Cache.len /\ c.fmt = Cache.fmt /\ c.rows = Cache.rows
      /\ (recurrent /\ offset = 0 => c.rec = <<>>) /\ (offset # 0 => c = Cache)
  BY <1>2, Blanks DEF c, ColdState, Caches
<1>8. req.generated = <<>> /\ req.content \o <<>> = req.content
  BY <1>1, <1>2, ConcatEmptySeq DEF IInv, Reused
<1>9. RowsHold(c, req.content, offset)
  <2>1. RowsHold(Cache, req.tokens, req.reused)
    BY <1>1 DEF IInv, Reused
  <2>2. CASE req.eligible
    <3>1. req.content = req.tokens
      BY <1>1, <2>2 DEF IInv, Admitted
    <3> QED BY <1>2, <1>3, <1>7, <2>1, <3>1 DEF RowsHold
  <2>3. CASE ~req.eligible
    <3>1. offset = 0
      BY <1>1, <1>3, <2>3 DEF IInv, Admitted
    <3> QED BY <1>2, <1>7, <3>1 DEF RowsHold
  <2> QED BY <2>2, <2>3
<1>10. StateHolds(c, req.content, offset)
  <2>1. CASE offset = 0
    <3>1. SubSeq(req.content, 1, 0) = <<>>
      BY SubSeqEmpty
    <3> QED BY <1>7, <2>1, <3>1 DEF StateHolds
  <2>2. CASE offset # 0 /\ recurrent
    <3>1. offset = req.reused /\ req.reused > 0 /\ req.eligible
      BY <1>1, <1>2, <1>3, <2>2 DEF IInv, Admitted
    <3>2. req.content = req.tokens /\ Cache = ws
      BY <1>1, <3>1 DEF IInv, Admitted, Cache
    <3>3. StateHolds(ws, req.tokens, req.reused)
      BY <1>1, <3>1 DEF IInv, Reused
    <3> QED BY <1>7, <2>2, <3>1, <3>2, <3>3
  <2>3. CASE ~recurrent
    BY <2>3 DEF StateHolds
  <2> QED BY <1>2, <2>1, <2>2, <2>3
<1>11. prefix' \in {prefix, Cleared} /\ (~req.transient => prefix' = Cleared)
  BY <1>1 DEF IInv, Reused
<1>12. /\ ws' \in Caches /\ tmp' \in Caches /\ ws'.len = ws.len /\ ws'.fmt = ws.fmt /\ Cache' = c
       /\ prefix' \in Metadata /\ prefix'.promptTokens <= Len(prefix'.tokens)
       /\ ResidentRowsMatch' /\ Budgeted'
  <2>1. req'.transient = req.transient
    BY <1>5
  <2> QED BY <1>1, <1>7, <1>11, <2>1, StoreHolds DEF IInv
<1>13. Types'
  BY <1>1, <1>5, <1>6, <1>12 DEF IInv, Types
<1>14. Admitted'
  BY <1>1, <1>5, <1>7, <1>12, AdmittedStays DEF IInv
<1>15. Written'
  <2>1. req'.content \o req'.generated = req.content /\ req'.generated = <<>> /\ req'.pos = offset /\ req'.transient = req.transient
    BY <1>5, <1>8
  <2>2. offset <= req'.len
    BY <1>2, <1>3, <1>5
  <2>3. RowsHold(Cache', req.content, offset) /\ StateHolds(Cache', req.content, offset)
    BY <1>9, <1>10, <1>12
  <2> QED BY <1>1, <1>11, <2>1, <2>2, <2>3 DEF Written, Answering, RowsHold, StateHolds
<1>16. Resting' /\ Reused' /\ SnapshotRowsMatch'
  BY <1>1 DEF IInv, Resting, Reused, SnapshotRowsMatch
<1> QED BY <1>12, <1>13, <1>14, <1>15, <1>16 DEF IInv

\* What a request that has started to write knows of its cache.
LEMMA TextOf ==
    ASSUME IInv, Answering
    PROVE  LET text == req.content \o req.generated IN
           /\ text \in Seq(Symbols) /\ Len(text) = Len(req.tokens) + Len(req.generated)
           /\ RowsHold(Cache, text, req.pos) /\ StateHolds(Cache, text, req.pos) /\ req.pos <= Len(text)
           /\ pc # "idle" /\ Len(req.content) = Len(req.tokens) /\ Len(req.tokens) < req.len /\ req.len <= Cache.len
           /\ req.pos <= req.len /\ (~req.transient => prefix = Cleared)
<1>1. pc # "idle"
  BY DEF Answering
<1>2. /\ req.content \in Seq(Symbols) /\ req.generated \in Seq(Symbols)
      /\ Len(req.content) = Len(req.tokens) /\ Len(req.tokens) < req.len /\ req.len <= Cache.len
  BY <1>1, PromptOf DEF IInv, Admitted
<1>3. /\ req.content \o req.generated \in Seq(Symbols)
      /\ Len(req.content \o req.generated) = Len(req.tokens) + Len(req.generated)
  <2>1. Len(req.content) \in Nat /\ Len(req.generated) \in Nat
    BY <1>2, LenProperties
  <2>2. /\ req.content \o req.generated \in Seq(Symbols)
        /\ Len(req.content \o req.generated) = Len(req.content) + Len(req.generated)
    BY <1>2, ConcatProperties
  <2> QED BY <1>2, <2>1, <2>2
<1>4. /\ RowsHold(Cache, req.content \o req.generated, req.pos) /\ StateHolds(Cache, req.content \o req.generated, req.pos)
      /\ req.pos <= req.len /\ (~req.transient => prefix = Cleared)
  BY DEF IInv, Written
<1>5. req.pos <= Len(req.content \o req.generated)
  BY <1>4 DEF RowsHold
<1> QED BY <1>1, <1>2, <1>3, <1>4, <1>5

\* A prompt token extends the rows of the text by its own.
LEMMA PrefillStep ==
    ASSUME IInv, UNCHANGED recurrent, Prefill
    PROVE  IInv'
<1> DEFINE i == req.pos + 1
           c == Forward(Cache, req.content[i], i)
<1>1. /\ pc = "prefill" /\ req.pos < Len(req.tokens) /\ Store(c) /\ req' = [req EXCEPT !.pos = i]
      /\ logits' = (IF i = Len(req.tokens) /\ ~req.greedy THEN Raw(c.rows[i]) ELSE logits)
      /\ UNCHANGED <<prefix, convs, format, pc>>
  BY DEF Prefill
<1> HIDE DEF c
<1>2. pc # "idle" /\ Answering
  BY <1>1 DEF Answering
<1>3. /\ req \in Requests /\ Cache \in Caches /\ req.content \in Seq(Symbols) /\ req.pos \in Nat /\ req.len \in Nat
      /\ Len(req.tokens) \in Nat /\ Cache.len \in Nat /\ Cache.len <= MaxSeqLen /\ MaxSeqLen \in Nat /\ recurrent \in BOOLEAN
  BY <1>2, PromptOf DEF IInv
<1>4. /\ req.generated = <<>> /\ req.content \o req.generated = req.content
      /\ RowsHold(Cache, req.content, req.pos) /\ StateHolds(Cache, req.content, req.pos)
      /\ Len(req.content) = Len(req.tokens) /\ Len(req.tokens) < req.len /\ req.len <= Cache.len
      /\ (~req.transient => prefix = Cleared)
  <2>1. req.generated = <<>> /\ req.content \o <<>> = req.content
    BY <1>1, <1>2, <1>3, ConcatEmptySeq DEF IInv, Written
  <2> QED BY <1>2, <2>1, TextOf
<1>5. /\ c \in Caches /\ c.len = Cache.len /\ c.fmt = Cache.fmt
      /\ RowsHold(c, req.content, i) /\ StateHolds(c, req.content, i)
  <2>1. req.pos < Len(req.content) /\ req.pos < Cache.len
    BY <1>1, <1>3, <1>4
  <2> QED BY <1>3, <1>4, <2>1, ForwardHolds DEF c
<1>6. /\ req' \in Requests /\ req'.pos = i /\ i \in Nat /\ i <= req.len
      /\ \A f \in {"tokens", "content", "len", "transient", "eligible", "penalty", "reused", "generated"} : req'[f] = req[f]
  <2>1. i \in Nat /\ i <= req.len
    BY <1>1, <1>3, <1>4
  <2> HIDE DEF i
  <2> QED BY <1>1, <1>3, <2>1 DEF Requests
<1>7. logits' \in Logits
  <2>1. i \in 1 .. MaxSeqLen
    BY <1>1, <1>3, <1>4
  <2>2. c.rows[i] \in Seq(Symbols)
    BY <1>5, <2>1 DEF Caches
  <2> QED BY <1>1, <2>2 DEF IInv, Types, Raw, Logits, LogitStates
<1>8. /\ ws' \in Caches /\ tmp' \in Caches /\ ws'.len = ws.len /\ ws'.fmt = ws.fmt /\ Cache' = c
      /\ prefix' \in Metadata /\ prefix'.promptTokens <= Len(prefix'.tokens)
      /\ ResidentRowsMatch' /\ Budgeted'
  <2>1. req'.transient = req.transient /\ prefix' = prefix
    BY <1>1, <1>6
  <2> QED BY <1>1, <1>4, <1>5, <2>1, StoreHolds DEF IInv
<1>9. Types'
  BY <1>1, <1>6, <1>7, <1>8 DEF IInv, Types
<1>10. Admitted'
  BY <1>2, <1>1, <1>5, <1>6, <1>8, AdmittedStays DEF IInv
<1>11. Written'
  <2>1. /\ req'.content \o req'.generated = req.content /\ req'.generated = <<>> /\ req'.pos = i /\ i <= req'.len
        /\ req'.transient = req.transient
    BY <1>4, <1>6
  <2>2. RowsHold(Cache', req.content, i) /\ StateHolds(Cache', req.content, i)
    BY <1>5, <1>8
  <2> QED BY <1>1, <1>4, <2>1, <2>2 DEF Written, Answering, RowsHold, StateHolds
<1>12. Resting' /\ Reused' /\ SnapshotRowsMatch'
  BY <1>1 DEF IInv, Resting, Reused, SnapshotRowsMatch
<1> QED BY <1>8, <1>9, <1>10, <1>11, <1>12 DEF IInv

\* The first choice changes no row.
LEMMA PromptedStep ==
    ASSUME IInv, UNCHANGED recurrent, Prompted
    PROVE  IInv'
<1> DEFINE n == Len(req.tokens)
           g == GreedyHead(Cache.rows[n], req.penalty, logits)
           fresh == req.greedy /\ req.offset < n
<1>1. /\ pc = "prefill" /\ req.pos = n /\ pc' = "decode" /\ UNCHANGED <<ws, tmp, prefix, convs, format>>
      /\ logits' = (IF fresh THEN g.logits ELSE logits)
      /\ req' = [req EXCEPT !.next = IF fresh THEN g.token ELSE req.next,
                            !.promptGreedy = IF fresh THEN g.token ELSE req.promptGreedy,
                            !.promptLogits = IF req.eligible THEN logits' ELSE req.promptLogits]
  BY DEF Prompted
<1> HIDE DEF g, fresh
<1>2. pc # "idle" /\ Answering
  BY <1>1 DEF Answering
<1>3. /\ req \in Requests /\ Cache \in Caches /\ n \in Nat \ {0} /\ n < req.len /\ req.len <= Cache.len /\ req.len \in Nat
      /\ Cache.len \in Nat /\ Cache.len <= MaxSeqLen /\ MaxSeqLen \in Nat
  BY <1>2, PromptOf DEF IInv, Admitted
<1>4. g.token \in Greedies /\ g.logits \in Logits
  <2>1. n \in 1 .. MaxSeqLen
    BY <1>3
  <2>2. Cache.rows[n] \in Seq(Symbols)
    BY <1>3, <2>1 DEF Caches
  <2>3. req.penalty \in Penalties \cup {0} /\ logits \in Logits
    BY <1>3 DEF IInv, Types, Requests
  <2> QED BY <2>2, <2>3, HeadLeaves DEF g
<1>5. logits' \in Logits
  BY <1>1, <1>4 DEF IInv, Types
<1>6. /\ req' \in Requests
      /\ \A f \in {"tokens", "content", "len", "transient", "eligible", "penalty", "reused", "pos", "generated"} : req'[f] = req[f]
  BY <1>1, <1>3, <1>4, <1>5 DEF Requests
<1>7. Cache' = Cache
  BY <1>1, <1>6 DEF Cache
<1>8. Types'
  BY <1>1, <1>5, <1>6 DEF IInv, Types
<1>9. Admitted'
  BY <1>1, <1>2, <1>6, <1>7, AdmittedStays DEF IInv
<1>10. Written'
  <2>1. /\ RowsHold(Cache, req.content \o req.generated, req.pos) /\ StateHolds(Cache, req.content \o req.generated, req.pos)
        /\ req.pos <= req.len /\ req.generated = <<>> /\ (~req.transient => prefix = Cleared)
    BY <1>1, <1>2 DEF IInv, Written
  <2>2. req.pos = Len(req.tokens) + Len(req.generated)
    BY <1>1, <1>3, <2>1, Blanks
  <2> QED BY <1>1, <1>6, <1>7, <2>1, <2>2 DEF Written, Answering, RowsHold, StateHolds
<1>11. ResidentRowsMatch' /\ Budgeted' /\ Resting' /\ Reused' /\ SnapshotRowsMatch'
  BY <1>1 DEF IInv, ResidentRowsMatch, Budgeted, Fits, FitsRecurrent, Resting, Reused, SnapshotRowsMatch
<1> QED BY <1>8, <1>9, <1>10, <1>11 DEF IInv

\* An emitted token joins the text, and is read unless it is the last.
LEMMA DecodeStep ==
    ASSUME IInv, UNCHANGED recurrent, NEW t \in Tok, Decode(t)
    PROVE  IInv'
<1> DEFINE i == req.pos + 1
           c == Forward(Cache, t, i)
           used == IF req.next.has THEN logits ELSE Spoiled
           g == GreedyHead(c.rows[i], req.penalty, used)
           last == Len(req.generated) + 1 >= req.max \/ req.pos >= req.len
           generated == Append(req.generated, t)
           old == req.content \o req.generated
           text == req.content \o generated
<1>1. /\ pc = "decode" /\ UNCHANGED <<prefix, convs, format>>
      /\ IF last
         THEN /\ logits' = used
              /\ req' = [req EXCEPT !.generated = generated, !.next = NoToken]
              /\ pc' = "save"
              /\ UNCHANGED <<ws, tmp>>
         ELSE /\ Store(c)
              /\ logits' = (IF req.greedy THEN g.logits ELSE Raw(c.rows[i]))
              /\ req' = [req EXCEPT !.generated = generated, !.pos = i, !.next = IF req.greedy THEN g.token ELSE NoToken]
              /\ UNCHANGED pc
  BY DEF Decode
<1> HIDE DEF c, g, used, generated, last
<1>2. pc # "idle" /\ Answering
  BY <1>1 DEF Answering
<1>3. /\ req \in Requests /\ Cache \in Caches /\ req.content \in Seq(Symbols) /\ req.pos \in Nat /\ req.len \in Nat
      /\ req.generated \in Seq(Tok) /\ req.generated \in Seq(Symbols) /\ Len(req.generated) \in Nat
      /\ Len(req.tokens) \in Nat /\ Cache.len \in Nat /\ Cache.len <= MaxSeqLen /\ MaxSeqLen \in Nat /\ recurrent \in BOOLEAN
      /\ req.max \in Nat
  BY <1>2, PromptOf DEF IInv
<1>4. /\ old \in Seq(Symbols) /\ Len(old) = Len(req.tokens) + Len(req.generated)
      /\ RowsHold(Cache, old, req.pos) /\ StateHolds(Cache, old, req.pos)
      /\ req.len <= Cache.len /\ req.pos <= req.len /\ (~req.transient => prefix = Cleared)
      /\ req.pos = Len(req.tokens) + Len(req.generated)
  BY <1>1, <1>2, TextOf DEF IInv, Written
<1>5. generated \in Seq(Tok) /\ generated # <<>> /\ i = Len(req.tokens) + Len(generated)
  <2>1. generated \in Seq(Tok) /\ Len(generated) = Len(req.generated) + 1 /\ generated # <<>>
    BY <1>3, AppendProperties DEF generated
  <2>2. PICK a \in Nat, b \in Nat : a = Len(req.tokens) /\ b = Len(req.generated)
    BY <1>3
  <2> HIDE DEF old, text, generated
  <2>3. req.pos = a + b
    BY <1>4, <2>2
  <2>4. Len(generated) = b + 1
    BY <2>1, <2>2
  <2>5. i = a + (b + 1)
    BY <2>3 DEF i
  <2> QED BY <2>1, <2>2, <2>4, <2>5
<1>6. t \in Symbols /\ text = Append(old, t)
  <2>1. t \in Symbols /\ <<t>> \in Seq(Symbols)
    BY DEF Symbols
  <2>2. generated = req.generated \o <<t>> /\ Append(old, t) = old \o <<t>>
    BY <1>3, <1>4, <2>1, AppendIsConcat DEF generated
  <2>3. old \o <<t>> = req.content \o (req.generated \o <<t>>)
    <3>1. \A a, b, x \in Seq(Symbols) : (a \o b) \o x = a \o (b \o x)
      BY ConcatAssociative
    <3> QED BY <1>3, <2>1, <3>1
  <2> QED BY <2>1, <2>2, <2>3
<1> HIDE DEF text, old
<1>7. /\ RowsHold(Cache, text, req.pos) /\ StateHolds(Cache, text, req.pos)
      /\ text \in Seq(Symbols) /\ Len(text) = req.pos + 1 /\ text[i] = t
  <2>1. Append(old, t) \in Seq(Symbols) /\ Len(Append(old, t)) = Len(old) + 1 /\ Append(old, t)[Len(old) + 1] = t
        /\ RowsHold(Cache, Append(old, t), req.pos) /\ StateHolds(Cache, Append(old, t), req.pos)
    <3>1. old \in Seq(Symbols) /\ t \in Symbols /\ req.pos \in Nat /\ RowsHold(Cache, old, req.pos) /\ StateHolds(Cache, old, req.pos)
      BY <1>3, <1>4, <1>6
    <3> QED BY <3>1, Continued
  <2>2. Len(old) = req.pos
    BY <1>4
  <2> QED BY <1>6, <2>1, <2>2
<1>8. used \in Logits
  BY <1>3, Blanks DEF used, IInv, Types
<1>9. SnapshotRowsMatch'
  BY <1>1 DEF IInv, SnapshotRowsMatch
<1>10. CASE last
  <2>1. /\ pc' = "save" /\ UNCHANGED <<ws, tmp>> /\ logits' = used
        /\ req' = [req EXCEPT !.generated = generated, !.next = NoToken]
    BY <1>1, <1>10
  <2>2. /\ req' \in Requests /\ req'.generated = generated
        /\ \A f \in {"tokens", "content", "len", "transient", "eligible", "penalty", "reused", "pos"} : req'[f] = req[f]
    BY <1>3, <1>5, <2>1, Blanks DEF Requests
  <2>3. Cache' = Cache
    BY <2>1, <2>2 DEF Cache
  <2>4. Types'
    BY <1>1, <1>8, <2>1, <2>2 DEF IInv, Types
  <2>5. Admitted'
    BY <1>2, <2>1, <2>2, <2>3, AdmittedStays DEF IInv
  <2>6. Written'
    <3>1. /\ req'.content \o req'.generated = text /\ req'.pos = req.pos /\ req'.len = req.len /\ req'.transient = req.transient
          /\ req'.pos + 1 = Len(req'.tokens) + Len(req'.generated) /\ req'.generated # <<>>
      <4>1. /\ req'.content = req.content /\ req'.tokens = req.tokens /\ req'.pos = req.pos /\ req'.len = req.len
            /\ req'.transient = req.transient /\ req'.generated = generated
        BY <2>2
      <4>2. req.pos + 1 = Len(req.tokens) + Len(generated)
        BY <1>5
      <4> QED BY <1>5, <4>1, <4>2 DEF text
    <3>2. RowsHold(Cache', text, req.pos) /\ StateHolds(Cache', text, req.pos)
      BY <1>7, <2>3
    <3> QED BY <1>1, <1>4, <2>1, <3>1, <3>2 DEF Written, Answering, RowsHold, StateHolds
  <2>7. ResidentRowsMatch' /\ Budgeted' /\ Resting' /\ Reused'
    BY <1>1, <2>1 DEF IInv, ResidentRowsMatch, Budgeted, Fits, FitsRecurrent, Resting, Reused
  <2> QED BY <1>9, <2>4, <2>5, <2>6, <2>7 DEF IInv
<1>11. CASE ~last
  <2>1. /\ pc' = pc /\ Store(c)
        /\ logits' = (IF req.greedy THEN g.logits ELSE Raw(c.rows[i]))
        /\ req' = [req EXCEPT !.generated = generated, !.pos = i, !.next = IF req.greedy THEN g.token ELSE NoToken]
    BY <1>1, <1>11
  <2>2. req.pos < req.len /\ req.pos < Cache.len /\ req.pos < Len(text)
    <3>1. req.pos < req.len
      BY <1>3, <1>11 DEF last
    <3>2. \A a, b, x, y \in Nat : a < b /\ b <= x /\ y = a + 1 => a < x /\ a < y
      OBVIOUS
    <3>3. Len(text) \in Nat
      BY <1>7, LenProperties
    <3> QED BY <1>3, <1>4, <1>7, <3>1, <3>2, <3>3
  <2>3. /\ c \in Caches /\ c.len = Cache.len /\ c.fmt = Cache.fmt
        /\ RowsHold(c, text, i) /\ StateHolds(c, text, i)
    BY <1>3, <1>7, <2>2, ForwardHolds DEF c
  <2>4. c.rows[i] \in Seq(Symbols)
    <3>1. i \in 1 .. MaxSeqLen
      BY <1>3, <2>2
    <3> QED BY <2>3, <3>1 DEF Caches
  <2>5. g.token \in Greedies /\ g.logits \in Logits
    <3>1. req.penalty \in Penalties \cup {0}
      BY <1>3 DEF Requests
    <3> QED BY <1>8, <2>4, <3>1, HeadLeaves DEF g
  <2>6. /\ req' \in Requests /\ req'.generated = generated /\ req'.pos = i
        /\ \A f \in {"tokens", "content", "len", "transient", "eligible", "penalty", "reused"} : req'[f] = req[f]
    <3>1. i \in Nat
      BY <1>3
    <3> HIDE DEF i
    <3> QED BY <1>3, <1>5, <2>1, <2>5, <3>1, Blanks DEF Requests
  <2>7. logits' \in Logits
    BY <2>1, <2>4, <2>5 DEF Raw, Logits, LogitStates
  <2>8. /\ ws' \in Caches /\ tmp' \in Caches /\ ws'.len = ws.len /\ ws'.fmt = ws.fmt /\ Cache' = c
        /\ prefix' \in Metadata /\ prefix'.promptTokens <= Len(prefix'.tokens)
        /\ ResidentRowsMatch' /\ Budgeted'
    <3>1. req'.transient = req.transient /\ prefix' = prefix
      BY <1>1, <2>6
    <3> QED BY <1>4, <2>1, <2>3, <3>1, StoreHolds DEF IInv
  <2>9. Types'
    BY <1>1, <2>1, <2>6, <2>7, <2>8 DEF IInv, Types
  <2>10. Admitted'
    BY <1>2, <2>1, <2>3, <2>6, <2>8, AdmittedStays DEF IInv
  <2>11. Written'
    <3>1. /\ req'.content \o req'.generated = text /\ req'.pos = i /\ i <= req'.len /\ req'.transient = req.transient
          /\ req'.pos = Len(req'.tokens) + Len(req'.generated)
      <4>1. /\ req'.content = req.content /\ req'.tokens = req.tokens /\ req'.pos = i /\ req'.len = req.len
            /\ req'.transient = req.transient /\ req'.generated = generated
        BY <2>6
      <4>2. i <= req.len /\ i = Len(req.tokens) + Len(generated)
        BY <1>3, <1>5, <2>2
      <4> QED BY <4>1, <4>2 DEF text
    <3>2. RowsHold(Cache', text, i) /\ StateHolds(Cache', text, i)
      BY <2>3, <2>8
    <3> QED BY <1>1, <1>4, <2>1, <3>1, <3>2 DEF Written, Answering, RowsHold, StateHolds
  <2>12. Resting' /\ Reused'
    BY <1>1, <2>1 DEF Resting, Reused
  <2> QED BY <1>9, <2>8, <2>9, <2>10, <2>11, <2>12 DEF IInv
<1> QED BY <1>10, <1>11

\* Between requests there is nothing else to know.
LEMMA AtRest ==
    ASSUME pc' = "idle", req' = NoRequest, tmp' = NoCache, ws' \in Caches, convs' \in [entries : Seq(Snapshots), limit : 0 .. DefaultLimit],
           recurrent' \in BOOLEAN, format' \in Formats, logits' \in Logits,
           prefix' \in Metadata, prefix'.promptTokens <= Len(prefix'.tokens),
           ResidentRowsMatch', SnapshotRowsMatch', Budgeted'
    PROVE  IInv'
BY Blanks DEF IInv, Types, Resting, Admitted, Reused, Written, Answering

\* What Save advertises is what the cache holds.
LEMMA ResidentIsText ==
    ASSUME IInv, pc \in {"decode", "save"}
    PROVE  /\ Resident \in Seq(Tok) /\ Len(Resident) = req.pos /\ Len(req.tokens) <= req.pos
           /\ req.eligible => Resident = SubSeq(req.content \o req.generated, 1, req.pos)
<1> DEFINE k == req.pos - Len(req.tokens)
<1>1. pc # "idle" /\ Answering
  BY DEF Answering
<1>2. /\ req.tokens \in Seq(Tok) /\ req.generated \in Seq(Tok) /\ req.tokens \in Seq(Symbols) /\ req.generated \in Seq(Symbols)
      /\ Len(req.tokens) \in Nat /\ Len(req.generated) \in Nat /\ req.pos \in Nat
      /\ (req.eligible => req.content = req.tokens)
  BY <1>1, PromptOf DEF IInv, Admitted
<1>3. PICK a \in Nat, b \in Nat : a = Len(req.tokens) /\ b = Len(req.generated)
  BY <1>2
<1>4. req.pos = a + b \/ (req.pos + 1 = a + b /\ b # 0)
  <2>1. req.generated # <<>> => b # 0
    BY <1>2, <1>3, EmptySeq
  <2> QED BY <1>1, <1>3, <2>1 DEF IInv, Written
<1>5. k \in Nat /\ k <= b /\ a + k = req.pos
  <2>1. k = req.pos - a /\ req.pos \in Nat
    BY <1>2, <1>3
  <2> HIDE DEF k
  <2> QED BY <1>4, <2>1
<1> HIDE DEF k
<1>6. SubSeq(req.generated, 1, k) \in Seq(Tok) /\ Len(SubSeq(req.generated, 1, k)) = k
  BY <1>2, <1>3, <1>5, Beginning
<1>7. PICK g : g = SubSeq(req.generated, 1, k)
  OBVIOUS
<1>8. Resident = req.tokens \o g
  BY <1>7 DEF Resident, k
<1>9. req.tokens \o g \in Seq(Tok) /\ Len(req.tokens \o g) = Len(req.tokens) + Len(g)
  <2>1. g \in Seq(Tok)
    BY <1>6, <1>7
  <2> QED BY <1>2, <2>1, ConcatProperties
<1>10. Len(Resident) = req.pos
  BY <1>3, <1>5, <1>6, <1>7, <1>8, <1>9
<1>11. SubSeq(req.tokens \o req.generated, 1, Len(req.tokens) + k) = Resident
  BY <1>2, <1>3, <1>5, <1>7, <1>8, BeginningPastConcat
<1>12. req.eligible => Resident = SubSeq(req.content \o req.generated, 1, req.pos)
  BY <1>2, <1>3, <1>5, <1>11
<1>13. Len(req.tokens) <= req.pos
  BY <1>3, <1>5
<1> QED BY <1>8, <1>9, <1>10, <1>12, <1>13

\* What Save advertises is resident.
LEMMA FinishStep ==
    ASSUME IInv, UNCHANGED recurrent, Finish
    PROVE  IInv'
<1>1. /\ pc \in {"decode", "save"} /\ pc' = "idle" /\ tmp' = NoCache /\ req' = NoRequest
      /\ UNCHANGED <<ws, convs, format, logits>>
      /\ prefix' = IF req.eligible
                   THEN [tokens |-> Resident, promptTokens |-> Len(req.tokens), logits |-> req.promptLogits, greedy |-> req.promptGreedy]
                   ELSE prefix
  BY DEF Finish, Save
<1>2. pc # "idle" /\ Answering
  BY <1>1 DEF Answering
<1>3. /\ req \in Requests /\ Len(req.tokens) \in Nat /\ req.pos \in Nat
  BY <1>2, PromptOf DEF IInv
<1>4. /\ Resident \in Seq(Tok) /\ Len(Resident) = req.pos /\ Len(req.tokens) <= req.pos
      /\ req.eligible => Resident = SubSeq(req.content \o req.generated, 1, req.pos)
  BY <1>1, ResidentIsText
<1>5. prefix' \in Metadata /\ prefix'.promptTokens <= Len(prefix'.tokens)
  <2>1. CASE req.eligible
    BY <1>1, <1>3, <1>4, <2>1 DEF Metadata, Requests
  <2>2. CASE ~req.eligible
    BY <1>1, <2>2 DEF IInv, Types
  <2> QED BY <2>1, <2>2
<1>6. ResidentRowsMatch' /\ Budgeted'
  <2>1. CASE ~req.eligible
    BY <1>1, <2>1 DEF IInv, ResidentRowsMatch, Budgeted, Fits, FitsRecurrent
  <2>2. CASE req.eligible
    <3> DEFINE text == req.content \o req.generated
    <3>1. Cache = ws /\ FitsRecurrent(ws.len, ws.fmt)
      BY <1>2, <2>2 DEF IInv, Admitted, Cache
    <3>2. text \in Seq(Symbols) /\ RowsHold(ws, text, req.pos) /\ StateHolds(ws, text, req.pos)
      BY <1>2, <3>1, TextOf
    <3> HIDE DEF text
    <3>3. prefix'.tokens = Resident /\ Resident = SubSeq(text, 1, req.pos) /\ ws' = ws
      BY <1>1, <1>4, <2>2 DEF text
    <3>4. DOMAIN Resident = 1 .. req.pos
      BY <1>4, LenProperties
    <3>5. ASSUME NEW i \in 1 .. req.pos PROVE ws.rows[i] = SubSeq(Resident, 1, i)
      <4>1. ws.rows[i] = SubSeq(text, 1, i) /\ req.pos <= Len(text)
        BY <3>2 DEF RowsHold
      <4> QED BY <1>3, <3>2, <3>3, <4>1, BeginningOfBeginning
    <3>6. req.pos <= ws.len /\ (recurrent => ws.rec = Resident)
      BY <3>2, <3>3 DEF RowsHold, StateHolds
    <3>7. ResidentRowsMatch'
      BY <1>4, <3>3, <3>4, <3>5, <3>6 DEF ResidentRowsMatch
    <3>8. Budgeted'
      BY <3>1, <3>3 DEF IInv, Budgeted, Fits, FitsRecurrent
    <3> QED BY <3>7, <3>8
  <2> QED BY <2>1, <2>2
<1>7. SnapshotRowsMatch'
  BY <1>1 DEF IInv, SnapshotRowsMatch
<1> QED BY <1>1, <1>5, <1>6, <1>7, AtRest DEF IInv, Types

\* A request that is cancelled leaves true metadata, or none.
LEMMA CancelStep ==
    ASSUME IInv, UNCHANGED recurrent, CancelEarly \/ CancelPrefill
    PROVE  IInv'
<1>1. /\ pc' = "idle" /\ tmp' = NoCache /\ req' = NoRequest /\ prefix' \in {prefix, Cleared}
      /\ UNCHANGED <<ws, convs, format, logits>>
  BY DEF CancelEarly, CancelPrefill
<1>2. prefix' \in Metadata /\ prefix'.promptTokens <= Len(prefix'.tokens)
  BY <1>1, Blanks DEF IInv, Types
<1>3. ws \in Caches /\ ws.len \in Nat
  BY Sizes DEF IInv, Types, Caches
<1>4. ResidentRowsMatch' /\ Budgeted'
  BY <1>1, <1>3, Blanks DEF IInv, ResidentRowsMatch, Budgeted, Fits, FitsRecurrent
<1>5. SnapshotRowsMatch'
  BY <1>1 DEF IInv, SnapshotRowsMatch
<1> QED BY <1>1, <1>2, <1>4, <1>5, AtRest DEF IInv, Types

\* A scratch text leaves a workspace within the budget.
LEMMA ScratchHolds ==
    ASSUME IInv, NEW n \in Nat, NEW f \in Formats
    PROVE  LET c == ScratchWorkspace(n, f) IN c \in Caches /\ Fits(c.len, c.fmt)
<1> DEFINE len == TargetLen(Min({MaxSeqLen, n + 1}), f)
<1>1. ws \in Caches /\ Fits(ws.len, ws.fmt) /\ MaxSeqLen \in Nat
  BY Sizes DEF IInv, Types, Budgeted
<1>2. len \in 0 .. MaxSeqLen
  <2>1. PICK m \in Nat : m = Min({MaxSeqLen, n + 1}) /\ m <= MaxSeqLen
    BY <1>1, MinOfTwo
  <2> QED BY <2>1, <1>1, TargetLenFits DEF IInv
<1> HIDE DEF len
<1>3. ASSUME NEW i \in Nat PROVE [j \in 1 .. i |-> Scratch] \in Seq(Symbols)
  <2>1. [j \in 1 .. i |-> Scratch] \in [1 .. i -> Symbols]
    BY PromptAssumption DEF Symbols
  <2> QED BY <2>1, SeqDef
<1>4. ASSUME NEW c \in Caches
      PROVE  Scribble(c, n) \in Caches /\ Scribble(c, n).len = c.len /\ Scribble(c, n).fmt = c.fmt
  <2> DEFINE rows == [i \in 1 .. MaxSeqLen |-> IF i <= n THEN [j \in 1 .. i |-> Scratch] ELSE c.rows[i]]
             rec == IF recurrent THEN [j \in 1 .. n |-> Scratch] ELSE c.rec
  <2>1. c.rows \in [1 .. MaxSeqLen -> Seq(Symbols)] /\ c.rec \in Seq(Symbols)
    BY DEF Caches
  <2>2. rows \in [1 .. MaxSeqLen -> Seq(Symbols)]
    <3>1. \A i \in 1 .. MaxSeqLen : (IF i <= n THEN [j \in 1 .. i |-> Scratch] ELSE c.rows[i]) \in Seq(Symbols)
      <4>1. TAKE i \in 1 .. MaxSeqLen
      <4>2. i \in Nat /\ c.rows[i] \in Seq(Symbols)
        BY <1>1, <2>1
      <4> QED BY <1>3, <4>2
    <3> QED BY <3>1
  <2>3. rec \in Seq(Symbols)
    BY <1>3, <2>1
  <2>4. Scribble(c, n) = [c EXCEPT !.rows = rows, !.rec = rec]
    BY <2>1 DEF Scribble
  <2> HIDE DEF rows, rec
  <2> QED BY <2>2, <2>3, <2>4 DEF Caches
<1>5. Blank(len, f) \in Caches /\ Blank(len, f).len = len /\ Blank(len, f).fmt = f
  BY <1>2, BlankCache
<1>6. ScratchWorkspace(n, f) = IF ShapeCompatible(f) /\ ws.len >= n + 1 THEN Scribble(ws, n)
                               ELSE IF Fits(len, f) THEN Scribble(Blank(len, f), n) ELSE ws
  BY DEF ScratchWorkspace, len
<1>7. CASE ShapeCompatible(f) /\ ws.len >= n + 1
  BY <1>1, <1>4, <1>6, <1>7
<1>8. CASE ~(ShapeCompatible(f) /\ ws.len >= n + 1) /\ Fits(len, f)
  BY <1>4, <1>5, <1>6, <1>8
<1>9. CASE ~(ShapeCompatible(f) /\ ws.len >= n + 1) /\ ~Fits(len, f)
  BY <1>1, <1>6, <1>9
<1> QED BY <1>7, <1>8, <1>9

\* The other operations that take genLock forget what they may have overwritten.
LEMMA ControlStep ==
    ASSUME IInv, UNCHANGED recurrent, Control
    PROVE  IInv'
<1>1. pc = "idle" /\ UNCHANGED <<tmp, logits, pc, req>>
  BY DEF Control, Embed, SelectFormat, Calibrate, SetConversationCacheLimit, ClearConversationCache
<1>2. req = NoRequest /\ tmp = NoCache /\ Types /\ ResidentRowsMatch /\ SnapshotRowsMatch /\ Budgeted
  BY <1>1 DEF IInv, Resting
<1>3. ws' \in Caches /\ Fits(ws'.len, ws'.fmt) /\ (ws' = ws \/ prefix' = Cleared) /\ format' \in Formats
  <2>1. CASE Embed(2)
    BY <2>1, <1>2, ScratchHolds DEF Embed, Types
  <2>2. ASSUME NEW f \in Formats, NEW h \in Formats, Calibrate(2, h, f) PROVE <1>3!:
    BY <2>2, ScratchHolds DEF Calibrate
  <2>3. ASSUME NEW f \in Formats, SelectFormat(f) PROVE <1>3!:
    BY <2>3, <1>2 DEF SelectFormat, Types, Budgeted
  <2>4. ASSUME NEW b \in Limits, SetConversationCacheLimit(b) PROVE <1>3!:
    BY <2>4, <1>2 DEF SetConversationCacheLimit, Types, Budgeted
  <2>5. CASE ClearConversationCache
    BY <2>5, <1>2 DEF ClearConversationCache, Types, Budgeted
  <2> QED BY <2>1, <2>2, <2>3, <2>4, <2>5 DEF Control
<1>4. prefix' \in {prefix, Cleared}
  BY DEF Control, Embed, SelectFormat, Calibrate, SetConversationCacheLimit, ClearConversationCache
<1>5. /\ convs'.limit \in 0 .. DefaultLimit /\ convs' \in [entries : Seq(Snapshots), limit : 0 .. DefaultLimit]
      /\ (convs'.entries = convs.entries \/ convs'.entries = <<>>)
  <2>1. convs \in [entries : Seq(Snapshots), limit : 0 .. DefaultLimit]
    BY <1>2 DEF Types
  <2>2. convs' = convs \/ convs' = [convs EXCEPT !.entries = <<>>] \/ \E b \in Limits : convs' = [entries |-> <<>>, limit |-> b]
    BY DEF Control, Embed, SelectFormat, Calibrate, SetConversationCacheLimit, ClearConversationCache
  <2>3. CASE convs' = convs
    BY <2>1, <2>3
  <2>4. CASE convs' = [convs EXCEPT !.entries = <<>>]
    BY <2>1, <2>4, Blanks
  <2>5. ASSUME NEW b \in Limits, convs' = [entries |-> <<>>, limit |-> b] PROVE <1>5!:
    <3>1. b \in 0 .. DefaultLimit /\ <<>> \in Seq(Snapshots)
      BY Blanks, KindAssumption
    <3> QED BY <2>5, <3>1
  <2> QED BY <2>2, <2>3, <2>4, <2>5
<1>6. SnapshotRowsMatch'
  BY <1>2, <1>5, Blanks DEF SnapshotRowsMatch
<1>7. prefix' \in Metadata /\ prefix'.promptTokens <= Len(prefix'.tokens)
  BY <1>2, <1>4, Blanks DEF Types
<1>8. ResidentRowsMatch' /\ Budgeted'
  <2>1. ws'.len \in Nat
    BY <1>3, Sizes DEF Caches
  <2>2. CASE prefix' = Cleared
    BY <1>3, <2>1, <2>2, Blanks DEF ResidentRowsMatch, Budgeted, Fits
  <2>3. CASE prefix' = prefix /\ ws' = ws
    BY <1>2, <2>3 DEF ResidentRowsMatch, Budgeted, Fits, FitsRecurrent
  <2> QED BY <1>3, <1>4, <2>2, <2>3
<1> QED BY <1>1, <1>2, <1>3, <1>5, <1>6, <1>7, <1>8, AtRest DEF Types

\* A new Runner.
LEMMA InitHolds == Init => IInv
<1> SUFFICES ASSUME Init PROVE IInv
  OBVIOUS
<1>1. /\ recurrent \in BOOLEAN /\ format \in Formats /\ ws = NoCache /\ tmp = NoCache /\ prefix = Cleared
      /\ convs = [entries |-> <<>>, limit |-> DefaultLimit] /\ logits = Spoiled /\ pc = "idle" /\ req = NoRequest
  BY KindAssumption DEF Init, Cleared
<1>2. Types
  BY <1>1, Blanks, Sizes DEF Types
<1>3. Budgeted
  <2>1. \A f \in Formats : 0 * RowBytes[f] = 0 /\ 0 <= Budget
    BY SizeAssumption
  <2>2. NoCache.fmt \in Formats
    BY Blanks DEF Caches
  <2>3. Fits(0, NoCache.fmt)
    BY <2>1, <2>2 DEF Fits
  <2> QED BY <1>1, <2>3, Blanks DEF Budgeted
<1>4. ResidentRowsMatch /\ SnapshotRowsMatch
  BY <1>1, Blanks DEF ResidentRowsMatch, SnapshotRowsMatch
<1> QED BY <1>1, <1>2, <1>3, <1>4 DEF IInv, Resting, Admitted, Reused, Written, Answering

\* Every step.
LEMMA NextHolds == IInv /\ [Next]_vars => IInv'
<1> SUFFICES ASSUME IInv, [Next]_vars PROVE IInv'
  OBVIOUS
<1>1. ASSUME Chat, UNCHANGED recurrent PROVE IInv'
  <2>1. ASSUME NEW p \in Prompts, NEW image \in Images, NEW g \in BOOLEAN, NEW r \in Penalties, NEW max \in MaxTokensSet,
               Begin(p, image, g, r, max)
        PROVE  IInv'
    BY <1>1, <2>1, BeginStep
  <2>2. CASE Reuse \/ Start \/ Prefill \/ Prompted
    BY <1>1, <2>2, ReuseStep, StartStep, PrefillStep, PromptedStep
  <2>3. CASE Finish \/ CancelEarly \/ CancelPrefill
    BY <1>1, <2>3, FinishStep, CancelStep
  <2>4. ASSUME NEW t \in Tok \ {Scratch}, Decode(t) PROVE IInv'
    BY <1>1, <2>4, DecodeStep
  <2> QED BY <1>1, <2>1, <2>2, <2>3, <2>4 DEF Chat
<1>2. ASSUME Control, UNCHANGED recurrent PROVE IInv'
  BY <1>2, ControlStep
<1>3. CASE UNCHANGED vars
  <2>1. UNCHANGED <<recurrent, ws, tmp, prefix, convs, format, logits, pc, req>>
    BY <1>3 DEF vars
  <2>2. Types' /\ Resting' /\ Written' /\ Budgeted'
    BY <2>1 DEF IInv, Types, Resting, Written, Answering, Budgeted, Fits, FitsRecurrent, RowsHold, StateHolds, Cache
  <2>3. Admitted'
    BY <2>1 DEF IInv, Admitted, FitsRecurrent, MustRetire, Outgrown, Cache
  <2>4. Reused' /\ ResidentRowsMatch' /\ SnapshotRowsMatch'
    BY <2>1 DEF IInv, Reused, RowsHold, StateHolds, Cache, ResidentRowsMatch, SnapshotRowsMatch
  <2> QED BY <2>2, <2>3, <2>4 DEF IInv
<1> QED BY <1>1, <1>2, <1>3 DEF Next

\* The invariant of every behaviour.
LEMMA Invariance == Spec => []IInv
BY InitHolds, NextHolds, PTL DEF Spec

-----------------------------------------------------------------------------
(* What is reused is what it is taken for. *)

\* Every resident row that r.prefixCache advertises, the recurrent state behind them, and
\* every row of every conversation snapshot were computed from exactly the tokens they are
\* reused for, whatever was cancelled, displaced, restored, embedded or calibrated before.
THEOREM RowsMatch == Spec => []ReusableRowsMatch
<1>1. IInv => ReusableRowsMatch
  BY DEF IInv, ReusableRowsMatch
<1> QED BY Invariance, <1>1, PTL

\* What generateChatStreamUntil has read of a request is its own prompt, image included,
\* and its own answer: the rows it skipped are those a cold start would have computed.
THEOREM PromptRead == Spec => []ContextIsPrompt
<1>1. IInv => ContextIsPrompt
  BY DEF IInv, ContextIsPrompt, Written, Answering, RowsHold
<1> QED BY Invariance, <1>1, PTL

\* generationWorkspaceWithPrefix retains no cache beyond maxReusableKVCacheBytes, and
\* advertises no recurrent prefix whose state would go beyond it.
THEOREM WithinBudget == Spec => []RetainedWithinBudget
<1>1. IInv => RetainedWithinBudget
  BY DEF IInv, RetainedWithinBudget, Budgeted, Fits, FitsRecurrent
<1> QED BY Invariance, <1>1, PTL

\* The model's state is well typed: positions stay within the cache, reuse within the prompt.
THEOREM WellTyped == Spec => []TypeOK
<1>1. ASSUME IInv PROVE TypeOK
  <2>1. Types /\ Resting /\ Admitted /\ MaxSeqLen \in Nat /\ DefaultLimit \in Nat
    BY <1>1, Sizes DEF IInv
  <2>2. /\ \A c \in {ws, tmp} : /\ c.len \in 0 .. MaxSeqLen /\ c.fmt \in Formats
                                /\ c.rows \in [1 .. MaxSeqLen -> Seq(Symbols)] /\ c.rec \in Seq(Symbols)
        /\ prefix.tokens \in Seq(Tok) /\ convs.limit \in 0 .. DefaultLimit
        /\ format \in Formats /\ logits.state \in {"empty", "raw", "spoiled"}
        /\ pc \in {"idle", "workspace", "reused", "prefill", "decode", "save"}
    BY <2>1 DEF Types, Caches, Metadata, Logits, LogitStates
  <2>3. prefix.promptTokens \in 0 .. Len(prefix.tokens)
    BY <2>1, LenProperties DEF Types, Metadata
  <2>4. CASE pc = "idle"
    <3>1. req = NoRequest /\ req.pos = 0 /\ req.reused = 0 /\ req.tokens = <<>>
      BY <2>1, <2>4 DEF Resting, NoRequest
    <3> QED BY <2>1, <2>2, <2>3, <2>4, <3>1, Blanks DEF TypeOK
  <2>5. CASE pc # "idle"
    <3>1. /\ req.tokens # <<>> /\ req.reused \in 0 .. Len(req.tokens) /\ req.pos \in Nat /\ req.len \in 0 .. MaxSeqLen
      BY <2>1, <2>5, PromptOf DEF Admitted, Requests
    <3>2. req.pos <= MaxSeqLen
      <4>1. req.pos = 0 \/ req.pos <= req.len
        BY <1>1, <2>1, <2>5 DEF IInv, Types, Reused, Written, Answering
      <4> QED BY <2>1, <3>1, <4>1
    <3>3. req # NoRequest
      BY <3>1 DEF NoRequest
    <3> QED BY <2>2, <2>3, <2>5, <3>1, <3>2, <3>3 DEF TypeOK
  <2> QED BY <2>4, <2>5
<1> QED BY Invariance, <1>1, PTL

\* retainDisplacedConversation loses no conversation that qualifies: when its rows are about
\* to be overwritten a snapshot holds them, the new one or one that owned them already.
THEOREM ConversationKept == Spec => DisplacedIsKept
<1> DEFINE A == pc = "workspace" /\ pc' = "reused" /\ req.eligible /\ Displaced(req.tokens)
                => LET n == Min({Len(prefix.tokens), convs.limit \div SnapshotRow(ws.fmt)}) IN
                   n >= MinTokens => \E k \in DOMAIN convs'.entries :
                     convs'.entries[k].fmt = ws.fmt /\ IsPrefix(SubSeq(prefix.tokens, 1, n), convs'.entries[k].tokens)
<1>1. ASSUME IInv, Next, pc = "workspace", pc' = "reused", req.eligible, Displaced(req.tokens), KeptLen >= MinTokens
      PROVE  \E k \in DOMAIN convs'.entries :
               convs'.entries[k].fmt = ws.fmt /\ IsPrefix(SubSeq(prefix.tokens, 1, KeptLen), convs'.entries[k].tokens)
  <2>1. Reuse
    BY <1>1 DEF Next, Chat, Control, Begin, Start, Prefill, Prompted, Finish, Save, CancelEarly, CancelPrefill, Decode,
                Embed, SelectFormat, Calibrate, SetConversationCacheLimit, ClearConversationCache
  <2> DEFINE resident == PrefixReuse(req.tokens)
             pick == Candidates(req.tokens, resident)
             i == BestSnapshot(req.tokens, resident)
             touched == IF pick = {} THEN convs.entries ELSE Touch(convs.entries, i)
  <2>2. convs' = [convs EXCEPT !.entries = Retain(touched, req.tokens)]
    BY <1>1, <2>1 DEF Reuse, Displaced
  <2>3. convs.entries \in Seq(Exact) /\ Types /\ SnapshotRowsMatch /\ ResidentRowsMatch
        /\ req.tokens \in Seq(Tok) /\ req.tokens # <<>>
    BY <1>1, ExactSnapshots, PromptOf DEF IInv, Types
  <2>4. pick # {} => i \in 1 .. Len(convs.entries)
    BY <2>3, BestHolds
  <2> HIDE DEF resident, pick, i
  <2>5. touched \in Seq(Exact)
    BY <2>3, <2>4, TouchKeeps
  <2> HIDE DEF touched
  <2>6. convs'.entries = Retain(touched, req.tokens)
    BY <2>2, <2>3 DEF Types
  <2> QED BY <1>1, <2>3, <2>5, <2>6, RetainKeeps
<1>2. IInv /\ [Next]_vars => [A]_vars
  BY <1>1 DEF KeptLen
<1> QED BY Invariance, <1>2, PTL DEF Spec, DisplacedIsKept
-----------------------------------------------------------------------------
(* A warm completion is a cold one. *)

\* The completion at rest.
LEMMA ColdIdle ==
    req = NoRequest => req.content \o req.generated = <<>> /\ [greedy |-> req.greedy, penalty |-> req.penalty] = Cold!Idle
<1>1. <<>> \o <<>> = <<>>
  BY Blanks, ConcatEmptySeq
<1> QED BY <1>1 DEF NoRequest, Cold!Idle

\* And in progress.
LEMMA ColdBusy ==
    IInv /\ pc # "idle" => [greedy |-> req.greedy, penalty |-> req.penalty] # Cold!Idle
<1>1. ASSUME IInv, pc # "idle" PROVE req.penalty # 0
  BY <1>1, PromptAssumption DEF IInv, Admitted
<1> QED BY <1>1 DEF Cold!Idle

\* Every step of a request is one of the abstract completion, or none.
LEMMA ColdSteps ==
    ASSUME IInv, IInv', SourceIsExact, [Next]_vars
    PROVE  [Cold!Next]_(Cold!vars)
<1> DEFINE text == req.content \o req.generated
           sampler == [greedy |-> req.greedy, penalty |-> req.penalty]
<1>1. ASSUME NEW p \in Prompts, NEW image \in Images, NEW g \in BOOLEAN, NEW r \in Penalties, NEW max \in MaxTokensSet,
             Begin(p, image, g, r, max)
      PROVE  Cold!Ask
  <2> DEFINE content == [i \in DOMAIN p |-> IF i = 1 /\ image # {} THEN CHOOSE x \in image : TRUE ELSE p[i]]
  <2>1. req = NoRequest
    BY <1>1 DEF IInv, Resting, Begin
  <2>2. p \in Seq(Tok) /\ p # <<>>
    BY PromptAssumption
  <2>3. content \in Seq(Symbols) /\ (image = {} => content = p)
    <3>1. [i \in DOMAIN p |-> IF i = 1 /\ image # {} THEN CHOOSE x \in image : TRUE ELSE p[i]] \in Seq(Symbols)
          /\ (image = {} => [i \in DOMAIN p |-> IF i = 1 /\ image # {} THEN CHOOSE x \in image : TRUE ELSE p[i]] = p)
      BY <2>2, ContentOf
    <3> QED BY <3>1
  <2>4. ASSUME image # {} PROVE content \in {WithImage(q, x) : q \in Prompts, x \in Pixels}
    <3>1. PICK x \in Pixels : image = {x}
      BY <2>4 DEF Images
    <3>2. content = [p EXCEPT ![1] = x]
      <4>1. Len(p) \in Nat \ {0} /\ DOMAIN p = 1 .. Len(p)
        BY <2>2, EmptySeq, LenProperties
      <4> QED BY <2>2, <3>1, <4>1
    <3> HIDE DEF content
    <3>3. content = WithImage(p, x)
      BY <3>2 DEF WithImage
    <3> QED BY <3>3, SMT
  <2> HIDE DEF content
  <2>5. content \in Prompts \cup {WithImage(q, x) : q \in Prompts, x \in Pixels}
    BY <2>3, <2>4
  <2>6. req'.content = content /\ req'.generated = <<>> /\ req'.greedy = g /\ req'.penalty = r
    BY <1>1 DEF Begin, NoRequest, content
  <2>7. text' = content /\ sampler' = [greedy |-> g, penalty |-> r]
    BY <2>3, <2>6, ConcatEmptySeq
  <2>8. sampler = Cold!Idle
    BY <2>1, ColdIdle
  <2> HIDE DEF text, sampler
  <2>9. \E c \in Prompts \cup {WithImage(q, x) : q \in Prompts, x \in Pixels}, b \in BOOLEAN, n \in Penalties :
          text' = c /\ sampler' = [greedy |-> b, penalty |-> n]
    BY <2>5, <2>7
  <2> QED BY <2>8, <2>9 DEF Cold!Ask, text, sampler
<1>2. CASE Reuse \/ Start \/ Prefill \/ Prompted
  <2>1. req \in Requests
    BY DEF IInv, Types
  <2>2. req'.content = req.content /\ req'.generated = req.generated /\ req'.greedy = req.greedy /\ req'.penalty = req.penalty
    BY <1>2, <2>1 DEF Reuse, Start, Prefill, Prompted, Requests
  <2> QED BY <2>2 DEF Cold!vars
<1>3. CASE Finish \/ CancelEarly \/ CancelPrefill
  <2>1. pc # "idle" /\ req' = NoRequest
    BY <1>3 DEF Finish, Save, CancelEarly, CancelPrefill
  <2>2. text' = <<>> /\ sampler' = Cold!Idle
    BY <2>1, Blanks, ConcatEmptySeq DEF NoRequest, Cold!Idle
  <2> QED BY <2>1, <2>2, ColdBusy DEF Cold!Next, Cold!End
<1>4. ASSUME NEW t \in Tok, Decode(t) PROVE Cold!Emit
  <2>1. pc = "decode" /\ Len(req.generated) < req.max
        /\ (req.greedy /\ Source.has => t = Best(Source.text, Source.penalty))
    BY <1>4 DEF Decode
  <2>2. Source = [has |-> TRUE, text |-> text, penalty |-> req.penalty]
    BY <2>1 DEF SourceIsExact
  <2>3. req.greedy => t = Best(text, req.penalty)
    BY <2>1, <2>2
  <2>4. req \in Requests /\ req.content \in Seq(Symbols) /\ req.generated \in Seq(Symbols) /\ t \in Symbols
    BY <2>1, PromptOf DEF IInv, Symbols
  <2>5. /\ req'.content = req.content /\ req'.generated = Append(req.generated, t)
        /\ req'.greedy = req.greedy /\ req'.penalty = req.penalty
    BY <1>4, <2>4 DEF Decode, Requests
  <2>6. req.content \o Append(req.generated, t) = Append(text, t)
    <3>1. <<t>> \in Seq(Symbols) /\ Append(req.generated, t) = req.generated \o <<t>>
      BY <2>4, AppendIsConcat
    <3>2. text \in Seq(Symbols)
      BY <2>4, ConcatProperties
    <3>3. Append(text, t) = text \o <<t>>
      <4> HIDE DEF text
      <4> QED BY <2>4, <3>2, AppendIsConcat
    <3>4. (req.content \o req.generated) \o <<t>> = req.content \o (req.generated \o <<t>>)
      <4>1. \A a, b, x \in Seq(Symbols) : (a \o b) \o x = a \o (b \o x)
        BY ConcatAssociative
      <4>2. req.content \in Seq(Symbols) /\ req.generated \in Seq(Symbols) /\ <<t>> \in Seq(Symbols)
        BY <2>4, <3>1
      <4> QED BY <4>1, <4>2, Zenon
    <3> QED BY <3>1, <3>3, <3>4
  <2>7. text' = Append(text, t) /\ sampler' = sampler
    BY <2>5, <2>6
  <2>8. sampler # Cold!Idle
    BY <2>1, ColdBusy
  <2>9. sampler.greedy => t = Best(text, sampler.penalty)
    BY <2>3
  <2> HIDE DEF text, sampler
  <2> QED BY <2>7, <2>8, <2>9 DEF Cold!Emit, text, sampler
<1>5. CASE Control \/ UNCHANGED vars
  <2>1. UNCHANGED req
    BY <1>5 DEF Control, Embed, SelectFormat, Calibrate, SetConversationCacheLimit, ClearConversationCache, vars
  <2> QED BY <2>1 DEF Cold!vars
<1> QED BY <1>1, <1>2, <1>3, <1>4, <1>5 DEF Next, Chat, Cold!Next

\* If tokens are only chosen from exact sources, a completion that reuses rows, snapshots
\* and logits is one that reuses nothing: what is left to a cold start is the source alone.
THEOREM WarmIsCold == Spec /\ []SourceIsExact => ImplementsColdCompletion
<1>1. Init => Cold!Init
  BY ColdIdle DEF Init, Cold!Init
<1> QED BY <1>1, ColdSteps, Invariance, PTL DEF Spec, ImplementsColdCompletion, Cold!Spec
-----------------------------------------------------------------------------
(* Where a token is taken from. *)

\* Every prefill is batched, no cache outgrows the budget, and a head that projects its
\* logits and penalises them in place has no penalty to apply.
LogitsApart ==
    /\ Batched
    /\ OutputHead = "materialize" => Penalties \subseteq {1}
    /\ \A f \in Formats : \A n \in 0 .. MaxSeqLen : Fits(n, f)

\* Greedy choices that leave no logits behind: greedyOutputToken reduces without them.
Silent(r) == OutputHead = "reduce" \/ (OutputHead = "cpu" /\ r = 1)

\* What the metadata says of its prompt's answer is that prompt's. Without logits of its
\* own it has a choice that left none, and nobody has filled the buffer since.
Remembered(m) ==
    m.tokens # <<>> =>
      /\ m.logits.state = "empty" =>
           m.greedy.has /\ Silent(m.greedy.penalty) /\ logits.state = "empty"
      /\ m.logits.state # "empty" => m.logits = Raw(SubSeq(m.tokens, 1, m.promptTokens))
      /\ m.greedy.has => m.greedy.text = SubSeq(m.tokens, 1, m.promptTokens)

\* Rows that cover the whole prompt are resident rows, and the captured metadata's.
Recalled ==
    pc = "reused" =>
      /\ Remembered(req.cached)
      /\ req.reused = Len(req.tokens) =>
           Len(req.tokens) <= Len(req.cached.tokens) /\ SubSeq(req.cached.tokens, 1, Len(req.tokens)) = req.tokens

\* A prompt that is read has no answer yet; one that was known has its logits or its choice.
Prepared ==
    pc = "prefill" =>
      /\ req.offset <= req.pos /\ req.pos <= Len(req.tokens)
      /\ req.offset < Len(req.tokens) =>
           /\ req.next = NoToken /\ req.promptGreedy = NoToken
           /\ req.greedy => logits.state = "empty"
           /\ ~req.greedy /\ req.pos = Len(req.tokens) => logits = Raw(req.content)
      /\ req.offset = Len(req.tokens) =>
           /\ req.promptGreedy = req.next
           /\ \/ req.next = NoToken /\ logits = Raw(req.content)
              \/ req.next = GreedyToken(req.content, req.penalty) /\ logits.state = "empty" /\ req.greedy /\ Silent(req.penalty)

\* The next token's source belongs to the whole text ...
Sourced ==
    pc = "decode" =>
      /\ req.next.has => req.next = GreedyToken(req.content \o req.generated, req.penalty)
      /\ ~req.next.has => logits = Raw(req.content \o req.generated)

\* ... and what was kept for an identical prompt to the prompt.
Captured ==
    pc \in {"decode", "save"} /\ req.eligible =>
      /\ req.promptLogits.state # "empty" => req.promptLogits = Raw(req.content)
      /\ req.promptGreedy.has => req.promptGreedy.text = req.content
      /\ req.promptLogits.state = "empty" =>
           /\ req.promptGreedy.has /\ req.promptGreedy.penalty = req.penalty /\ Silent(req.penalty)
           /\ req.greedy /\ logits.state = "empty"
           /\ pc = "decode" => req.next.has

Retained == ~req.transient /\ tmp.len = 0

LInv == Retained /\ Remembered(prefix) /\ Recalled /\ Prepared /\ Sourced /\ Captured

\* What a head leaves of a text: a choice, logits, or both.
LEMMA HeadAnswers ==
    ASSUME LogitsApart, NEW t, NEW r \in Penalties, NEW old
    PROVE  \/ /\ Silent(r) /\ GreedyHead(t, r, old).token = GreedyToken(t, r)
              /\ GreedyHead(t, r, old).logits = old
           \/ /\ ~Silent(r) /\ GreedyHead(t, r, old).token \in {NoToken, GreedyToken(t, r)}
              /\ GreedyHead(t, r, old).logits = Raw(t)
<1>1. OutputHead \in {"reduce", "cpu", "materialize"}
  BY KindAssumption DEF HeadKinds
<1>2. CASE OutputHead = "reduce" \/ (OutputHead = "cpu" /\ r = 1)
  BY <1>2 DEF GreedyHead, Silent
<1>3. CASE OutputHead = "cpu" /\ r # 1
  BY <1>3 DEF GreedyHead, Silent
<1>4. CASE OutputHead = "materialize"
  <2>1. r = 1
    BY <1>4 DEF LogitsApart
  <2> QED BY <1>4, <2>1 DEF GreedyHead, Silent
<1> QED BY <1>1, <1>2, <1>3, <1>4

\* The states of the logits and of the greedy choice, by name.
LEMMA SourceStates ==
    /\ NoLogits.state = "empty" /\ NoToken.has = FALSE
    /\ \A t : Raw(t).state = "raw" /\ Raw(t).text = t
    /\ \A t, r : GreedyToken(t, r).has = TRUE /\ GreedyToken(t, r).text = t /\ GreedyToken(t, r).penalty = r
BY DEF NoLogits, NoToken, Raw, GreedyToken

\* At rest nothing but the metadata is remembered.
LEMMA RestRemembers ==
    ASSUME LInv, pc' = "idle", req' = NoRequest, tmp' = NoCache,
           Remembered(prefix)'
    PROVE  LInv'
<1>1. NoRequest.transient = FALSE /\ NoCache.len = 0
  BY DEF NoRequest, NoCache, Blank
<1> QED BY <1>1 DEF LInv, Retained, Recalled, Prepared, Sourced, Captured

\* The choice of a workspace neither asks a model nor forgets what one said.
LEMMA BeginSource ==
    ASSUME LogitsApart, IInv, LInv,
           NEW p \in Prompts, NEW image \in Images, NEW g \in BOOLEAN, NEW r \in Penalties, NEW max \in MaxTokensSet,
           Begin(p, image, g, r, max)
    PROVE  LInv'
<1> DEFINE n == CacheLen(Len(p), max)
<1>1. pc' = "workspace" /\ UNCHANGED logits /\ Workspace(n, prefix) /\ req'.transient = (tmp'.len > 0)
  BY DEF Begin, NoRequest, Transient
<1>2. n \in Nat /\ n <= MaxSeqLen /\ MaxSeqLen \in Nat
  BY CacheLenFits, Sizes
<1> HIDE DEF n
<1>3. format \in Formats /\ TargetLen(n, format) \in 0 .. MaxSeqLen
  BY <1>2, TargetLenFits DEF IInv, Types
<1>4. Fits(TargetLen(n, format), format)
  BY <1>3 DEF LogitsApart
<1>5. prefix' \in {prefix, Cleared} /\ UNCHANGED tmp
  BY <1>1, <1>4 DEF Workspace
<1>6. Retained'
  <2>1. tmp'.len = 0
    BY <1>5 DEF LInv, Retained
  <2>2. ~(tmp'.len > 0)
    BY <2>1
  <2>3. ~req'.transient
    BY <1>1, <2>2
  <2> QED BY <2>1, <2>3 DEF Retained
<1>7. Remembered(prefix)'
  BY <1>1, <1>5, Blanks DEF LInv, Remembered
<1> QED BY <1>1, <1>6, <1>7 DEF LInv, Recalled, Prepared, Sourced, Captured

\* Only resident rows can cover a whole prompt, and then the metadata is that prompt's.
LEMMA ReuseSource ==
    ASSUME LogitsApart, IInv, LInv, Reuse
    PROVE  LInv'
<1> DEFINE resident == PrefixReuse(req.tokens)
           pick == Candidates(req.tokens, resident)
           i == BestSnapshot(req.tokens, resident)
           best == Match(req.tokens, convs.entries[i])
           n == Len(req.tokens)
<1>1. pc = "workspace" /\ pc' = "reused" /\ UNCHANGED <<tmp, logits>>
  BY DEF Reuse
<1>2. /\ req \in Requests /\ req.tokens \in Seq(Tok) /\ n \in Nat \ {0} /\ prefix.tokens \in Seq(Tok)
      /\ Types /\ ResidentRowsMatch /\ SnapshotRowsMatch /\ req.tokens # <<>>
  BY <1>1, PromptOf DEF IInv, Types, Metadata
<1>3. resident \in Nat /\ (pick # {} => best \in Nat /\ best <= n - 1)
  BY <1>2, PrefixReuseHolds, BestHolds
<1>4. resident = n => n <= Len(prefix.tokens) /\ SubSeq(prefix.tokens, 1, n) = req.tokens
  <2>1. ASSUME resident = n PROVE n <= Len(prefix.tokens) /\ SubSeq(prefix.tokens, 1, n) = req.tokens
    <3>1. PICK s \in Nat : s = Shared(req.tokens, prefix.tokens) /\ s <= n /\ s <= Len(prefix.tokens)
                           /\ SubSeq(req.tokens, 1, s) = SubSeq(prefix.tokens, 1, s)
      BY <1>2, SharedBeginning
    <3>2. resident \in {0, Min({s, ws.len})}
      BY <3>1 DEF PrefixReuse
    <3>3. PICK w \in Nat : w = ws.len
      BY <1>2, Sizes DEF Types, Caches
    <3>4. PICK m \in Nat : m = Min({s, w}) /\ m <= s
      <4>1. \A a, b \in Nat : Min({a, b}) \in Nat /\ Min({a, b}) <= a
        BY MinOfTwo
      <4> QED BY <4>1
    <3>5. s = n
      <4>1. n = 0 \/ n = m
        BY <2>1, <3>2, <3>3, <3>4
      <4> QED BY <1>2, <3>1, <3>4, <4>1
    <3>6. SubSeq(req.tokens, 1, n) = req.tokens
      BY <1>2, SubSeqFull
    <3> QED BY <3>1, <3>5, <3>6
  <2> QED BY <2>1
<1>5. /\ req'.transient = req.transient /\ req'.tokens = req.tokens
      /\ req'.cached \in {prefix, Cleared}
      /\ req'.reused = n => req'.cached = prefix /\ n <= Len(prefix.tokens) /\ SubSeq(prefix.tokens, 1, n) = req.tokens
  <2> HIDE DEF resident, pick, best, n
  <2>1. CASE ~req.eligible
    <3>1. req' = [req EXCEPT !.cached = prefix'] /\ prefix' \in {prefix, Cleared}
      BY <2>1 DEF Reuse
    <3>2. req.reused = 0
      BY <1>1 DEF IInv, Reused
    <3> QED BY <1>2, <3>1, <3>2 DEF Requests
  <2>2. CASE req.eligible
    <3>1. req' = [req EXCEPT !.cached = prefix, !.reused = IF SnapshotsSupported /\ pick # {} THEN best ELSE resident]
      BY <2>2 DEF Reuse, resident, pick, best
    <3>2. SnapshotsSupported /\ pick # {} => best # n
      BY <1>2, <1>3
    <3> QED BY <1>2, <1>4, <3>1, <3>2 DEF Requests
  <2> QED BY <2>1, <2>2
<1>6. prefix' \in {prefix, Cleared}
  BY DEF Reuse
<1>7. Remembered(prefix)' /\ Remembered(req.cached)'
  BY <1>1, <1>5, <1>6, Blanks DEF LInv, Remembered
<1>8. Retained' /\ Recalled'
  BY <1>1, <1>5, <1>7 DEF LInv, Retained, Recalled
<1> QED BY <1>1, <1>7, <1>8 DEF LInv, Prepared, Sourced, Captured

\* A known prompt is answered from its own logits or its own greedy choice; any other clears them.
LEMMA StartSource ==
    ASSUME LogitsApart, IInv, LInv, IInv', Start
    PROVE  LInv'
<1> DEFINE n == Len(req.tokens)
           same == req.reused = n /\ req.cached.promptTokens = n
           known == same /\ req.cached.logits.state # "empty"
           chosen == same /\ ~known /\ Answered(req.cached)
           offset == IF req.reused < n \/ known \/ chosen THEN req.reused
                     ELSE IF recurrent THEN 0 ELSE n - 1
           next == IF chosen THEN req.cached.greedy ELSE NoToken
<1>1. /\ pc = "reused" /\ pc' = "prefill" /\ UNCHANGED tmp
      /\ req' = [req EXCEPT !.offset = offset, !.pos = offset, !.next = next, !.promptGreedy = next]
      /\ logits' = IF known THEN req.cached.logits
                   ELSE IF Batched /\ req.greedy /\ offset < n THEN NoLogits ELSE logits
  BY DEF Start, LInv, Retained, Store
<1>2. /\ req \in Requests /\ n \in Nat \ {0} /\ req.reused \in Nat /\ req.reused <= n /\ req.cached \in Metadata
      /\ (~req.eligible => req.reused = 0) /\ (req.eligible => req.content = req.tokens)
  BY <1>1, PromptOf DEF IInv, Admitted, Requests
<1>3. offset \in 0 .. n
  BY <1>2
<1>4. ASSUME same
      PROVE  /\ req.content = req.tokens
             /\ known => req.cached.logits = Raw(req.content)
             /\ ~known => req.cached.greedy.has /\ Silent(req.cached.greedy.penalty) /\ logits.state = "empty"
             /\ req.cached.greedy.has => req.cached.greedy.text = req.content
  <2>1. req.eligible /\ req.content = req.tokens
    BY <1>2, <1>4
  <2>2. n <= Len(req.cached.tokens) /\ SubSeq(req.cached.tokens, 1, n) = req.tokens
    BY <1>1, <1>4 DEF LInv, Recalled
  <2>3. req.cached.tokens # <<>>
    BY <1>2, <2>2, Blanks
  <2>4. /\ req.cached.logits.state = "empty" =>
              req.cached.greedy.has /\ Silent(req.cached.greedy.penalty) /\ logits.state = "empty"
        /\ req.cached.logits.state # "empty" => req.cached.logits = Raw(SubSeq(req.cached.tokens, 1, req.cached.promptTokens))
        /\ req.cached.greedy.has => req.cached.greedy.text = SubSeq(req.cached.tokens, 1, req.cached.promptTokens)
    BY <1>1, <2>3 DEF LInv, Recalled, Remembered
  <2> QED BY <1>4, <2>1, <2>2, <2>4
<1>5. /\ req'.tokens = req.tokens /\ req'.content = req.content /\ req'.transient = req.transient
      /\ req'.greedy = req.greedy /\ req'.penalty = req.penalty
      /\ req'.offset = offset /\ req'.pos = offset /\ req'.next = next /\ req'.promptGreedy = next
  BY <1>1, <1>2 DEF Requests
<1>6. Prepared'
  <2>1. CASE known
    <3>1. offset = n /\ next = NoToken /\ logits' = Raw(req.content)
      BY <1>1, <1>4, <2>1
    <3> HIDE DEF offset, next
    <3> QED BY <1>2, <1>3, <1>5, <3>1 DEF Prepared
  <2>2. CASE chosen
    <3>1. offset = n /\ next = req.cached.greedy /\ logits' = logits
      BY <1>1, <1>2, <2>2
    <3>2. req.greedy /\ req.cached.greedy.has /\ req.cached.greedy.penalty = req.penalty
      BY <2>2 DEF Answered
    <3>3. req.cached.greedy.text = req.content /\ Silent(req.penalty) /\ logits.state = "empty"
      BY <1>4, <2>2, <3>2
    <3>4. req.cached.greedy = GreedyToken(req.content, req.penalty)
      BY <1>2, <3>2, <3>3 DEF Metadata, Greedies, GreedyToken
    <3> HIDE DEF offset, next
    <3> QED BY <1>2, <1>3, <1>5, <3>1, <3>2, <3>3, <3>4 DEF Prepared
  <2>3. CASE ~known /\ ~chosen
    <3>1. offset < n /\ next = NoToken /\ (req.greedy => logits' = NoLogits)
      BY <1>1, <1>2, <2>3 DEF LogitsApart
    <3> HIDE DEF offset, next
    <3> QED BY <1>2, <1>3, <1>5, <3>1, SourceStates DEF Prepared
  <2> QED BY <2>1, <2>2, <2>3
<1> HIDE DEF offset, next
<1>7. Retained'
  BY <1>1, <1>5 DEF LInv, Retained
<1>8. Remembered(prefix)'
  <2>1. prefix'.tokens = <<>>
    BY <1>1, <1>7, Blanks DEF IInv, Written, Answering, Retained
  <2> QED BY <2>1 DEF Remembered
<1> QED BY <1>1, <1>6, <1>7, <1>8 DEF LInv, Recalled, Sourced, Captured

\* While a request answers, the metadata of its cache is gone.
LEMMA AnsweringForgets ==
    ASSUME IInv', Retained', Answering'
    PROVE  Remembered(prefix)'
<1>1. prefix'.tokens = <<>>
  BY Blanks DEF IInv, Written, Retained
<1> QED BY <1>1 DEF Remembered

\* The row that ends a text is the text.
LEMMA LastRow ==
    ASSUME NEW text \in Seq(Symbols), text # <<>>, NEW c, RowsHold(c, text, Len(text))
    PROVE  c.rows[Len(text)] = text
<1>1. PICK n \in Nat \ {0} : n = Len(text)
  BY EmptySeq
<1>2. c.rows[n] = SubSeq(text, 1, n)
  BY <1>1 DEF RowsHold
<1> QED BY <1>1, <1>2, SubSeqFull

\* A prompt is read to its end, or continued.
LEMMA PrefillSource ==
    ASSUME IInv, LInv, IInv', Prefill
    PROVE  LInv'
<1> DEFINE i == req.pos + 1
           n == Len(req.tokens)
           c == Forward(Cache, req.content[i], i)
<1>1. /\ pc = "prefill" /\ pc' = "prefill" /\ req.pos < n /\ Store(c) /\ UNCHANGED prefix
      /\ req' = [req EXCEPT !.pos = i]
      /\ logits' = IF i = n /\ ~req.greedy THEN Raw(c.rows[i]) ELSE logits
  BY DEF Prefill
<1> HIDE DEF c
<1>2. req \in Requests /\ n \in Nat \ {0} /\ req.pos \in Nat /\ req.generated = <<>> /\ req.content \in Seq(Symbols) /\ req.offset \in Nat
  BY <1>1, PromptOf DEF IInv, Written, Answering, Requests
<1>3. /\ req'.pos = i
      /\ \A f \in {"tokens", "content", "transient", "generated", "greedy", "penalty", "offset", "next", "promptGreedy"} : req'[f] = req[f]
  BY <1>1, <1>2 DEF Requests
<1>4. Retained' /\ Cache' = c
  BY <1>1, <1>3 DEF LInv, Retained, Store, Cache
<1>5. req.offset < n /\ req.next = NoToken /\ req.promptGreedy = NoToken /\ (req.greedy => logits.state = "empty") /\ req.offset <= req.pos
  BY <1>1, <1>2 DEF LInv, Prepared
<1>6. i = n => c.rows[i] = req.content
  <2>1. ASSUME i = n PROVE c.rows[i] = req.content
    <3>1. req'.generated = <<>> /\ req'.content = req.content /\ req'.tokens = req.tokens
      BY <1>2, <1>3
    <3>2. req'.content \o req'.generated = req.content
      BY <1>2, <3>1, ConcatEmptySeq
    <3>3. RowsHold(c, req.content, i)
      BY <1>1, <1>3, <1>4, <3>2 DEF IInv, Written, Answering, RowsHold
    <3>4. Len(req.content) = i /\ req.content # <<>>
      BY <1>1, <1>2, <2>1, Blanks DEF IInv, Admitted
    <3> HIDE DEF i
    <3> QED BY <1>2, <3>3, <3>4, LastRow
  <2> QED BY <2>1
<1>7. Prepared'
  <2>1. i <= n /\ req.offset <= i
    BY <1>1, <1>2, <1>5
  <2>2. ~req.greedy /\ i = n => logits' = Raw(req.content)
    BY <1>1, <1>6
  <2>3. req.greedy => logits'.state = "empty"
    BY <1>1, <1>5
  <2> HIDE DEF i, n
  <2> QED BY <1>1, <1>2, <1>3, <1>5, <2>1, <2>2, <2>3 DEF Prepared, n
<1>8. Remembered(prefix)'
  BY <1>1, <1>4, AnsweringForgets DEF Answering
<1> QED BY <1>1, <1>4, <1>7, <1>8 DEF LInv, Recalled, Sourced, Captured

\* The first choice, or the first logits, follow the whole prompt.
LEMMA PromptedSource ==
    ASSUME LogitsApart, IInv, LInv, IInv', Prompted
    PROVE  LInv'
<1> DEFINE n == Len(req.tokens)
           g == GreedyHead(Cache.rows[n], req.penalty, logits)
           fresh == req.greedy /\ req.offset < n
<1>1. /\ pc = "prefill" /\ req.pos = n /\ pc' = "decode" /\ UNCHANGED <<ws, tmp, prefix>>
      /\ logits' = (IF fresh THEN g.logits ELSE logits)
      /\ req' = [req EXCEPT !.next = IF fresh THEN g.token ELSE req.next,
                            !.promptGreedy = IF fresh THEN g.token ELSE req.promptGreedy,
                            !.promptLogits = IF req.eligible THEN logits' ELSE req.promptLogits]
  BY DEF Prompted
<1>2. /\ req \in Requests /\ n \in Nat \ {0} /\ req.generated = <<>> /\ req.content \in Seq(Symbols) /\ req.offset \in Nat
      /\ req.penalty \in Penalties /\ Answering /\ req.greedy \in BOOLEAN
  BY <1>1, PromptOf DEF IInv, Written, Answering, Requests, Admitted
<1>3. req.content \o req.generated = req.content
  BY <1>2, ConcatEmptySeq
<1>4. Cache.rows[n] = req.content
  <2>1. RowsHold(Cache, req.content, n) /\ Len(req.content) = n /\ req.content # <<>>
    BY <1>1, <1>2, <1>3, Blanks DEF IInv, Written, Answering, RowsHold, Admitted
  <2> HIDE DEF n
  <2> QED BY <1>2, <2>1, LastRow
<1> DEFINE next == IF fresh THEN g.token ELSE req.next
           first == IF fresh THEN g.token ELSE req.promptGreedy
<1>5. /\ first = next
      /\ \/ next = GreedyToken(req.content, req.penalty) /\ logits'.state = "empty" /\ req.greedy /\ Silent(req.penalty)
         \/ next \in {NoToken, GreedyToken(req.content, req.penalty)} /\ logits' = Raw(req.content)
  <2>1. CASE fresh
    <3>1. next = g.token /\ first = g.token /\ logits' = g.logits /\ req.greedy /\ logits.state = "empty"
      BY <1>1, <2>1 DEF LInv, Prepared
    <3>2. \/ Silent(req.penalty) /\ g.token = GreedyToken(req.content, req.penalty) /\ g.logits = logits
          \/ g.token \in {NoToken, GreedyToken(req.content, req.penalty)} /\ g.logits = Raw(req.content)
      <4>1. g = GreedyHead(req.content, req.penalty, logits)
        BY <1>4
      <4> HIDE DEF g
      <4> QED BY <1>2, <4>1, HeadAnswers
    <3> HIDE DEF g, next, first
    <3> QED BY <3>1, <3>2
  <2>2. CASE ~fresh
    <3>1. next = req.next /\ first = req.promptGreedy /\ logits' = logits
      BY <1>1, <2>2
    <3>2. CASE req.offset < n
      <4>1. ~req.greedy /\ req.next = NoToken /\ req.promptGreedy = NoToken /\ logits = Raw(req.content)
        BY <1>1, <2>2, <3>2 DEF LInv, Prepared
      <4> HIDE DEF next, first
      <4> QED BY <3>1, <4>1
    <3>3. CASE req.offset = n
      <4> HIDE DEF next, first
      <4> QED BY <1>1, <3>1, <3>3 DEF LInv, Prepared
    <3>4. req.offset <= n
      BY <1>1 DEF LInv, Prepared
    <3> QED BY <1>2, <3>2, <3>3, <3>4
  <2> QED BY <2>1, <2>2
<1> HIDE DEF next, first, g, fresh
<1>6. /\ req'.next = next /\ req'.promptGreedy = first /\ (req.eligible => req'.promptLogits = logits')
      /\ \A f \in {"tokens", "content", "transient", "eligible", "generated", "greedy", "penalty"} : req'[f] = req[f]
  BY <1>1, <1>2 DEF Requests, next, first
<1>7. Sourced'
  <2>1. NoToken.has = FALSE /\ GreedyToken(req.content, req.penalty).has = TRUE
    BY SourceStates
  <2>2. req'.content \o req'.generated = req.content /\ req'.penalty = req.penalty
    BY <1>3, <1>6
  <2>3. req'.next = GreedyToken(req.content, req.penalty) \/ (req'.next = NoToken /\ logits' = Raw(req.content))
    BY <1>5, <1>6
  <2> QED BY <2>1, <2>2, <2>3 DEF Sourced
<1>8. Captured'
  BY <1>1, <1>5, <1>6, SourceStates DEF Captured
<1>9. Retained'
  BY <1>1, <1>6 DEF LInv, Retained
<1>10. Remembered(prefix)'
  BY <1>1, <1>9, AnsweringForgets DEF Answering
<1> QED BY <1>1, <1>7, <1>8, <1>9, <1>10 DEF LInv, Recalled, Prepared

\* The next ones follow the whole text, and leave what was kept for the prompt alone.
LEMMA DecodeSource ==
    ASSUME LogitsApart, IInv, LInv, IInv', NEW t \in Tok, Decode(t)
    PROVE  LInv'
<1> DEFINE i == req.pos + 1
           c == Forward(Cache, t, i)
           used == IF req.next.has THEN logits ELSE Spoiled
           g == GreedyHead(c.rows[i], req.penalty, used)
           last == Len(req.generated) + 1 >= req.max \/ req.pos >= req.len
           generated == Append(req.generated, t)
<1>1. /\ pc = "decode" /\ UNCHANGED prefix
      /\ IF last
         THEN /\ logits' = used
              /\ req' = [req EXCEPT !.generated = generated, !.next = NoToken]
              /\ pc' = "save"
              /\ UNCHANGED <<ws, tmp>>
         ELSE /\ Store(c)
              /\ logits' = (IF req.greedy THEN g.logits ELSE Raw(c.rows[i]))
              /\ req' = [req EXCEPT !.generated = generated, !.pos = i, !.next = IF req.greedy THEN g.token ELSE NoToken]
              /\ UNCHANGED pc
  BY DEF Decode
<1> HIDE DEF c, last, generated, used, g
<1>2. req \in Requests /\ req.penalty \in Penalties /\ req.greedy \in BOOLEAN /\ Answering
  BY <1>1, PromptOf DEF IInv, Admitted, Requests, Answering
<1>3. /\ req'.generated = generated
      /\ \A f \in {"tokens", "content", "transient", "eligible", "greedy", "penalty", "promptLogits", "promptGreedy"} : req'[f] = req[f]
  BY <1>1, <1>2 DEF Requests
<1>4. Retained'
  BY <1>1, <1>3 DEF LInv, Retained, Store
<1>5. Answering'
  BY <1>1 DEF Answering
<1>6. Remembered(prefix)'
  BY <1>4, <1>5, AnsweringForgets
<1>7. req.eligible /\ req.promptLogits.state = "empty" =>
        /\ req.next.has /\ logits.state = "empty" /\ req.greedy /\ Silent(req.penalty)
        /\ used = logits
  BY <1>1 DEF LInv, Captured, used
<1>8. CASE last
  <2>1. pc' = "save" /\ logits' = used
    BY <1>1, <1>8
  <2>2. Captured'
    BY <1>1, <1>3, <1>7, <2>1 DEF LInv, Captured
  <2> QED BY <1>4, <1>6, <2>1, <2>2 DEF LInv, Recalled, Prepared, Sourced
<1>9. CASE ~last
  <2> DEFINE text == req.content \o generated
  <2>1. /\ Store(c) /\ logits' = (IF req.greedy THEN g.logits ELSE Raw(c.rows[i]))
        /\ req' = [req EXCEPT !.generated = generated, !.pos = i, !.next = IF req.greedy THEN g.token ELSE NoToken]
        /\ pc' = "decode"
    BY <1>1, <1>9
  <2>2. req'.pos = i /\ req'.next = IF req.greedy THEN g.token ELSE NoToken
    BY <1>2, <2>1 DEF Requests
  <2>3. Cache' = c
    BY <1>3, <2>1 DEF LInv, Retained, Store, Cache
  <2>4. c.rows[i] = text
    <3>1. RowsHold(c, text, i) /\ i = Len(req.tokens) + Len(generated)
      BY <1>3, <2>1, <2>2, <2>3 DEF IInv, Written, Answering, RowsHold
    <3>2. /\ req.content \in Seq(Symbols) /\ generated \in Seq(Symbols) /\ Len(req.content) = Len(req.tokens)
          /\ Len(req.tokens) \in Nat \ {0} /\ Len(generated) \in Nat
      <4>1. req.generated \in Seq(Symbols) /\ t \in Symbols
        BY <1>1, PromptOf DEF IInv, Symbols
      <4>2. generated \in Seq(Symbols) /\ Len(generated) = Len(req.generated) + 1 /\ Len(req.generated) \in Nat
        BY <4>1, AppendProperties DEF generated
      <4> QED BY <1>1, <4>2, PromptOf DEF IInv, Admitted
    <3>3. text \in Seq(Symbols) /\ Len(text) = i
      <4>1. text \in Seq(Symbols) /\ Len(text) = Len(req.content) + Len(generated)
        BY <3>2, ConcatProperties
      <4> HIDE DEF text, i
      <4> QED BY <3>1, <3>2, <4>1
    <3>4. i # 0
      <4>1. PICK a \in Nat \ {0}, b \in Nat : a = Len(req.tokens) /\ b = Len(generated)
        BY <3>2
      <4> HIDE DEF i
      <4> QED BY <3>1, <4>1
    <3> HIDE DEF text, i
    <3>5. text # <<>>
      BY <3>3, <3>4, Blanks
    <3> QED BY <3>1, <3>3, <3>5, LastRow
  <2>5. \/ Silent(req.penalty) /\ g.token = GreedyToken(text, req.penalty) /\ g.logits = used
        \/ ~Silent(req.penalty) /\ g.token \in {NoToken, GreedyToken(text, req.penalty)} /\ g.logits = Raw(text)
    <3>1. g = GreedyHead(text, req.penalty, used)
      BY <2>4 DEF g
    <3> HIDE DEF text
    <3> QED BY <1>2, <3>1, HeadAnswers
  <2> HIDE DEF i, text
  <2>6. req'.content \o req'.generated = text
    BY <1>3 DEF text
  <2>7. Sourced'
    <3>1. CASE req.greedy
      <4>1. NoToken.has = FALSE /\ GreedyToken(text, req.penalty).has = TRUE
        BY SourceStates
      <4>2. req'.next = g.token /\ logits' = g.logits /\ req'.penalty = req.penalty
        BY <1>3, <2>1, <2>2, <3>1
      <4> QED BY <2>5, <2>6, <4>1, <4>2 DEF Sourced
    <3>2. CASE ~req.greedy
      BY <1>3, <2>1, <2>2, <2>4, <2>6, <3>2, SourceStates DEF Sourced
    <3> QED BY <3>1, <3>2
  <2>8. Captured'
    <3>1. req.eligible => /\ req.promptLogits.state # "empty" => req.promptLogits = Raw(req.content)
                          /\ req.promptGreedy.has => req.promptGreedy.text = req.content
                          /\ req.promptLogits.state = "empty" => req.promptGreedy.has /\ req.promptGreedy.penalty = req.penalty
      BY <1>1 DEF LInv, Captured
    <3>2. req.eligible /\ req.promptLogits.state = "empty" => logits'.state = "empty" /\ req'.next.has
      BY <1>7, <2>1, <2>2, <2>5, SourceStates
    <3> QED BY <1>3, <1>7, <2>1, <3>1, <3>2 DEF Captured
  <2> QED BY <1>4, <1>6, <2>1, <2>7, <2>8 DEF LInv, Recalled, Prepared
<1> QED BY <1>8, <1>9

\* What Save remembers of the prompt's answer is the prompt's.
LEMMA FinishSource ==
    ASSUME IInv, LInv, Finish
    PROVE  LInv'
<1>1. /\ pc \in {"decode", "save"} /\ pc' = "idle" /\ tmp' = NoCache /\ req' = NoRequest /\ UNCHANGED logits
      /\ prefix' = IF req.eligible
                   THEN [tokens |-> Resident, promptTokens |-> Len(req.tokens), logits |-> req.promptLogits, greedy |-> req.promptGreedy]
                   ELSE prefix
  BY DEF Finish, Save
<1>2. CASE ~req.eligible
  <2>1. Remembered(prefix)'
    BY <1>1, <1>2 DEF LInv, Remembered
  <2> QED BY <1>1, <2>1, RestRemembers
<1>3. CASE req.eligible
  <2>1. /\ req.tokens \in Seq(Symbols) /\ Len(req.tokens) \in Nat /\ req.generated \in Seq(Symbols) /\ req.content = req.tokens
    BY <1>1, <1>3, PromptOf DEF IInv, Admitted
  <2>2. Resident = SubSeq(req.content \o req.generated, 1, req.pos) /\ Len(req.tokens) <= req.pos /\ Len(Resident) = req.pos
    BY <1>1, <1>3, ResidentIsText
  <2>3. SubSeq(Resident, 1, Len(req.tokens)) = req.tokens
    <3>1. req.pos \in Nat /\ req.pos <= Len(req.content \o req.generated) /\ req.content \o req.generated \in Seq(Symbols)
      BY <1>1, TextOf, PromptOf DEF IInv, Answering
    <3>2. SubSeq(Resident, 1, Len(req.tokens)) = SubSeq(req.content \o req.generated, 1, Len(req.tokens))
      BY <2>1, <2>2, <3>1, BeginningOfBeginning
    <3>3. SubSeq(req.tokens \o req.generated, 1, Len(req.tokens)) = SubSeq(req.tokens, 1, Len(req.tokens))
      <4>1. PICK a \in Nat : a = Len(req.tokens)
        BY <2>1
      <4>2. SubSeq(req.tokens \o req.generated, 1, a) = SubSeq(req.tokens, 1, a)
        <5>1. \A x, y \in Seq(Symbols) : \A n \in Nat : n <= Len(x) => SubSeq(x \o y, 1, n) = SubSeq(x, 1, n)
          BY BeginningOfConcat
        <5>2. a <= Len(req.tokens)
          BY <4>1
        <5> QED BY <2>1, <5>1, <5>2
      <4> QED BY <4>1, <4>2
    <3> QED BY <2>1, <3>2, <3>3, SubSeqFull
  <2>4. /\ req.promptLogits.state # "empty" => req.promptLogits = Raw(req.content)
        /\ req.promptGreedy.has => req.promptGreedy.text = req.content
        /\ req.promptLogits.state = "empty" =>
             req.promptGreedy.has /\ req.promptGreedy.penalty = req.penalty /\ Silent(req.penalty) /\ logits.state = "empty"
    BY <1>1, <1>3 DEF LInv, Captured
  <2>5. /\ prefix'.tokens = Resident /\ prefix'.promptTokens = Len(req.tokens)
        /\ prefix'.logits = req.promptLogits /\ prefix'.greedy = req.promptGreedy
    BY <1>1, <1>3
  <2>6. Remembered(prefix)'
    BY <1>1, <2>1, <2>3, <2>4, <2>5 DEF Remembered
  <2> QED BY <1>1, <2>6, RestRemembers
<1> QED BY <1>2, <1>3

\* Cancellation and control remember nothing new.
LEMMA RestSource ==
    ASSUME IInv, LInv, CancelEarly \/ CancelPrefill \/ Control \/ UNCHANGED vars
    PROVE  LInv'
<1>1. prefix' \in {prefix, Cleared} /\ UNCHANGED logits
  BY DEF CancelEarly, CancelPrefill, Control, Embed, SelectFormat, Calibrate, SetConversationCacheLimit, ClearConversationCache, vars
<1>2. Remembered(prefix)'
  BY <1>1, Blanks DEF LInv, Remembered
<1>3. CASE CancelEarly \/ CancelPrefill
  BY <1>2, <1>3, RestRemembers DEF CancelEarly, CancelPrefill
<1>4. CASE Control
  <2>1. pc = "idle" /\ UNCHANGED <<tmp, pc, req>>
    BY <1>4 DEF Control, Embed, SelectFormat, Calibrate, SetConversationCacheLimit, ClearConversationCache
  <2>2. req = NoRequest /\ tmp = NoCache
    BY <2>1 DEF IInv, Resting
  <2> QED BY <1>2, <2>1, <2>2, RestRemembers
<1>5. CASE UNCHANGED vars
  BY <1>2, <1>5 DEF vars, LInv, Retained, Recalled, Remembered, Prepared, Sourced, Captured
<1> QED BY <1>3, <1>4, <1>5

\* The invariant of the sources, in every behaviour.
LEMMA SourceInvariance ==
    ASSUME LogitsApart
    PROVE  Spec => []LInv
<1>1. Init => LInv
  <2> SUFFICES ASSUME Init PROVE LInv
    OBVIOUS
  <2>1. pc = "idle" /\ req = NoRequest /\ tmp = NoCache /\ prefix.tokens = <<>>
    BY Blanks DEF Init, Cleared
  <2>2. NoRequest.transient = FALSE
    BY DEF NoRequest
  <2> QED BY <2>1, <2>2, Blanks DEF LInv, Retained, Remembered, Recalled, Prepared, Sourced, Captured
<1>2. ASSUME IInv, IInv', LInv, [Next]_vars PROVE LInv'
  <2>1. ASSUME NEW p \in Prompts, NEW image \in Images, NEW g \in BOOLEAN, NEW r \in Penalties, NEW max \in MaxTokensSet,
               Begin(p, image, g, r, max)
        PROVE  LInv'
    BY <1>2, <2>1, BeginSource
  <2>2. CASE Reuse \/ Start \/ Prefill \/ Prompted
    BY <1>2, <2>2, ReuseSource, StartSource, PrefillSource, PromptedSource
  <2>3. ASSUME NEW t \in Tok \ {Scratch}, Decode(t) PROVE LInv'
    BY <1>2, <2>3, DecodeSource
  <2>4. CASE Finish
    BY <1>2, <2>4, FinishSource
  <2>5. CASE CancelEarly \/ CancelPrefill \/ Control \/ UNCHANGED vars
    BY <1>2, <2>5, RestSource
  <2> QED BY <1>2, <2>1, <2>2, <2>3, <2>4, <2>5 DEF Next, Chat
<1> QED BY <1>1, <1>2, Invariance, PTL DEF Spec

\* With batched prefill, caches within the budget and no penalised projection, a token is
\* only chosen from logits, or a greedy choice, of the whole text and the request's penalty.
\* Without batched prefill it is not: greedy serial prefill keeps a stale buffer.
THEOREM SourceExact ==
    ASSUME LogitsApart
    PROVE  Spec => []SourceIsExact
<1>1. ASSUME IInv, LInv PROVE SourceIsExact
  <2> SUFFICES ASSUME pc = "decode"
               PROVE  Source = [has |-> TRUE, text |-> req.content \o req.generated, penalty |-> req.penalty]
    BY DEF SourceIsExact
  <2>1. CASE req.next.has
    BY <1>1, <2>1 DEF LInv, Sourced, Source, GreedyToken
  <2>2. CASE ~req.next.has
    <3> DEFINE text == req.content \o req.generated
    <3>1. logits.state = "raw" /\ logits.text = text
      BY <1>1, <2>2, SourceStates DEF LInv, Sourced
    <3>2. (logits.state = "raw") = TRUE
      BY <3>1
    <3> HIDE DEF text
    <3>3. Source = [has |-> TRUE, text |-> text, penalty |-> req.penalty]
      BY <2>2, <3>1, <3>2 DEF Source
    <3> QED BY <3>3 DEF text
  <2> QED BY <2>1, <2>2
<1> QED BY <1>1, Invariance, SourceInvariance, PTL

\* There every warm completion is a cold one: for the same prompt it emits what
\* generateChatStreamUntil emits with nothing to reuse, exactly so when it is greedy.
THEOREM WarmAnswersAsCold ==
    ASSUME LogitsApart
    PROVE  Spec => ImplementsColdCompletion
BY SourceExact, WarmIsCold, PTL
-----------------------------------------------------------------------------
(* The account of the snapshots. *)

\* The bytes of a snapshot.
LEMMA SnapshotSize ==
    ASSUME NEW e \in Snapshots
    PROVE  SnapshotBytes(e) \in Nat
<1>1. e.tokens \in Seq(Tok) /\ RowBytes[e.fmt] \in Nat
  BY SizeAssumption DEF Snapshots
<1>2. PICK a \in Nat, b \in Nat : a = Len(e.tokens) /\ b = SnapshotRow(e.fmt)
  BY <1>1 DEF SnapshotRow
<1> QED BY <1>2 DEF SnapshotBytes

\* The sums of the beginnings of a list, shortest first.
LEMMA SumsExist ==
    ASSUME NEW es, Len(es) \in Nat
    PROVE  Sums(es) = [k \in 0 .. Len(es) |-> IF k = 0 THEN 0 ELSE Sums(es)[k - 1] + SnapshotBytes(es[k])]
<1> DEFINE step(f, n) == f = [k \in 0 .. n |-> IF k = 0 THEN 0 ELSE f[k - 1] + SnapshotBytes(es[k])]
           bad == {n \in Nat : ~ \E f : step(f, n)}
<1>1. bad = {}
  <2> SUFFICES ASSUME bad # {} PROVE FALSE
    OBVIOUS
  <2>1. PICK n \in bad : \A m \in bad : n <= m
    <3>1. bad \subseteq Nat
      OBVIOUS
    <3> HIDE DEF bad
    <3> QED BY <3>1, LeastExists
  <2>2. n \in Nat /\ ~ \E f : step(f, n)
    OBVIOUS
  <2>3. CASE n = 0
    <3>1. step([k \in 0 .. 0 |-> 0], 0)
      OBVIOUS
    <3> HIDE DEF step
    <3> QED BY <2>2, <2>3, <3>1
  <2>4. CASE n # 0
    <3>1. PICK m \in Nat : n = m + 1
      BY <2>2, <2>4
    <3>2. m \notin bad
      BY <2>1, <3>1
    <3>3. PICK f : step(f, m)
      BY <3>2
    <3> DEFINE g == [k \in 0 .. m + 1 |-> IF k = m + 1 THEN f[m] + SnapshotBytes(es[m + 1]) ELSE f[k]]
    <3>4. \A k \in 0 .. m + 1 : g[k] = IF k = 0 THEN 0 ELSE g[k - 1] + SnapshotBytes(es[k])
      <4>1. TAKE k \in 0 .. m + 1
      <4>2. CASE k = m + 1
        BY <4>2
      <4>3. CASE k # m + 1 /\ k # 0
        <5>1. k \in 0 .. m /\ k - 1 \in 0 .. m + 1 /\ k - 1 # m + 1
          BY <4>3
        <5>2. f[k] = f[k - 1] + SnapshotBytes(es[k])
          BY <3>3, <4>3, <5>1
        <5> QED BY <4>3, <5>1, <5>2
      <4>4. CASE k = 0
        <5>1. 0 \in 0 .. m
          OBVIOUS
        <5>2. f[0] = 0
          BY <3>3, <5>1
        <5>3. g[0] = f[0]
          OBVIOUS
        <5> QED BY <4>4, <5>2, <5>3
      <4> QED BY <4>2, <4>3, <4>4
    <3>5. step(g, m + 1)
      BY <3>4
    <3> QED BY <2>2, <3>1, <3>5
  <2> QED BY <2>3, <2>4
<1>2. \E f : step(f, Len(es))
  BY <1>1
<1>3. Sums(es) = CHOOSE f : step(f, Len(es))
  BY DEF Sums
<1> HIDE DEF step
<1>4. step(Sums(es), Len(es))
  BY <1>2, <1>3
<1> QED BY <1>4 DEF step

\* Each is the one before it and one snapshot more.
LEMMA NextSum ==
    ASSUME NEW es, Len(es) \in Nat
    PROVE  Sums(es)[0] = 0 /\ \A k \in 1 .. Len(es) : Sums(es)[k] = Sums(es)[k - 1] + SnapshotBytes(es[k])
<1>1. PICK f : f = Sums(es)
  OBVIOUS
<1>2. PICK n \in Nat : n = Len(es)
  OBVIOUS
<1>3. f = [k \in 0 .. n |-> IF k = 0 THEN 0 ELSE f[k - 1] + SnapshotBytes(es[k])]
  BY <1>1, <1>2, SumsExist
<1>4. f[0] = 0
  BY <1>3
<1>5. \A k \in 1 .. n : f[k] = f[k - 1] + SnapshotBytes(es[k])
  <2>1. TAKE k \in 1 .. n
  <2>2. k \in 0 .. n /\ k # 0
    OBVIOUS
  <2> QED BY <1>3, <2>2
<1> QED BY <1>1, <1>2, <1>4, <1>5

\* They are numbers.
LEMMA SumsAreNumbers ==
    ASSUME NEW es \in Seq(Snapshots)
    PROVE  Len(es) \in Nat /\ \A k \in 0 .. Len(es) : Sums(es)[k] \in Nat
<1>1. PICK n \in Nat : n = Len(es)
  BY LenProperties
<1>2. PICK f : f = Sums(es)
  OBVIOUS
<1>3. f[0] = 0 /\ \A k \in 1 .. n : f[k] = f[k - 1] + SnapshotBytes(es[k])
  BY <1>1, <1>2, NextSum
<1>4. \A k \in 1 .. n : SnapshotBytes(es[k]) \in Nat
  BY <1>1, SnapshotSize, ElementOfSeq
<1> DEFINE bad == {k \in 0 .. n : f[k] \notin Nat}
<1>5. bad = {}
  <2> SUFFICES ASSUME bad # {} PROVE FALSE
    OBVIOUS
  <2>1. PICK k \in bad : \A m \in bad : k <= m
    <3>1. bad \subseteq Nat
      OBVIOUS
    <3> HIDE DEF bad
    <3> QED BY <3>1, LeastExists
  <2>2. k \in 0 .. n /\ f[k] \notin Nat
    OBVIOUS
  <2>3. k # 0 /\ k - 1 \in 0 .. n
    BY <1>3, <2>2
  <2>4. k - 1 \notin bad
    BY <2>1, <2>2
  <2>5. f[k - 1] \in Nat
    BY <2>3, <2>4
  <2> HIDE DEF bad
  <2> QED BY <1>3, <1>4, <2>2, <2>3, <2>5
<1> QED BY <1>1, <1>2, <1>5

\* Lists that begin alike have the same sums.
LEMMA SameSums ==
    ASSUME NEW es \in Seq(Snapshots), NEW fs \in Seq(Snapshots), NEW n \in Nat, n <= Len(es), n <= Len(fs),
           \A k \in 1 .. n : es[k] = fs[k]
    PROVE  Sums(es)[n] = Sums(fs)[n]
<1>1. PICK f, g : f = Sums(es) /\ g = Sums(fs)
  OBVIOUS
<1>2. Len(es) \in Nat /\ Len(fs) \in Nat
  BY LenProperties
<1>3. f[0] = 0 /\ \A k \in 1 .. n : f[k] = f[k - 1] + SnapshotBytes(es[k])
  <2>1. Sums(es)[0] = 0 /\ \A k \in 1 .. Len(es) : Sums(es)[k] = Sums(es)[k - 1] + SnapshotBytes(es[k])
    BY <1>2, NextSum
  <2> QED BY <1>1, <1>2, <2>1
<1>4. g[0] = 0 /\ \A k \in 1 .. n : g[k] = g[k - 1] + SnapshotBytes(fs[k])
  <2>1. Sums(fs)[0] = 0 /\ \A k \in 1 .. Len(fs) : Sums(fs)[k] = Sums(fs)[k - 1] + SnapshotBytes(fs[k])
    BY <1>2, NextSum
  <2> QED BY <1>1, <1>2, <2>1
<1> DEFINE bad == {k \in 0 .. n : f[k] # g[k]}
<1>5. bad = {}
  <2> SUFFICES ASSUME bad # {} PROVE FALSE
    OBVIOUS
  <2>1. PICK k \in bad : \A m \in bad : k <= m
    <3>1. bad \subseteq Nat
      OBVIOUS
    <3> HIDE DEF bad
    <3> QED BY <3>1, LeastExists
  <2>2. k \in 0 .. n /\ f[k] # g[k]
    OBVIOUS
  <2>3. k # 0 /\ k - 1 \in 0 .. n /\ k \in 1 .. n
    BY <1>3, <1>4, <2>2
  <2>4. k - 1 \notin bad
    BY <2>1, <2>2
  <2>5. f[k - 1] = g[k - 1]
    BY <2>3, <2>4
  <2> HIDE DEF bad
  <2> QED BY <1>3, <1>4, <2>2, <2>3, <2>5
<1> QED BY <1>1, <1>5

\* A list and one snapshot more.
LEMMA BytesOfAppend ==
    ASSUME NEW es \in Seq(Snapshots), NEW e \in Snapshots
    PROVE  BytesOf(Append(es, e)) = BytesOf(es) + SnapshotBytes(e)
<1> DEFINE fs == Append(es, e)
<1>1. PICK n \in Nat : n = Len(es)
  BY LenProperties
<1>2. fs \in Seq(Snapshots) /\ Len(fs) = n + 1 /\ fs[n + 1] = e /\ \A k \in 1 .. n : fs[k] = es[k]
  BY <1>1, AppendProperties
<1> HIDE DEF fs
<1>3. Sums(fs)[n] = Sums(es)[n]
  BY <1>1, <1>2, SameSums
<1>4. Sums(fs)[n + 1] = Sums(fs)[n + 1 - 1] + SnapshotBytes(fs[n + 1])
  <2>1. Len(fs) \in Nat /\ n + 1 \in 1 .. Len(fs)
    BY <1>2
  <2> QED BY <2>1, NextSum
<1>5. n + 1 - 1 = n
  OBVIOUS
<1> QED BY <1>1, <1>2, <1>3, <1>4, <1>5 DEF BytesOf, fs

\* No snapshots.
LEMMA NoBytes == BytesOf(<<>>) = 0
<1>1. Len(<<>>) = 0 /\ 0 \in Nat
  BY Blanks
<1>2. Sums(<<>>)[0] = 0
  BY <1>1, NextSum
<1> QED BY <1>1, <1>2 DEF BytesOf

\* A touched list has its snapshots in another order.
LEMMA Touched ==
    ASSUME NEW S, NEW es \in Seq(S), NEW i \in 1 .. Len(es)
    PROVE  /\ Touch(es, i) \in Seq(S) /\ Len(Touch(es, i)) = Len(es) /\ Len(es) \in Nat \ {0}
           /\ \A k \in 1 .. Len(es) : Touch(es, i)[k] = IF k = Len(es) THEN es[i] ELSE IF k < i THEN es[k] ELSE es[k + 1]
<1>1. PICK n \in Nat \ {0} : n = Len(es) /\ i \in 1 .. n
  BY LenProperties
<1>2. \A k \in 1 .. n : es[k] \in S
  BY <1>1, ElementOfSeq
<1> DEFINE a == SubSeq(es, 1, i - 1)
           b == SubSeq(es, i + 1, n)
           r == a \o b
<1>3. a \in Seq(S) /\ Len(a) = i - 1 /\ \A k \in 1 .. i - 1 : a[k] = es[k]
  <2>1. i - 1 \in Nat /\ i - 1 <= Len(es)
    BY <1>1
  <2> QED BY <2>1, Beginning
<1>4. b \in Seq(S) /\ Len(b) = n - i /\ \A k \in 1 .. n - i : b[k] = es[k + i]
  <2>1. PICK j \in 2 .. n + 1 : j = i + 1
    BY <1>1
  <2>2. \A k \in j .. n : es[k] \in S
    BY <1>2, <2>1
  <2>3. SubSeq(es, j, n) \in Seq(S) /\ Len(SubSeq(es, j, n)) = (IF j <= n THEN n - j + 1 ELSE 0)
        /\ \A k \in 1 .. n - j + 1 : SubSeq(es, j, n)[k] = es[j + k - 1]
    BY <1>1, <2>1, <2>2, SubSeqProperties
  <2>4. \A k \in 1 .. n - i : j + k - 1 = k + i
    BY <1>1, <2>1
  <2> QED BY <1>1, <2>1, <2>3, <2>4
<1> HIDE DEF a, b
<1>5. PICK la \in Nat, lb \in Nat : la = Len(a) /\ lb = Len(b) /\ la = i - 1 /\ lb = n - i
  <2>1. i - 1 \in Nat /\ n - i \in Nat
    BY <1>1
  <2> QED BY <1>3, <1>4, <2>1
<1>6. r \in Seq(S) /\ Len(r) = la + lb /\ \A k \in 1 .. la + lb : r[k] = IF k <= la THEN a[k] ELSE b[k - la]
  <2>1. a \o b \in Seq(S) /\ Len(a \o b) = Len(a) + Len(b)
        /\ \A k \in 1 .. Len(a) + Len(b) : (a \o b)[k] = IF k <= Len(a) THEN a[k] ELSE b[k - Len(a)]
    BY <1>3, <1>4, ConcatProperties
  <2> QED BY <1>5, <2>1
<1>7. RemoveAt(es, i) = r
  BY <1>1 DEF RemoveAt, a, b
<1> HIDE DEF r
<1>8. la + lb = n - 1
  BY <1>1, <1>5
<1>8a. ASSUME NEW k \in 1 .. n - 1 PROVE r[k] = IF k < i THEN es[k] ELSE es[k + 1]
  <2>1. k \in 1 .. la + lb
    BY <1>8
  <2>3. CASE k < i
    <3>1. k <= la /\ k \in 1 .. i - 1
      BY <1>1, <1>5, <2>3
    <3> QED BY <1>3, <1>6, <2>1, <2>3, <3>1
  <2>4. CASE ~(k < i)
    <3>1. PICK j \in 1 .. n - i : j = k - la /\ j + i = k + 1 /\ ~(k <= la)
      BY <1>1, <1>5, <1>8, <2>4
    <3>2. b[j] = es[k + 1]
      BY <1>4, <3>1
    <3> QED BY <1>6, <2>1, <2>4, <3>1, <3>2
  <2> QED BY <2>3, <2>4
<1>9. Touch(es, i) = Append(r, es[i]) /\ es[i] \in S
  BY <1>1, <1>2, <1>7 DEF Touch
<1>10. Append(r, es[i]) \in Seq(S) /\ Len(Append(r, es[i])) = n /\ Append(r, es[i])[n] = es[i]
       /\ \A k \in 1 .. n - 1 : Append(r, es[i])[k] = r[k]
  <2>1. Len(r) = n - 1 /\ Len(r) + 1 = n
    BY <1>1, <1>6, <1>8
  <2> QED BY <1>6, <1>9, <2>1, AppendProperties
<1>11. \A k \in 1 .. n : Touch(es, i)[k] = IF k = n THEN es[i] ELSE IF k < i THEN es[k] ELSE es[k + 1]
  <2>1. TAKE k \in 1 .. n
  <2>2. k = n \/ k \in 1 .. n - 1
    OBVIOUS
  <2> QED BY <1>8a, <1>9, <1>10, <2>2
<1> QED BY <1>1, <1>9, <1>10, <1>11

\* And the same bytes.
LEMMA BytesOfTouch ==
    ASSUME NEW es \in Seq(Snapshots), NEW i \in 1 .. Len(es)
    PROVE  BytesOf(Touch(es, i)) = BytesOf(es)
<1> DEFINE t == Touch(es, i)
<1>1. PICK n \in Nat \ {0} : n = Len(es) /\ i \in 1 .. n
  BY LenProperties
<1>2. t \in Seq(Snapshots) /\ Len(t) = n
      /\ \A k \in 1 .. n : t[k] = IF k = n THEN es[i] ELSE IF k < i THEN es[k] ELSE es[k + 1]
  BY <1>1, Touched
<1> HIDE DEF t
<1>3. PICK f, g : f = Sums(es) /\ g = Sums(t)
  OBVIOUS
<1>4. f[0] = 0 /\ \A k \in 1 .. n : f[k] = f[k - 1] + SnapshotBytes(es[k])
  BY <1>1, <1>3, NextSum
<1>5. g[0] = 0 /\ \A k \in 1 .. n : g[k] = g[k - 1] + SnapshotBytes(t[k])
  BY <1>1, <1>2, <1>3, NextSum
<1>6. PICK size \in Nat : size = SnapshotBytes(es[i])
  BY <1>1, SnapshotSize, ElementOfSeq
<1>7. \A k \in 0 .. n : f[k] \in Nat /\ g[k] \in Nat
  BY <1>1, <1>2, <1>3, SumsAreNumbers
<1>8. \A k \in 1 .. n : SnapshotBytes(es[k]) \in Nat
  BY <1>1, SnapshotSize, ElementOfSeq
<1>9. PICK h \in 0 .. n - 1 : h = i - 1
  BY <1>1
<1>10. g[h] = f[h]
  <2>1. \A k \in 1 .. h : t[k] = es[k]
    BY <1>1, <1>2, <1>9
  <2>2. h \in Nat /\ h <= Len(es) /\ h <= Len(t)
    BY <1>1, <1>2, <1>9
  <2> QED BY <1>2, <1>3, <2>1, <2>2, SameSums
<1> DEFINE bad == {k \in h .. n - 1 : g[k] + size # f[k + 1]}
<1>11. bad = {}
  <2> SUFFICES ASSUME bad # {} PROVE FALSE
    OBVIOUS
  <2>1. PICK k \in bad : \A m \in bad : k <= m
    <3>1. bad \subseteq Nat
      BY <1>9
    <3> HIDE DEF bad
    <3> QED BY <3>1, LeastExists
  <2>2. k \in h .. n - 1 /\ g[k] + size # f[k + 1]
    OBVIOUS
  <2>3. CASE k = h
    <3>1. h + 1 = i /\ i \in 1 .. n /\ i - 1 = h
      BY <1>1, <1>9
    <3>2. f[i] = f[h] + size
      BY <1>4, <1>6, <3>1
    <3> QED BY <1>10, <2>2, <2>3, <3>1, <3>2
  <2>4. CASE k # h
    <3>1. PICK m \in h .. n - 1 : k = m + 1
      BY <1>9, <2>2, <2>4
    <3>2. m \notin bad
      BY <1>9, <2>1, <3>1
    <3>3. g[m] + size = f[m + 1]
      BY <3>2
    <3> HIDE DEF bad
    <3>4. k \in 1 .. n /\ k + 1 \in 1 .. n /\ k # n /\ ~(k < i) /\ k - 1 = m /\ k + 1 - 1 = k /\ m \in 0 .. n
      BY <1>1, <1>9, <2>2, <3>1
    <3>5. t[k] = es[k + 1]
      BY <1>2, <3>4
    <3>6. g[k] = g[m] + SnapshotBytes(es[k + 1]) /\ f[k + 1] = f[k] + SnapshotBytes(es[k + 1])
      BY <1>4, <1>5, <3>4, <3>5
    <3>7. g[m] \in Nat /\ f[k] \in Nat /\ SnapshotBytes(es[k + 1]) \in Nat
      BY <1>7, <1>8, <3>4
    <3>8. g[m] + size = f[k]
      BY <3>1, <3>3
    <3> QED BY <2>2, <3>6, <3>7, <3>8
  <2> QED BY <2>3, <2>4
<1>12. g[n - 1] + size = f[n]
  <2>1. n - 1 \in h .. n - 1 /\ n - 1 + 1 = n
    BY <1>9
  <2>2. n - 1 \notin bad
    BY <1>11
  <2> QED BY <2>1, <2>2
<1>13. g[n] = g[n - 1] + size
  <2>1. n \in 1 .. n
    OBVIOUS
  <2> QED BY <1>2, <1>5, <1>6, <2>1
<1> QED BY <1>1, <1>2, <1>3, <1>12, <1>13 DEF BytesOf, t

\* A list that holds each snapshot of another at most once repeats nothing either.
LEMMA StaysIrredundant ==
    ASSUME NEW es, Irredundant(es), NEW fs, NEW d,
           \A k \in DOMAIN fs : d[k] \in DOMAIN es /\ fs[k] = es[d[k]],
           \A j, k \in DOMAIN fs : d[j] = d[k] => j = k
    PROVE  Irredundant(fs)
BY DEF Irredundant

\* What subsumption leaves: each of the others once.
LEMMA UnsubsumedFrom ==
    ASSUME NEW S, NEW es \in Seq(S), NEW kept
    PROVE  LET fs == Unsubsumed(es, kept) IN
           \E d : /\ \A k \in DOMAIN fs : d[k] \in DOMAIN es /\ fs[k] = es[d[k]] /\ ~Subsumed(es[d[k]], kept)
                  /\ \A j, k \in DOMAIN fs : d[j] = d[k] => j = k
<1> DEFINE left == {i \in DOMAIN es : ~Subsumed(es[i], kept)}
           d == [k \in 1 .. Cardinality(left) |-> Kth(left, k)]
           fs == Unsubsumed(es, kept)
<1>1. Len(es) \in Nat /\ DOMAIN es = 1 .. Len(es)
  BY LenProperties
<1>2. left \subseteq 1 .. Len(es) /\ \A i \in left : i \in DOMAIN es /\ ~Subsumed(es[i], kept)
  BY <1>1
<1>3. fs = [k \in 1 .. Cardinality(left) |-> es[Kth(left, k)]]
  BY DEF Unsubsumed
<1> HIDE DEF left, fs
<1>4. \A k \in 1 .. Cardinality(left) : Kth(left, k) \in left /\ Cardinality({j \in left : j <= Kth(left, k)}) = k
  BY <1>1, <1>2, KthMember
<1>5. \A k \in DOMAIN fs : d[k] \in DOMAIN es /\ fs[k] = es[d[k]] /\ ~Subsumed(es[d[k]], kept)
  BY <1>2, <1>3, <1>4
<1>6. \A j, k \in DOMAIN fs : d[j] = d[k] => j = k
  <2>1. TAKE j, k \in DOMAIN fs
  <2>2. j \in 1 .. Cardinality(left) /\ k \in 1 .. Cardinality(left)
    BY <1>3
  <2>3. HAVE d[j] = d[k]
  <2>4. Kth(left, j) = Kth(left, k)
    BY <2>2, <2>3
  <2>5. PICK m : m = Kth(left, j) /\ m = Kth(left, k)
    BY <2>4
  <2>6. Cardinality({i \in left : i <= m}) = j /\ Cardinality({i \in left : i <= m}) = k
    BY <1>4, <2>2, <2>5
  <2> QED BY <2>6
<1> QED BY <1>5, <1>6 DEF fs

\* What eviction leaves has room for the new snapshot, in bytes and in number.
LEMMA EvictMakesRoom ==
    ASSUME NEW es \in Seq(Snapshots), NEW bytes \in Nat, convs.limit \in Nat, bytes <= convs.limit
    PROVE  LET fs == Evict(es, bytes) IN
           /\ fs \in Seq(Snapshots) /\ Len(fs) < MaxEntries /\ BytesOf(fs) + bytes <= convs.limit
           /\ \E n \in Nat : \A k \in DOMAIN fs : k + n \in DOMAIN es /\ fs[k] = es[k + n]
<1> DEFINE room(k) == /\ Len(es) - k < MaxEntries
                      /\ BytesOf(SubSeq(es, k + 1, Len(es))) + bytes <= convs.limit
           stops == {i \in 0 .. Len(es) : room(i) \/ i = Len(es)}
<1>1. Len(es) \in Nat /\ DOMAIN es = 1 .. Len(es) /\ \A k \in 1 .. Len(es) : es[k] \in Snapshots
  BY LenProperties, ElementOfSeq
<1>2. stops \subseteq Nat /\ stops # {}
  <2>1. Len(es) \in stops
    BY <1>1
  <2> QED BY <1>1, <2>1
<1>3. PICK m \in stops : m = Min(stops)
  <2> HIDE DEF stops
  <2> QED BY <1>2, MinOfSet
<1>4. m \in 0 .. Len(es) /\ (room(m) \/ m = Len(es))
  OBVIOUS
<1>5. PICK n \in Nat : n = Len(es)
  BY <1>1
<1> DEFINE fs == SubSeq(es, m + 1, n)
<1>6. Evict(es, bytes) = fs
  BY <1>3, <1>5 DEF Evict
<1> HIDE DEF stops
<1>7. /\ fs \in Seq(Snapshots) /\ Len(fs) = n - m /\ DOMAIN fs = 1 .. n - m
      /\ \A k \in 1 .. n - m : k + m \in 1 .. n /\ fs[k] = es[k + m]
  <2>1. PICK j \in 1 .. n + 1 : j = m + 1
    BY <1>4, <1>5
  <2>2. \A k \in j .. n : es[k] \in Snapshots
    BY <1>1, <1>5, <2>1
  <2>3. SubSeq(es, j, n) \in Seq(Snapshots) /\ Len(SubSeq(es, j, n)) = (IF j <= n THEN n - j + 1 ELSE 0)
        /\ \A k \in 1 .. n - j + 1 : SubSeq(es, j, n)[k] = es[j + k - 1]
    BY <1>5, <2>1, <2>2, SubSeqProperties
  <2>4. n - j + 1 = n - m /\ (~(j <= n) => n - m = 0) /\ \A k \in 1 .. n - m : k + m \in 1 .. n /\ j + k - 1 = k + m
    BY <1>4, <1>5, <2>1
  <2>5. Len(fs) = n - m /\ fs \in Seq(Snapshots)
    BY <2>1, <2>3, <2>4
  <2>6. DOMAIN fs = 1 .. n - m
    BY <2>5, LenProperties
  <2> QED BY <2>1, <2>3, <2>4, <2>5, <2>6
<1>8. Len(fs) < MaxEntries /\ BytesOf(fs) + bytes <= convs.limit
  <2>1. CASE room(m)
    BY <1>5, <1>7, <2>1
  <2>2. CASE m = Len(es)
    <3>1. Len(fs) = 0 /\ fs = <<>>
      BY <1>5, <1>7, <2>2, EmptySeq
    <3>2. 0 < MaxEntries
      BY SizeAssumption
    <3>3. BytesOf(fs) = 0
      <4> HIDE DEF fs
      <4> QED BY <3>1, NoBytes
    <3> HIDE DEF fs
    <3> QED BY <3>1, <3>2, <3>3
  <2> QED BY <1>4, <2>1, <2>2
<1> HIDE DEF fs
<1>9. \A k \in DOMAIN fs : k + m \in DOMAIN es /\ fs[k] = es[k + m]
  BY <1>1, <1>5, <1>7
<1>10. m \in Nat
  BY <1>4, <1>5
<1> QED BY <1>6, <1>7, <1>8, <1>9, <1>10

\* A list of snapshots within the limits, of which none repeats another.
Lean(es) ==
    /\ es \in Seq(Snapshots) /\ BytesOf(es) <= convs.limit /\ Len(es) <= MaxEntries
    /\ Irredundant(es) /\ \A k \in DOMAIN es : es[k].tokens # <<>>

\* Moving a snapshot to the end keeps it so.
LEMMA LeanAfterTouch ==
    ASSUME NEW es, Lean(es), NEW i \in 1 .. Len(es)
    PROVE  Lean(Touch(es, i))
<1> DEFINE t == Touch(es, i)
<1>1. PICK n \in Nat \ {0} : n = Len(es) /\ i \in 1 .. n
  BY LenProperties DEF Lean
<1>2. t \in Seq(Snapshots) /\ Len(t) = n
      /\ \A k \in 1 .. n : t[k] = IF k = n THEN es[i] ELSE IF k < i THEN es[k] ELSE es[k + 1]
  BY <1>1, Touched DEF Lean
<1>3. DOMAIN t = 1 .. n /\ DOMAIN es = 1 .. n
  BY <1>1, <1>2, LenProperties DEF Lean
<1>4. BytesOf(t) = BytesOf(es)
  BY BytesOfTouch DEF Lean
<1> HIDE DEF t
<1> DEFINE d == [k \in 1 .. n |-> IF k = n THEN i ELSE IF k < i THEN k ELSE k + 1]
<1>5. \A k \in 1 .. n : d[k] \in 1 .. n /\ t[k] = es[d[k]]
  BY <1>1, <1>2
<1>6. \A j, k \in 1 .. n : d[j] = d[k] => j = k
  BY <1>1
<1> HIDE DEF d
<1>7. Irredundant(t)
  BY <1>3, <1>5, <1>6, StaysIrredundant DEF Lean
<1>8. \A k \in DOMAIN t : t[k].tokens # <<>>
  BY <1>3, <1>5 DEF Lean
<1> QED BY <1>1, <1>2, <1>4, <1>7, <1>8 DEF Lean, t

\* So does retaining a conversation: what the new one repeats goes first, then the oldest.
LEMMA LeanAfterRetain ==
    ASSUME Types, ResidentRowsMatch, NEW es \in Seq(Exact), Lean(es), NEW tokens
    PROVE  Lean(Retain(es, tokens))
<1>1. PICK n : n = KeptLen
  OBVIOUS
<1> DEFINE kept == SubSeq(prefix.tokens, 1, n)
           owners == {i \in DOMAIN es : Owns(es[i], kept)}
           taken == [tokens |-> kept, fmt |-> ws.fmt, rows |-> SubSeq(ws.rows, 1, n)]
           bytes == n * SnapshotRow(ws.fmt)
           others == Unsubsumed(es, kept)
           left == Evict(others, bytes)
<1>2. n \in Nat /\ n <= Len(prefix.tokens) /\ MinTokens \in Nat \ {0} /\ prefix.tokens \in Seq(Tok) /\ Len(prefix.tokens) \in Nat
  BY <1>1, KeptLenFits, SizeAssumption, LenProperties DEF Types, Metadata
<1>3. Retain(es, tokens) = IF ~Displaced(tokens) \/ n < MinTokens THEN es
                           ELSE IF owners # {} THEN Touch(es, Max(owners)) ELSE Append(left, taken)
  BY <1>1 DEF Retain, KeptLen
<1>4. CASE ~Displaced(tokens) \/ n < MinTokens
  BY <1>3, <1>4
<1>5. CASE ~(~Displaced(tokens) \/ n < MinTokens) /\ owners # {}
  <2>1. Max(owners) \in 1 .. Len(es)
    BY <1>5, LastOf
  <2> QED BY <1>3, <1>5, <2>1, LeanAfterTouch
<1>6. CASE ~(~Displaced(tokens) \/ n < MinTokens) /\ owners = {}
  <2>1. taken \in Exact /\ taken \in Snapshots
    BY <1>2, TakenIsExact DEF Exact
  <2>2. kept \in Seq(Tok) /\ Len(kept) = n /\ n > 0 /\ kept # <<>>
    <3>1. kept \in Seq(Tok) /\ Len(kept) = n
      BY <1>2, Beginning
    <3>2. n > 0
      BY <1>2, <1>6
    <3> HIDE DEF kept
    <3> QED BY <3>1, <3>2, Blanks
  <2>3. bytes \in Nat /\ bytes <= convs.limit /\ convs.limit \in Nat /\ SnapshotBytes(taken) = bytes
    <3>1. convs.limit \in Nat /\ SnapshotRow(ws.fmt) \in Nat \ {0}
      <4>1. convs.limit \in 0 .. DefaultLimit /\ DefaultLimit \in Nat /\ ws.fmt \in Formats
        BY SizeAssumption DEF Types, Caches
      <4>2. RowBytes[ws.fmt] \in Nat
        BY <4>1, SizeAssumption
      <4> QED BY <4>1, <4>2 DEF SnapshotRow
    <3>2. PICK l \in Nat, r \in Nat \ {0} : l = convs.limit /\ r = SnapshotRow(ws.fmt)
      BY <3>1
    <3>3. PICK q \in Nat : q = l \div r /\ q * r <= l
      <4>1. l \div r \in Nat /\ l = r * (l \div r) + (l % r) /\ l % r \in Nat
        OBVIOUS
      <4> QED BY <4>1
    <3>4. n <= q
      <4>1. Min({Len(prefix.tokens), q}) <= q
        BY <1>2, MinOfTwo
      <4> QED BY <1>1, <3>2, <3>3, <4>1 DEF KeptLen
    <3>5. n * r \in Nat /\ n * r <= q * r
      BY <1>2, <3>4
    <3>6. n * r <= l
      BY <3>3, <3>5
    <3> QED BY <2>2, <3>2, <3>5, <3>6 DEF SnapshotBytes
  <2>4. others \in Seq(Snapshots)
    BY UnsubsumedKeeps DEF Lean
  <2>5. PICK d : /\ \A k \in DOMAIN others : d[k] \in DOMAIN es /\ others[k] = es[d[k]] /\ ~Subsumed(es[d[k]], kept)
                 /\ \A j, k \in DOMAIN others : d[j] = d[k] => j = k
    BY UnsubsumedFrom DEF Lean
  <2> HIDE DEF kept, taken, bytes, others
  <2>6. left \in Seq(Snapshots) /\ Len(left) < MaxEntries /\ BytesOf(left) + bytes <= convs.limit
        /\ \E m \in Nat : \A k \in DOMAIN left : k + m \in DOMAIN others /\ left[k] = others[k + m]
    BY <2>3, <2>4, EvictMakesRoom
  <2>7. PICK m \in Nat : \A k \in DOMAIN left : k + m \in DOMAIN others /\ left[k] = others[k + m]
    BY <2>6
  <2> HIDE DEF left
  <2>8. PICK c \in Nat : c = Len(left) /\ DOMAIN left = 1 .. c
    BY <2>6, LenProperties
  <2>9. \A k \in 1 .. c : /\ left[k] = es[d[k + m]] /\ d[k + m] \in DOMAIN es /\ left[k].tokens # <<>>
                          /\ ~Subsumed(left[k], kept) /\ ~Owns(left[k], kept)
    <3>1. TAKE k \in 1 .. c
    <3>2. PICK i \in DOMAIN others : i = k + m /\ left[k] = others[i]
      BY <2>7, <2>8
    <3>3. d[i] \in DOMAIN es /\ left[k] = es[d[i]] /\ ~Subsumed(es[d[i]], kept)
      BY <2>5, <3>2
    <3>4. es[d[i]].tokens # <<>> /\ ~Owns(es[d[i]], kept)
      BY <1>6, <3>3 DEF Lean
    <3> QED BY <3>2, <3>3, <3>4
  <2>10. Irredundant(left)
    <3> DEFINE f == [k \in 1 .. c |-> d[k + m]]
    <3>1. \A k \in DOMAIN left : f[k] \in DOMAIN es /\ left[k] = es[f[k]]
      BY <2>8, <2>9
    <3>2. \A j, k \in DOMAIN left : f[j] = f[k] => j = k
      <4>1. TAKE j, k \in DOMAIN left
      <4>2. j \in 1 .. c /\ k \in 1 .. c /\ j + m \in DOMAIN others /\ k + m \in DOMAIN others
        BY <2>7, <2>8
      <4>3. d[j + m] = d[k + m] => j + m = k + m
        BY <2>5, <4>2
      <4>4. j + m = k + m => j = k
        BY <4>2
      <4> QED BY <4>2, <4>3, <4>4
    <3> HIDE DEF f
    <3> QED BY <3>1, <3>2, StaysIrredundant DEF Lean
  <2>11. \A k \in 1 .. c : left[k].fmt = ws.fmt => ~IsPrefix(left[k].tokens, kept) /\ ~IsPrefix(kept, left[k].tokens)
    <3>1. TAKE k \in 1 .. c
    <3>2. HAVE left[k].fmt = ws.fmt
    <3>3. left[k] \in Snapshots /\ left[k].tokens \in Seq(Tok) /\ left[k].tokens # <<>>
      <4>1. left[k] \in Snapshots
        BY <2>6, <2>8, ElementOfSeq
      <4> QED BY <2>9, <4>1 DEF Snapshots
    <3>4. PICK a \in Nat \ {0} : a = Len(left[k].tokens)
      BY <3>3, EmptySeq
    <3>5. ws.len \in Nat /\ n <= ws.len
      BY <1>2, Sizes DEF Types, Caches, ResidentRowsMatch
    <3>6. ~IsPrefix(left[k].tokens, kept)
      <4>1. IsPrefix(left[k].tokens, kept) => a <= n
        BY <2>2, <3>4 DEF IsPrefix
      <4>2. a <= n => Compatible(ws, left[k], Len(left[k].tokens))
        BY <1>2, <3>2, <3>4, <3>5 DEF Compatible
      <4> QED BY <2>9, <4>1, <4>2 DEF Subsumed
    <3>7. ~IsPrefix(kept, left[k].tokens)
      <4>1. IsPrefix(kept, left[k].tokens) => n <= a
        BY <2>2, <3>4 DEF IsPrefix
      <4>2. n <= a => Compatible(ws, left[k], Len(kept))
        BY <1>2, <2>2, <3>2, <3>4, <3>5 DEF Compatible
      <4> QED BY <2>9, <4>1, <4>2 DEF Owns
    <3> QED BY <3>6, <3>7
  <2> DEFINE rest == Append(left, taken)
  <2>12. /\ rest \in Seq(Snapshots) /\ Len(rest) = c + 1 /\ DOMAIN rest = 1 .. c + 1
         /\ rest[c + 1] = taken /\ \A k \in 1 .. c : rest[k] = left[k]
    <3>1. rest \in Seq(Snapshots) /\ Len(rest) = c + 1 /\ rest[c + 1] = taken /\ \A k \in 1 .. c : rest[k] = left[k]
      BY <2>1, <2>6, <2>8, AppendProperties
    <3>2. DOMAIN rest = 1 .. c + 1
      BY <3>1, LenProperties
    <3> QED BY <3>1, <3>2
  <2>13. BytesOf(rest) <= convs.limit
    <3>1. BytesOf(rest) = BytesOf(left) + bytes
      BY <2>1, <2>3, <2>6, BytesOfAppend
    <3> QED BY <2>6, <3>1
  <2> HIDE DEF rest
  <2>14. taken.fmt = ws.fmt /\ taken.tokens = kept
    BY DEF taken
  <2>15. Irredundant(rest)
    <3> SUFFICES ASSUME NEW j \in 1 .. c + 1, NEW k \in 1 .. c + 1, j # k, rest[j].fmt = rest[k].fmt
                 PROVE  ~IsPrefix(rest[j].tokens, rest[k].tokens)
      BY <2>12 DEF Irredundant
    <3>1. CASE j \in 1 .. c /\ k \in 1 .. c
      BY <2>8, <2>10, <2>12, <3>1 DEF Irredundant
    <3>2. CASE j = c + 1
      <4>1. k \in 1 .. c
        BY <3>2
      <4> QED BY <2>11, <2>12, <2>14, <3>2, <4>1
    <3>3. CASE k = c + 1
      <4>1. j \in 1 .. c
        BY <3>3
      <4> QED BY <2>11, <2>12, <2>14, <3>3, <4>1
    <3> QED BY <3>1, <3>2, <3>3
  <2>16. Len(rest) <= MaxEntries
    BY <2>6, <2>8, <2>12, SizeAssumption
  <2>17. \A k \in DOMAIN rest : rest[k].tokens # <<>>
    BY <2>2, <2>9, <2>12, <2>14
  <2>18. Retain(es, tokens) = rest
    BY <1>3, <1>6 DEF rest, left, others, bytes, taken, kept
  <2> QED BY <2>12, <2>13, <2>15, <2>16, <2>17, <2>18 DEF Lean
<1> QED BY <1>4, <1>5, <1>6

\* No snapshots at all are.
LEMMA LeanWhenEmpty ==
    ASSUME convs.entries = <<>>, convs.limit \in Nat
    PROVE  Lean(convs.entries)
<1>1. BytesOf(<<>>) = 0 /\ Len(<<>>) = 0 /\ DOMAIN <<>> = {} /\ <<>> \in Seq(Snapshots)
  BY NoBytes, Blanks
<1> QED BY <1>1, SizeAssumption DEF Lean, Irredundant

\* A host's control empties the list or leaves it.
LEMMA LeanAfterControl ==
    ASSUME Lean(convs.entries), IInv', UNCHANGED convs \/ convs'.entries = <<>>
    PROVE  Lean(convs.entries)'
<1>1. CASE UNCHANGED convs
  BY <1>1 DEF Lean
<1>2. CASE convs'.entries = <<>>
  <2>1. convs'.limit \in Nat
    BY SizeAssumption DEF IInv, Types
  <2>2. BytesOf(<<>>) = 0 /\ Len(<<>>) = 0 /\ DOMAIN <<>> = {} /\ <<>> \in Seq(Snapshots)
    BY NoBytes, Blanks
  <2> QED BY <1>2, <2>1, <2>2, SizeAssumption DEF Lean, Irredundant
<1> QED BY <1>1, <1>2

\* A prompt that reuses a snapshot touches it, then retains what it displaces.
LEMMA LeanAfterReuse ==
    ASSUME IInv, Lean(convs.entries), Reuse
    PROVE  Lean(convs.entries)'
<1> DEFINE resident == PrefixReuse(req.tokens)
           pick == Candidates(req.tokens, resident)
           i == BestSnapshot(req.tokens, resident)
           touched == IF pick = {} THEN convs.entries ELSE Touch(convs.entries, i)
           kept == IF SnapshotsSupported THEN Retain(touched, req.tokens) ELSE convs.entries
<1>1. CASE ~req.eligible
  BY <1>1 DEF Reuse, Lean
<1>2. CASE req.eligible
  <2>1. convs' = [convs EXCEPT !.entries = kept]
    BY <1>2 DEF Reuse
  <2>2. convs.entries \in Seq(Exact) /\ Types /\ SnapshotRowsMatch /\ ResidentRowsMatch
        /\ req.tokens \in Seq(Tok) /\ req.tokens # <<>>
    BY ExactSnapshots, PromptOf DEF Reuse, IInv, Types
  <2>3. pick # {} => i \in 1 .. Len(convs.entries)
    BY <2>2, BestHolds
  <2> HIDE DEF resident, pick, i
  <2>4. touched \in Seq(Exact) /\ Lean(touched)
    BY <2>2, <2>3, TouchKeeps, LeanAfterTouch
  <2> HIDE DEF touched
  <2>5. Lean(kept)
    BY <2>2, <2>4, LeanAfterRetain
  <2> HIDE DEF kept
  <2>6. convs'.entries = kept /\ convs'.limit = convs.limit
    BY <2>1, <2>2 DEF Types
  <2> QED BY <2>5, <2>6 DEF Lean
<1> QED BY <1>1, <1>2

\* conversationCache stays within the host's byte limit and conversationCacheMaxEntries,
\* and holds no rows twice, after any sequence of retentions, touches, subsumptions,
\* evictions and changes of the limit.
THEOREM SnapshotsWithinLimits == Spec => []SnapshotsBounded
<1>1. ASSUME Init, IInv PROVE Lean(convs.entries)
  <2>1. convs.entries = <<>> /\ convs.limit \in Nat
    BY <1>1, SizeAssumption DEF Init
  <2> QED BY <2>1, LeanWhenEmpty
<1>2. ASSUME IInv, IInv', Lean(convs.entries), [Next]_vars PROVE Lean(convs.entries)'
  <2>1. CASE Reuse
    BY <1>2, <2>1, LeanAfterReuse
  <2>2. ASSUME NEW p \in Prompts, NEW image \in Images, NEW g \in BOOLEAN, NEW r \in Penalties, NEW max \in MaxTokensSet,
               Begin(p, image, g, r, max)
        PROVE  UNCHANGED convs
    BY <2>2 DEF Begin
  <2>3. CASE Start \/ Prefill \/ Prompted \/ Finish \/ CancelEarly \/ CancelPrefill
    BY <1>2, <2>3, LeanAfterControl DEF Start, Prefill, Prompted, Finish, Save, CancelEarly, CancelPrefill
  <2>4. ASSUME NEW t \in Tok \ {Scratch}, Decode(t) PROVE UNCHANGED convs
    BY <2>4 DEF Decode
  <2>5. CASE Control
    <3>1. UNCHANGED convs \/ convs'.entries = <<>>
      <4>1. convs \in [entries : Seq(Snapshots), limit : 0 .. DefaultLimit]
        BY <1>2 DEF IInv, Types
      <4> QED BY <2>5, <4>1 DEF Control, Embed, SelectFormat, Calibrate, SetConversationCacheLimit, ClearConversationCache
    <3> QED BY <1>2, <3>1, LeanAfterControl
  <2>6. CASE UNCHANGED vars
    BY <1>2, <2>6, LeanAfterControl DEF vars
  <2>7. UNCHANGED convs => Lean(convs.entries)'
    BY <1>2, LeanAfterControl
  <2> QED BY <1>2, <2>1, <2>2, <2>3, <2>4, <2>5, <2>6, <2>7 DEF Next, Chat
<1>3. Lean(convs.entries) /\ TypeOK => SnapshotsBounded
  BY DEF Lean, SnapshotsBounded
<1> QED BY <1>1, <1>2, <1>3, Invariance, WellTyped, PTL DEF Spec
=============================================================================
