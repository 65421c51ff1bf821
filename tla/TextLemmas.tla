----------------------------- MODULE TextLemmas -----------------------------
(***************************************************************************)
(* Facts about numbers, texts and lists that the proofs of several          *)
(* components rest on.                                                      *)
(***************************************************************************)
EXTENDS Integers, Sequences, FiniteSetsExt, SequencesExt, SequenceTheorems, FiniteSetTheorems, TLAPS

-----------------------------------------------------------------------------
(* Numbers. *)

\* A nonempty set of natural numbers has a least member.
LEMMA LeastExists ==
    ASSUME NEW T, T \subseteq Nat, T # {}
    PROVE  \E x \in T : \A y \in T : x <= y
<1>1. OpToRel(<, Nat) = {ss \in Nat \X Nat : ss[1] < ss[2]}
  BY DEF OpToRel
<1>2. PICK x \in T : \A y \in T : ~(<<y, x>> \in OpToRel(<, Nat))
  BY WFMin, NatLessThanWellFounded
<1>3. \A y \in T : ~(y < x)
  BY <1>1, <1>2
<1> QED BY <1>3

\* And Min is one.
LEMMA MinOfSet ==
    ASSUME NEW T, T \subseteq Nat, T # {}
    PROVE  Min(T) \in T /\ \A y \in T : Min(T) <= y
<1>1. PICK x \in T : \A y \in T : x <= y
  BY LeastExists
<1> QED BY <1>1 DEF Min

\* The greatest of a bounded set.
LEMMA MaxOfSet ==
    ASSUME NEW T, T \subseteq Nat, T # {}, NEW bound \in Nat, \A y \in T : y <= bound
    PROVE  Max(T) \in T /\ \A y \in T : y <= Max(T)
<1> DEFINE above == {n \in Nat : \A y \in T : y <= n}
<1>1. PICK x \in above : \A n \in above : x <= n
  <2>1. bound \in above
    OBVIOUS
  <2> HIDE DEF above
  <2>2. above \subseteq Nat
    BY DEF above
  <2> QED BY <2>1, <2>2, LeastExists
<1>2. x \in T
  <2>1. SUFFICES ASSUME x \notin T PROVE FALSE
    OBVIOUS
  <2>2. PICK y \in T : TRUE
    OBVIOUS
  <2>3. x # 0 /\ x \in Nat
    BY <2>1, <2>2
  <2>4. \A z \in T : z <= x - 1
    BY <2>1, <2>3
  <2>5. x - 1 \in above
    BY <2>3, <2>4
  <2>6. x <= x - 1
    BY <1>1, <2>5
  <2> QED BY <2>3, <2>6
<1>3. \A y \in T : x >= y
  BY <1>1
<1> QED BY <1>2, <1>3 DEF Max

\* The smaller of two numbers.
LEMMA MinOfTwo ==
    ASSUME NEW a \in Nat, NEW b \in Nat
    PROVE  Min({a, b}) = (IF a <= b THEN a ELSE b) /\ Min({a, b}) \in Nat
BY DEF Min
-----------------------------------------------------------------------------
(* Texts. *)

\* The first n elements of s.
LEMMA Beginning ==
    ASSUME NEW S, NEW s \in Seq(S), NEW n \in Nat, n <= Len(s)
    PROVE  /\ SubSeq(s, 1, n) \in Seq(S) /\ Len(SubSeq(s, 1, n)) = n
           /\ \A i \in 1 .. n : SubSeq(s, 1, n)[i] = s[i]
<1>1. \A i \in 1 .. n : s[i] \in S
  BY LenProperties, ElementOfSeq
<1> QED BY <1>1, SubSeqProperties, LenProperties

\* A beginning of a beginning.
LEMMA BeginningOfBeginning ==
    ASSUME NEW S, NEW s \in Seq(S), NEW n \in Nat, n <= Len(s), NEW i \in Nat, i <= n
    PROVE  SubSeq(SubSeq(s, 1, n), 1, i) = SubSeq(s, 1, i)
<1>1. Len(s) \in Nat
  BY LenProperties
<1>2. SubSeq(s, 1, n) \in Seq(S) /\ Len(SubSeq(s, 1, n)) = n /\ \A j \in 1 .. n : SubSeq(s, 1, n)[j] = s[j]
  BY Beginning
<1>3. SubSeq(s, 1, i) \in Seq(S) /\ Len(SubSeq(s, 1, i)) = i /\ \A j \in 1 .. i : SubSeq(s, 1, i)[j] = s[j]
  BY <1>1, Beginning
<1>4. PICK t : t = SubSeq(s, 1, n)
  OBVIOUS
<1>5. SubSeq(t, 1, i) \in Seq(S) /\ Len(SubSeq(t, 1, i)) = i /\ \A j \in 1 .. i : SubSeq(t, 1, i)[j] = t[j]
  BY <1>2, <1>4, Beginning
<1>6. \A j \in 1 .. i : SubSeq(t, 1, i)[j] = SubSeq(s, 1, i)[j]
  BY <1>2, <1>3, <1>4, <1>5
<1> QED BY <1>3, <1>4, <1>5, <1>6, SeqEqual

\* One element more.
LEMMA NextBeginning ==
    ASSUME NEW S, NEW s \in Seq(S), NEW n \in Nat, n < Len(s)
    PROVE  Append(SubSeq(s, 1, n), s[n + 1]) = SubSeq(s, 1, n + 1) /\ s[n + 1] \in S
<1>1. Len(s) \in Nat
  BY LenProperties
<1>2. s[n + 1] \in S
  BY <1>1, ElementOfSeq
<1>3. SubSeq(s, 1, n) \in Seq(S)
  BY <1>1, Beginning
<1>4. SubSeq(s, 1, n + 1) = SubSeq(s, 1, n) \o <<s[n + 1]>>
  BY <1>1, SubSeqRecursiveSecond
<1> QED BY <1>2, <1>3, <1>4, AppendIsConcat

\* A text that is continued keeps its beginnings.
LEMMA BeginningOfConcat ==
    ASSUME NEW S, NEW s \in Seq(S), NEW t \in Seq(S), NEW n \in Nat, n <= Len(s)
    PROVE  SubSeq(s \o t, 1, n) = SubSeq(s, 1, n)
<1>1. Len(s) \in Nat /\ Len(t) \in Nat
  BY LenProperties
<1>2. s \o t \in Seq(S) /\ Len(s \o t) = Len(s) + Len(t) /\ \A i \in 1 .. Len(s) : (s \o t)[i] = s[i]
  BY <1>1, ConcatProperties
<1>3. PICK u : u = s \o t
  OBVIOUS
<1>4. SubSeq(u, 1, n) \in Seq(S) /\ Len(SubSeq(u, 1, n)) = n /\ \A i \in 1 .. n : SubSeq(u, 1, n)[i] = u[i]
  BY <1>1, <1>2, <1>3, Beginning
<1>5. SubSeq(s, 1, n) \in Seq(S) /\ Len(SubSeq(s, 1, n)) = n /\ \A i \in 1 .. n : SubSeq(s, 1, n)[i] = s[i]
  BY <1>1, Beginning
<1>6. \A i \in 1 .. n : SubSeq(u, 1, n)[i] = SubSeq(s, 1, n)[i]
  BY <1>1, <1>2, <1>3, <1>4, <1>5
<1> QED BY <1>3, <1>4, <1>5, <1>6, SeqEqual

\* A beginning that ends in the continuation.
LEMMA BeginningPastConcat ==
    ASSUME NEW S, NEW s \in Seq(S), NEW t \in Seq(S), NEW n \in Nat, n <= Len(t)
    PROVE  SubSeq(s \o t, 1, Len(s) + n) = s \o SubSeq(t, 1, n)
<1>1. Len(s) \in Nat /\ Len(t) \in Nat
  BY LenProperties
<1>2. /\ s \o t \in Seq(S) /\ Len(s \o t) = Len(s) + Len(t)
      /\ \A i \in 1 .. Len(s) + Len(t) : (s \o t)[i] = IF i <= Len(s) THEN s[i] ELSE t[i - Len(s)]
  BY ConcatProperties
<1>3. SubSeq(t, 1, n) \in Seq(S) /\ Len(SubSeq(t, 1, n)) = n /\ \A i \in 1 .. n : SubSeq(t, 1, n)[i] = t[i]
  BY <1>1, Beginning
<1>4. PICK u, v : u = s \o t /\ v = SubSeq(t, 1, n)
  OBVIOUS
<1>5. /\ s \o v \in Seq(S) /\ Len(s \o v) = Len(s) + n
      /\ \A i \in 1 .. Len(s) + n : (s \o v)[i] = IF i <= Len(s) THEN s[i] ELSE v[i - Len(s)]
  <2>1. v \in Seq(S) /\ Len(v) = n
    BY <1>3, <1>4
  <2> QED BY <2>1, ConcatProperties
<1>6. /\ SubSeq(u, 1, Len(s) + n) \in Seq(S) /\ Len(SubSeq(u, 1, Len(s) + n)) = Len(s) + n
      /\ \A i \in 1 .. Len(s) + n : SubSeq(u, 1, Len(s) + n)[i] = u[i]
  BY <1>1, <1>2, <1>4, Beginning
<1>7. \A i \in 1 .. Len(s) + n : (s \o v)[i] = SubSeq(u, 1, Len(s) + n)[i]
  <2>1. TAKE i \in 1 .. Len(s) + n
  <2>2. CASE i <= Len(s)
    BY <1>1, <1>2, <1>4, <1>5, <1>6, <2>2
  <2>3. CASE ~(i <= Len(s))
    <3>1. i - Len(s) \in 1 .. n
      BY <1>1, <2>3
    <3>2. v[i - Len(s)] = t[i - Len(s)]
      BY <1>3, <1>4, <3>1
    <3> QED BY <1>1, <1>2, <1>4, <1>5, <1>6, <2>3, <3>2
  <2> QED BY <2>2, <2>3
<1> QED BY <1>4, <1>5, <1>6, <1>7, SeqEqual

\* Two texts have their longest common prefix in common.
LEMMA CommonBeginning ==
    ASSUME NEW S, NEW a \in Seq(S), NEW b \in Seq(S)
    PROVE  LET n == Len(LongestCommonPrefix({a, b}))
           IN  n \in Nat /\ n <= Len(a) /\ n <= Len(b) /\ SubSeq(a, 1, n) = SubSeq(b, 1, n)
<1> DEFINE P == CommonPrefixes({a, b})
<1>1. Len(a) \in Nat /\ Len(b) \in Nat
  BY LenProperties
<1>2. ASSUME NEW c \in P
      PROVE  /\ Len(c) \in Nat /\ Len(c) <= Len(a) /\ Len(c) <= Len(b)
             /\ SubSeq(a, 1, Len(c)) = SubSeq(b, 1, Len(c))
  <2>1. IsPrefix(c, a) /\ IsPrefix(c, b)
    BY DEF CommonPrefixes
  <2>2. PICK q \in {a, b} : \E l \in 0 .. Len(q) : c = SubSeq(q, 1, l)
    BY DEF CommonPrefixes, Prefixes
  <2>3. Len(c) \in Nat
    BY <1>1, <2>2, Beginning
  <2> QED BY <2>1, <2>3 DEF IsPrefix
<1>3. <<>> \in P
  <2>1. SubSeq(a, 1, 0) = <<>> /\ SubSeq(b, 1, 0) = <<>> /\ Len(<<>>) = 0 /\ SubSeq(<<>>, 1, 0) = <<>>
    BY SubSeqEmpty, EmptySeq
  <2>2. <<>> \in Prefixes(a)
    BY <1>1, <2>1 DEF Prefixes
  <2> QED BY <1>1, <2>1, <2>2 DEF CommonPrefixes, IsPrefix
<1>4. PICK c \in P : \A d \in P : Len(d) <= Len(c)
  <2> DEFINE lens == {Len(c) : c \in P}
  <2> HIDE DEF P
  <2>1. lens \subseteq Nat /\ lens # {} /\ \A n \in lens : n <= Len(a)
    BY <1>2, <1>3
  <2> HIDE DEF lens
  <2>2. Max(lens) \in lens /\ \A n \in lens : n <= Max(lens)
    BY <1>1, <2>1, MaxOfSet
  <2> QED BY <2>2 DEF lens
<1>5. LongestCommonPrefix({a, b}) \in P
  BY <1>4 DEF LongestCommonPrefix
<1> QED BY <1>2, <1>5

\* The greatest of a set of positions of a list.
LEMMA LastOf ==
    ASSUME NEW S, NEW es \in Seq(S), NEW T, T \subseteq DOMAIN es, T # {}
    PROVE  Max(T) \in T /\ Max(T) \in 1 .. Len(es)
<1>1. Len(es) \in Nat /\ DOMAIN es = 1 .. Len(es)
  BY LenProperties
<1>2. T \subseteq Nat /\ \A i \in T : i <= Len(es)
  BY <1>1
<1>3. Max(T) \in T
  BY <1>1, <1>2, MaxOfSet
<1> QED BY <1>1, <1>3
=============================================================================
