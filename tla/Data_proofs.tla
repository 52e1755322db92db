------------------------------ MODULE Data_proofs ------------------------------
(***************************************************************************)
(* What the proofs about loops over data rest on.  A fold of the community *)
(* modules is a function chosen over the sets of positions; here it is     *)
(* shown to be there, and to be what a loop computes: one stage after      *)
(* the other, from the first element to the last.  A fact about every      *)
(* stage is then proved on the least stage where it fails.  Then what is   *)
(* needed of sums and remainders, and what the operators of                *)
(* ConversationLog return for every log.                                   *)
(*                                                                         *)
(* On these rests what agent and worker have in common: what the agent     *)
(* appends to a log is in order (Ongoing), whatever is lost of a log in    *)
(* order the rest is (HolesKeepWell), and the worker's pairs and topics of *)
(* it, and of any log of valid utterances, are sound (TopicsAreSound).  A  *)
(* set that is sorted by rank has all of the set in order                  *)
(* (RankedIsRanking), and the pairs have one order only (OneOrder).        *)
(***************************************************************************)
EXTENDS Evaluation, FiniteSetsExt, FiniteSetTheorems, Integers, SequenceTheorems, TLAPS, WellFoundedInduction

\* A set of natural numbers that is not empty has a least element.  (This is how
\* the induction proofs below are carried: on the least counterexample.)
LEMMA LeastElement ==
    ASSUME NEW S, S \subseteq Nat, S # {}
    PROVE  \E m \in S : \A x \in S : m <= x
<1> DEFINE Less == {p \in Nat \X Nat : p[1] < p[2]}
<1>1. OpToRel(<, Nat) = Less
  BY Zenon DEF OpToRel
<1>2. IsWellFoundedOn(Less, Nat)
  BY ONLY <1>1, NatLessThanWellFounded, Zenon
<1>3. \A x, y \in Nat : x < y => <<x, y>> \in Less
  OBVIOUS
<1> HIDE DEF Less
<1>4. PICK m \in S : \A y \in S : ~(<<y, m>> \in Less)
  BY <1>2, WFMin, Zenon
<1>5. \A x \in S : ~(x < m)
  BY <1>3, <1>4
<1>6. \A x \in S : m <= x
  BY <1>5
<1> QED
  BY <1>6

\* The least number of a bounded set.
LEMMA MinIsLeast ==
    ASSUME NEW S, S \subseteq Nat, S # {}
    PROVE  Min(S) \in S /\ \A x \in S : Min(S) =< x
<1>1. PICK m \in S : \A x \in S : m =< x
  BY LeastElement
<1> QED
  BY <1>1 DEF Min

\* Max finds the greatest element of a bounded set of numbers.
LEMMA MaxIsGreatest ==
    ASSUME NEW n \in Nat, NEW S, S \subseteq 0..n, S # {}
    PROVE  Max(S) \in S /\ \A x \in S : x <= Max(S)
<1> DEFINE D == {n - x : x \in S}
<1>1. D # {}
  <2>1. PICK x \in S : TRUE
    OBVIOUS
  <2>2. n - x \in D
    OBVIOUS
  <2> QED BY <2>2
<1>2. D \subseteq Nat
  <2>1. \A x \in S : n - x \in Nat
    OBVIOUS
  <2> QED BY <2>1
<1>3. PICK d \in D : \A e \in D : d <= e
  BY <1>1, <1>2, LeastElement
<1>4. PICK m \in S : d = n - m
  BY <1>3
<1>5. \A x \in S : n - x \in D
  OBVIOUS
<1>6. \A x \in S : n - m <= n - x
  BY <1>3, <1>4, <1>5
<1>7. \A x \in S : x \in Nat
  OBVIOUS
<1> HIDE DEF D
<1>8. \A x \in S : m >= x
  BY <1>6, <1>7
<1> QED
  BY <1>8 DEF Max

\* The greater and the lesser of two numbers.
LEMMA OfTwo ==
    ASSUME NEW a \in Int, NEW b \in Int
    PROVE  /\ Max({a, b}) = IF a >= b THEN a ELSE b
           /\ Min({a, b}) = IF a =< b THEN a ELSE b
<1>1. PICK m : m \in {a, b} /\ \A y \in {a, b} : m >= y
  OBVIOUS
<1>2. Max({a, b}) \in {a, b} /\ \A y \in {a, b} : Max({a, b}) >= y
  BY <1>1 DEF Max
<1>3. PICK k : k \in {a, b} /\ \A y \in {a, b} : k =< y
  OBVIOUS
<1>4. Min({a, b}) \in {a, b} /\ \A y \in {a, b} : Min({a, b}) =< y
  BY <1>3 DEF Min
<1> QED
  BY <1>2, <1>4

\* A function on the first n numbers is a sequence.
LEMMA FunctionIsSeq ==
    ASSUME NEW S, NEW n \in Nat, NEW f \in [1..n -> S]
    PROVE  f \in Seq(S) /\ Len(f) = n
OBVIOUS

\* Induction on the length of a prefix: what holds of 0, and of i if it holds of
\* i - 1, holds up to n.
LEMMA PrefixInduction ==
    ASSUME NEW n \in Nat, NEW S, 0 \in S,
           \A i \in 1..n : i - 1 \in S => i \in S
    PROVE  \A i \in 0..n : i \in S
<1> DEFINE C == {i \in 0..n : i \notin S}
<1>1. SUFFICES ASSUME C # {} PROVE FALSE
  OBVIOUS
<1>2. C \subseteq Nat
  OBVIOUS
<1>3. PICK k \in C : \A x \in C : k <= x
  BY <1>1, <1>2, LeastElement
<1>4. k \in 1..n /\ k - 1 \in 0..n /\ ~(k <= k - 1)
  OBVIOUS
<1>5. k - 1 \notin C
  BY <1>3, <1>4
<1> QED
  BY <1>4, <1>5

\* The greatest element of an initial segment, and what is left without it.
LEMMA Segment ==
    ASSUME NEW i \in Nat \ {0}
    PROVE  /\ 1..i # {} /\ Max(1..i) = i /\ (1..i) \ {i} = 1..(i - 1)
<1>1. Max(1..i) \in 1..i /\ \A x \in 1..i : x <= Max(1..i)
  <2>1. i \in Nat /\ 1..i \subseteq 0..i /\ 1..i # {}
    OBVIOUS
  <2> QED BY <2>1, MaxIsGreatest
<1>2. i \in 1..i
  OBVIOUS
<1>3. Max(1..i) = i
  BY <1>1, <1>2
<1> QED
  BY <1>2, <1>3

\* g is a fold over 1..n, in the form the community modules give it: a function on the
\* subsets of 1..n that takes away the greatest element first.
IsFold(g, n, base, F) ==
    \A s \in SUBSET (1..n) : g[s] = IF s = {} THEN base ELSE F[Max(s)][g[s \ {Max(s)}]]

\* h has the results of the steps one after the other.
AreStages(h, n, X, base, F) ==
    /\ h \in [0..n -> X]
    /\ h[0] = base
    /\ \A i \in 1..n : h[i] = F[i][h[i - 1]]

\* Its steps keep to X.
KeepsTo(F, n, X) == \A i \in 1..n : \A x \in X : F[i][x] \in X

\* A fold whose steps keep to a set X exists.
LEMMA FoldExists ==
    ASSUME NEW n \in Nat, NEW X, NEW base \in X, NEW F \in [1..n -> [X -> X]]
    PROVE  \E g \in [SUBSET (1..n) -> X] : IsFold(g, n, base, F)
<1> DEFINE Is(k, g) ==
        /\ g \in [SUBSET (1..k) -> X]
        /\ \A s \in SUBSET (1..k) :
              g[s] = IF s = {} THEN base ELSE F[Max(s)][g[s \ {Max(s)}]]
           S == {k \in 0..n : \E g : Is(k, g)}
<1>1. 0 \in S
  <2> DEFINE g == [s \in SUBSET (1..0) |-> base]
  <2>1. \A s \in SUBSET (1..0) : s = {}
    OBVIOUS
  <2>2. g \in [SUBSET (1..0) -> X]
    OBVIOUS
  <2>4. Is(0, g)
    BY <2>1, <2>2
  <2>5. 0 \in 0..n
    OBVIOUS
  <2> QED BY <2>4, <2>5
<1>2. ASSUME NEW k \in 1..n, k - 1 \in S PROVE k \in S
  <2>1. PICK h : Is(k - 1, h)
    BY <1>2
  <2> DEFINE g == [s \in SUBSET (1..k) |->
                      IF k \notin s THEN h[s] ELSE F[k][h[s \ {k}]]]
  <2>2. \A s \in SUBSET (1..k) : k \notin s => s \in SUBSET (1..(k - 1))
    OBVIOUS
  <2>3. \A s \in SUBSET (1..k) : s \ {k} \in SUBSET (1..(k - 1))
    OBVIOUS
  <2>4. h \in [SUBSET (1..(k - 1)) -> X]
    BY <2>1
  <2>5. F[k] \in [X -> X] /\ k \in Nat /\ k \in 0..n
    OBVIOUS
  <2> HIDE DEF S
  <2>6. g \in [SUBSET (1..k) -> X]
    <3>1. ASSUME NEW s \in SUBSET (1..k) PROVE g[s] \in X
      <4>1. CASE k \notin s
        BY <4>1, <2>2, <2>4
      <4>2. CASE k \in s
        <5>1. h[s \ {k}] \in X
          BY <2>3, <2>4
        <5> QED BY <4>2, <5>1, <2>5
      <4> QED BY <4>1, <4>2
    <3> QED BY <3>1
  <2>7. ASSUME NEW s \in SUBSET (1..k)
        PROVE  g[s] = IF s = {} THEN base ELSE F[Max(s)][g[s \ {Max(s)}]]
    <3>1. CASE s = {}
      <4>1. {} \in SUBSET (1..(k - 1)) /\ h[{}] = base
        BY <2>1
      <4> QED BY <3>1, <4>1
    <3>2. CASE s # {} /\ k \notin s
      <4>1. s \in SUBSET (1..(k - 1))
        BY <3>2, <2>2
      <4>2. h[s] = F[Max(s)][h[s \ {Max(s)}]]
        BY <4>1, <3>2, <2>1
      <4>3. s \ {Max(s)} \in SUBSET (1..k) /\ k \notin s \ {Max(s)}
        BY <3>2
      <4>4. g[s \ {Max(s)}] = h[s \ {Max(s)}]
        BY <4>3
      <4> QED BY <3>2, <4>2, <4>4
    <3>3. CASE k \in s
      <4>1. s \subseteq 0..k /\ s # {} /\ k \in Nat
        BY <3>3, <2>5
      <4>2. Max(s) \in s /\ \A x \in s : x <= Max(s)
        BY <4>1, MaxIsGreatest
      <4>3. Max(s) = k
        <5>1. k <= Max(s) /\ Max(s) \in 1..k
          BY <3>3, <4>2
        <5> QED BY <5>1, <2>5
      <4>4. s \ {k} \in SUBSET (1..k) /\ k \notin s \ {k}
        OBVIOUS
      <4>5. g[s \ {k}] = h[s \ {k}]
        BY <4>4
      <4> QED BY <3>3, <4>3, <4>5
    <3> QED BY <3>1, <3>2, <3>3
  <2> HIDE DEF g
  <2>9. Is(k, g)
    BY <2>6, <2>7
  <2> QED BY <2>5, <2>9 DEF S
<1>3. \A k \in 0..n : k \in S
  <2> HIDE DEF S
  <2> QED BY <1>1, <1>2, PrefixInduction
<1>4. n \in S
  <2>1. n \in 0..n
    OBVIOUS
  <2> QED BY <1>3, <2>1
<1> QED
  BY <1>4 DEF IsFold

\* The prefixes of a fold: its value on 1..i is one step further than that on 1..(i-1).
LEMMA FoldPrefixes ==
    ASSUME NEW n \in Nat, NEW X, NEW base \in X, NEW F, NEW g, IsFold(g, n, base, F),
           KeepsTo(F, n, X)
    PROVE  \E h : AreStages(h, n, X, base, F) /\ h[n] = g[1..n]
<1> DEFINE h == [i \in 0..n |-> g[1..i]]
<1>1. h[0] = base
  <2>1. 1..0 = {} /\ {} \in SUBSET (1..n) /\ 0 \in 0..n
    OBVIOUS
  <2>2. g[{}] = base
    BY <2>1 DEF IsFold
  <2> QED BY <2>1, <2>2
<1>2. ASSUME NEW i \in 1..n PROVE h[i] = F[i][h[i - 1]]
  <2>1. i \in Nat \ {0} /\ i \in 0..n /\ i - 1 \in 0..n /\ 1..i \in SUBSET (1..n)
    OBVIOUS
  <2>2. 1..i # {} /\ Max(1..i) = i /\ (1..i) \ {i} = 1..(i - 1)
    BY <2>1, Segment
  <2>3. g[1..i] = F[i][g[1..(i - 1)]]
    BY <2>1, <2>2 DEF IsFold
  <2> QED BY <2>1, <2>3
<1> DEFINE S == {i \in 0..n : h[i] \in X}
<1>3. h[n] = g[1..n]
  OBVIOUS
<1> HIDE DEF h
<1>4. 0 \in S
  BY <1>1
<1>5. \A i \in 1..n : i - 1 \in S => i \in S
  BY <1>2 DEF KeepsTo
<1>6. \A i \in 0..n : i \in S
  <2> HIDE DEF S
  <2> QED BY <1>4, <1>5, PrefixInduction
<1>7. h \in [0..n -> X]
  BY <1>6 DEF h
<1> QED
  BY <1>1, <1>2, <1>3, <1>7 DEF AreStages

\* g makes the steps of F as long as it is in X.
StepsWithin(g, n, X, F) ==
    \A s \in SUBSET (1..n) : s # {} /\ g[s \ {Max(s)}] \in X
                                  => g[s] = F[Max(s)][g[s \ {Max(s)}]]

\* The same of a fold that is only known to make the steps of F from within X.
LEMMA StagesOfFold ==
    ASSUME NEW n \in Nat, NEW X, NEW base \in X, NEW F \in [1..n -> [X -> X]], NEW g,
           g[{}] = base, StepsWithin(g, n, X, F)
    PROVE  \E h : AreStages(h, n, X, base, F) /\ h[n] = g[1..n]
<1> DEFINE h == [i \in 0..n |-> g[1..i]]
           T == {i \in 0..n : h[i] \in X}
<1>1. h[0] = base
  <2>1. 1..0 = {} /\ 0 \in 0..n
    OBVIOUS
  <2> QED BY <2>1
<1>2. ASSUME NEW i \in 1..n, i - 1 \in T PROVE h[i] = F[i][h[i - 1]] /\ h[i] \in X
  <2>1. i \in Nat \ {0} /\ i \in 0..n /\ i - 1 \in 0..n /\ 1..i \in SUBSET (1..n)
    OBVIOUS
  <2>2. 1..i # {} /\ Max(1..i) = i /\ (1..i) \ {i} = 1..(i - 1)
    BY <2>1, Segment
  <2>3. g[1..(i - 1)] \in X
    BY <1>2, <2>1
  <2>4. g[1..i] = F[i][g[1..(i - 1)]]
    BY <2>1, <2>2, <2>3 DEF StepsWithin
  <2> QED BY <2>1, <2>3, <2>4
<1>3. h[n] = g[1..n]
  OBVIOUS
<1>4. \A i \in 1..n : i \in 0..n /\ i - 1 \in 0..n
  OBVIOUS
<1>5. 0 \in T
  BY <1>1
<1>6. DOMAIN h = 0..n /\ h = [i \in 0..n |-> h[i]] /\ \A i \in T : h[i] \in X
  OBVIOUS
<1>7. \A i \in 1..n : i - 1 \in T => i \in T
  BY <1>2, <1>4
<1> HIDE DEF h, T
<1>8. \A i \in 0..n : i \in T
  BY <1>5, <1>7, PrefixInduction
<1> QED
  BY <1>1, <1>2, <1>3, <1>4, <1>6, <1>8 DEF AreStages

\* A sum, by a name: a fact about an operator argument applies to no other place.
SumOf(seq) == FoldLeft(+, 0, seq)

\* The prefixes of a sum: FoldLeft with + adds one number after the other.
LEMMA SumPrefixes ==
    ASSUME NEW seq \in Seq(Int)
    PROVE  \E h \in [0..Len(seq) -> Int] :
              /\ h[0] = 0
              /\ \A i \in 1..Len(seq) : h[i] = h[i - 1] + seq[i]
              /\ SumOf(seq) = h[Len(seq)]
<1> DEFINE n == Len(seq)
           F == [i \in 1..n |-> [x \in Int |-> x + seq[i]]]
           Iter(g) == g = [s \in SUBSET (1..n) |->
                              IF s = {} THEN 0 ELSE g[s \ {Max(s)}] + seq[Max(s)]]
<1>1. n \in Nat /\ DOMAIN seq = 1..n /\ seq \in [1..n -> Int] /\ 0 \in Int
  OBVIOUS
<1>2. SumOf(seq) = (CHOOSE g : Iter(g))[1..n]
  BY <1>1 DEF SumOf, FoldLeft, MapThenFoldSet
<1>3. \A s \in SUBSET (1..n) : s # {} => Max(s) \in 1..n
  <2>1. \A s \in SUBSET (1..n) : s \subseteq 0..n
    OBVIOUS
  <2> QED BY <1>1, <2>1, MaxIsGreatest
<1>4. PICK g0 \in [SUBSET (1..n) -> Int] : IsFold(g0, n, 0, F)
  <2>1. F \in [1..n -> [Int -> Int]]
    BY <1>1
  <2> HIDE DEF F, n
  <2> QED BY <1>1, <2>1, FoldExists, Zenon
<1>5. Iter(g0)
  <2>1. \A s \in SUBSET (1..n) :
            g0[s] = IF s = {} THEN 0 ELSE g0[s \ {Max(s)}] + seq[Max(s)]
    BY <1>3, <1>4 DEF IsFold
  <2>2. g0 = [s \in SUBSET (1..n) |-> g0[s]]
    OBVIOUS
  <2> QED BY <2>1, <2>2
<1>6. PICK g : Iter(g) /\ SumOf(seq) = g[1..n]
  BY <1>2, <1>5
<1> DEFINE Y == Int \cup {g[s] : s \in SUBSET (1..n)}
           G == [i \in 1..n |-> [x \in Y |-> x + seq[i]]]
<1>7. IsFold(g, n, 0, G)
  BY <1>3, <1>6 DEF IsFold
<1>8. \A i \in 1..n, x \in Int : G[i][x] = x + seq[i] /\ G[i][x] \in Int
  BY <1>1
<1>9. KeepsTo(G, n, Int)
  BY <1>8 DEF KeepsTo
<1>10. PICK h : AreStages(h, n, Int, 0, G) /\ h[n] = g[1..n]
  <2> DEFINE zero == 0
             X == Int
  <2>1. n \in Nat /\ zero \in X /\ IsFold(g, n, zero, G) /\ KeepsTo(G, n, X)
    BY <1>1, <1>7, <1>9
  <2> HIDE DEF G, n, zero, X
  <2>2. \E h : AreStages(h, n, X, zero, G) /\ h[n] = g[1..n]
    BY <2>1, FoldPrefixes
  <2> QED BY <2>2 DEF zero, X
<1>11. \A i \in 1..n : h[i] = h[i - 1] + seq[i]
  <2>1. \A i \in 1..n : i - 1 \in 0..n
    BY <1>1
  <2> HIDE DEF G
  <2> QED BY <1>8, <1>10, <2>1 DEF AreStages
<1> HIDE DEF G
<1> QED
  BY <1>6, <1>10, <1>11 DEF AreStages

\* A sum of one number more.
LEMMA SumOfOneMore ==
    ASSUME NEW seq \in Seq(Int), NEW t \in Seq(Int), Len(t) = Len(seq) + 1,
           \A i \in 1..Len(seq) : t[i] = seq[i]
    PROVE  SumOf(seq) \in Int /\ SumOf(t) = SumOf(seq) + t[Len(t)]
<1> DEFINE n == Len(seq)
<1>1. n \in Nat /\ Len(t) = n + 1 /\ \A i \in 1..n : t[i] = seq[i]
  OBVIOUS
<1>2. PICK h \in [0..n -> Int] :
          /\ h[0] = 0
          /\ \A i \in 1..n : h[i] = h[i - 1] + seq[i]
          /\ SumOf(seq) = h[n]
  BY SumPrefixes
<1>3. PICK k \in [0 .. n + 1 -> Int] :
          /\ k[0] = 0
          /\ \A i \in 1 .. n + 1 : k[i] = k[i - 1] + t[i]
          /\ SumOf(t) = k[n + 1]
  BY <1>1, SumPrefixes
<1> DEFINE S == {i \in 0..n : h[i] = k[i]}
<1>4. 0 \in S
  <2>1. h[0] = 0
    BY <1>2
  <2>2. k[0] = 0
    BY <1>3
  <2>3. 0 \in 0..n
    BY <1>1
  <2> QED BY <2>1, <2>2, <2>3
<1>5. ASSUME NEW i \in 1..n, i - 1 \in S PROVE i \in S
  <2>1. i \in 1 .. n + 1 /\ h[i - 1] = k[i - 1] /\ i \in 0..n
    BY <1>1, <1>5
  <2>2. h[i] = h[i - 1] + seq[i]
    BY <1>2
  <2>3. k[i] = k[i - 1] + t[i]
    BY <1>3, <2>1
  <2> QED BY <1>1, <2>1, <2>2, <2>3
<1>6. \A i \in 0..n : i \in S
  <2> HIDE DEF S, n
  <2> QED BY <1>1, <1>4, <1>5, PrefixInduction
<1>7. h[n] = k[n] /\ h[n] \in Int
  BY <1>1, <1>6
<1>8. k[n + 1] = k[n] + t[n + 1]
  <2>1. n + 1 \in 1 .. n + 1 /\ (n + 1) - 1 = n
    BY <1>1
  <2>2. k[n + 1] = k[(n + 1) - 1] + t[n + 1]
    BY <1>3, <2>1
  <2> QED BY <2>1, <2>2
<1> QED
  BY <1>1, <1>2, <1>3, <1>7, <1>8

\* One number more at the end.
LEMMA SumAppend ==
    ASSUME NEW seq \in Seq(Int), NEW x \in Int
    PROVE  SumOf(seq) \in Int /\ SumOf(Append(seq, x)) = SumOf(seq) + x
<1>1. PICK t : t = Append(seq, x)
  OBVIOUS
<1>2. /\ t \in Seq(Int) /\ Len(t) = Len(seq) + 1 /\ t[Len(t)] = x
      /\ \A i \in 1..Len(seq) : t[i] = seq[i]
  BY <1>1
<1>3. SumOf(seq) \in Int /\ SumOf(t) = SumOf(seq) + t[Len(t)]
  BY <1>2, SumOfOneMore
<1> QED
  BY <1>1, <1>2, <1>3

-----------------------------------------------------------------------------
(* Sequences of sequences. *)

\* What FlattenSeq has put together after each of them.
LEMMA FlattenPrefixes ==
    ASSUME NEW S, NEW seqs \in Seq(Seq(S))
    PROVE  \E h \in [0..Len(seqs) -> Seq(S)] :
              /\ h[0] = <<>>
              /\ \A i \in 1..Len(seqs) : h[i] = h[i - 1] \o seqs[i]
              /\ FlattenSeq(seqs) = h[Len(seqs)]
<1> DEFINE n == Len(seqs)
           X == Seq(S)
           none == <<>>
           F == [i \in 1..n |-> [x \in X |-> x \o seqs[i]]]
           Iter(f) == f = [i \in 1..n |-> IF i = 1 THEN seqs[i] ELSE f[i - 1] \o seqs[i]]
<1>1. n \in Nat /\ none \in X /\ \A i \in 1..n : seqs[i] \in X
  OBVIOUS
<1>2. \A i \in 1..n : \A x \in X : x \o seqs[i] \in X
  OBVIOUS
<1>3. F \in [1..n -> [X -> X]]
  <2> HIDE DEF X
  <2> QED BY <1>2
<1>4. PICK g : IsFold(g, n, none, F)
  <2> HIDE DEF F, n, X, none
  <2> QED BY <1>1, <1>3, FoldExists
<1>5. KeepsTo(F, n, X)
  <2> HIDE DEF X
  <2> QED BY <1>2 DEF KeepsTo
<1>6. PICK h : AreStages(h, n, X, none, F)
  <2> HIDE DEF F, n, X, none
  <2> QED BY <1>1, <1>4, <1>5, FoldPrefixes
<1>7. h \in [0..n -> X] /\ h[0] = none
  BY <1>6 DEF AreStages
<1>8. \A i \in 1..n : h[i] = h[i - 1] \o seqs[i]
  <2>1. \A i \in 1..n : i - 1 \in 0..n
    BY <1>1
  <2>2. \A i \in 1..n : h[i] = F[i][h[i - 1]]
    BY <1>6 DEF AreStages
  <2> HIDE DEF X
  <2> QED BY <1>7, <2>1, <2>2
<1>9. CASE n = 0
  <2>1. FlattenSeq(seqs) = none
    BY <1>9 DEF FlattenSeq
  <2> QED BY <1>7, <1>8, <1>9, <2>1
<1>10. CASE n # 0
  <2> DEFINE f0 == [i \in 1..n |-> h[i]]
  <2>1. Iter(f0)
    <3>1. ASSUME NEW i \in 1..n, i # 1 PROVE f0[i] = f0[i - 1] \o seqs[i]
      <4>1. i - 1 \in 1..n
        BY <1>1, <3>1
      <4> QED BY <1>8, <4>1
    <3>2. 1 \in 1..n => f0[1] = seqs[1]
      <4>1. 1 \in 1..n => h[1] = h[0] \o seqs[1]
        <5>1. 1 \in 1..n => h[1] = h[1 - 1] \o seqs[1]
          BY <1>8
        <5>2. 1 - 1 = 0
          OBVIOUS
        <5> QED BY ONLY <5>1, <5>2, Zenon
      <4>2. 1 \in 1..n => none \o seqs[1] = seqs[1]
        BY <1>1
      <4>3. 1 \in 1..n => h[1] = seqs[1]
        BY <1>7, <4>1, <4>2, Zenon
      <4> QED BY <4>3
    <3> QED BY <3>1, <3>2
  <2>2. PICK f : Iter(f) /\ FlattenSeq(seqs) = f[n]
    <3>1. FlattenSeq(seqs) = (CHOOSE f : Iter(f))[n]
      BY <1>10 DEF FlattenSeq
    <3> QED BY <2>1, <3>1
  <2> DEFINE T == {0} \cup {i \in 1..n : f[i] = h[i]}
  <2>3. ASSUME NEW i \in 1..n, i - 1 \in T PROVE i \in T
    <3>1. CASE i = 1
      <4>1. f[i] = seqs[i] /\ f0[i] = seqs[i]
        BY <2>1, <2>2, <3>1
      <4> QED BY <4>1
    <3>2. CASE i # 1
      <4>1. f[i] = f[i - 1] \o seqs[i]
        BY <2>2, <3>2
      <4>2. f[i - 1] = h[i - 1]
        BY <1>1, <2>3, <3>2
      <4> QED BY <1>8, <4>1, <4>2
    <3> QED BY <3>1, <3>2
  <2>4. \A i \in 0..n : i \in T
    <3>1. 0 \in T
      OBVIOUS
    <3> HIDE DEF T
    <3> QED BY <1>1, <2>3, <3>1, PrefixInduction
  <2>5. f[n] = h[n]
    BY <1>1, <1>10, <2>4
  <2> QED BY <1>7, <1>8, <2>2, <2>5
<1> QED
  BY <1>9, <1>10

\* It is a sequence of the same elements.
LEMMA FlattenType ==
    ASSUME NEW S, NEW seqs \in Seq(Seq(S))
    PROVE  FlattenSeq(seqs) \in Seq(S)
<1>1. PICK h \in [0..Len(seqs) -> Seq(S)] : FlattenSeq(seqs) = h[Len(seqs)]
  BY FlattenPrefixes
<1>2. Len(seqs) \in 0..Len(seqs)
  OBVIOUS
<1> QED
  BY <1>1, <1>2

\* One sequence more.
LEMMA FlattenOneMore ==
    ASSUME NEW S, NEW seqs \in Seq(Seq(S)), NEW t \in Seq(Seq(S)), Len(t) = Len(seqs) + 1,
           \A i \in 1..Len(seqs) : t[i] = seqs[i]
    PROVE  FlattenSeq(seqs) \in Seq(S) /\ FlattenSeq(t) = FlattenSeq(seqs) \o t[Len(t)]
<1> DEFINE n == Len(seqs)
<1>1. n \in Nat /\ Len(t) = n + 1 /\ \A i \in 1..n : t[i] = seqs[i]
  OBVIOUS
<1>2. PICK h \in [0..n -> Seq(S)] :
          /\ h[0] = <<>>
          /\ \A i \in 1..n : h[i] = h[i - 1] \o seqs[i]
          /\ FlattenSeq(seqs) = h[n]
  BY FlattenPrefixes
<1>3. PICK k \in [0 .. n + 1 -> Seq(S)] :
          /\ k[0] = <<>>
          /\ \A i \in 1 .. n + 1 : k[i] = k[i - 1] \o t[i]
          /\ FlattenSeq(t) = k[n + 1]
  <2>1. \E k \in [0 .. Len(t) -> Seq(S)] :
            /\ k[0] = <<>>
            /\ \A i \in 1 .. Len(t) : k[i] = k[i - 1] \o t[i]
            /\ FlattenSeq(t) = k[Len(t)]
    BY FlattenPrefixes
  <2>2. Len(t) = n + 1
    BY <1>1
  <2> HIDE DEF n
  <2> QED BY ONLY <2>1, <2>2, Zenon
<1> DEFINE T == {i \in 0..n : h[i] = k[i]}
<1>4. 0 \in T
  BY <1>1, <1>2, <1>3
<1>5. ASSUME NEW i \in 1..n, i - 1 \in T PROVE i \in T
  <2>1. i \in 1 .. n + 1 /\ h[i - 1] = k[i - 1] /\ i \in 0..n
    BY <1>1, <1>5
  <2>2. h[i] = h[i - 1] \o seqs[i]
    BY <1>2
  <2>3. k[i] = k[i - 1] \o t[i]
    BY <1>3, <2>1
  <2> QED BY <1>1, <2>1, <2>2, <2>3
<1>6. \A i \in 0..n : i \in T
  <2> HIDE DEF T, n
  <2> QED BY <1>1, <1>4, <1>5, PrefixInduction
<1>7. h[n] = k[n] /\ h[n] \in Seq(S)
  BY <1>1, <1>6
<1>8. k[n + 1] = k[n] \o t[n + 1]
  <2>1. n + 1 \in 1 .. n + 1 /\ (n + 1) - 1 = n
    BY <1>1
  <2>2. k[n + 1] = k[(n + 1) - 1] \o t[n + 1]
    BY <1>3, <2>1
  <2> QED BY <2>1, <2>2
<1> QED
  BY <1>1, <1>2, <1>3, <1>7, <1>8

-----------------------------------------------------------------------------
(* Remainders. *)

\* Quotient and remainder.
LEMMA DivMod ==
    ASSUME NEW a \in Int, NEW b \in Nat \ {0}
    PROVE  a % b \in 0..(b - 1) /\ a \div b \in Int /\ a = b * (a \div b) + (a % b)
OBVIOUS
\* There is no other quotient and remainder.
LEMMA DivModUnique ==
    ASSUME NEW b \in Nat \ {0}, NEW q \in Int, NEW r \in 0..(b - 1)
    PROVE  (b * q + r) % b = r /\ (b * q + r) \div b = q
<1> DEFINE a == b * q + r
           p == a \div b
           s == a % b
<1>1. a \in Int /\ a % b \in 0..(b - 1) /\ a \div b \in Int /\ a = b * (a \div b) + (a % b)
  BY DivMod
<1>2. b * (q - p) = s - r
  BY <1>1
<1>3. -b < s - r /\ s - r < b
  BY <1>1
<1>4. q - p \in Int /\ p \in Int /\ s \in Int
  BY <1>1
<1>9. q \in Int /\ q - p \in Int
  BY <1>4
<1> HIDE DEF a, p, s
<1>5. ASSUME q - p >= 1 PROVE FALSE
  <2>1. b * (q - p) >= b
    BY <1>4, <1>5
  <2> QED BY <2>1, <1>2, <1>3, <1>4
<1>6. ASSUME q - p <= -1 PROVE FALSE
  <2>1. b * (q - p) <= -b
    BY <1>4, <1>6
  <2> QED BY <2>1, <1>2, <1>3, <1>4
<1>7. q - p = 0
  BY <1>4, <1>5, <1>6
<1>8. p = q /\ s = r
  <2>1. b * (q - p) = 0
    BY <1>7
  <2>2. s \in Int
    BY <1>1 DEF s
  <2> QED BY <2>1, <2>2, <1>2, <1>4, <1>7
<1> QED BY <1>1, <1>8 DEF a, p, s

\* A multiple of b more or less does not change the remainder.
LEMMA ModShift ==
    ASSUME NEW b \in Nat \ {0}, NEW a \in Int, NEW x \in Int, a % b = 0
    PROVE  (a + x) % b = x % b
<1>1. PICK p \in Int : a = b * p
  <2> DEFINE d == a \div b
  <2>1. a = b * d + (a % b) /\ d \in Int
    BY DivMod
  <2> HIDE DEF d
  <2>2. b * d \in Int
    BY <2>1
  <2> QED BY <2>1, <2>2, a % b = 0
<1>2. PICK q \in Int, r \in 0..(b - 1) : x = b * q + r /\ x % b = r
  BY DivMod
<1>3. a + x = b * (p + q) + r /\ p + q \in Int
  BY <1>1, <1>2
<1>4. (b * (p + q) + r) % b = r
  BY <1>3, DivModUnique
<1> QED
  BY <1>2, <1>3, <1>4

\* The last numbers before a multiple of b are no multiples.
LEMMA ModBelow ==
    ASSUME NEW b \in Nat \ {0}, NEW x \in (1 - b)..(-1)
    PROVE  x % b # 0
<1>1. x + b \in 1..(b - 1) /\ x + b \in 0..(b - 1) /\ x = b * (-1) + (x + b) /\ -1 \in Int
  OBVIOUS
<1>2. (b * (-1) + (x + b)) % b = x + b
  BY <1>1, DivModUnique
<1> QED
  BY <1>1, <1>2

-----------------------------------------------------------------------------
(* Bounds of finitely many numbers. *)

\* Finitely many numbers have an upper bound.
LEMMA FiniteFunctionIsBounded ==
    ASSUME NEW n \in Nat, NEW f \in [1..n -> Nat]
    PROVE  \E b \in Nat : \A i \in 1..n : f[i] <= b
<1> DEFINE Bounded(k) == \E b \in Nat : \A i \in 1..k : f[i] <= b
           C == {k \in 0..n : ~Bounded(k)}
<1>1. SUFFICES ASSUME C # {} PROVE FALSE
  <2>1. n \in 0..n
    OBVIOUS
  <2> QED BY <2>1
<1>2. C \subseteq Nat
  OBVIOUS
<1>3. PICK k \in C : \A x \in C : k <= x
  BY <1>1, <1>2, LeastElement
<1>4. k \in 0..n /\ ~Bounded(k)
  OBVIOUS
<1>5. k # 0
  <2>1. \A i \in 1..0 : f[i] <= 0
    OBVIOUS
  <2>2. Bounded(0)
    BY <2>1
  <2> QED BY <1>4, <2>2
<1>6. k \in 1..n /\ k - 1 \in 0..n /\ ~(k <= k - 1)
  BY <1>4, <1>5
<1>7. Bounded(k - 1)
  BY <1>3, <1>6
<1> HIDE DEF C
<1>8. PICK b \in Nat : \A i \in 1..(k - 1) : f[i] <= b
  BY <1>7
<1>9. f[k] \in Nat
  BY <1>6
<1>10. \A i \in 1..k : f[i] <= b + f[k]
  <2>1. SUFFICES ASSUME NEW i \in 1..k PROVE f[i] <= b + f[k]
    OBVIOUS
  <2>2. CASE i = k
    BY <2>2, <1>9
  <2>3. CASE i # k
    <3>1. i \in 1..(k - 1) /\ i \in 1..n
      BY <2>3, <1>6
    <3>2. f[i] <= b /\ f[i] \in Nat
      BY <3>1, <1>8
    <3> QED BY <3>2, <1>9
  <2> QED BY <2>2, <2>3
<1>11. b + f[k] \in Nat
  BY <1>9
<1> QED
  BY <1>4, <1>10, <1>11

-----------------------------------------------------------------------------
(* The last question of a log. *)

\* LastQuestion is the position of a question with none after it, or 0 in a log
\* that has no question.
LEMMA LastQuestionIsLast ==
    ASSUME NEW l \in Seq(Utterance)
    PROVE  /\ LastQuestion(l) \in 0..Len(l)
           /\ LastQuestion(l) # 0 => IsQuestion(l[LastQuestion(l)])
           /\ \A i \in DOMAIN l : IsQuestion(l[i]) => i <= LastQuestion(l)
<1> DEFINE I == {i \in 1..Len(l) : IsQuestion(l[i])}
<1>1. CASE I = {}
  BY <1>1 DEF LastQuestion, SelectLastInSeq
<1>2. CASE I # {}
  <2>1. LastQuestion(l) = Max(I)
    BY <1>2 DEF LastQuestion, SelectLastInSeq
  <2>2. Len(l) \in Nat /\ I \subseteq 0..Len(l)
    OBVIOUS
  <2>3. Max(I) \in I /\ \A x \in I : x <= Max(I)
    BY <1>2, <2>2, MaxIsGreatest
  <2> QED BY <2>1, <2>3
<1> QED
  BY <1>1, <1>2

\* The number of the last question is a number, not below the floor.
LEMMA LastQuestionNumberType ==
    ASSUME NEW l \in Seq(Utterance), NEW least \in Nat
    PROVE  /\ LastQuestionNumber(l, least) \in Nat
           /\ LastQuestionNumber(l, least) >= least
           /\ LastQuestion(l) # 0 => LastQuestionNumber(l, least) >= l[LastQuestion(l)].num
<1>1. LastQuestion(l) # 0 => l[LastQuestion(l)] \in Utterance
  BY LastQuestionIsLast
<1>2. LastQuestion(l) # 0 => l[LastQuestion(l)].num \in Nat
  BY <1>1 DEF Utterance
<1> QED
  BY <1>2 DEF LastQuestionNumber

\* The floor of a rebuilt log is a number no utterance of the log exceeds, and that of an
\* utterance unless it is 0.
LEMMA NumberFloorBounds ==
    ASSUME NEW l \in Seq(Utterance)
    PROVE  /\ NumberFloor(l) \in Nat
           /\ \A i \in DOMAIN l : l[i].num <= NumberFloor(l)
           /\ NumberFloor(l) = 0 \/ \E i \in DOMAIN l : l[i].num = NumberFloor(l)
<1> DEFINE f == [i \in 1..Len(l) |-> l[i].num]
           S == {0} \cup {l[i].num : i \in DOMAIN l}
<1>1. Len(l) \in Nat /\ DOMAIN l = 1..Len(l)
  OBVIOUS
<1>2. \A i \in 1..Len(l) : l[i].num \in Nat
  <2>1. \A i \in 1..Len(l) : l[i] \in Utterance
    OBVIOUS
  <2> QED BY <2>1 DEF Utterance
<1>3. f \in [1..Len(l) -> Nat]
  BY <1>2
<1>4. PICK b \in Nat : \A i \in 1..Len(l) : f[i] <= b
  BY <1>1, <1>3, FiniteFunctionIsBounded
<1>5. S \subseteq 0..b /\ S # {}
  BY <1>1, <1>2, <1>4
<1>6. Max(S) \in S /\ \A x \in S : x <= Max(S)
  BY <1>5, MaxIsGreatest
<1>7. Max(S) \in Nat
  BY <1>5, <1>6
<1> QED
  BY <1>6, <1>7 DEF NumberFloor

-----------------------------------------------------------------------------
(* The utterances the pipeline appends. *)

\* A question that the log accepts is an utterance, numbered past the floor and
\* past every question of the log.
LEMMA NewQuestionType ==
    ASSUME NEW l \in Seq(Utterance), NEW least \in Nat,
           NEW type \in QuestionTypes, NEW intact \in BOOLEAN
    PROVE  /\ NewQuestion(l, least, type, intact) \in Utterance
           /\ NewQuestion(l, least, type, intact).type = type
           /\ NewQuestion(l, least, type, intact).num > least
           /\ NewQuestion(l, least, type, intact).intact = intact
<1>1. LastQuestionNumber(l, least) \in Nat /\ LastQuestionNumber(l, least) >= least
  BY LastQuestionNumberType
<1>2. CurrentRoot(l) \in Nat
  <2>1. LastQuestion(l) # 0 => l[LastQuestion(l)] \in Utterance
    BY LastQuestionIsLast
  <2> QED BY <2>1 DEF CurrentRoot, Utterance
<1> QED
  BY <1>1, <1>2 DEF NewQuestion, Utterance

\* An answer to a log that has a question is an utterance.
LEMMA NewAnswerType ==
    ASSUME NEW l \in Seq(Utterance), LastQuestion(l) # 0, NEW intact \in BOOLEAN
    PROVE  /\ NewAnswer(l, intact) \in Utterance
           /\ IsAnswer(NewAnswer(l, intact))
<1>1. l[LastQuestion(l)] \in Utterance
  BY LastQuestionIsLast
<1> QED
  BY <1>1 DEF NewAnswer, Utterance, IsAnswer

\* A closing is an utterance.
LEMMA NewClosingType ==
    ASSUME NEW intact \in BOOLEAN
    PROVE  /\ NewClosing(intact) \in Utterance
           /\ NewClosing(intact).type = "CLOSING"
BY DEF NewClosing, Utterance

\* A log that has grown is not empty, and ends with what was appended.
LEMMA Appended ==
    ASSUME NEW l \in Seq(Utterance), NEW u \in Utterance
    PROVE  /\ Append(l, u) \in Seq(Utterance) /\ Append(l, u) # <<>>
           /\ Last(Append(l, u)) = u
           /\ Len(Append(l, u)) = Len(l) + 1 /\ Len(l) \in Nat
           /\ DOMAIN Append(l, u) = 1 .. Len(l) + 1 /\ DOMAIN l = 1 .. Len(l)
           /\ \A i \in DOMAIN l : Append(l, u)[i] = l[i]
           /\ Append(l, u)[Len(l) + 1] = u
<1>1. /\ Append(l, u) \in Seq(Utterance) /\ Len(Append(l, u)) = Len(l) + 1 /\ Len(l) \in Nat
      /\ DOMAIN l = 1 .. Len(l)
      /\ \A i \in 1 .. Len(l) : Append(l, u)[i] = l[i]
      /\ Append(l, u)[Len(l) + 1] = u
  OBVIOUS
<1>2. Append(l, u) # <<>>
  BY <1>1
<1>3. Last(Append(l, u)) = u
  BY <1>1 DEF Last
<1> QED BY <1>1, <1>2, <1>3

\* The last question of a log that has grown.
LEMMA LastQuestionAppended ==
    ASSUME NEW l \in Seq(Utterance), NEW u \in Utterance
    PROVE  LastQuestion(Append(l, u)) = IF IsQuestion(u) THEN Len(l) + 1 ELSE LastQuestion(l)
<1> DEFINE L == Append(l, u)
<1>1. /\ L \in Seq(Utterance) /\ Len(L) = Len(l) + 1 /\ Len(l) \in Nat
      /\ DOMAIN L = 1 .. Len(l) + 1 /\ DOMAIN l = 1 .. Len(l)
      /\ \A i \in DOMAIN l : L[i] = l[i]
      /\ L[Len(l) + 1] = u
  BY Appended
<1> HIDE DEF L
<1>2. /\ LastQuestion(L) \in 0 .. Len(l) + 1
      /\ LastQuestion(L) # 0 => IsQuestion(L[LastQuestion(L)])
      /\ \A i \in DOMAIN L : IsQuestion(L[i]) => i <= LastQuestion(L)
  BY <1>1, LastQuestionIsLast
<1>3. /\ LastQuestion(l) \in 0 .. Len(l)
      /\ LastQuestion(l) # 0 => IsQuestion(l[LastQuestion(l)])
      /\ \A i \in DOMAIN l : IsQuestion(l[i]) => i <= LastQuestion(l)
  BY LastQuestionIsLast
<1>4. CASE IsQuestion(u)
  BY <1>1, <1>2, <1>4 DEF L
<1>5. CASE ~IsQuestion(u)
  <2>1. LastQuestion(L) \in 0 .. Len(l)
    BY <1>1, <1>2, <1>5
  <2>2. LastQuestion(l) <= LastQuestion(L)
    BY <1>1, <1>2, <1>3, <2>1
  <2>3. LastQuestion(L) <= LastQuestion(l)
    BY <1>1, <1>2, <1>3, <2>1
  <2> QED BY <1>3, <1>5, <2>1, <2>2, <2>3 DEF L
<1> QED BY <1>4, <1>5

-----------------------------------------------------------------------------
(* Sorting. *)

\* The pairs of R order S.
Orders(R, S) ==
    /\ \A x \in S : <<x, x>> \notin R
    /\ \A x, y \in S : x = y \/ <<x, y>> \in R \/ <<y, x>> \in R
    /\ \A x, y, z \in S : <<x, y>> \in R /\ <<y, z>> \in R => <<x, z>> \in R

\* What is before an element.
Below(S, R, x) == {y \in S : <<y, x>> \in R}

\* More is before a later element.
LEMMA RankGrows ==
    ASSUME NEW S, IsFiniteSet(S), NEW R, Orders(R, S), NEW x \in S, NEW y \in S, <<x, y>> \in R
    PROVE  /\ Cardinality(Below(S, R, x)) \in Nat /\ Cardinality(Below(S, R, y)) \in Nat
           /\ Cardinality(Below(S, R, x)) < Cardinality(Below(S, R, y))
<1> DEFINE A == Below(S, R, x)
           B == Below(S, R, y)
<1>1. A \in SUBSET S /\ B \in SUBSET S
  BY DEF Below
<1>2. IsFiniteSet(A) /\ IsFiniteSet(B)
  BY <1>1, FS_Subset
<1>3. x \notin A /\ A \cup {x} \in SUBSET B
  BY DEF Below, Orders
<1> HIDE DEF A, B
<1>4. IsFiniteSet(A \cup {x}) /\ Cardinality(A \cup {x}) = Cardinality(A) + 1
  BY <1>2, <1>3, FS_AddElement
<1>5. Cardinality(A \cup {x}) =< Cardinality(B)
  BY <1>2, <1>3, FS_Subset
<1>6. Cardinality(A) \in Nat /\ Cardinality(B) \in Nat
  BY <1>2, FS_CardinalityType
<1> QED
  BY <1>4, <1>5, <1>6 DEF A, B

\* What sorting a finite set returns: all of it, in order.
IsRanking(s, S, R) ==
    /\ Cardinality(S) \in Nat /\ s \in [1 .. Cardinality(S) -> S]
    /\ \A x \in S : \E k \in 1 .. Cardinality(S) : s[k] = x
    /\ \A i, j \in 1 .. Cardinality(S) : i < j => <<s[i], s[j]>> \in R

LEMMA RankedIsRanking ==
    ASSUME NEW S, IsFiniteSet(S), NEW R, Orders(R, S)
    PROVE  IsRanking(Ranked(S, R), S, R)
<1> DEFINE n == Cardinality(S)
           rank == [x \in S |-> Cardinality(Below(S, R, x)) + 1]
           s == Ranked(S, R)
           T == 1..n
<1>1. n \in Nat
  BY FS_CardinalityType
<1>2. \A x, y \in S : <<x, y>> \in R => rank[x] < rank[y]
  <2> SUFFICES ASSUME NEW x \in S, NEW y \in S, <<x, y>> \in R PROVE rank[x] < rank[y]
    OBVIOUS
  <2> QED BY RankGrows
<1>3. ASSUME NEW x \in S PROVE Cardinality(Below(S, R, x)) \in Nat /\ rank[x] \in T
  <2> DEFINE A == Below(S, R, x)
  <2>1. A \in SUBSET S /\ x \notin A
    BY DEF Below, Orders
  <2> HIDE DEF A
  <2>2. IsFiniteSet(A) /\ Cardinality(A) =< n /\ (n = Cardinality(A) => S = A)
    BY <2>1, FS_Subset
  <2>3. Cardinality(A) \in Nat
    BY <2>2, FS_CardinalityType
  <2>4. Cardinality(A) # n
    BY <2>1, <2>2
  <2>5. rank[x] = Cardinality(A) + 1
    BY DEF A
  <2> HIDE DEF rank, n
  <2> QED BY <1>1, <2>2, <2>3, <2>4, <2>5 DEF A
<1>4. rank \in Injection(S, T)
  <2>1. rank \in [S -> T]
    BY <1>3
  <2>2. ASSUME NEW x \in S, NEW y \in S, rank[x] = rank[y] PROVE x = y
    <3>1. x = y \/ rank[x] < rank[y] \/ rank[y] < rank[x]
      BY <1>2 DEF Orders
    <3>2. rank[x] \in Nat /\ rank[y] \in Nat
      BY <1>1, <2>1
    <3> HIDE DEF rank
    <3> QED BY <2>2, <3>1, <3>2
  <2> HIDE DEF rank, T
  <2> QED BY <2>1, <2>2 DEF Injection, IsInjective
<1>5. IsFiniteSet(T) /\ Cardinality(T) = n
  BY <1>1, FS_Interval
<1>6. rank \in Surjection(S, T)
  <2> HIDE DEF rank, T
  <2> QED BY <1>4, <1>5, FS_Injection
<1>7. ASSUME NEW k \in T PROVE s[k] \in S /\ rank[s[k]] = k
  <2>1. \E x \in S : rank[x] = k
    <3> HIDE DEF rank, T
    <3> QED BY <1>6 DEF Surjection
  <2>2. \A x \in S : rank[x] = k <=> Cardinality({y \in S : <<y, x>> \in R}) = k - 1
    <3>1. \A x \in S : Cardinality(Below(S, R, x)) \in Nat /\ rank[x] = Cardinality(Below(S, R, x)) + 1
      BY <1>3
    <3>2. k \in Nat
      BY <1>1
    <3> HIDE DEF rank
    <3>3. \A x \in S : rank[x] = k <=> Cardinality(Below(S, R, x)) = k - 1
      BY <3>1, <3>2
    <3> QED BY <3>3, Zenon DEF Below
  <2>3. s[k] = CHOOSE x \in S : Cardinality({y \in S : <<y, x>> \in R}) = k - 1
    BY DEF Ranked
  <2> HIDE DEF rank, s
  <2> QED BY <2>1, <2>2, <2>3
<1> HIDE DEF rank
<1>8. s \in [1 .. Cardinality(S) -> S]
  <2> DEFINE choice(k) == CHOOSE x \in S : Cardinality({y \in S : <<y, x>> \in R}) = k - 1
  <2>1. s = [k \in 1 .. Cardinality(S) |-> s[k]]
    <3>1. s = [k \in 1 .. Cardinality(S) |-> choice(k)]
      BY DEF Ranked
    <3> HIDE DEF choice, s
    <3> QED BY <3>1
  <2> HIDE DEF s
  <2> QED BY <1>7, <2>1
<1> HIDE DEF s
<1>9. \A x \in S : \E k \in 1 .. Cardinality(S) : s[k] = x
  <2>1. ASSUME NEW x \in S PROVE rank[x] \in T /\ s[rank[x]] = x
    <3>1. rank[x] \in T
      BY <1>3
    <3>2. s[rank[x]] \in S /\ rank[s[rank[x]]] = rank[x]
      BY <1>7, <3>1
    <3> HIDE DEF T
    <3> QED BY <1>4, <3>1, <3>2 DEF Injection, IsInjective
  <2> QED BY <2>1
<1>10. \A i, j \in 1 .. Cardinality(S) : i < j => <<s[i], s[j]>> \in R
  <2> SUFFICES ASSUME NEW i \in T, NEW j \in T, i < j PROVE <<s[i], s[j]>> \in R
    OBVIOUS
  <2>1. s[i] \in S /\ s[j] \in S /\ rank[s[i]] = i /\ rank[s[j]] = j
    BY <1>7
  <2>2. i \in Nat /\ j \in Nat
    BY <1>1
  <2>3. ~(j < i) /\ i # j
    BY <2>2
  <2>4. s[i] # s[j] /\ <<s[j], s[i]>> \notin R
    BY <1>2, <2>1, <2>3
  <2> QED BY <2>1, <2>4 DEF Orders
<1> QED
  BY <1>1, <1>8, <1>9, <1>10 DEF IsRanking, s

\* A finite set of numbers, sorted.
IsOrdered(s, S) ==
    /\ s \in Seq(S)
    /\ \A x \in S : \E k \in 1..Len(s) : s[k] = x
    /\ \A i, j \in 1..Len(s) : i < j => s[i] < s[j]

LEMMA OrderedIsOrdered ==
    ASSUME NEW S, S \subseteq Int, IsFiniteSet(S)
    PROVE  IsOrdered(Ordered(S), S) /\ Len(Ordered(S)) = Cardinality(S)
<1> DEFINE R == {p \in S \X S : p[1] < p[2]}
           s == Ordered(S)
           n == Cardinality(S)
<1>1. Orders(R, S)
  BY DEF Orders
<1>2. s = Ranked(S, R)
  BY DEF Ordered
<1>3. IsRanking(s, S, R)
  <2> HIDE DEF s, R
  <2> QED BY <1>1, <1>2, RankedIsRanking
<1> HIDE DEF s
<1>4. n \in Nat /\ s \in [1..n -> S]
  BY <1>3 DEF IsRanking
<1>5. s \in Seq(S) /\ Len(s) = n
  <2> HIDE DEF n
  <2> QED BY ONLY <1>4, FunctionIsSeq
<1>6. \A x \in S : \E k \in 1..n : s[k] = x
  BY <1>3 DEF IsRanking
<1>7. \A i, j \in 1..n : i < j => s[i] < s[j]
  BY <1>3 DEF IsRanking
<1> HIDE DEF n
<1> QED
  BY <1>5, <1>6, <1>7 DEF IsOrdered, s, n

\* Numbers up to a bound are finitely many.
LEMMA BoundedIsFinite ==
    ASSUME NEW b \in Nat, NEW S, S \subseteq 0..b
    PROVE  IsFiniteSet(S) /\ S \subseteq Int
<1>1. 0 \in Int /\ b \in Int
  OBVIOUS
<1>2. IsFiniteSet(0..b)
  BY ONLY <1>1, FS_Interval
<1>3. IsFiniteSet(S)
  BY <1>2, FS_Subset
<1> QED
  BY <1>3

\* What is kept of a sequence stands in its order.
IsKept(kept, seq, places, order) ==
    /\ IsOrdered(order, places) /\ Len(order) = Cardinality(places)
    /\ Len(kept) = Len(order)
    /\ \A k \in 1..Len(order) : order[k] \in 1..Len(seq) /\ kept[k] = seq[order[k]]

LEMMA KeptIsKept ==
    ASSUME NEW X, NEW seq \in Seq(X), NEW places, places \subseteq 1..Len(seq)
    PROVE  /\ Kept(seq, places) \in Seq(X)
           /\ \E order : IsKept(Kept(seq, places), seq, places, order)
<1> DEFINE order == Ordered(places)
           n == Len(order)
           kept == Kept(seq, places)
<1>1. IsFiniteSet(places) /\ places \subseteq Int
  <2>1. Len(seq) \in Nat /\ places \subseteq 0..Len(seq)
    OBVIOUS
  <2> QED BY <2>1, BoundedIsFinite
<1>2. IsOrdered(order, places) /\ Len(order) = Cardinality(places)
  BY <1>1, OrderedIsOrdered
<1>3. kept = [k \in DOMAIN order |-> seq[order[k]]]
  BY DEF Kept
<1> HIDE DEF order, kept
<1>4. n \in Nat /\ DOMAIN order = 1..n /\ \A k \in 1..n : order[k] \in 1..Len(seq)
  <2>1. order \in Seq(places)
    BY <1>2 DEF IsOrdered
  <2>2. n \in Nat /\ DOMAIN order = 1..n /\ \A k \in 1..n : order[k] \in places
    BY ONLY <2>1
  <2>3. \A p \in places : p \in 1..Len(seq)
    OBVIOUS
  <2> QED BY ONLY <2>2, <2>3, Zenon
<1>5. kept = [k \in 1..n |-> seq[order[k]]] /\ \A k \in 1..n : seq[order[k]] \in X
  BY <1>3, <1>4
<1>6. kept \in Seq(X) /\ Len(kept) = n
  <2> DEFINE F(k) == seq[order[k]]
  <2>1. kept = [k \in 1..n |-> F(k)] /\ \A k \in 1..n : F(k) \in X
    BY <1>5
  <2> HIDE DEF F, n
  <2> QED BY ONLY <1>4, <2>1, FunctionIsSeq
<1>7. IsKept(kept, seq, places, order)
  BY <1>2, <1>4, <1>5, <1>6 DEF IsKept
<1> QED
  BY <1>6, <1>7 DEF kept

-----------------------------------------------------------------------------
(* The logs the worker gets. *)

\* The utterances of a log have passed the checks of Utterance.
AllValid(l) == \A i \in DOMAIN l : ValidUtterance(l[i])

\* Whatever is lost of a log, the rest is as valid, and as well kept.
LEMMA HolesKeepWell ==
    ASSUME NEW log \in Seq(Utterance), AllValid(log), NEW places \in SUBSET DOMAIN log
    PROVE  /\ Kept(log, places) \in Seq(Utterance) /\ AllValid(Kept(log, places))
           /\ WellKept(log) => WellKept(Kept(log, places))
<1> DEFINE kept == Kept(log, places)
<1>1. kept \in Seq(Utterance) /\ \E order : IsKept(kept, log, places, order)
  BY KeptIsKept
<1>2. PICK order : IsKept(kept, log, places, order)
  BY <1>1
<1> HIDE DEF kept
<1>3. /\ DOMAIN kept = 1..Len(order) /\ DOMAIN log = 1..Len(log)
      /\ \A k \in DOMAIN kept : order[k] \in DOMAIN log /\ kept[k] = log[order[k]]
      /\ \A i, j \in DOMAIN kept : i < j => order[i] < order[j]
  <2>1. DOMAIN log = 1..Len(log)
    OBVIOUS
  <2>2. DOMAIN kept = 1..Len(kept)
    BY ONLY <1>1
  <2>3. /\ Len(kept) = Len(order)
        /\ \A k \in 1..Len(order) : order[k] \in 1..Len(log) /\ kept[k] = log[order[k]]
    BY <1>2 DEF IsKept
  <2>4. \A i, j \in 1..Len(order) : i < j => order[i] < order[j]
    BY <1>2 DEF IsKept, IsOrdered
  <2> QED BY ONLY <2>1, <2>2, <2>3, <2>4
<1>4. AllValid(kept)
  BY <1>3 DEF AllValid
<1>5. WellKept(log) => WellKept(kept)
  BY <1>3 DEF WellKept, WellKeptFrom
<1> QED
  BY <1>1, <1>4, <1>5 DEF kept

\* A log the agent may go on with: well kept from its r-th utterance on, and no number
\* above the last one given.
Ongoing(l, floor, r) ==
    /\ r \in Nat /\ r =< Len(l) /\ WellKeptFrom(l, r)
    /\ \A i \in DOMAIN l : l[i].num =< LastQuestionNumber(l, floor)

\* A log that is in order is in order from its first utterance on.
LEMMA WellKeptIs ==
    ASSUME NEW l \in Seq(Utterance), WellKept(l)
    PROVE  /\ AllValid(l)
           /\ \A i, j \in DOMAIN l : i < j =>
                 /\ IsQuestion(l[j]) => l[i].num < l[j].num
                 /\ IsQuestion(l[i]) /\ IsAnswer(l[j]) => l[i].num =< l[j].num
                 /\ IsQuestion(l[i]) /\ IsQuestion(l[j]) => l[i].parent =< l[j].parent
<1>1. \A i \in DOMAIN l : i \in Nat /\ i > 0
  OBVIOUS
<1> QED
  BY <1>1 DEF WellKept, WellKeptFrom, AllValid

\* Numbers and parents are numbers.
LEMMA NumbersType ==
    ASSUME NEW l \in Seq(Utterance)
    PROVE  \A i \in DOMAIN l : l[i].num \in Nat /\ l[i].parent \in Nat
<1>1. \A i \in DOMAIN l : l[i] \in Utterance
  OBVIOUS
<1> QED
  BY <1>1 DEF Utterance

\* What is neither a question nor above the last number may be appended, if it comes
\* with a number that its kind has, and an answer with that of the last question.
LEMMA OthersKeepWell ==
    ASSUME NEW l \in Seq(Utterance), NEW floor \in Nat, NEW r, Ongoing(l, floor, r),
           NEW u \in Utterance, ~IsQuestion(u),
           u.num = 0 <=> u.type = "CLOSING",
           u.num =< LastQuestionNumber(l, floor),
           IsAnswer(u) => LastQuestion(l) # 0 /\ u.num = l[LastQuestion(l)].num
    PROVE  Ongoing(Append(l, u), floor, r)
<1> DEFINE m == Append(l, u)
           n == Len(l)
           q == LastQuestion(l)
           top == LastQuestionNumber(l, floor)
<1>1. /\ m \in Seq(Utterance) /\ Len(m) = n + 1 /\ n \in Nat
      /\ DOMAIN m = 1 .. n + 1 /\ DOMAIN l = 1..n
      /\ \A i \in 1..n : m[i] = l[i]
      /\ m[n + 1] = u
  BY Appended
<1>2. /\ q \in 0..n
      /\ q # 0 => IsQuestion(l[q])
      /\ \A i \in 1..n : IsQuestion(l[i]) => i <= q
  BY LastQuestionIsLast
<1>3. \A i \in 1..n : l[i].num \in Nat /\ l[i].num =< top
  BY <1>1, NumbersType DEF Ongoing
<1>4. LastQuestionNumber(m, floor) = top
  <2>1. LastQuestion(m) = q
    BY LastQuestionAppended
  <2>2. q # 0 => m[q] = l[q]
    BY <1>1, <1>2
  <2> HIDE DEF m
  <2> QED BY <2>1, <2>2 DEF LastQuestionNumber
<1>5. /\ r \in Nat /\ r =< n /\ \A i \in 1..n : ValidUtterance(l[i])
      /\ \A i, j \in 1..n : i < j /\ j > r =>
            /\ IsQuestion(l[j]) => l[i].num < l[j].num
            /\ i > r /\ IsQuestion(l[i]) /\ IsAnswer(l[j]) => l[i].num =< l[j].num
            /\ i > r /\ IsQuestion(l[i]) /\ IsQuestion(l[j]) => l[i].parent =< l[j].parent
  BY <1>1 DEF Ongoing, WellKeptFrom
<1> HIDE DEF m, n, q
<1>6. \A i \in 1 .. n + 1 : i \in 1..n \/ i = n + 1
  BY <1>1
<1>7. \A i \in 1..n : i > r /\ IsQuestion(l[i]) /\ IsAnswer(u) => l[i].num =< u.num
  <2> SUFFICES ASSUME NEW i \in 1..n, i > r, IsQuestion(l[i]), IsAnswer(u)
               PROVE  l[i].num =< u.num
    OBVIOUS
  <2>1. q \in 1..n /\ IsQuestion(l[q]) /\ i <= q /\ u.num = l[q].num
    BY <1>1, <1>2 DEF q
  <2>2. CASE i = q
    BY <1>3, <2>1, <2>2
  <2>3. CASE i < q
    BY <1>3, <1>5, <2>1, <2>3
  <2> QED BY <1>1, <2>1, <2>2, <2>3
<1>8. ValidUtterance(u)
  BY DEF ValidUtterance
<1>9. \A i \in 1 .. n + 1 : ValidUtterance(m[i])
  BY <1>1, <1>5, <1>6, <1>8
<1>10. ASSUME NEW i \in 1 .. n + 1, NEW j \in 1 .. n + 1, i < j, j > r
       PROVE  /\ IsQuestion(m[j]) => m[i].num < m[j].num
              /\ i > r /\ IsQuestion(m[i]) /\ IsAnswer(m[j]) => m[i].num =< m[j].num
              /\ i > r /\ IsQuestion(m[i]) /\ IsQuestion(m[j]) => m[i].parent =< m[j].parent
  <2>1. i \in 1..n /\ m[i] = l[i]
    BY <1>1, <1>10
  <2>2. CASE j = n + 1
    BY <1>1, <1>7, <2>1, <2>2
  <2>3. CASE j \in 1..n
    BY <1>1, <1>5, <1>10, <2>1, <2>3
  <2> QED BY <1>6, <2>2, <2>3
<1>11. WellKeptFrom(m, r)
  BY <1>1, <1>9, <1>10 DEF WellKeptFrom
<1>12. \A i \in 1 .. n + 1 : m[i].num =< top
  BY <1>1, <1>3, <1>6
<1> QED
  BY <1>1, <1>4, <1>5, <1>11, <1>12 DEF Ongoing, m

\* append_answer
LEMMA AnswerKeepsWell ==
    ASSUME NEW l \in Seq(Utterance), NEW floor \in Nat, NEW r, Ongoing(l, floor, r),
           LastQuestion(l) # 0, NEW intact \in BOOLEAN
    PROVE  /\ Append(l, NewAnswer(l, intact)) \in Seq(Utterance)
           /\ Ongoing(Append(l, NewAnswer(l, intact)), floor, r)
<1> DEFINE u == NewAnswer(l, intact)
           q == LastQuestion(l)
<1>1. u \in Utterance /\ IsAnswer(u)
  BY NewAnswerType
<1>2. q \in DOMAIN l /\ IsQuestion(l[q])
  BY LastQuestionIsLast
<1>3. u.num = l[q].num /\ u.type = "ANSWER"
  BY DEF NewAnswer
<1>4. ~IsQuestion(u) /\ u.num # 0 /\ u.num =< LastQuestionNumber(l, floor)
  BY <1>2, <1>3 DEF Ongoing, WellKeptFrom, ValidUtterance, IsQuestion, QuestionTypes, RootTypes
<1> HIDE DEF u
<1> QED
  BY <1>1, <1>3, <1>4, Appended, OthersKeepWell DEF u

\* append_closing
LEMMA ClosingKeepsWell ==
    ASSUME NEW l \in Seq(Utterance), NEW floor \in Nat, NEW r, Ongoing(l, floor, r),
           NEW intact \in BOOLEAN
    PROVE  /\ Append(l, NewClosing(intact)) \in Seq(Utterance)
           /\ Ongoing(Append(l, NewClosing(intact)), floor, r)
<1> DEFINE u == NewClosing(intact)
<1>1. u \in Utterance /\ u.num = 0 /\ u.type = "CLOSING"
  BY DEF NewClosing, Utterance
<1>2. ~IsQuestion(u) /\ ~IsAnswer(u)
  BY <1>1 DEF IsQuestion, IsAnswer, QuestionTypes, RootTypes
<1>3. u.num =< LastQuestionNumber(l, floor)
  BY <1>1, LastQuestionNumberType
<1> HIDE DEF u
<1> QED
  BY <1>1, <1>2, <1>3, Appended, OthersKeepWell DEF u

\* append_question, of a question that is accepted
LEMMA QuestionKeepsWell ==
    ASSUME NEW l \in Seq(Utterance), NEW floor \in Nat, NEW r, Ongoing(l, floor, r),
           NEW type, NEW intact,
           NewQuestion(l, floor, type, intact) \in Utterance,
           IsQuestion(NewQuestion(l, floor, type, intact)),
           QuestionAccepted(l, NewQuestion(l, floor, type, intact))
    PROVE  /\ Append(l, NewQuestion(l, floor, type, intact)) \in Seq(Utterance)
           /\ Ongoing(Append(l, NewQuestion(l, floor, type, intact)), floor, r)
<1> DEFINE u == NewQuestion(l, floor, type, intact)
           m == Append(l, u)
           n == Len(l)
           q == LastQuestion(l)
           top == LastQuestionNumber(l, floor)
<1>1. /\ m \in Seq(Utterance) /\ Len(m) = n + 1 /\ n \in Nat
      /\ DOMAIN m = 1 .. n + 1 /\ DOMAIN l = 1..n
      /\ \A i \in 1..n : m[i] = l[i]
      /\ m[n + 1] = u
  BY Appended
<1>2. /\ q \in 0..n
      /\ q # 0 => IsQuestion(l[q])
      /\ \A i \in 1..n : IsQuestion(l[i]) => i <= q
  BY LastQuestionIsLast
<1>3. top \in Nat /\ top >= floor
  BY LastQuestionNumberType
<1>4. \A i \in 1..n : l[i].num \in Nat /\ l[i].num =< top /\ l[i].parent \in Nat
  BY <1>1, NumbersType DEF Ongoing
<1>5. /\ u.type = type /\ u.num = top + 1
      /\ u.parent = IF type = "FOLLOW_UP" THEN CurrentRoot(l) ELSE u.num
  BY DEF NewQuestion
<1>6. /\ type = "FOLLOW_UP" => u.parent # 0 /\ u.parent < u.num
      /\ type = "FOLLOW_UP" => u.parent = CurrentRoot(l)
      /\ u.parent \in Nat
  BY <1>5 DEF QuestionAccepted, Utterance
<1>7. LastQuestion(m) = n + 1
  BY LastQuestionAppended
<1>8. /\ r \in Nat /\ r =< n /\ \A i \in 1..n : ValidUtterance(l[i])
      /\ \A i, j \in 1..n : i < j /\ j > r =>
            /\ IsQuestion(l[j]) => l[i].num < l[j].num
            /\ i > r /\ IsQuestion(l[i]) /\ IsAnswer(l[j]) => l[i].num =< l[j].num
            /\ i > r /\ IsQuestion(l[i]) /\ IsQuestion(l[j]) => l[i].parent =< l[j].parent
  BY <1>1 DEF Ongoing, WellKeptFrom
<1>9. IsQuestion(u) /\ ~IsAnswer(u) /\ u.type # "CLOSING"
  BY <1>5 DEF IsQuestion, IsAnswer, QuestionTypes, RootTypes
<1> HIDE DEF u, m, n, q, top
<1>10. LastQuestionNumber(m, floor) = u.num
  BY <1>1, <1>3, <1>5, <1>7 DEF LastQuestionNumber
<1>11. \A i \in 1 .. n + 1 : i \in 1..n \/ i = n + 1
  BY <1>1
<1>12. ASSUME NEW i \in 1..n, i > r, IsQuestion(l[i]) PROVE l[i].parent =< u.parent
  <2>1. CASE type = "FOLLOW_UP"
    <3>1. q # 0 /\ u.parent = l[q].parent
      BY <1>6, <2>1 DEF CurrentRoot, q
    <3>2. i =< q /\ q \in 1..n /\ IsQuestion(l[q])
      BY <1>1, <1>2, <1>12, <3>1
    <3>3. CASE i = q
      BY <1>4, <3>1, <3>2, <3>3
    <3>4. CASE i < q
      BY <1>8, <1>12, <3>1, <3>2, <3>4
    <3> QED BY <1>1, <3>2, <3>3, <3>4
  <2>2. CASE type # "FOLLOW_UP"
    <3>1. l[i].parent =< l[i].num
      BY <1>8, <1>12 DEF ValidUtterance
    <3> QED BY <1>3, <1>4, <1>5, <2>2, <3>1
  <2> QED BY <2>1, <2>2
<1>13. u.num # 0 /\ u.parent =< u.num /\ (u.type = "FOLLOW_UP" <=> u.parent # u.num)
  BY <1>3, <1>5, <1>6
<1>14. ValidUtterance(u)
  BY <1>9, <1>13 DEF ValidUtterance
<1>15. \A i \in 1 .. n + 1 : ValidUtterance(m[i])
  BY <1>1, <1>8, <1>11, <1>14
<1>16. ASSUME NEW i \in 1 .. n + 1, NEW j \in 1 .. n + 1, i < j, j > r
       PROVE  /\ IsQuestion(m[j]) => m[i].num < m[j].num
              /\ i > r /\ IsQuestion(m[i]) /\ IsAnswer(m[j]) => m[i].num =< m[j].num
              /\ i > r /\ IsQuestion(m[i]) /\ IsQuestion(m[j]) => m[i].parent =< m[j].parent
  <2>1. i \in 1..n /\ m[i] = l[i]
    BY <1>1, <1>16
  <2>2. CASE j = n + 1
    <3>1. m[j] = u /\ l[i].num < u.num
      BY <1>1, <1>3, <1>4, <1>5, <2>1, <2>2
    <3> QED BY <1>9, <1>12, <2>1, <3>1
  <2>3. CASE j \in 1..n
    BY <1>1, <1>8, <1>16, <2>1, <2>3
  <2> QED BY <1>11, <2>2, <2>3
<1>17. WellKeptFrom(m, r)
  BY <1>1, <1>15, <1>16 DEF WellKeptFrom
<1>18. \A i \in 1 .. n + 1 : m[i].num =< u.num
  BY <1>1, <1>3, <1>4, <1>5, <1>11
<1> QED
  BY <1>1, <1>8, <1>10, <1>17, <1>18 DEF Ongoing, m, u

\* A log that was rebuilt may be gone on with, in order from here on, and as a whole if
\* the copy was in order.
LEMMA RestoredIsOngoing ==
    ASSUME NEW l \in Seq(Utterance), AllValid(l)
    PROVE  /\ NumberFloor(l) \in Nat /\ Ongoing(l, NumberFloor(l), Len(l))
           /\ WellKept(l) => Ongoing(l, NumberFloor(l), 0)
<1> DEFINE least == NumberFloor(l)
<1>1. least \in Nat /\ \A i \in DOMAIN l : l[i].num <= least
  BY NumberFloorBounds
<1> HIDE DEF least
<1>2. LastQuestionNumber(l, least) \in Nat /\ LastQuestionNumber(l, least) >= least
  BY <1>1, LastQuestionNumberType
<1>3. \A i \in DOMAIN l : l[i].num <= LastQuestionNumber(l, least)
  BY <1>1, <1>2, NumbersType
<1>4. Len(l) \in Nat /\ DOMAIN l = 1..Len(l)
  OBVIOUS
<1>5. Ongoing(l, least, Len(l))
  BY <1>3, <1>4 DEF Ongoing, WellKeptFrom, AllValid
<1>6. WellKept(l) => Ongoing(l, least, 0)
  BY <1>3, <1>4 DEF Ongoing, WellKept
<1> QED
  BY <1>1, <1>5, <1>6 DEF least

-----------------------------------------------------------------------------
(* The pairs of a transcript. *)

\* A pair of a question and its answers.
QA == [num : Nat \ {0}, parent : Nat, type : {"MAIN", "TAIL"},
       question : Seq(Nat), answer : Seq(Nat)]

\* Numbers grow.
Rising(pairs) == \A i, j \in DOMAIN pairs : i < j => pairs[i].num < pairs[j].num

\* What sorting leaves of a set of numbers is the set.
LEMMA OrderedHasAll ==
    ASSUME NEW b \in Nat, NEW S, S \subseteq 0..b
    PROVE  /\ IsOrdered(Ordered(S), S)
           /\ Ordered(S) \in Seq(Nat)
           /\ ToSet(Ordered(S)) = S
           /\ Ordered(S) = <<>> <=> S = {}
<1> DEFINE s == Ordered(S)
<1>1. IsFiniteSet(S) /\ S \subseteq Int
  BY BoundedIsFinite
<1>2. IsOrdered(s, S)
  BY <1>1, OrderedIsOrdered
<1> HIDE DEF s
<1>3. s \in Seq(S) /\ \A x \in S : \E k \in 1..Len(s) : s[k] = x
  BY <1>2 DEF IsOrdered
<1>4. S \subseteq Nat
  OBVIOUS
<1>5. Len(s) \in Nat /\ DOMAIN s = 1..Len(s) /\ \A k \in 1..Len(s) : s[k] \in S
  BY <1>3
<1>6. s \in Seq(Nat)
  <2> DEFINE n == Len(s)
  <2>1. s = [k \in 1..n |-> s[k]]
    BY <1>3
  <2>2. s \in [1..n -> Nat]
    BY <1>4, <1>5, <2>1
  <2>3. n \in Nat
    BY <1>5
  <2> HIDE DEF n
  <2> QED BY <2>2, <2>3, FunctionIsSeq
<1>7. ToSet(s) = S
  BY <1>3, <1>5 DEF ToSet
<1>8. s = <<>> <=> S = {}
  <2>1. s = <<>> => Len(s) = 0
    BY <1>3
  <2>2. S = {} => s = <<>>
    BY <1>3
  <2> QED BY <1>3, <2>1, <2>2
<1> QED
  BY <1>2, <1>6, <1>7, <1>8 DEF s

\* The utterances of a number, the first of them, and whether one is in a pair.
Group(log, n) == {i \in Numbered(log) : log[i].num = n}
First(log, n) == log[Min(Group(log, n))]
Holds(pair, i) == i \in ToSet(pair.question) \cup ToSet(pair.answer)

\* What a pair is of its number.
IsPairOf(pair, log, n) ==
    /\ pair.num = n /\ pair.parent = First(log, n).parent
    /\ pair.type = QuestionType(First(log, n))
    /\ pair.question = Ordered({i \in Group(log, n) : IsQuestion(log[i])})
    /\ pair.answer = Ordered({i \in Group(log, n) : IsAnswer(log[i])})
    /\ Group(log, n) # {}

LEMMA GroupUtterancesIs ==
    ASSUME NEW log \in Seq(Utterance)
    PROVE  /\ GroupUtterances(log) \in Seq(QA)
           /\ Rising(GroupUtterances(log))
           /\ \A k \in DOMAIN GroupUtterances(log) :
                 IsPairOf(GroupUtterances(log)[k], log, GroupUtterances(log)[k].num)
           /\ \A i \in Numbered(log) : \E k \in DOMAIN GroupUtterances(log) :
                 GroupUtterances(log)[k].num = log[i].num
<1> DEFINE group(n) == {i \in Numbered(log) : log[i].num = n}
           first(n) == log[Min(group(n))]
           Pair(n)  == [num      |-> n,
                        parent   |-> first(n).parent,
                        type     |-> QuestionType(first(n)),
                        question |-> Ordered({i \in group(n) : IsQuestion(log[i])}),
                        answer   |-> Ordered({i \in group(n) : IsAnswer(log[i])})]
           N == {log[i].num : i \in Numbered(log)}
           numbers == Ordered(N)
           pairs == GroupUtterances(log)
<1>1. Len(log) \in Nat /\ DOMAIN log = 1..Len(log) /\ \A i \in DOMAIN log : log[i] \in Utterance
  OBVIOUS
<1>2. \E b \in Nat : N \subseteq 0..b
  <2> DEFINE f == [i \in 1..Len(log) |-> log[i].num]
             n == Len(log)
  <2>1. f \in [1..n -> Nat]
    BY <1>1 DEF Utterance
  <2>2. n \in Nat
    BY <1>1
  <2>3. \A i \in 1..n : f[i] = log[i].num
    OBVIOUS
  <2> HIDE DEF f, n
  <2>4. PICK b \in Nat : \A i \in 1..n : f[i] <= b
    BY <2>1, <2>2, FiniteFunctionIsBounded
  <2>5. ASSUME NEW i \in Numbered(log) PROVE log[i].num \in 0..b
    <3>1. i \in 1..n
      BY <1>1 DEF Numbered, n
    <3>2. f[i] \in Nat /\ f[i] =< b /\ log[i].num = f[i]
      BY <2>1, <2>3, <2>4, <3>1
    <3> QED BY <3>2
  <2> QED BY <2>5
<1>3. PICK b \in Nat : N \subseteq 0..b
  BY <1>2
<1>4. pairs = [k \in DOMAIN numbers |-> Pair(numbers[k])]
  BY DEF GroupUtterances
<1>5. IsOrdered(numbers, N)
  BY <1>3, OrderedHasAll
<1>6. \A n \in N : n \in Nat \ {0}
  <2>1. \A i \in Numbered(log) : log[i].num # 0 /\ log[i].num \in Nat
    BY <1>1 DEF Numbered, Utterance
  <2> QED BY <2>1
<1>7. ASSUME NEW n \in N PROVE Pair(n) \in QA /\ IsPairOf(Pair(n), log, n)
  <2>1. group(n) = Group(log, n)
    BY DEF Group
  <2>2. Group(log, n) # {} /\ Group(log, n) \subseteq DOMAIN log
    BY DEF Group, Numbered
  <2>3. Min(Group(log, n)) \in DOMAIN log
    <3>1. Group(log, n) \subseteq Nat
      BY <1>1, <2>2
    <3> QED BY <2>2, <3>1, MinIsLeast
  <2>4. first(n) = First(log, n) /\ first(n) \in Utterance
    BY <1>1, <2>1, <2>3 DEF First
  <2>5. first(n).parent \in Nat /\ QuestionType(first(n)) \in {"MAIN", "TAIL"}
    BY <2>4 DEF Utterance, QuestionType
  <2> DEFINE Q == {i \in group(n) : IsQuestion(log[i])}
             A == {i \in group(n) : IsAnswer(log[i])}
  <2>6. Q \subseteq 0..Len(log) /\ A \subseteq 0..Len(log)
    BY <1>1, <2>1, <2>2
  <2>7. Ordered(Q) \in Seq(Nat) /\ Ordered(A) \in Seq(Nat)
    BY <1>1, <2>6, OrderedHasAll
  <2>8. Pair(n) \in QA
    BY <1>6, <2>5, <2>7 DEF QA
  <2>9. IsPairOf(Pair(n), log, n)
    BY <2>1, <2>2, <2>4 DEF IsPairOf
  <2> QED BY <2>8, <2>9
<1>8. \A n : Pair(n).num = n
  OBVIOUS
<1> HIDE DEF N, numbers, Pair, pairs
<1>9. /\ Len(numbers) \in Nat /\ DOMAIN numbers = 1..Len(numbers)
      /\ \A k \in 1..Len(numbers) : numbers[k] \in N
      /\ \A i, j \in 1..Len(numbers) : i < j => numbers[i] < numbers[j]
      /\ \A x \in N : \E k \in 1..Len(numbers) : numbers[k] = x
  BY <1>5 DEF IsOrdered
<1>10. /\ DOMAIN pairs = DOMAIN numbers
       /\ \A k \in DOMAIN numbers : pairs[k] = Pair(numbers[k])
  BY <1>4
<1>11. pairs \in Seq(QA)
  <2> DEFINE F(k) == Pair(numbers[k])
             n == Len(numbers)
  <2>1. pairs = [k \in 1..n |-> F(k)] /\ \A k \in 1..n : F(k) \in QA
    BY <1>4, <1>7, <1>9
  <2>2. n \in Nat
    BY <1>9
  <2> HIDE DEF F, n
  <2> QED BY <2>1, <2>2, FunctionIsSeq
<1>12. Rising(pairs)
  BY <1>8, <1>9, <1>10 DEF Rising
<1>13. \A k \in DOMAIN pairs : IsPairOf(pairs[k], log, pairs[k].num)
  BY <1>7, <1>8, <1>9, <1>10
<1>14. \A i \in Numbered(log) : \E k \in DOMAIN pairs : pairs[k].num = log[i].num
  <2>1. \A i \in Numbered(log) : log[i].num \in N
    BY DEF N
  <2> QED BY <1>8, <1>9, <1>10, <2>1
<1> QED
  BY <1>11, <1>12, <1>13, <1>14 DEF pairs

\* An utterance is in the pair of its number and in no other.
LEMMA GroupsHaveAll ==
    ASSUME NEW log \in Seq(Utterance), AllValid(log), NEW i \in Numbered(log)
    PROVE  LET pairs == GroupUtterances(log) IN
           {pairs[k].num : k \in {j \in DOMAIN pairs : Holds(pairs[j], i)}} = {log[i].num}
<1> DEFINE pairs == GroupUtterances(log)
<1>1. /\ \A k \in DOMAIN pairs : IsPairOf(pairs[k], log, pairs[k].num)
      /\ \E k \in DOMAIN pairs : pairs[k].num = log[i].num
  BY GroupUtterancesIs
<1> HIDE DEF pairs
<1>2. ASSUME NEW k \in DOMAIN pairs
      PROVE  Holds(pairs[k], i) <=> pairs[k].num = log[i].num
  <2> DEFINE n == pairs[k].num
             Q == {j \in Group(log, n) : IsQuestion(log[j])}
             A == {j \in Group(log, n) : IsAnswer(log[j])}
  <2>1. pairs[k].question = Ordered(Q) /\ pairs[k].answer = Ordered(A)
    BY <1>1 DEF IsPairOf
  <2>2. Len(log) \in Nat /\ Q \subseteq 0..Len(log) /\ A \subseteq 0..Len(log)
    BY DEF Group, Numbered
  <2>3. ToSet(Ordered(Q)) = Q /\ ToSet(Ordered(A)) = A
    BY <2>2, OrderedHasAll
  <2>4. Holds(pairs[k], i) <=> i \in Q \/ i \in A
    BY <2>1, <2>3 DEF Holds
  <2>5. IsQuestion(log[i]) \/ IsAnswer(log[i])
    <3>1. i \in DOMAIN log /\ log[i] \in Utterance /\ log[i].num # 0
      BY DEF Numbered
    <3>2. log[i].type # "CLOSING"
      BY <3>1 DEF AllValid, ValidUtterance
    <3> QED BY <3>1, <3>2 DEF Utterance, IsQuestion, IsAnswer
  <2> QED BY <2>4, <2>5 DEF Group
<1> QED
  BY <1>1, <1>2 DEF pairs

\* A question that is not lost is the first of its number: its branch and type are the
\* pair's.
LEMMA QuestionsLead ==
    ASSUME NEW log \in Seq(Utterance), WellKept(log),
           NEW k \in DOMAIN GroupUtterances(log),
           GroupUtterances(log)[k].question # <<>>
    PROVE  \E q \in DOMAIN log :
              /\ IsQuestion(log[q]) /\ log[q].num = GroupUtterances(log)[k].num
              /\ GroupUtterances(log)[k].parent = log[q].parent
              /\ GroupUtterances(log)[k].type = "MAIN" <=> log[q].type # "FOLLOW_UP"
<1> DEFINE pair == GroupUtterances(log)[k]
           n == pair.num
           Q == {j \in Group(log, n) : IsQuestion(log[j])}
<1>1. IsPairOf(pair, log, n)
  BY GroupUtterancesIs
<1>2. Len(log) \in Nat /\ DOMAIN log = 1..Len(log)
  OBVIOUS
<1>3. Q \subseteq 0..Len(log) /\ Group(log, n) \subseteq Nat
  BY <1>2 DEF Group, Numbered
<1>4. pair.question = Ordered(Q)
  BY <1>1 DEF IsPairOf
<1>5. Q # {}
  <2>1. Ordered(Q) = <<>> <=> Q = {}
    BY <1>2, <1>3, OrderedHasAll
  <2> QED BY <1>4, <2>1
<1> HIDE DEF pair
<1>6. PICK q \in Group(log, n) : IsQuestion(log[q])
  BY <1>5
<1>7. q \in DOMAIN log /\ log[q].num = n /\ log[q] \in Utterance
  BY <1>6 DEF Group, Numbered
<1>8. Min(Group(log, n)) \in Group(log, n) /\ Min(Group(log, n)) =< q
  BY <1>3, <1>6, MinIsLeast
<1>9. Min(Group(log, n)) = q
  <2> DEFINE m == Min(Group(log, n))
  <2>1. m \in DOMAIN log /\ log[m].num = n
    BY <1>8 DEF Group, Numbered
  <2>2. m < q => log[m].num < log[q].num
    BY <1>6, <1>7, <2>1, WellKeptIs
  <2>3. log[q].num \in Nat
    BY <1>7 DEF Utterance
  <2> HIDE DEF m
  <2>4. ~(m < q)
    BY <1>7, <2>1, <2>2, <2>3
  <2>5. m =< q
    BY <1>8 DEF m
  <2>6. m = q
    BY <1>2, <1>7, <2>1, <2>4, <2>5
  <2> QED BY <2>6 DEF m
<1>10. pair.parent = log[q].parent /\ pair.type = QuestionType(log[q])
  BY <1>1, <1>9 DEF IsPairOf, First
<1> QED
  BY <1>6, <1>7, <1>10 DEF QuestionType, pair

-----------------------------------------------------------------------------
(* The topics of the pairs. *)

\* The order of the pairs that are sent: by branch, then by number.
Precedes(a, b) ==
    \/ a.parent < b.parent
    \/ a.parent = b.parent /\ a.num < b.num

InterviewOrder(s) == \A i, j \in DOMAIN s : i < j => Precedes(s[i], s[j])

\* What of the parents up to the i-th is sent, is sent in order.
IsSent(h, pairs, parents, i) ==
    /\ h \in Seq(QA) /\ InterviewOrder(h)
    /\ \A k \in DOMAIN h :
          /\ \E p \in DOMAIN pairs : h[k] = pairs[p]
          /\ \E t \in 1..i : h[k].parent = parents[t]
    /\ \A p \in DOMAIN pairs, t \in 1..i :
          pairs[p].parent = parents[t] => \E k \in DOMAIN h : h[k] = pairs[p]

\* A topic is the pairs of one branch, in order.
IsTopic(topic, pairs, parent) ==
    /\ topic \in Seq(QA) /\ topic # <<>> /\ InterviewOrder(topic)
    /\ \A k \in DOMAIN topic : topic[k].parent = parent
                               /\ \E p \in DOMAIN pairs : topic[k] = pairs[p]
    /\ \A p \in DOMAIN pairs : pairs[p].parent = parent => \E k \in DOMAIN topic : topic[k] = pairs[p]

LEMMA KeptIsTopic ==
    ASSUME NEW pairs \in Seq(QA), Rising(pairs), NEW p \in DOMAIN pairs, NEW parent,
           pairs[p].parent = parent
    PROVE  IsTopic(Kept(pairs, {k \in DOMAIN pairs : pairs[k].parent = parent}), pairs, parent)
<1> DEFINE P == {k \in DOMAIN pairs : pairs[k].parent = parent}
           topic == Kept(pairs, P)
<1>1. P \subseteq 1..Len(pairs) /\ DOMAIN pairs = 1..Len(pairs) /\ p \in P
  OBVIOUS
<1>2. topic \in Seq(QA) /\ \E order : IsKept(topic, pairs, P, order)
  <2> HIDE DEF P
  <2> QED BY <1>1, KeptIsKept
<1>3. PICK order : IsKept(topic, pairs, P, order)
  BY <1>2
<1> HIDE DEF topic
<1>4. /\ Len(topic) = Len(order) /\ order \in Seq(P)
      /\ \A x \in P : \E k \in 1..Len(order) : order[k] = x
      /\ \A i, j \in 1..Len(order) : i < j => order[i] < order[j]
      /\ \A k \in 1..Len(order) : topic[k] = pairs[order[k]]
  BY <1>3 DEF IsKept, IsOrdered
<1>5. /\ DOMAIN topic = 1..Len(order)
      /\ \A k \in 1..Len(order) : order[k] \in P
  BY <1>2, <1>4
<1>6. topic # <<>>
  <2>1. PICK k \in 1..Len(order) : order[k] = p
    BY <1>1, <1>4
  <2>2. DOMAIN topic # {}
    BY <1>5, <2>1
  <2> QED BY <2>2
<1>7. \A k \in DOMAIN topic : topic[k].parent = parent /\ \E r \in DOMAIN pairs : topic[k] = pairs[r]
  BY <1>4, <1>5
<1>8. \A r \in DOMAIN pairs : pairs[r].parent = parent => \E k \in DOMAIN topic : topic[k] = pairs[r]
  <2> SUFFICES ASSUME NEW r \in DOMAIN pairs, pairs[r].parent = parent
               PROVE  \E k \in DOMAIN topic : topic[k] = pairs[r]
    OBVIOUS
  <2>1. PICK k \in 1..Len(order) : order[k] = r
    BY <1>4
  <2> QED BY <1>4, <1>5, <2>1
<1>9. InterviewOrder(topic)
  <2> SUFFICES ASSUME NEW i \in DOMAIN topic, NEW j \in DOMAIN topic, i < j
               PROVE  Precedes(topic[i], topic[j])
    BY DEF InterviewOrder
  <2>1. order[i] \in P /\ order[j] \in P /\ order[i] < order[j]
    BY <1>4, <1>5
  <2>2. pairs[order[i]].num < pairs[order[j]].num
    BY <2>1 DEF Rising
  <2> QED BY <1>4, <1>5, <2>1, <2>2 DEF Precedes
<1> QED
  BY <1>2, <1>6, <1>7, <1>8, <1>9 DEF IsTopic, topic

\* The branches, in their order, and their topics.
AreTopics(topics, pairs, parents) ==
    /\ parents \in Seq(Nat) /\ Len(topics) = Len(parents)
    /\ topics \in Seq(Seq(QA))
    /\ \A i, j \in DOMAIN parents : i < j => parents[i] < parents[j]
    /\ \A t \in DOMAIN parents : IsTopic(topics[t], pairs, parents[t])
    /\ \A p \in DOMAIN pairs : \E t \in DOMAIN parents : parents[t] = pairs[p].parent

LEMMA GroupTopicsIs ==
    ASSUME NEW pairs \in Seq(QA), Rising(pairs)
    PROVE  \E parents : AreTopics(GroupTopics(pairs), pairs, parents)
<1> DEFINE P == {pairs[k].parent : k \in DOMAIN pairs}
           parents == Ordered(P)
           topics == GroupTopics(pairs)
           T(t) == Kept(pairs, {k \in DOMAIN pairs : pairs[k].parent = parents[t]})
           n == Len(parents)
<1>1. Len(pairs) \in Nat /\ DOMAIN pairs = 1..Len(pairs) /\ \A k \in DOMAIN pairs : pairs[k] \in QA
  OBVIOUS
<1>2. PICK b \in Nat : P \subseteq 0..b
  <2> DEFINE f == [k \in 1..Len(pairs) |-> pairs[k].parent]
             m == Len(pairs)
  <2>1. f \in [1..m -> Nat] /\ m \in Nat
    BY <1>1 DEF QA
  <2>2. \A k \in 1..m : f[k] = pairs[k].parent
    OBVIOUS
  <2> HIDE DEF f, m
  <2>3. PICK b \in Nat : \A k \in 1..m : f[k] <= b
    BY <2>1, FiniteFunctionIsBounded
  <2>4. \A k \in DOMAIN pairs : pairs[k].parent \in 0..b
    <3>1. \A k \in 1..m : f[k] \in Nat
      BY <2>1
    <3>2. DOMAIN pairs = 1..m
      BY <1>1 DEF m
    <3> QED BY <2>2, <2>3, <3>1, <3>2
  <2>5. P \subseteq 0..b
    BY <2>4
  <2> QED BY <2>5
<1>3. IsOrdered(parents, P) /\ parents \in Seq(Nat)
  <2> HIDE DEF P
  <2> QED BY <1>2, OrderedHasAll
<1>4. topics = [t \in DOMAIN parents |-> T(t)]
  BY DEF GroupTopics
<1> HIDE DEF parents
<1>5. /\ n \in Nat /\ DOMAIN parents = 1..n
      /\ \A t \in 1..n : parents[t] \in P
      /\ \A i, j \in 1..n : i < j => parents[i] < parents[j]
      /\ \A x \in P : \E t \in 1..n : parents[t] = x
  <2> HIDE DEF P
  <2>1. parents \in Seq(P)
    BY <1>3 DEF IsOrdered
  <2>2. n \in Nat /\ DOMAIN parents = 1..n /\ \A t \in 1..n : parents[t] \in P
    BY <2>1
  <2> QED BY <1>3, <2>2 DEF IsOrdered
<1>6. ASSUME NEW t \in 1..n PROVE IsTopic(T(t), pairs, parents[t])
  <2>1. PICK p \in DOMAIN pairs : pairs[p].parent = parents[t]
    BY <1>5
  <2> QED BY <2>1, KeptIsTopic
<1> HIDE DEF T
<1>7. topics \in Seq(Seq(QA)) /\ Len(topics) = n
  <2> DEFINE X == Seq(QA)
  <2>1. \A t \in 1..n : T(t) \in X
    BY <1>6 DEF IsTopic
  <2>2. topics \in [1..n -> X]
    BY <1>4, <1>5, <2>1
  <2> HIDE DEF n, X, topics
  <2>3. topics \in Seq(X) /\ Len(topics) = n
    BY <1>5, <2>2, FunctionIsSeq
  <2> QED BY <2>3 DEF X
<1>8. \A t \in 1..n : IsTopic(topics[t], pairs, parents[t])
  BY <1>4, <1>5, <1>6
<1>9. \A p \in DOMAIN pairs : \E t \in 1..n : parents[t] = pairs[p].parent
  BY <1>5
<1>10. AreTopics(topics, pairs, parents)
  BY <1>3, <1>5, <1>7, <1>8, <1>9 DEF AreTopics
<1> QED
  BY <1>10

\* One topic more is sent.
LEMMA OneTopicMore ==
    ASSUME NEW pairs \in Seq(QA), NEW parents \in Seq(Nat), NEW i \in 1..Len(parents),
           \A s, t \in DOMAIN parents : s < t => parents[s] < parents[t],
           NEW h, IsSent(h, pairs, parents, i - 1),
           NEW topic, IsTopic(topic, pairs, parents[i])
    PROVE  IsSent(h \o topic, pairs, parents, i)
<1> DEFINE g == h \o topic
           m == Len(h)
           n == Len(topic)
<1>1. h \in Seq(QA) /\ topic \in Seq(QA)
  BY DEF IsSent, IsTopic
<1>2. /\ g \in Seq(QA) /\ Len(g) = m + n /\ m \in Nat /\ n \in Nat
      /\ DOMAIN h = 1..m /\ DOMAIN topic = 1..n /\ DOMAIN g = 1 .. m + n
      /\ \A k \in 1..m : g[k] = h[k]
      /\ \A k \in 1..n : g[m + k] = topic[k]
  <2>1. g \in Seq(QA) /\ Len(g) = m + n /\ m \in Nat /\ n \in Nat
    BY ONLY <1>1
  <2>2. DOMAIN h = 1..m /\ DOMAIN topic = 1..n
    BY ONLY <1>1
  <2>3. DOMAIN g = 1 .. m + n
    <3> HIDE DEF g, m, n
    <3> QED BY ONLY <2>1
  <2>4. \A k \in 1..m : g[k] = h[k]
    BY ONLY <1>1
  <2>5. \A k \in 1..n : g[m + k] = topic[k]
    BY ONLY <1>1
  <2> QED BY <2>1, <2>2, <2>3, <2>4, <2>5, Zenon
<1> HIDE DEF g
<1>3. ASSUME NEW k \in 1 .. m + n
      PROVE  \/ k \in 1..m
             \/ /\ k - m \in 1..n /\ k > m
                /\ g[k] = topic[k - m]
  <2>1. k \notin 1..m => k - m \in 1..n /\ k > m /\ m + (k - m) = k
    BY <1>2
  <2>2. k - m \in 1..n => g[m + (k - m)] = topic[k - m]
    BY <1>2
  <2> QED BY <2>1, <2>2
<1>4. /\ i \in Nat /\ 1..i = (1 .. i - 1) \cup {i} /\ DOMAIN parents = 1..Len(parents)
      /\ \A t \in 1 .. i - 1 : t < i /\ t \in DOMAIN parents
  OBVIOUS
<1>5. InterviewOrder(g)
  <2> SUFFICES ASSUME NEW a \in 1 .. m + n, NEW b \in 1 .. m + n, a < b
               PROVE  Precedes(g[a], g[b])
    BY <1>2 DEF InterviewOrder
  <2>1. CASE b \in 1..m
    <3>1. a \in 1..m
      BY <1>2, <2>1
    <3> QED BY <1>2, <2>1, <3>1 DEF IsSent, InterviewOrder
  <2>2. CASE a \in 1..m /\ b \notin 1..m
    <3>1. b - m \in 1..n /\ g[b] = topic[b - m] /\ g[a] = h[a]
      BY <1>2, <1>3, <2>2
    <3>2. g[b].parent = parents[i]
      <4>1. topic[b - m].parent = parents[i]
        BY <1>2, <3>1 DEF IsTopic
      <4> QED BY <3>1, <4>1
    <3>3. PICK t \in 1 .. i - 1 : h[a].parent = parents[t]
      BY <1>2, <2>2 DEF IsSent
    <3>4. parents[t] < parents[i]
      BY <1>4
    <3> QED BY <3>1, <3>2, <3>3, <3>4 DEF Precedes
  <2>3. CASE a \notin 1..m /\ b \notin 1..m
    <3>1. /\ a - m \in 1..n /\ g[a] = topic[a - m]
          /\ b - m \in 1..n /\ g[b] = topic[b - m]
      BY <1>3, <2>3
    <3>2. a - m < b - m
      BY <1>2
    <3>3. Precedes(topic[a - m], topic[b - m])
      BY <1>2, <3>1, <3>2 DEF IsTopic, InterviewOrder
    <3> QED BY <3>1, <3>3
  <2>4. a \in 1..m \/ a \notin 1..m
    OBVIOUS
  <2> QED BY <1>2, <2>1, <2>2, <2>3
<1>6. ASSUME NEW k \in 1 .. m + n
      PROVE  /\ \E p \in DOMAIN pairs : g[k] = pairs[p]
             /\ \E t \in 1..i : g[k].parent = parents[t]
  <2>1. CASE k \in 1..m
    <3>1. /\ \E p \in DOMAIN pairs : h[k] = pairs[p]
          /\ \E t \in 1 .. i - 1 : h[k].parent = parents[t]
      BY <1>2, <2>1 DEF IsSent
    <3> QED BY <1>2, <1>4, <2>1, <3>1
  <2>2. CASE k - m \in 1..n /\ g[k] = topic[k - m]
    <3>1. topic[k - m].parent = parents[i] /\ \E p \in DOMAIN pairs : topic[k - m] = pairs[p]
      BY <1>2, <2>2 DEF IsTopic
    <3> QED BY <1>4, <2>2, <3>1
  <2> QED BY <1>3, <2>1, <2>2
<1>7. ASSUME NEW p \in DOMAIN pairs, NEW t \in 1..i, pairs[p].parent = parents[t]
      PROVE  \E k \in 1 .. m + n : g[k] = pairs[p]
  <2>1. CASE t \in 1 .. i - 1
    <3>1. PICK k \in 1..m : h[k] = pairs[p]
      BY <1>2, <1>7, <2>1 DEF IsSent
    <3>2. k \in 1 .. m + n
      BY <1>2
    <3> QED BY <1>2, <3>1, <3>2
  <2>2. CASE t = i
    <3>1. PICK k \in 1..n : topic[k] = pairs[p]
      BY <1>2, <1>7, <2>2 DEF IsTopic
    <3>2. m + k \in 1 .. m + n
      BY <1>2
    <3> QED BY <1>2, <3>1, <3>2
  <2> QED BY <1>4, <2>1, <2>2
<1> QED
  BY <1>2, <1>5, <1>6, <1>7 DEF IsSent, g

\* All of the topics.
LEMMA SentIsSent ==
    ASSUME NEW pairs \in Seq(QA), NEW topics, NEW parents, AreTopics(topics, pairs, parents)
    PROVE  IsSent(FlattenSeq(topics), pairs, parents, Len(parents))
<1> DEFINE n == Len(topics)
<1>1. /\ topics \in Seq(Seq(QA)) /\ parents \in Seq(Nat) /\ Len(parents) = n /\ n \in Nat
      /\ DOMAIN parents = 1..n
      /\ \A s, t \in DOMAIN parents : s < t => parents[s] < parents[t]
      /\ \A t \in 1..n : IsTopic(topics[t], pairs, parents[t])
  <2>1. /\ topics \in Seq(Seq(QA)) /\ parents \in Seq(Nat) /\ Len(topics) = Len(parents)
        /\ \A s, t \in DOMAIN parents : s < t => parents[s] < parents[t]
        /\ \A t \in DOMAIN parents : IsTopic(topics[t], pairs, parents[t])
    BY Zenon DEF AreTopics
  <2>2. n \in Nat /\ Len(parents) = n /\ DOMAIN parents = 1..n
    BY <2>1
  <2> HIDE DEF n
  <2> QED BY <2>1, <2>2, Zenon
<1>2. PICK h \in [0..n -> Seq(QA)] :
          /\ h[0] = <<>>
          /\ \A i \in 1..n : h[i] = h[i - 1] \o topics[i]
          /\ FlattenSeq(topics) = h[n]
  BY <1>1, FlattenPrefixes
<1> DEFINE S == {i \in 0..n : IsSent(h[i], pairs, parents, i)}
<1>3. 0 \in S
  <2>1. IsSent(<<>>, pairs, parents, 0)
    BY DEF IsSent, InterviewOrder
  <2> QED BY <1>1, <1>2, <2>1
<1>4. ASSUME NEW i \in 1..n, i - 1 \in S PROVE i \in S
  <2>1. IsSent(h[i - 1], pairs, parents, i - 1) /\ i \in 1..Len(parents) /\ i \in 0..n
    BY <1>1, <1>4
  <2>2. IsSent(h[i - 1] \o topics[i], pairs, parents, i)
    <3> HIDE DEF S, n
    <3> QED BY <1>1, <2>1, OneTopicMore
  <2> QED BY <1>2, <2>1, <2>2
<1>5. \A i \in 0..n : i \in S
  <2> HIDE DEF S, n
  <2> QED BY <1>1, <1>3, <1>4, PrefixInduction
<1>6. n \in S
  BY <1>1, <1>5
<1> QED
  BY <1>1, <1>2, <1>6

\* Everything is sent, in order.
LEMMA SentIsAll ==
    ASSUME NEW pairs \in Seq(QA), Rising(pairs)
    PROVE  /\ FlattenSeq(GroupTopics(pairs)) \in Seq(QA)
           /\ InterviewOrder(FlattenSeq(GroupTopics(pairs)))
           /\ ToSet(FlattenSeq(GroupTopics(pairs))) = ToSet(pairs)
<1> DEFINE sent == FlattenSeq(GroupTopics(pairs))
<1>1. PICK parents : AreTopics(GroupTopics(pairs), pairs, parents)
  BY GroupTopicsIs
<1>2. IsSent(sent, pairs, parents, Len(parents))
  BY <1>1, SentIsSent
<1> HIDE DEF sent
<1>3. \A p \in DOMAIN pairs : \E t \in 1..Len(parents) : pairs[p].parent = parents[t]
  BY <1>1 DEF AreTopics
<1>4. /\ \A k \in DOMAIN sent : \E p \in DOMAIN pairs : sent[k] = pairs[p]
      /\ \A p \in DOMAIN pairs : \E k \in DOMAIN sent : sent[k] = pairs[p]
  BY <1>2, <1>3 DEF IsSent
<1>5. ToSet(sent) = ToSet(pairs)
  BY <1>4 DEF ToSet
<1> QED
  BY <1>2, <1>5 DEF IsSent, sent

\* No element twice.
Apart(s) == \A i, j \in DOMAIN s : i # j => s[i] # s[j]

LEMMA InOrderIsApart ==
    ASSUME NEW s \in Seq(QA)
    PROVE  (InterviewOrder(s) => Apart(s)) /\ (Rising(s) => Apart(s))
<1>1. \A i \in DOMAIN s : i \in Nat /\ s[i].parent \in Nat /\ s[i].num \in Nat
  <2>1. \A i \in DOMAIN s : i \in Nat /\ s[i] \in QA
    OBVIOUS
  <2> QED BY <2>1 DEF QA
<1>2. \A i, j \in DOMAIN s : i # j => i < j \/ j < i
  BY <1>1
<1>3. \A i, j \in DOMAIN s : Precedes(s[i], s[j]) => s[i] # s[j]
  BY <1>1 DEF Precedes
<1>4. \A i, j \in DOMAIN s : s[i].num < s[j].num => s[i] # s[j]
  BY <1>1
<1>5. InterviewOrder(s) => Apart(s)
  BY <1>2, <1>3 DEF InterviewOrder, Apart
<1>6. Rising(s) => Apart(s)
  BY <1>2, <1>4 DEF Rising, Apart
<1> QED
  BY <1>5, <1>6

\* As many elements as places.
LEMMA ApartCounts ==
    ASSUME NEW X, NEW s \in Seq(X), Apart(s)
    PROVE  Cardinality(ToSet(s)) = Len(s)
<1> DEFINE n == Len(s)
           P == 1..n
           T == ToSet(s)
<1>1. n \in Nat /\ DOMAIN s = P
  OBVIOUS
<1>2. IsFiniteSet(P) /\ Cardinality(P) = n
  BY <1>1, FS_Interval
<1>3. s \in Bijection(P, T)
  <2>1. s \in [P -> T] /\ \A t \in T : \E k \in P : s[k] = t
    BY <1>1 DEF ToSet
  <2> HIDE DEF P, T
  <2>2. \A i, j \in P : s[i] = s[j] => i = j
    BY <1>1 DEF Apart
  <2> QED BY <1>1, <2>1, <2>2 DEF Bijection, Injection, Surjection, IsInjective
<1> HIDE DEF P, T
<1>4. Cardinality(T) = Cardinality(P)
  BY <1>2, <1>3, FS_Bijection DEF ExistsBijection
<1> QED
  BY <1>2, <1>4 DEF T

\* There is one order.
LEMMA OneOrder ==
    ASSUME NEW s \in Seq(QA), NEW t \in Seq(QA), InterviewOrder(s), InterviewOrder(t),
           ToSet(s) = ToSet(t), Len(s) = Len(t)
    PROVE  s = t
<1> DEFINE n == Len(s)
           D == {k \in 1..n : s[k] # t[k]}
<1>1. n \in Nat /\ DOMAIN s = 1..n /\ DOMAIN t = 1..n /\ \A k \in 1..n : s[k] \in QA /\ t[k] \in QA
  OBVIOUS
<1>2. SUFFICES ASSUME D # {} PROVE FALSE
  <2>1. D = {} => \A k \in 1..n : s[k] = t[k]
    OBVIOUS
  <2>2. s = [k \in 1..n |-> s[k]] /\ t = [k \in 1..n |-> t[k]]
    BY <1>1
  <2> HIDE DEF n, D
  <2> QED BY <2>1, <2>2
<1>3. PICK d \in D : \A k \in D : d =< k
  <2>1. D \subseteq Nat
    OBVIOUS
  <2> HIDE DEF D
  <2> QED BY <1>2, <2>1, LeastElement
<1>4. d \in 1..n /\ s[d] # t[d] /\ \A k \in 1..n : k < d => s[k] = t[k]
  BY <1>3
<1>5. \A x \in QA, y \in QA : ~(Precedes(x, y) /\ Precedes(y, x))
  <2>1. \A x \in QA : x.parent \in Nat /\ x.num \in Nat
    BY DEF QA
  <2> QED BY <2>1 DEF Precedes
<1>6. \A k \in 1..n : k \in Nat /\ (k < d \/ k = d \/ d < k)
  BY <1>4
<1>7. PICK i \in 1..n : t[i] = s[d]
  BY <1>1, <1>4 DEF ToSet
<1>8. PICK j \in 1..n : s[j] = t[d]
  BY <1>1, <1>4 DEF ToSet
<1> HIDE DEF n, D
<1>9. Precedes(t[d], s[d])
  <2>1. ~(i < d)
    BY <1>1, <1>4, <1>5, <1>7 DEF InterviewOrder
  <2> QED BY <1>1, <1>4, <1>6, <1>7, <2>1 DEF InterviewOrder
<1>10. Precedes(s[d], t[d])
  <2>1. ~(j < d)
    BY <1>1, <1>4, <1>5, <1>8 DEF InterviewOrder
  <2> QED BY <1>1, <1>4, <1>6, <1>8, <2>1 DEF InterviewOrder
<1>11. s[d] \in QA /\ t[d] \in QA
  BY <1>1, <1>4
<1> QED
  BY <1>5, <1>9, <1>10, <1>11

\* With every question there, the pairs stand in the order of the topics.
LEMMA WholeIsInOrder ==
    ASSUME NEW log \in Seq(Utterance), WellKept(log), IsWhole(GroupUtterances(log))
    PROVE  InterviewOrder(GroupUtterances(log))
<1> DEFINE pairs == GroupUtterances(log)
<1>1. pairs \in Seq(QA) /\ Rising(pairs)
  BY GroupUtterancesIs
<1>2. \A k \in DOMAIN pairs : \E q \in DOMAIN log :
          IsQuestion(log[q]) /\ log[q].num = pairs[k].num /\ pairs[k].parent = log[q].parent
  BY QuestionsLead DEF IsWhole
<1> HIDE DEF pairs
<1> SUFFICES ASSUME NEW i \in DOMAIN pairs, NEW j \in DOMAIN pairs, i < j
             PROVE  Precedes(pairs[i], pairs[j])
  BY DEF InterviewOrder, pairs
<1>3. pairs[i].num < pairs[j].num
  BY <1>1 DEF Rising
<1>4. PICK p \in DOMAIN log :
          IsQuestion(log[p]) /\ log[p].num = pairs[i].num /\ pairs[i].parent = log[p].parent
  BY <1>2
<1>5. PICK q \in DOMAIN log :
          IsQuestion(log[q]) /\ log[q].num = pairs[j].num /\ pairs[j].parent = log[q].parent
  BY <1>2
<1>6. /\ log[p].num \in Nat /\ log[q].num \in Nat /\ log[p].parent \in Nat /\ log[q].parent \in Nat
      /\ p \in Nat /\ q \in Nat
  <2>1. log[p] \in Utterance /\ log[q] \in Utterance /\ p \in Nat /\ q \in Nat
    OBVIOUS
  <2> QED BY <2>1 DEF Utterance
<1>7. ~(q < p) /\ p # q
  BY <1>3, <1>4, <1>5, <1>6, WellKeptIs
<1>8. p < q
  BY <1>6, <1>7
<1>9. log[p].parent =< log[q].parent
  BY <1>4, <1>5, <1>8, WellKeptIs
<1> QED
  BY <1>3, <1>4, <1>5, <1>6, <1>9 DEF Precedes

\* Of every log of valid utterances, whatever it has lost and whether or not it has
\* numbers twice: every utterance with a number is in the pair of that number and in no
\* other, every pair is sent once, in one topic, topics are branches and stand in order;
\* a log in order is, whole, the interview (group_utterances, group_topics).
THEOREM TopicsAreSound ==
    \A log \in Seq(Utterance) :
        (\A i \in DOMAIN log : ValidUtterance(log[i])) => SoundTopics(log, GroupUtterances(log))
<1> SUFFICES ASSUME NEW log \in Seq(Utterance), \A i \in DOMAIN log : ValidUtterance(log[i])
             PROVE  SoundTopics(log, GroupUtterances(log))
  OBVIOUS
<1> DEFINE pairs == GroupUtterances(log)
           topics == GroupTopics(pairs)
           sent == IF topics = <<>> THEN <<>> ELSE FlattenSeq(topics)
<1>1. pairs \in Seq(QA) /\ Rising(pairs)
  BY GroupUtterancesIs
<1>2. \A i \in Numbered(log) :
          {pairs[k].num : k \in {j \in DOMAIN pairs : i \in ToSet(pairs[j].question) \cup ToSet(pairs[j].answer)}}
              = {log[i].num}
  <2>1. \A i \in Numbered(log) :
            {pairs[k].num : k \in {j \in DOMAIN pairs : Holds(pairs[j], i)}} = {log[i].num}
    BY GroupsHaveAll DEF AllValid
  <2> HIDE DEF pairs
  <2> QED BY <2>1 DEF Holds
<1>3. ASSUME WellKept(log), NEW k \in DOMAIN pairs, pairs[k].question # <<>>
      PROVE  pairs[k].type = "MAIN" <=> pairs[k].num = pairs[k].parent
  <2>1. PICK q \in DOMAIN log :
              /\ IsQuestion(log[q]) /\ log[q].num = pairs[k].num
              /\ pairs[k].parent = log[q].parent
              /\ pairs[k].type = "MAIN" <=> log[q].type # "FOLLOW_UP"
    BY <1>3, QuestionsLead
  <2> HIDE DEF pairs
  <2> QED BY <2>1 DEF ValidUtterance
<1>4. WellKept(log) /\ IsWhole(pairs) => InterviewOrder(pairs)
  BY WholeIsInOrder
<1> HIDE DEF pairs
<1>5. PICK parents : AreTopics(topics, pairs, parents)
  BY <1>1, GroupTopicsIs
<1>6. sent = FlattenSeq(topics)
  <2> DEFINE n == Len(topics)
  <2>1. topics \in Seq(Seq(QA))
    BY <1>5 DEF AreTopics
  <2> HIDE DEF topics
  <2>2. topics = <<>> => FlattenSeq(topics) = <<>>
    BY DEF FlattenSeq
  <2> QED BY <2>2
<1>7. sent \in Seq(QA) /\ InterviewOrder(sent) /\ ToSet(sent) = ToSet(pairs)
  BY <1>1, <1>6, SentIsAll
<1> HIDE DEF sent
<1>8. Len(sent) = Len(pairs)
  <2>1. Apart(sent) /\ Apart(pairs)
    BY <1>1, <1>7, InOrderIsApart
  <2>2. Cardinality(ToSet(sent)) = Len(sent) /\ Cardinality(ToSet(pairs)) = Len(pairs)
    BY <1>1, <1>7, <2>1, ApartCounts
  <2> QED BY <1>7, <2>2
<1>9. WellKept(log) /\ IsWhole(pairs) => sent = pairs
  BY <1>1, <1>4, <1>7, <1>8, OneOrder
<1>10. \A t, u \in DOMAIN topics : Head(topics[t]).parent = Head(topics[u]).parent => t = u
  <2>1. /\ DOMAIN topics = DOMAIN parents
        /\ \A t \in DOMAIN parents : t \in Nat /\ parents[t] \in Nat
        /\ \A i, j \in DOMAIN parents : i < j => parents[i] < parents[j]
        /\ \A t \in DOMAIN parents : IsTopic(topics[t], pairs, parents[t])
    BY <1>5 DEF AreTopics
  <2> HIDE DEF topics
  <2>2. \A t \in DOMAIN parents : Head(topics[t]).parent = parents[t]
    <3> SUFFICES ASSUME NEW t \in DOMAIN parents PROVE Head(topics[t]).parent = parents[t]
      OBVIOUS
    <3> DEFINE topic == topics[t]
               parent == parents[t]
    <3>1. topic \in Seq(QA) /\ topic # <<>> /\ \A k \in DOMAIN topic : topic[k].parent = parent
      BY <2>1 DEF IsTopic
    <3> HIDE DEF topic, parent
    <3>2. 1 \in DOMAIN topic /\ Head(topic) = topic[1]
      BY <3>1
    <3> QED BY <3>1, <3>2 DEF topic, parent
  <2>3. \A t, u \in DOMAIN parents : t = u \/ t < u \/ u < t
    BY <2>1
  <2>4. \A t, u \in DOMAIN parents : parents[t] = parents[u] => t = u
    BY <2>1, <2>3
  <2> QED BY <2>1, <2>2, <2>4
<1>11. \A k \in 1 .. Len(sent) - 1 :
              \/ sent[k].parent < sent[k + 1].parent
              \/ sent[k].parent = sent[k + 1].parent /\ sent[k].num < sent[k + 1].num
  <2>1. \A k \in 1 .. Len(sent) - 1 : k \in DOMAIN sent /\ k + 1 \in DOMAIN sent /\ k < k + 1
    BY <1>7
  <2> QED BY <1>7, <2>1 DEF InterviewOrder, Precedes
<1>12. WellKept(log) => \A pair \in ToSet(pairs) :
              pair.question # <<>> => (pair.type = "MAIN" <=> pair.num = pair.parent)
  BY <1>3 DEF ToSet
<1> QED
  BY <1>2, <1>7, <1>8, <1>9, <1>10, <1>11, <1>12 DEF SoundTopics, sent, topics, pairs

=============================================================================
