---------------------------- MODULE Chunking_proofs ----------------------------
(***************************************************************************)
(* Theorems about Chunking, for every resume, enrichment, target and       *)
(* overlap: a description is cut into sound pieces, every entity has its   *)
(* chunks, both builders agree.                                            *)
(*                                                                         *)
(* The loop of _split_oversized is a fold, and a fold is what it computes  *)
(* over the prefixes (Data_proofs).  SoFar is its invariant: what is      *)
(* packed after i sentences is cut at places o, the piece at hand since    *)
(* place c, and the sentences the pieces have of their own, put together,  *)
(* are the first i.  IsLaid is that of build_chunks: where the chunks of   *)
(* each entity stand among those made so far.                              *)
(***************************************************************************)
EXTENDS MCResumeWorker, Data_proofs, SequenceTheorems, FiniteSetTheorems

-----------------------------------------------------------------------------
(* Packing sentences. *)

\* How much the sentences weigh, by a name.
SizeOf(e, indices) == FoldLeft(LAMBDA sum, i : sum + Tokens(e.sentences[i]), 0, indices)

\* The size of any selection of the sentences is a number.
LEMMA SizeType ==
    ASSUME NEW e \in Entity, NEW indices \in Seq(1 .. Len(e.sentences))
    PROVE  SizeOf(e, indices) \in Int
<1> DEFINE n == Len(indices)
           zero == 0
           X == Int
           Op(sum, i) == sum + Tokens(e.sentences[indices[i]])
           F == [i \in 1..n |-> [x \in X |-> Op(x, i)]]
           Iter(g) == g = [s \in SUBSET (1..n) |->
                              IF s = {} THEN zero ELSE Op(g[s \ {Max(s)}], Max(s))]
<1>1. n \in Nat /\ DOMAIN indices = 1..n /\ zero \in X
  OBVIOUS
<1>2. \A s \in SUBSET (1..n) : s # {} => Max(s) \in 1..n
  <2>1. \A s \in SUBSET (1..n) : s \subseteq 0..n
    OBVIOUS
  <2> QED BY <1>1, <2>1, MaxIsGreatest
<1>3. SizeOf(e, indices) = (CHOOSE g : Iter(g))[1..n]
  BY <1>1 DEF SizeOf, FoldLeft, MapThenFoldSet
<1>4. \A i \in 1..n, x \in X : Op(x, i) \in X
  <2>1. \A i \in 1..n : e.sentences[indices[i]] \in Nat
    BY DEF Entity
  <2> QED BY <2>1 DEF Tokens
<1> HIDE DEF Op, X, zero
<1>5. F \in [1..n -> [X -> X]]
  BY <1>4
<1>6. PICK g0 \in [SUBSET (1..n) -> X] : IsFold(g0, n, zero, F)
  <2> HIDE DEF F, n
  <2> QED BY <1>1, <1>5, FoldExists
<1>7. Iter(g0)
  <2>1. \A s \in SUBSET (1..n) :
            g0[s] = IF s = {} THEN zero ELSE Op(g0[s \ {Max(s)}], Max(s))
    BY <1>2, <1>6 DEF IsFold
  <2>2. g0 = [s \in SUBSET (1..n) |-> g0[s]]
    OBVIOUS
  <2> QED BY <2>1, <2>2
<1>8. PICK g : Iter(g) /\ (CHOOSE g1 : Iter(g1)) = g
  BY <1>7
<1>9. PICK h : AreStages(h, n, X, zero, F) /\ h[n] = g[1..n]
  <2>1. g[{}] = zero
    BY <1>8
  <2>2. StepsWithin(g, n, X, F)
    <3>1. \A s \in SUBSET (1..n) : s # {} => g[s] = Op(g[s \ {Max(s)}], Max(s))
      BY <1>8
    <3>2. \A i \in 1..n, x \in X : F[i][x] = Op(x, i)
      OBVIOUS
    <3> HIDE DEF F, n, Iter
    <3> QED BY <1>2, <3>1, <3>2 DEF StepsWithin
  <2>3. n \in Nat /\ zero \in X
    BY <1>1
  <2> HIDE DEF F, n, Iter
  <2> QED BY ONLY <1>5, <2>1, <2>2, <2>3, StagesOfFold
<1>10. h[n] \in X
  BY <1>1, <1>9 DEF AreStages
<1> QED
  BY <1>3, <1>8, <1>9, <1>10 DEF X

Pieces == [sentences : Seq(Nat), tail : BOOLEAN]
Packing == [pieces : Seq(Pieces), current : Seq(Nat)]

\* Nothing is packed yet.
Unpacked == [pieces |-> <<>>, current |-> <<>>]

\* The next sentence: into the piece at hand, or into a new one.
PackNext(e, budget, overlap, done, i) ==
    IF done.current # <<>> /\ SizeOf(e, Append(done.current, i)) > budget
    THEN [pieces  |-> Append(done.pieces, Piece(done.current, FALSE)),
          current |-> Append(LastOf(done.current, overlap), i)]
    ELSE [done EXCEPT !.current = Append(@, i)]

Packed(e, budget, overlap) ==
    FoldLeftDomain(LAMBDA done, i : PackNext(e, budget, overlap, done, i), Unpacked, e.sentences)

\* What _split_oversized returns.
LEMMA SplitIsPacked ==
    ASSUME NEW header, NEW e, NEW target, NEW overlap
    PROVE  LET done == Packed(e, Max({target - Tokens(header), 1}), overlap)
           IN  SplitOversized(header, e, target, overlap)
                 = Append(done.pieces, Piece(done.current, e.tail > 0))
BY Zenon DEF SplitOversized, Packed, PackNext, Unpacked, SizeOf

\* The last sentences of a piece.
LEMMA LastOnes ==
    ASSUME NEW current \in Seq(Nat), NEW overlap \in Nat
    PROVE  \E copied \in 0 .. Len(current) :
              /\ copied = Min({overlap, Len(current)})
              /\ LastOf(current, overlap) \in Seq(Nat)
              /\ Len(LastOf(current, overlap)) = copied
              /\ \A j \in 1..copied :
                    LastOf(current, overlap)[j] = current[Len(current) - copied + j]
<1> DEFINE n == Len(current)
<1>1. n \in Nat /\ current \in [1..n -> Nat]
  OBVIOUS
<1>2. PICK m \in Nat : m = IF overlap =< n THEN overlap ELSE n
  BY <1>1
<1>3. Min({overlap, n}) = m /\ (overlap # 0 => Max({1, n - overlap + 1}) = n - m + 1) /\ m \in 0..n
  <2>1. PICK d \in Int : d = n - overlap + 1
    BY <1>1
  <2>2. overlap \in Int /\ n \in Int
    BY <1>1
  <2> HIDE DEF n
  <2>3. Min({overlap, n}) = IF overlap =< n THEN overlap ELSE n
    BY <2>2, OfTwo
  <2>4. Max({1, d}) = IF 1 >= d THEN 1 ELSE d
    BY <2>1, OfTwo
  <2> QED BY <1>1, <1>2, <2>1, <2>3, <2>4
<1>4. CASE overlap = 0
  BY <1>1, <1>2, <1>3, <1>4 DEF LastOf
<1>5. CASE overlap # 0
  <2> DEFINE first == n - m + 1
  <2>1. LastOf(current, overlap) = SubSeq(current, first, n)
    BY <1>3, <1>5 DEF LastOf
  <2>2. first \in Int /\ n \in Int /\ \A i \in first .. n : i \in 1..n
    BY <1>1, <1>3
  <2>3. \A i \in first .. n : current[i] \in Nat
    BY <1>1, <2>2
  <2> HIDE DEF first, n
  <2>4. /\ SubSeq(current, first, n) \in Seq(Nat)
        /\ Len(SubSeq(current, first, n)) = IF first =< n THEN n - first + 1 ELSE 0
        /\ \A j \in 1 .. n - first + 1 : SubSeq(current, first, n)[j] = current[first + j - 1]
    BY <2>2, <2>3, SubSeqProperties
  <2>5. n - first + 1 = m /\ \A j \in 1..m : first + j - 1 = n - m + j
    BY <1>1 DEF first
  <2>6. (IF first =< n THEN n - first + 1 ELSE 0) = m
    BY <1>1, <1>3 DEF first
  <2>7. \A j \in 1..m : LastOf(current, overlap)[j] = current[n - m + j]
    BY <2>1, <2>4, <2>5
  <2>8. LastOf(current, overlap) \in Seq(Nat) /\ Len(LastOf(current, overlap)) = m
    BY <2>1, <2>4, <2>6
  <2> QED BY <1>3, <2>7, <2>8, Zenon DEF n
<1> QED
  BY <1>4, <1>5

\* A piece and its tail are typed.
LEMMA PieceType ==
    ASSUME NEW sentences \in Seq(Nat), NEW tail \in BOOLEAN
    PROVE  Piece(sentences, tail) \in Pieces
BY DEF Piece, Pieces

\* The next sentence leaves pieces.
LEMMA PackType ==
    ASSUME NEW e, NEW budget, NEW overlap \in Nat, NEW done \in Packing, NEW i \in Nat
    PROVE  PackNext(e, budget, overlap, done, i) \in Packing
<1>1. done.pieces \in Seq(Pieces) /\ done.current \in Seq(Nat)
      /\ done = [pieces |-> done.pieces, current |-> done.current]
  BY DEF Packing
<1>2. LastOf(done.current, overlap) \in Seq(Nat)
  BY <1>1, LastOnes
<1>3. Piece(done.current, FALSE) \in Pieces
  BY <1>1, PieceType
<1>4. Append(LastOf(done.current, overlap), i) \in Seq(Nat) /\ Append(done.current, i) \in Seq(Nat)
      /\ Append(done.pieces, Piece(done.current, FALSE)) \in Seq(Pieces)
  BY <1>1, <1>2, <1>3, AppendProperties
<1> QED
  BY <1>1, <1>4 DEF PackNext, Packing

\* The states of the packing after each sentence.
LEMMA PackPrefixes ==
    ASSUME NEW e \in Entity, NEW budget, NEW overlap \in Nat
    PROVE  \E h \in [0 .. Len(e.sentences) -> Packing] :
              /\ h[0] = Unpacked
              /\ \A i \in 1 .. Len(e.sentences) :
                    h[i] = PackNext(e, budget, overlap, h[i - 1], i)
              /\ Packed(e, budget, overlap) = h[Len(e.sentences)]
<1> DEFINE n == Len(e.sentences)
           Op(done, i) == PackNext(e, budget, overlap, done, i)
           F == [i \in 1..n |-> [x \in Packing |-> Op(x, i)]]
           Iter(g) == g = [s \in SUBSET (1..n) |->
                              IF s = {} THEN Unpacked ELSE Op(g[s \ {Max(s)}], Max(s))]
<1>1. n \in Nat /\ DOMAIN e.sentences = 1..n /\ Unpacked \in Packing
  BY DEF Entity, Unpacked, Packing
<1>2. \A s \in SUBSET (1..n) : s # {} => Max(s) \in 1..n
  <2>1. \A s \in SUBSET (1..n) : s \subseteq 0..n
    OBVIOUS
  <2> QED BY <1>1, <2>1, MaxIsGreatest
<1>3. Packed(e, budget, overlap) = (CHOOSE g : Iter(g))[1..n]
  <2> DEFINE seq == [i \in 1..n |-> i]
             Raw(g) == g = [s \in SUBSET (1..n) |->
                              IF s = {} THEN Unpacked ELSE Op(g[s \ {Max(s)}], seq[Max(s)])]
  <2>1. Packed(e, budget, overlap) = (CHOOSE g : Raw(g))[1..n]
    BY <1>1 DEF Packed, FoldLeftDomain, FoldLeft, MapThenFoldSet
  <2>2. ASSUME NEW g PROVE Raw(g) <=> Iter(g)
    <3>1. \A s \in SUBSET (1..n) : s # {} => seq[Max(s)] = Max(s)
      BY <1>2
    <3> HIDE DEF seq, Op
    <3> QED BY <3>1
  <2> HIDE DEF Raw, Iter
  <2>3. (CHOOSE g : Raw(g)) = (CHOOSE g : Iter(g))
    BY <2>2, Zenon
  <2> QED BY <2>1, <2>3
<1>4. \A i \in 1..n, x \in Packing : Op(x, i) \in Packing
  BY PackType
<1> HIDE DEF Op
<1>5. F \in [1..n -> [Packing -> Packing]]
  BY <1>4
<1>6. PICK g0 \in [SUBSET (1..n) -> Packing] : IsFold(g0, n, Unpacked, F)
  <2> HIDE DEF F, n
  <2> QED BY <1>1, <1>5, FoldExists
<1>7. Iter(g0)
  <2>1. \A s \in SUBSET (1..n) :
            g0[s] = IF s = {} THEN Unpacked ELSE Op(g0[s \ {Max(s)}], Max(s))
    BY <1>2, <1>6 DEF IsFold
  <2>2. g0 = [s \in SUBSET (1..n) |-> g0[s]]
    OBVIOUS
  <2> QED BY <2>1, <2>2
<1>8. PICK g : Iter(g) /\ (CHOOSE g1 : Iter(g1)) = g
  BY <1>7
<1>9. PICK h : AreStages(h, n, Packing, Unpacked, F) /\ h[n] = g[1..n]
  <2>1. g[{}] = Unpacked
    BY <1>8
  <2>2. StepsWithin(g, n, Packing, F)
    <3>1. \A s \in SUBSET (1..n) : s # {} => g[s] = Op(g[s \ {Max(s)}], Max(s))
      BY <1>8
    <3>2. \A i \in 1..n, x \in Packing : F[i][x] = Op(x, i)
      OBVIOUS
    <3> HIDE DEF F, n, Iter
    <3> QED BY <1>2, <3>1, <3>2 DEF StepsWithin
  <2>3. n \in Nat /\ Unpacked \in Packing
    BY <1>1
  <2> HIDE DEF F, n, Iter
  <2> QED BY ONLY <1>5, <2>1, <2>2, <2>3, StagesOfFold
<1>10. \A i \in 1..n : h[i] = Op(h[i - 1], i)
  <2>1. \A i \in 1..n : i - 1 \in 0..n
    BY <1>1
  <2>2. \A i \in 1..n, x \in Packing : F[i][x] = Op(x, i)
    OBVIOUS
  <2> HIDE DEF F
  <2> QED BY <1>9, <2>1, <2>2 DEF AreStages
<1> HIDE DEF F, Iter
<1> QED
  BY <1>3, <1>8, <1>9, <1>10 DEF AreStages, Op

-----------------------------------------------------------------------------
(* Sequences. *)

\* One more at the end of the second of two sequences (a name: see SumOf).
EndsWith(s, t, x) == Append(s \o t, x) = s \o Append(t, x)

\* It is one more at the end.
LEMMA ConcatAppend ==
    ASSUME NEW S, NEW s \in Seq(S), NEW t \in Seq(S), NEW x \in S
    PROVE  EndsWith(s, t, x)
<1>1. s \o t \in Seq(S)
  BY ConcatProperties
<1>2. <<x>> \in Seq(S)
  OBVIOUS
<1>3. Append(s \o t, x) = (s \o t) \o <<x>> /\ Append(t, x) = t \o <<x>>
  BY <1>1, AppendIsConcat
<1>4. (s \o t) \o <<x>> = s \o (t \o <<x>>)
  BY <1>2, ConcatAssociative
<1> QED
  BY <1>3, <1>4 DEF EndsWith

\* Two parts of a sequence, told apart.
LEMMA ConcatParts ==
    ASSUME NEW S, NEW s \in Seq(S), NEW t \in Seq(S)
    PROVE  /\ SubSeq(s \o t, 1, Len(s)) = s
           /\ SubSeq(s \o t, Len(s) + 1, Len(s \o t)) = t
<1>1. s \o t \in Seq(S) /\ Len(s \o t) = Len(s) + Len(t) /\ Len(s) \in Nat /\ Len(t) \in Nat
  BY ConcatProperties
<1>2. SubSeq(s \o t, 1, Len(s)) = s
  <2>1. CASE s = <<>>
    <3>1. Len(s) = 0
      BY <2>1
    <3> QED BY <2>1, <3>1, SubSeqEmpty
  <2>2. CASE s # <<>>
    <3>1. 1 \in 1 .. Len(s) /\ Len(s) \in 1 .. Len(s)
      BY <2>2
    <3> QED BY <3>1, SubSeqOfConcat1, SubSeqFull
  <2> QED BY <2>1, <2>2
<1>3. SubSeq(s \o t, Len(s) + 1, Len(s \o t)) = t
  <2>1. CASE t = <<>>
    <3>1. Len(s \o t) < Len(s) + 1 /\ Len(s) + 1 \in Int /\ Len(s \o t) \in Int
      BY <1>1, <2>1
    <3> QED BY <2>1, <3>1, SubSeqEmpty
  <2>2. CASE t # <<>>
    <3>1. /\ Len(s) + 1 \in Len(s) + 1 .. Len(s) + Len(t)
          /\ Len(s) + Len(t) \in Len(s) + 1 .. Len(s) + Len(t)
          /\ (Len(s) + 1) - Len(s) = 1 /\ (Len(s) + Len(t)) - Len(s) = Len(t)
      BY <1>1, <2>2
    <3>2. SubSeq(s \o t, Len(s) + 1, Len(s) + Len(t)) = SubSeq(t, 1, Len(t))
      BY <3>1, SubSeqOfConcat2
    <3> QED BY <1>1, <3>2, SubSeqFull
  <2> QED BY <2>1, <2>2
<1> QED
  BY <1>2, <1>3

\* The numbers up to i, one more.
LEMMA OneMoreNumber ==
    ASSUME NEW i \in Nat \ {0}
    PROVE  /\ [j \in 1..i |-> j] = Append([j \in 1..(i - 1) |-> j], i)
           /\ [j \in 1..(i - 1) |-> j] \in Seq(Nat)
<1> DEFINE s == [j \in 1..(i - 1) |-> j]
           t == [j \in 1..i |-> j]
<1>1. s \in [1..(i - 1) -> Nat] /\ t \in [1..i -> Nat] /\ i - 1 \in Nat /\ i \in Nat
  OBVIOUS
<1>2. s \in Seq(Nat) /\ Len(s) = i - 1 /\ t \in Seq(Nat) /\ Len(t) = i
  <2> HIDE DEF s, t
  <2> QED BY <1>1, FunctionIsSeq
<1>3. \A j \in 1..i : t[j] = j
  OBVIOUS
<1>4. \A j \in 1..(i - 1) : s[j] = j
  OBVIOUS
<1> HIDE DEF s, t
<1>5. /\ Append(s, i) \in Seq(Nat) /\ Len(Append(s, i)) = i
      /\ \A j \in 1..i : Append(s, i)[j] = j
  BY <1>2, <1>4, AppendProperties
<1>6. Append(s, i) = t
  BY <1>2, <1>3, <1>5
<1> QED
  BY <1>2, <1>6 DEF s, t

\* The last sentences are a suffix.
LEMMA LastIsSuffix ==
    ASSUME NEW current \in Seq(Nat), NEW overlap \in Nat
    PROVE  IsSuffix(LastOf(current, overlap), current)
<1> DEFINE n == Len(current)
           last == LastOf(current, overlap)
           m == Len(last)
<1>1. /\ n \in Nat /\ m \in 0..n /\ last \in Seq(Nat)
      /\ \A j \in 1..m : last[j] = current[n - m + j]
  <2>1. PICK copied \in 0..n : /\ last \in Seq(Nat) /\ Len(last) = copied
                               /\ \A j \in 1..copied : last[j] = current[n - copied + j]
    <3> HIDE DEF m
    <3> QED BY LastOnes
  <2>2. n \in Nat /\ m = copied
    BY <2>1
  <2> QED BY <2>1, <2>2
<1> HIDE DEF last, n, m
<1>2. /\ Reverse(last) = [j \in 1..m |-> last[(m - j) + 1]]
      /\ Reverse(current) = [j \in 1..n |-> current[(n - j) + 1]]
  BY DEF Reverse, m, n
<1>3. \A j \in 1..m : Reverse(last)[j] = Reverse(current)[j]
  <2> SUFFICES ASSUME NEW j \in 1..m PROVE Reverse(last)[j] = Reverse(current)[j]
    OBVIOUS
  <2>1. j \in 1..n /\ (m - j) + 1 \in 1..m /\ n - m + ((m - j) + 1) = (n - j) + 1
    BY <1>1
  <2> QED BY <1>1, <1>2, <2>1
<1>4. Len(Reverse(last)) = m /\ Len(Reverse(current)) = n
  BY <1>1, <1>2
<1>5. Reverse(last) \in Seq(Nat) /\ Reverse(current) \in Seq(Nat)
  <2>1. \A j \in 1..m : last[(m - j) + 1] \in Nat
    BY <1>1 DEF m
  <2>2. \A j \in 1..n : current[(n - j) + 1] \in Nat
    BY <1>1 DEF n
  <2>3. Reverse(last) \in [1..m -> Nat] /\ Reverse(current) \in [1..n -> Nat] /\ m \in Nat
    BY <1>1, <1>2, <2>1, <2>2
  <2> QED BY <1>1, <2>3, FunctionIsSeq
<1>6. SubSeq(Reverse(last), 1, m) = SubSeq(Reverse(current), 1, m)
  <2>1. /\ SubSeq(Reverse(last), 1, m) \in Seq(Nat)
        /\ Len(SubSeq(Reverse(last), 1, m)) = IF 1 =< m THEN m - 1 + 1 ELSE 0
        /\ \A j \in 1 .. m - 1 + 1 : SubSeq(Reverse(last), 1, m)[j] = Reverse(last)[1 + j - 1]
    <3>1. \A j \in 1..m : Reverse(last)[j] \in Nat
      BY <1>4, <1>5
    <3> QED BY <1>1, <3>1, SubSeqProperties
  <2>2. /\ SubSeq(Reverse(current), 1, m) \in Seq(Nat)
        /\ Len(SubSeq(Reverse(current), 1, m)) = IF 1 =< m THEN m - 1 + 1 ELSE 0
        /\ \A j \in 1 .. m - 1 + 1 : SubSeq(Reverse(current), 1, m)[j] = Reverse(current)[1 + j - 1]
    <3>1. \A j \in 1..m : Reverse(current)[j] \in Nat
      BY <1>1, <1>4, <1>5
    <3> QED BY <1>1, <3>1, SubSeqProperties
  <2>3. m - 1 + 1 = m /\ (IF 1 =< m THEN m - 1 + 1 ELSE 0) = m /\ \A j \in 1..m : 1 + j - 1 = j
    BY <1>1
  <2> DEFINE a == SubSeq(Reverse(last), 1, m)
             b == SubSeq(Reverse(current), 1, m)
  <2>4. /\ a \in Seq(Nat) /\ Len(a) = m /\ b \in Seq(Nat) /\ Len(b) = m
        /\ \A j \in 1..m : a[j] = b[j]
    BY <1>3, <2>1, <2>2, <2>3
  <2> HIDE DEF a, b
  <2>5. a = b
    BY <2>4
  <2> QED BY <2>5 DEF a, b
<1> QED
  BY <1>1, <1>4, <1>6 DEF IsSuffix, IsPrefix, last

-----------------------------------------------------------------------------
(* The pieces. *)

\* The sentences before piece k.
Before(pieces, k) == IF k = 1 THEN <<>> ELSE pieces[k - 1].sentences

\* Sentences that follow a piece: the last ones of it, and own ones.  Of those there are
\* more than one only within the budget, and the first would have broken it before.
Cut(e, budget, overlap, before, sentences, own, first) ==
    /\ sentences = LastOf(before, overlap) \o own
    /\ Len(own) > 1 => SizeOf(e, sentences) =< budget
    /\ ~first => SizeOf(e, Append(before, own[1])) > budget

\* What is packed of the first i sentences: o are the own sentences of the pieces, c
\* those of the one at hand.
SoFar(e, budget, overlap, i, d, o, c) ==
    LET Some == Seq(1 .. Len(e.sentences))
    IN  /\ d \in Packing /\ o \in Seq(Some) /\ c \in Some /\ d.current \in Some
        /\ Len(o) = Len(d.pieces)
        /\ FlattenSeq(o) \o c = [j \in 1..i |-> j]
        /\ \A k \in 1 .. Len(o) :
              /\ d.pieces[k].tail = FALSE /\ d.pieces[k].sentences \in Some /\ o[k] # <<>>
              /\ Cut(e, budget, overlap, Before(d.pieces, k), d.pieces[k].sentences, o[k], k = 1)
        /\ Cut(e, budget, overlap, Before(d.pieces, Len(o) + 1), d.current, c, o = <<>>)
        /\ IF i = 0 THEN o = <<>> /\ c = <<>> ELSE c # <<>>

\* Places of sentences are numbers.
LEMMA PlacesAreNumbers ==
    ASSUME NEW n \in Nat, NEW s \in Seq(1..n)
    PROVE  s \in Seq(Nat)
OBVIOUS

\* Before every piece there are places of sentences.
LEMMA BeforeType ==
    ASSUME NEW e \in Entity, NEW budget, NEW overlap \in Nat, NEW i \in Nat, NEW d, NEW o, NEW c,
           SoFar(e, budget, overlap, i, d, o, c), NEW k \in 1 .. Len(o) + 1
    PROVE  Before(d.pieces, k) \in Seq(1 .. Len(e.sentences)) /\ Before(d.pieces, k) \in Seq(Nat)
<1>1. Len(o) \in Nat /\ Len(e.sentences) \in Nat
  BY DEF SoFar, Entity
<1>2. CASE k = 1
  BY <1>2 DEF Before
<1>3. CASE k # 1
  <2>1. k - 1 \in 1 .. Len(o)
    BY <1>1, <1>3
  <2>2. d.pieces[k - 1].sentences \in Seq(1 .. Len(e.sentences))
    BY <2>1 DEF SoFar
  <2>3. d.pieces[k - 1].sentences \in Seq(Nat)
    BY <1>1, <2>2, PlacesAreNumbers
  <2> QED BY <1>3, <2>2, <2>3 DEF Before
<1> QED
  BY <1>2, <1>3

\* Nothing has nothing at its end.
LEMMA LastOfNothing ==
    ASSUME NEW overlap \in Nat
    PROVE  LastOf(<<>>, overlap) = <<>>
<1>1. <<>> \in Seq(Nat) /\ Len(<<>>) = 0
  OBVIOUS
<1>2. PICK copied \in 0 .. Len(<<>>) :
          LastOf(<<>>, overlap) \in Seq(Nat) /\ Len(LastOf(<<>>, overlap)) = copied
  BY <1>1, LastOnes
<1>3. Len(LastOf(<<>>, overlap)) = 0
  BY <1>1, <1>2
<1> QED BY <1>2, <1>3

\* A piece at hand that has sentences has one of its own.
LEMMA OwnAtHand ==
    ASSUME NEW e \in Entity, NEW budget, NEW overlap \in Nat, NEW i \in Nat, NEW d, NEW o, NEW c,
           SoFar(e, budget, overlap, i, d, o, c)
    PROVE  (d.current # <<>>) <=> (i # 0)
<1>1. LastOf(<<>>, overlap) = <<>>
  BY LastOfNothing
<1>2. CASE i = 0
  <2>1. o = <<>> /\ c = <<>> /\ Len(o) + 1 = 1
    BY <1>2 DEF SoFar
  <2>2. d.current = LastOf(Before(d.pieces, Len(o) + 1), overlap) \o c
    BY DEF SoFar, Cut
  <2>3. Before(d.pieces, Len(o) + 1) = <<>>
    BY <2>1 DEF Before
  <2>4. d.current = <<>> \o <<>>
    BY <1>1, <2>1, <2>2, <2>3
  <2> QED BY <1>2, <2>4
<1>3. CASE i # 0
  <2> DEFINE last == LastOf(Before(d.pieces, Len(o) + 1), overlap)
  <2>1. c # <<>> /\ d.current = last \o c /\ c \in Seq(Nat)
    <3>1. c \in Seq(1 .. Len(e.sentences)) /\ Len(e.sentences) \in Nat
      BY DEF SoFar, Entity
    <3> QED BY <1>3, <3>1, PlacesAreNumbers DEF SoFar, Cut
  <2>2. last \in Seq(Nat)
    <3>1. Len(o) + 1 \in 1 .. Len(o) + 1
      BY DEF SoFar
    <3>2. Before(d.pieces, Len(o) + 1) \in Seq(Nat)
      BY <3>1, BeforeType
    <3> QED BY <3>2, LastOnes
  <2> HIDE DEF last
  <2>3. d.current # <<>>
    BY <2>1, <2>2, ConcatEqualIffEmpty
  <2> QED BY <1>3, <2>3
<1> QED
  BY <1>2, <1>3

\* Before a piece there is what was before it.
LEMMA BeforeStays ==
    ASSUME NEW pieces \in Seq(Pieces), NEW x \in Pieces, NEW k \in 1 .. Len(pieces) + 1
    PROVE  Before(Append(pieces, x), k) = Before(pieces, k)
<1>1. k # 1 => k - 1 \in 1 .. Len(pieces)
  OBVIOUS
<1>2. \A j \in 1 .. Len(pieces) : Append(pieces, x)[j] = pieces[j]
  BY AppendProperties
<1> QED
  BY <1>1, <1>2 DEF Before

\* The next sentence belongs to the piece at hand.
LEMMA PieceGrows ==
    ASSUME NEW e \in Entity, NEW budget \in Int, NEW overlap \in Nat,
           NEW i \in 1 .. Len(e.sentences), NEW d, NEW o, NEW c,
           SoFar(e, budget, overlap, i - 1, d, o, c),
           ~(d.current # <<>> /\ SizeOf(e, Append(d.current, i)) > budget)
    PROVE  SoFar(e, budget, overlap, i, PackNext(e, budget, overlap, d, i), o, Append(c, i))
<1> DEFINE n == Len(e.sentences)
           Places == 1..n
           Some == Seq(Places)
           new == PackNext(e, budget, overlap, d, i)
           before == Before(d.pieces, Len(o) + 1)
<1>1. /\ n \in Nat /\ i \in Nat /\ i \in Nat \ {0} /\ i - 1 \in Nat /\ i \in 1..n
      /\ Len(o) \in Nat /\ o \in Seq(Some)
      /\ c \in Some /\ d.current \in Some /\ d \in Packing
      /\ Len(o) + 1 \in 1 .. Len(o) + 1 /\ i \in Places
  <2>1. n \in Nat
    BY DEF Entity
  <2>2. o \in Seq(Some) /\ c \in Some /\ d.current \in Some /\ d \in Packing
    BY DEF SoFar
  <2>3. Len(o) \in Nat /\ Len(o) + 1 \in 1 .. Len(o) + 1
    BY <2>2
  <2>4. i \in 1..n
    OBVIOUS
  <2> HIDE DEF n
  <2> QED BY <2>1, <2>2, <2>3, <2>4
<1>2. /\ new.pieces = d.pieces /\ new.current = Append(d.current, i) /\ new \in Packing
  <2>1. new \in Packing
    BY <1>1, PackType
  <2>2. new = [d EXCEPT !.current = Append(d.current, i)]
    BY DEF PackNext
  <2>3. d = [pieces |-> d.pieces, current |-> d.current]
    BY <1>1 DEF Packing
  <2> HIDE DEF new
  <2> QED BY <2>1, <2>2, <2>3
<1>3. before \in Some /\ before \in Seq(Nat)
  BY <1>1, BeforeType
<1>4. /\ Append(c, i) \in Some /\ Append(c, i) # <<>> /\ Append(d.current, i) \in Some
      /\ Len(Append(c, i)) = Len(c) + 1 /\ Len(c) \in Nat
      /\ (c # <<>> => Append(c, i)[1] = c[1])
  <2> HIDE DEF Places
  <2>1. /\ Append(c, i) \in Some /\ Append(c, i) # <<>> /\ Len(Append(c, i)) = Len(c) + 1
        /\ \A j \in 1 .. Len(c) : Append(c, i)[j] = c[j]
    <3>1. c \in Seq(Places) /\ i \in Places
      BY <1>1
    <3> QED BY ONLY <3>1, AppendProperties
  <2>2. Append(d.current, i) \in Some
    BY <1>1, AppendProperties
  <2>3. c # <<>> => 1 \in 1 .. Len(c)
    BY <1>1
  <2> QED BY <1>1, <2>1, <2>2, <2>3
<1>5. FlattenSeq(o) \o Append(c, i) = [j \in 1..i |-> j]
  <2>1. FlattenSeq(o) \in Some
    <3> HIDE DEF Places
    <3> QED BY <1>1, FlattenType
  <2>2. FlattenSeq(o) \o Append(c, i) = Append(FlattenSeq(o) \o c, i)
    <3>1. FlattenSeq(o) \in Seq(Places) /\ c \in Seq(Places) /\ i \in Places
      BY <1>1, <2>1
    <3> HIDE DEF Places
    <3> QED BY ONLY <3>1, ConcatAppend DEF EndsWith
  <2>3. FlattenSeq(o) \o c = [j \in 1..(i - 1) |-> j]
    BY DEF SoFar
  <2> QED BY <1>1, <2>2, <2>3, OneMoreNumber
<1>6. Cut(e, budget, overlap, before, Append(d.current, i), Append(c, i), o = <<>>)
  <2>1. d.current = LastOf(before, overlap) \o c
    BY DEF SoFar, Cut
  <2>2. LastOf(before, overlap) \in Seq(Nat) /\ c \in Seq(Nat)
    <3> HIDE DEF before, n
    <3> QED BY <1>1, <1>3, LastOnes, PlacesAreNumbers
  <2>3. Append(d.current, i) = LastOf(before, overlap) \o Append(c, i)
    <3>1. EndsWith(LastOf(before, overlap), c, i)
      BY <1>1, <2>2, ConcatAppend
    <3> QED BY <2>1, <3>1 DEF EndsWith
  <2>4. Len(Append(c, i)) > 1 => SizeOf(e, Append(d.current, i)) =< budget
    <3>1. Len(Append(c, i)) > 1 => i - 1 # 0
      <4>1. i - 1 = 0 => c = <<>>
        BY DEF SoFar
      <4> QED BY <1>4, <4>1
    <3>2. i - 1 # 0 => d.current # <<>>
      BY <1>1, OwnAtHand
    <3>3. SizeOf(e, Append(d.current, i)) \in Int
      BY <1>4, SizeType
    <3> QED BY <3>1, <3>2, <3>3
  <2>5. ~(o = <<>>) => SizeOf(e, Append(before, Append(c, i)[1])) > budget
    <3>1. ~(o = <<>>) => c # <<>>
      BY DEF SoFar
    <3>2. ~(o = <<>>) => SizeOf(e, Append(before, c[1])) > budget
      BY DEF SoFar, Cut
    <3> QED BY <1>4, <3>1, <3>2
  <2> QED BY <2>3, <2>4, <2>5 DEF Cut
<1>7. \A k \in 1 .. Len(o) :
         /\ d.pieces[k].tail = FALSE /\ d.pieces[k].sentences \in Some /\ o[k] # <<>>
         /\ Cut(e, budget, overlap, Before(d.pieces, k), d.pieces[k].sentences, o[k], k = 1)
  BY DEF SoFar
<1>8. Len(o) = Len(d.pieces)
  BY DEF SoFar
<1>9. i # 0
  BY <1>1
<1> QED
  BY <1>1, <1>2, <1>4, <1>5, <1>6, <1>7, <1>8, <1>9, Zenon DEF SoFar

\* The next sentence begins a piece.
LEMMA PieceCloses ==
    ASSUME NEW e \in Entity, NEW budget \in Int, NEW overlap \in Nat,
           NEW i \in 1 .. Len(e.sentences), NEW d, NEW o, NEW c,
           SoFar(e, budget, overlap, i - 1, d, o, c),
           d.current # <<>> /\ SizeOf(e, Append(d.current, i)) > budget
    PROVE  SoFar(e, budget, overlap, i, PackNext(e, budget, overlap, d, i), Append(o, c), <<i>>)
<1> DEFINE n == Len(e.sentences)
           Places == 1..n
           Some == Seq(Places)
           new == PackNext(e, budget, overlap, d, i)
           closed == Piece(d.current, FALSE)
           m == Len(o)
           t == Append(o, c)
<1>1. /\ n \in Nat /\ i \in Nat /\ i \in Nat \ {0} /\ i - 1 \in Nat /\ i \in Places
      /\ m \in Nat /\ o \in Seq(Some)
      /\ c \in Some /\ d.current \in Some /\ d.current \in Seq(Nat) /\ d \in Packing
      /\ d.pieces \in Seq(Pieces) /\ Len(d.pieces) = m
  <2>1. n \in Nat
    BY DEF Entity
  <2>2. /\ o \in Seq(Some) /\ c \in Some /\ d.current \in Some /\ d \in Packing
        /\ Len(d.pieces) = m
    BY DEF SoFar
  <2>3. m \in Nat
    BY <2>2
  <2>4. i \in 1..n
    OBVIOUS
  <2>5. d.pieces \in Seq(Pieces)
    BY <2>2 DEF Packing
  <2> HIDE DEF n
  <2> QED BY <2>1, <2>2, <2>3, <2>4, <2>5, PlacesAreNumbers
<1>2. c # <<>> /\ i - 1 # 0
  <2>1. i - 1 # 0
    BY <1>1, OwnAtHand
  <2> QED BY <2>1 DEF SoFar
<1>3. /\ t \in Seq(Some) /\ Len(t) = m + 1 /\ t[m + 1] = c /\ t # <<>>
      /\ \A k \in 1..m : t[k] = o[k]
  <2>1. o \in Seq(Some) /\ c \in Some
    BY <1>1
  <2> HIDE DEF Some
  <2> QED BY ONLY <2>1, AppendProperties
<1>4. /\ new.pieces = Append(d.pieces, closed) /\ new.current = Append(LastOf(d.current, overlap), i)
      /\ new \in Packing
  <2>1. new \in Packing
    BY <1>1, PackType
  <2> QED BY <2>1 DEF PackNext
<1>5. /\ closed \in Pieces /\ closed.tail = FALSE /\ closed.sentences = d.current
      /\ Len(new.pieces) = m + 1 /\ new.pieces[m + 1] = closed
      /\ \A k \in 1..m : new.pieces[k] = d.pieces[k]
      /\ \A k \in 1 .. m + 1 : Before(new.pieces, k) = Before(d.pieces, k)
      /\ Before(new.pieces, m + 2) = d.current
  <2>1. closed \in Pieces /\ closed.tail = FALSE /\ closed.sentences = d.current
    BY <1>1, PieceType DEF Piece
  <2> HIDE DEF closed
  <2>2. d.pieces \in Seq(Pieces) /\ closed \in Pieces
    BY <1>1, <2>1
  <2>3. /\ Len(Append(d.pieces, closed)) = Len(d.pieces) + 1
        /\ Append(d.pieces, closed)[Len(d.pieces) + 1] = closed
        /\ \A k \in 1 .. Len(d.pieces) : Append(d.pieces, closed)[k] = d.pieces[k]
    BY ONLY <2>2, AppendProperties
  <2>4. \A k \in 1 .. m + 1 : Before(new.pieces, k) = Before(d.pieces, k)
    BY <1>1, <1>4, <2>2, BeforeStays
  <2>5. Before(new.pieces, m + 2) = new.pieces[(m + 2) - 1].sentences /\ (m + 2) - 1 = m + 1
    BY <1>1 DEF Before
  <2> HIDE DEF m, new
  <2>6. Len(new.pieces) = m + 1 /\ new.pieces[m + 1] = closed
        /\ \A k \in 1..m : new.pieces[k] = d.pieces[k]
    BY <1>1, <1>4, <2>3
  <2> QED BY <2>1, <2>4, <2>5, <2>6
<1>6. FlattenSeq(t) \o <<i>> = [j \in 1..i |-> j]
  <2> DEFINE all == [j \in 1..(i - 1) |-> j]
  <2>1. FlattenSeq(t) = FlattenSeq(o) \o c
    <3>1. o \in Seq(Some) /\ t \in Seq(Some) /\ Len(t) = Len(o) + 1
          /\ \A k \in 1 .. Len(o) : t[k] = o[k]
      BY <1>1, <1>3
    <3> HIDE DEF t, Places
    <3>2. FlattenSeq(t) = FlattenSeq(o) \o t[Len(t)]
      BY <3>1, FlattenOneMore
    <3> QED BY <1>3, <3>2
  <2>2. FlattenSeq(o) \o c = all
    BY DEF SoFar
  <2>3. all \in Seq(Nat) /\ [j \in 1..i |-> j] = Append(all, i)
    BY <1>1, OneMoreNumber
  <2> HIDE DEF all
  <2>4. Append(all, i) = all \o <<i>>
    BY <1>1, <2>3, AppendIsConcat
  <2> QED BY <2>1, <2>2, <2>3, <2>4
<1>7. LastOf(d.current, overlap) \in Seq(Nat) /\ new.current = LastOf(d.current, overlap) \o <<i>>
  <2>1. LastOf(d.current, overlap) \in Seq(Nat)
    BY <1>1, LastOnes
  <2>2. Append(LastOf(d.current, overlap), i) = LastOf(d.current, overlap) \o <<i>>
    BY <1>1, <2>1, AppendIsConcat
  <2> HIDE DEF new
  <2> QED BY <1>4, <2>1, <2>2
<1>8. new.current \in Some
  <2>1. PICK copied \in 0 .. Len(d.current) :
            /\ LastOf(d.current, overlap) \in Seq(Nat) /\ Len(LastOf(d.current, overlap)) = copied
            /\ \A j \in 1..copied :
                  LastOf(d.current, overlap)[j] = d.current[Len(d.current) - copied + j]
    BY <1>1, LastOnes
  <2>2. \A j \in 1..copied : LastOf(d.current, overlap)[j] \in Places
    <3>1. \A j \in 1..copied : Len(d.current) - copied + j \in 1 .. Len(d.current)
      BY <1>1
    <3>2. \A j \in 1 .. Len(d.current) : d.current[j] \in Places
      <4> HIDE DEF Places
      <4> QED BY <1>1
    <3> HIDE DEF Places
    <3> QED BY <2>1, <3>1, <3>2
  <2>3. LastOf(d.current, overlap) \in Some
    <3> HIDE DEF Places
    <3> QED BY <2>1, <2>2
  <2>4. LastOf(d.current, overlap) \in Seq(Places) /\ i \in Places
    BY <1>1, <2>3
  <2>5. Append(LastOf(d.current, overlap), i) \in Seq(Places)
    BY ONLY <2>4, AppendProperties
  <2> QED BY <1>4, <2>5
<1>9. Cut(e, budget, overlap, d.current, new.current, <<i>>, FALSE)
  <2>1. Len(<<i>>) = 1 /\ <<i>>[1] = i
    OBVIOUS
  <2> HIDE DEF new
  <2> QED BY <1>7, <2>1 DEF Cut
<1>10. \A k \in 1 .. m + 1 :
          /\ new.pieces[k].tail = FALSE /\ new.pieces[k].sentences \in Some /\ t[k] # <<>>
          /\ Cut(e, budget, overlap, Before(new.pieces, k), new.pieces[k].sentences, t[k], k = 1)
  <2> SUFFICES ASSUME NEW k \in 1 .. m + 1
               PROVE  /\ new.pieces[k].tail = FALSE /\ new.pieces[k].sentences \in Some /\ t[k] # <<>>
                      /\ Cut(e, budget, overlap, Before(new.pieces, k), new.pieces[k].sentences,
                             t[k], k = 1)
    OBVIOUS
  <2>1. CASE k \in 1..m
    <3>1. /\ d.pieces[k].tail = FALSE /\ d.pieces[k].sentences \in Some /\ o[k] # <<>>
          /\ Cut(e, budget, overlap, Before(d.pieces, k), d.pieces[k].sentences, o[k], k = 1)
      BY <2>1 DEF SoFar
    <3>2. new.pieces[k] = d.pieces[k] /\ t[k] = o[k] /\ Before(new.pieces, k) = Before(d.pieces, k)
      BY <1>3, <1>5, <2>1
    <3> HIDE DEF new, t, Some
    <3> QED BY <3>1, <3>2
  <2>2. CASE k = m + 1
    <3>1. Cut(e, budget, overlap, Before(d.pieces, m + 1), d.current, c, o = <<>>)
      BY DEF SoFar
    <3>2. (o = <<>>) <=> (k = 1)
      <4>1. (o = <<>>) <=> (m = 0)
        BY <1>1
      <4> HIDE DEF m
      <4> QED BY <1>1, <2>2, <4>1
    <3>3. /\ new.pieces[k].tail = FALSE /\ new.pieces[k].sentences = d.current /\ t[k] = c
          /\ Before(new.pieces, k) = Before(d.pieces, m + 1)
      BY <1>3, <1>5, <2>2
    <3>4. Cut(e, budget, overlap, Before(new.pieces, k), new.pieces[k].sentences, t[k], k = 1)
      <4>1. (o = <<>>) = (k = 1)
        BY <3>2
      <4> HIDE DEF new, t, m
      <4> QED BY ONLY <3>1, <3>3, <4>1, Zenon
    <3> HIDE DEF new, t, Some
    <3> QED BY <1>1, <1>2, <3>3, <3>4
  <2>3. k \in 1..m \/ k = m + 1
    <3> HIDE DEF m
    <3> QED BY <1>1
  <2> QED BY <2>1, <2>2, <2>3
<1>11. <<i>> \in Some /\ i # 0 /\ <<i>> # <<>> /\ Len(t) + 1 = m + 2
  <2>1. Len(t) + 1 = m + 2
    BY <1>1, <1>3
  <2>2. <<i>> \in Seq(Places)
    <3> HIDE DEF Places
    <3> QED BY <1>1
  <2> QED BY <1>1, <2>1, <2>2
<1>12. Cut(e, budget, overlap, Before(new.pieces, Len(t) + 1), new.current, <<i>>, t = <<>>)
  <2>1. (t = <<>>) = FALSE
    BY <1>3
  <2> HIDE DEF new, t, m
  <2> QED BY ONLY <1>5, <1>9, <1>11, <2>1, Zenon
<1>13. Len(t) = Len(new.pieces) /\ 1 .. Len(t) = 1 .. m + 1
  BY <1>3, <1>5
<1> QED
  BY <1>3, <1>4, <1>6, <1>8, <1>10, <1>11, <1>12, <1>13, Zenon DEF SoFar

\* Whatever the sentences weigh, what is packed is cut well.
LEMMA PackedIsCut ==
    ASSUME NEW e \in Entity, NEW budget \in Int, NEW overlap \in Nat
    PROVE  \E o, c : SoFar(e, budget, overlap, Len(e.sentences), Packed(e, budget, overlap), o, c)
<1> DEFINE n == Len(e.sentences)
<1>1. PICK h \in [0..n -> Packing] :
          /\ h[0] = Unpacked
          /\ \A i \in 1..n : h[i] = PackNext(e, budget, overlap, h[i - 1], i)
          /\ Packed(e, budget, overlap) = h[n]
  BY PackPrefixes
<1> DEFINE S == {i \in 0..n : \E o, c : SoFar(e, budget, overlap, i, h[i], o, c)}
<1>2. n \in Nat
  BY DEF Entity
<1>3. 0 \in S
  <2> DEFINE Some == Seq(1..n)
  <2>1. /\ Unpacked \in Packing /\ <<>> \in Seq(Some) /\ <<>> \in Some
        /\ Unpacked.current = <<>> /\ Unpacked.pieces = <<>> /\ Len(<<>>) = 0
    BY DEF Unpacked, Packing
  <2>2. FlattenSeq(<<>>) \o <<>> = [j \in 1..0 |-> j]
    <3>1. FlattenSeq(<<>>) = <<>>
      BY DEF FlattenSeq
    <3>2. <<>> \o <<>> = <<>> /\ [j \in 1..0 |-> j] = <<>>
      OBVIOUS
    <3> QED BY <3>1, <3>2
  <2>3. Cut(e, budget, overlap, Before(Unpacked.pieces, Len(<<>>) + 1), <<>>, <<>>, TRUE)
    <3>1. Before(Unpacked.pieces, Len(<<>>) + 1) = <<>>
      BY DEF Before
    <3>2. LastOf(<<>>, overlap) \o <<>> = <<>> /\ ~(Len(<<>>) > 1)
      BY LastOfNothing
    <3> QED BY <3>1, <3>2 DEF Cut
  <2>4. SoFar(e, budget, overlap, 0, Unpacked, <<>>, <<>>)
    <3>1. \A k \in 1 .. Len(<<>>) : FALSE
      OBVIOUS
    <3>2. (<<>> = <<>>) = TRUE
      OBVIOUS
    <3> QED BY <2>1, <2>2, <2>3, <3>1, <3>2, Zenon DEF SoFar
  <2>5. 0 \in 0..n /\ h[0] = Unpacked
    BY <1>1, <1>2
  <2> QED BY <2>4, <2>5
<1>4. ASSUME NEW i \in 1..n, i - 1 \in S PROVE i \in S
  <2>1. PICK o, c : SoFar(e, budget, overlap, i - 1, h[i - 1], o, c)
    BY <1>4
  <2>2. h[i] = PackNext(e, budget, overlap, h[i - 1], i) /\ i \in 0..n
    BY <1>1, <1>2
  <2>3. \E o2, c2 : SoFar(e, budget, overlap, i, h[i], o2, c2)
    <3>1. CASE h[i - 1].current # <<>> /\ SizeOf(e, Append(h[i - 1].current, i)) > budget
      BY <2>1, <2>2, <3>1, PieceCloses
    <3>2. CASE ~(h[i - 1].current # <<>> /\ SizeOf(e, Append(h[i - 1].current, i)) > budget)
      BY <2>1, <2>2, <3>2, PieceGrows, ZenonT(30)
    <3> QED BY <3>1, <3>2
  <2> QED BY <2>2, <2>3
<1>5. \A i \in 0..n : i \in S
  <2> HIDE DEF S, n
  <2> QED BY <1>2, <1>3, <1>4, PrefixInduction
<1>6. n \in 0..n
  BY <1>2
<1> QED
  BY <1>1, <1>5, <1>6

\* What a piece has of its own is what follows its copy of the piece before.
LEMMA OwnIsOwn ==
    ASSUME NEW pieces, NEW k \in Nat, NEW overlap \in Nat, NEW own \in Seq(Nat),
           Before(pieces, k) \in Seq(Nat),
           pieces[k].sentences = LastOf(Before(pieces, k), overlap) \o own
    PROVE  /\ Own(pieces, k, overlap) = own
           /\ SubSeq(pieces[k].sentences, 1, Len(pieces[k].sentences) - Len(own))
                 = LastOf(Before(pieces, k), overlap)
<1> DEFINE before == Before(pieces, k)
           last == LastOf(before, overlap)
           all == pieces[k].sentences
<1>1. last \in Seq(Nat) /\ Len(last) = Min({overlap, Len(before)})
  <2> HIDE DEF before
  <2> QED BY LastOnes DEF before
<1>2. (IF k = 1 THEN 0 ELSE Min({overlap, Len(pieces[k - 1].sentences)})) = Len(last)
  <2>1. CASE k = 1
    <3>1. before = <<>>
      BY <2>1 DEF Before
    <3>2. last = <<>>
      BY <3>1, LastOfNothing
    <3> QED BY <2>1, <3>2
  <2>2. CASE k # 1
    <3>1. before = pieces[k - 1].sentences
      BY <2>2 DEF Before
    <3> HIDE DEF before, last
    <3> QED BY <1>1, <2>2, <3>1
  <2> QED BY <2>1, <2>2
<1>3. all = last \o own
  OBVIOUS
<1> HIDE DEF last, all
<1>4. SubSeq(all, 1, Len(last)) = last /\ SubSeq(all, Len(last) + 1, Len(all)) = own
  BY <1>1, <1>3, ConcatParts
<1>5. Len(all) - Len(own) = Len(last)
  BY <1>1, <1>3, ConcatProperties
<1>6. Own(pieces, k, overlap) = SubSeq(all, Len(last) + 1, Len(all))
  BY <1>2, Zenon DEF Own, all
<1> QED
  BY <1>4, <1>5, <1>6 DEF all, last

\* The pieces are sound, for a budget; fits says that the whole fits the target.
Sound(pieces, e, budget, overlap, fits) ==
    /\ pieces # <<>>
    /\ FlattenSeq([k \in DOMAIN pieces |-> Own(pieces, k, overlap)]) = [i \in DOMAIN e.sentences |-> i]
    /\ \A k \in DOMAIN pieces :
          /\ pieces[k].tail <=> (k = Len(pieces) /\ e.tail > 0)
          /\ e.sentences # <<>> => Own(pieces, k, overlap) # <<>>
          /\ Len(Own(pieces, k, overlap)) > 1 =>
                SizeOf(e, pieces[k].sentences) =< budget \/ fits
          /\ k > 1 =>
                /\ SizeOf(e, Append(pieces[k - 1].sentences, Head(Own(pieces, k, overlap)))) > budget
                /\ IsSuffix(SubSeq(pieces[k].sentences, 1,
                                   Len(pieces[k].sentences) - Len(Own(pieces, k, overlap))),
                            pieces[k - 1].sentences)

\* The pieces of a description that does not fit are sound.
LEMMA PackedIsSound ==
    ASSUME NEW e \in Entity, NEW budget \in Int, NEW overlap \in Nat, NEW fits \in BOOLEAN, NEW done,
           done = Packed(e, budget, overlap)
    PROVE  Sound(Append(done.pieces, Piece(done.current, e.tail > 0)), e, budget, overlap, fits)
<1> DEFINE n == Len(e.sentences)
           Some == Seq(1..n)
           last == Piece(done.current, e.tail > 0)
           pieces == Append(done.pieces, last)
<1>1. PICK o, c : SoFar(e, budget, overlap, n, done, o, c)
  BY PackedIsCut
<1> DEFINE m == Len(o)
           owns == Append(o, c)
<1>2. /\ n \in Nat /\ m \in Nat /\ o \in Seq(Some) /\ c \in Some
      /\ done.current \in Seq(Nat) /\ done.pieces \in Seq(Pieces) /\ Len(done.pieces) = m
  <2>1. n \in Nat
    BY DEF Entity
  <2>2. /\ o \in Seq(Some) /\ c \in Some /\ done.current \in Some /\ done \in Packing
        /\ Len(done.pieces) = m
    BY <1>1 DEF SoFar
  <2>3. m \in Nat
    BY <2>2
  <2>5. done.pieces \in Seq(Pieces)
    BY <2>2 DEF Packing
  <2> HIDE DEF n
  <2> QED BY <2>1, <2>2, <2>3, <2>5, PlacesAreNumbers
<1>3. /\ owns \in Seq(Some) /\ Len(owns) = m + 1 /\ owns[m + 1] = c
      /\ \A k \in 1..m : owns[k] = o[k]
  <2>1. o \in Seq(Some) /\ c \in Some
    BY <1>2
  <2> HIDE DEF Some
  <2> QED BY ONLY <2>1, AppendProperties
<1>4. /\ last \in Pieces /\ last.tail = (e.tail > 0) /\ last.sentences = done.current
      /\ Len(pieces) = m + 1 /\ pieces[m + 1] = last
      /\ \A k \in 1..m : pieces[k] = done.pieces[k]
      /\ \A k \in 1 .. m + 1 : Before(pieces, k) = Before(done.pieces, k)
  <2>1. last \in Pieces /\ last.tail = (e.tail > 0) /\ last.sentences = done.current
    <3>1. (e.tail > 0) \in BOOLEAN
      OBVIOUS
    <3> QED BY <1>2, <3>1, PieceType DEF Piece
  <2> HIDE DEF last
  <2>2. done.pieces \in Seq(Pieces) /\ last \in Pieces
    BY <1>2, <2>1
  <2>3. /\ Len(Append(done.pieces, last)) = Len(done.pieces) + 1
        /\ Append(done.pieces, last)[Len(done.pieces) + 1] = last
        /\ \A k \in 1 .. Len(done.pieces) : Append(done.pieces, last)[k] = done.pieces[k]
    BY ONLY <2>2, AppendProperties
  <2>4. \A k \in 1 .. m + 1 : Before(pieces, k) = Before(done.pieces, k)
    BY <1>2, <2>2, BeforeStays
  <2> QED BY <1>2, <2>1, <2>3, <2>4
<1>5. /\ DOMAIN pieces = 1 .. m + 1 /\ DOMAIN owns = 1 .. m + 1
      /\ owns = [k \in 1 .. m + 1 |-> owns[k]] /\ DOMAIN e.sentences = 1..n
  <2>1. pieces \in Seq(Pieces)
    BY <1>2, <1>4, AppendProperties
  <2>2. DOMAIN pieces = 1 .. m + 1
    <3> HIDE DEF pieces
    <3> QED BY <1>4, <2>1
  <2>3. DOMAIN owns = 1 .. m + 1 /\ owns = [k \in 1 .. m + 1 |-> owns[k]]
    <3> HIDE DEF owns, Some
    <3> QED BY <1>3
  <2> QED BY <2>2, <2>3 DEF Entity
<1>6. FlattenSeq(owns) = [i \in 1..n |-> i]
  <2>1. o \in Seq(Some) /\ owns \in Seq(Some) /\ Len(owns) = Len(o) + 1
        /\ \A k \in 1 .. Len(o) : owns[k] = o[k]
    BY <1>2, <1>3
  <2>2. FlattenSeq(owns) = FlattenSeq(o) \o owns[Len(owns)]
    <3> HIDE DEF owns, n
    <3> QED BY <2>1, FlattenOneMore
  <2>3. FlattenSeq(o) \o c = [j \in 1..n |-> j]
    BY <1>1 DEF SoFar
  <2> QED BY <1>3, <2>2, <2>3
<1>7. ASSUME NEW k \in 1 .. m + 1
      PROVE  /\ Cut(e, budget, overlap, Before(pieces, k), pieces[k].sentences, owns[k], k = 1)
             /\ pieces[k].tail = (k = m + 1 /\ e.tail > 0)
             /\ n # 0 => owns[k] # <<>>
  <2>1. CASE k \in 1..m
    <3>1. /\ done.pieces[k].tail = FALSE /\ o[k] # <<>>
          /\ Cut(e, budget, overlap, Before(done.pieces, k), done.pieces[k].sentences, o[k], k = 1)
      BY <1>1, <2>1 DEF SoFar
    <3>2. pieces[k] = done.pieces[k] /\ owns[k] = o[k] /\ Before(pieces, k) = Before(done.pieces, k)
      BY <1>3, <1>4, <2>1
    <3>3. (k = m + 1 /\ e.tail > 0) = FALSE
      <4> HIDE DEF m
      <4> QED BY <1>2, <2>1
    <3> HIDE DEF pieces, owns
    <3> QED BY <3>1, <3>2, <3>3
  <2>2. CASE k = m + 1
    <3>1. /\ Cut(e, budget, overlap, Before(done.pieces, m + 1), done.current, c, o = <<>>)
          /\ n # 0 => c # <<>>
      BY <1>1 DEF SoFar
    <3>2. (o = <<>>) = (k = 1)
      <4>1. (o = <<>>) <=> (m = 0)
        BY <1>2
      <4> HIDE DEF m
      <4> QED BY <1>2, <2>2, <4>1
    <3>3. /\ pieces[k].tail = (e.tail > 0) /\ pieces[k].sentences = done.current /\ owns[k] = c
          /\ Before(pieces, k) = Before(done.pieces, m + 1)
      BY <1>3, <1>4, <2>2
    <3> HIDE DEF pieces, owns, m
    <3>4. Cut(e, budget, overlap, Before(pieces, k), pieces[k].sentences, owns[k], k = 1)
      BY ONLY <3>1, <3>2, <3>3, Zenon
    <3>5. pieces[k].tail = (k = m + 1 /\ e.tail > 0)
      BY <2>2, <3>3
    <3> QED BY <3>1, <3>3, <3>4, <3>5
  <2>3. k \in 1..m \/ k = m + 1
    <3> HIDE DEF m
    <3> QED BY <1>2
  <2> QED BY <2>1, <2>2, <2>3
<1>8. ASSUME NEW k \in 1 .. m + 1
      PROVE  /\ Own(pieces, k, overlap) = owns[k] /\ owns[k] \in Seq(Nat)
             /\ IsSuffix(SubSeq(pieces[k].sentences, 1, Len(pieces[k].sentences) - Len(owns[k])),
                         Before(pieces, k))
  <2>1. owns[k] \in Seq(Nat)
    <3>1. owns[k] \in Some
      <4> HIDE DEF owns, Some
      <4> QED BY <1>3
    <3> HIDE DEF owns, n
    <3> QED BY <1>2, <3>1, PlacesAreNumbers
  <2>2. Before(pieces, k) \in Seq(Nat)
    BY <1>1, <1>2, <1>4, BeforeType
  <2>3. pieces[k].sentences = LastOf(Before(pieces, k), overlap) \o owns[k]
    BY <1>7 DEF Cut
  <2>4. k \in Nat
    BY <1>2
  <2>5. IsSuffix(LastOf(Before(pieces, k), overlap), Before(pieces, k))
    BY <2>2, LastIsSuffix
  <2> HIDE DEF pieces, owns
  <2>6. /\ Own(pieces, k, overlap) = owns[k]
        /\ SubSeq(pieces[k].sentences, 1, Len(pieces[k].sentences) - Len(owns[k]))
              = LastOf(Before(pieces, k), overlap)
    BY <2>1, <2>2, <2>3, <2>4, OwnIsOwn
  <2> QED BY <2>1, <2>5, <2>6
<1>9. [k \in DOMAIN pieces |-> Own(pieces, k, overlap)] = owns
  <2>1. [k \in 1 .. m + 1 |-> Own(pieces, k, overlap)] = [k \in 1 .. m + 1 |-> owns[k]]
    <3> HIDE DEF pieces, owns
    <3> QED BY <1>8
  <2> HIDE DEF pieces, owns
  <2> QED BY <1>5, <2>1
<1>10. pieces # <<>>
  <2>1. Len(pieces) = m + 1 /\ m \in Nat
    BY <1>2, <1>4
  <2> HIDE DEF pieces, m
  <2> QED BY ONLY <2>1
<1>11. ASSUME NEW k \in 1 .. m + 1
       PROVE  /\ pieces[k].tail <=> (k = Len(pieces) /\ e.tail > 0)
              /\ e.sentences # <<>> => owns[k] # <<>>
              /\ Len(owns[k]) > 1 => SizeOf(e, pieces[k].sentences) =< budget
              /\ k > 1 =>
                    /\ SizeOf(e, Append(pieces[k - 1].sentences, Head(owns[k]))) > budget
                    /\ IsSuffix(SubSeq(pieces[k].sentences, 1,
                                       Len(pieces[k].sentences) - Len(owns[k])),
                                pieces[k - 1].sentences)
  <2>1. e.sentences # <<>> => n # 0
    BY DEF Entity
  <2>2. n # 0 => Head(owns[k]) = owns[k][1]
    BY <1>7, <1>8
  <2>3. k > 1 => Before(pieces, k) = pieces[k - 1].sentences /\ ~(k = 1)
    BY <1>2 DEF Before
  <2>4. k > 1 => n # 0
    <3>1. k > 1 => m # 0
      <4> HIDE DEF m
      <4> QED BY <1>2
    <3>2. n = 0 => o = <<>>
      BY <1>1 DEF SoFar
    <3> QED BY <3>1, <3>2
  <2>5. Len(owns[k]) > 1 => SizeOf(e, pieces[k].sentences) =< budget
    BY <1>7 DEF Cut
  <2>6. ~(k = 1) => SizeOf(e, Append(Before(pieces, k), owns[k][1])) > budget
    BY <1>7 DEF Cut
  <2>7. pieces[k].tail <=> (k = Len(pieces) /\ e.tail > 0)
    <3>1. pieces[k].tail = (k = m + 1 /\ e.tail > 0)
      BY <1>7
    <3>2. Len(pieces) = m + 1
      BY <1>4
    <3> HIDE DEF pieces, m
    <3> QED BY ONLY <3>1, <3>2, Zenon
  <2> HIDE DEF pieces, owns, n, m
  <2> QED BY <1>7, <1>8, <2>1, <2>2, <2>3, <2>4, <2>5, <2>6, <2>7
<1> HIDE DEF pieces, owns, n, m
<1>12. ASSUME NEW k \in DOMAIN pieces
       PROVE  /\ pieces[k].tail <=> (k = Len(pieces) /\ e.tail > 0)
              /\ e.sentences # <<>> => Own(pieces, k, overlap) # <<>>
              /\ Len(Own(pieces, k, overlap)) > 1 =>
                    SizeOf(e, pieces[k].sentences) =< budget \/ fits
              /\ k > 1 =>
                    /\ SizeOf(e, Append(pieces[k - 1].sentences, Head(Own(pieces, k, overlap)))) > budget
                    /\ IsSuffix(SubSeq(pieces[k].sentences, 1,
                                       Len(pieces[k].sentences) - Len(Own(pieces, k, overlap))),
                                pieces[k - 1].sentences)
  <2>1. k \in 1 .. m + 1 /\ Own(pieces, k, overlap) = owns[k]
    BY <1>5, <1>8
  <2> QED BY <1>11, <2>1
<1>13. FlattenSeq([k \in DOMAIN pieces |-> Own(pieces, k, overlap)]) = [i \in DOMAIN e.sentences |-> i]
  BY <1>5, <1>6, <1>9
<1> QED
  BY <1>10, <1>12, <1>13, Zenon DEF Sound, pieces

-----------------------------------------------------------------------------
\* A description that fits is one piece, and sound.
LEMMA OnePieceIsSound ==
    ASSUME NEW e \in Entity, NEW budget, NEW overlap \in Nat
    PROVE  Sound(<<Piece([i \in DOMAIN e.sentences |-> i], e.tail > 0)>>, e, budget, overlap, TRUE)
<1> DEFINE n == Len(e.sentences)
           all == [i \in DOMAIN e.sentences |-> i]
           pieces == <<Piece(all, e.tail > 0)>>
<1>1. n \in Nat /\ DOMAIN e.sentences = 1..n /\ (e.sentences # <<>> <=> n # 0)
  BY DEF Entity
<1>2. all \in Seq(Nat) /\ Len(all) = n
  <2>1. \A i \in 1..n : i \in Nat
    BY <1>1
  <2>2. all = [i \in 1..n |-> i]
    BY <1>1
  <2> HIDE DEF n
  <2> QED BY ONLY <1>1, <2>1, <2>2, FunctionIsSeq
<1>3. /\ DOMAIN pieces = {1} /\ Len(pieces) = 1 /\ pieces # <<>>
      /\ pieces[1].sentences = all /\ pieces[1].tail = (e.tail > 0)
  BY DEF Piece
<1>4. Own(pieces, 1, overlap) = all
  <2>1. SubSeq(all, 1, Len(all)) = all
    <3> HIDE DEF all
    <3> QED BY ONLY <1>2, SubSeqFull
  <2>2. Own(pieces, 1, overlap) = SubSeq(pieces[1].sentences, 0 + 1, Len(pieces[1].sentences))
    BY DEF Own
  <2> HIDE DEF all, pieces
  <2> QED BY <1>3, <2>1, <2>2
<1>5. FlattenSeq([k \in DOMAIN pieces |-> Own(pieces, k, overlap)]) = all
  <2>1. [k \in DOMAIN pieces |-> Own(pieces, k, overlap)] = <<all>>
    <3> HIDE DEF pieces, all
    <3>1. [k \in DOMAIN pieces |-> Own(pieces, k, overlap)] = [k \in 1..1 |-> all]
      BY <1>3, <1>4
    <3> QED BY <3>1
  <2>2. FlattenSeq(<<all>>) = all
    <3> HIDE DEF all
    <3>1. /\ <<>> \in Seq(Seq(Nat)) /\ <<all>> \in Seq(Seq(Nat)) /\ Len(<<all>>) = Len(<<>>) + 1
          /\ \A i \in 1..Len(<<>>) : <<all>>[i] = <<>>[i]
      BY <1>2
    <3>2. FlattenSeq(<<all>>) = FlattenSeq(<<>>) \o <<all>>[Len(<<all>>)]
      BY <3>1, FlattenOneMore
    <3>3. FlattenSeq(<<>>) = <<>>
      BY DEF FlattenSeq
    <3>4. <<>> \o all = all /\ <<all>>[Len(<<all>>)] = all
      BY <1>2
    <3> QED BY <3>2, <3>3, <3>4
  <2> QED BY <2>1, <2>2
<1>6. ASSUME NEW k \in DOMAIN pieces PROVE k = 1
  BY <1>3
<1>7. pieces[1].tail <=> (1 = Len(pieces) /\ e.tail > 0)
  <2> HIDE DEF pieces
  <2>1. Len(pieces) = 1 /\ pieces[1].tail = (e.tail > 0)
    BY <1>3
  <2> QED BY ONLY <2>1, Zenon
<1>8. e.sentences # <<>> => all # <<>>
  BY <1>1, <1>2
<1> HIDE DEF pieces, all
<1>9. ASSUME NEW k \in DOMAIN pieces
      PROVE  /\ pieces[k].tail <=> (k = Len(pieces) /\ e.tail > 0)
             /\ e.sentences # <<>> => Own(pieces, k, overlap) # <<>>
             /\ ~(k > 1)
  <2>1. k = 1 /\ ~(k > 1)
    BY <1>6
  <2> QED BY ONLY <2>1, <1>4, <1>7, <1>8, Zenon
<1> QED
  BY <1>3, <1>5, <1>9, Zenon DEF Sound, pieces, all

\* Whatever the sentences of a description weigh, and whatever the label, the target
\* and the overlap are, the pieces it is cut into say it once and in order but for
\* what they copy, keep the budget where a sentence allows it, waste none of it, and
\* carry the techniques at the end (_entity_pieces, _split_oversized).
THEOREM PiecesAreSound ==
    ASSUME NEW e \in Entity, NEW label \in Nat, NEW target \in Nat, NEW overlap \in Nat
    PROVE  SoundPieces(EntityPieces(label, e, target, overlap), label, e, target, overlap)
<1> DEFINE budget == Max({target - Tokens(Header(label, e)), 1})
           fits == Tokens(Joined(<<Header(label, e), Description(e), e.tail>>)) =< target
           pieces == EntityPieces(label, e, target, overlap)
<1>1. budget \in Int
  <2>1. Header(label, e) \in Nat
    BY DEF Header, Entity
  <2>2. target - Tokens(Header(label, e)) \in Int
    BY <2>1 DEF Tokens
  <2> QED BY <2>2, OfTwo
<1>2. Sound(pieces, e, budget, overlap, fits)
  <2> HIDE DEF budget
  <2>1. CASE fits
    <3>1. pieces = <<Piece([i \in DOMAIN e.sentences |-> i], e.tail > 0)>>
      BY <2>1 DEF EntityPieces
    <3>2. fits = TRUE
      BY <2>1
    <3> HIDE DEF pieces, fits
    <3> QED BY <3>1, <3>2, OnePieceIsSound
  <2>2. CASE ~fits
    <3>1. pieces = SplitOversized(Header(label, e), e, target, overlap)
      BY <2>2 DEF EntityPieces
    <3> DEFINE done == Packed(e, budget, overlap)
    <3>2. pieces = Append(done.pieces, Piece(done.current, e.tail > 0))
      BY <3>1, SplitIsPacked DEF budget
    <3>3. fits \in BOOLEAN
      OBVIOUS
    <3> HIDE DEF pieces, fits
    <3> QED BY <1>1, <3>2, <3>3, PackedIsSound
  <2> QED BY <2>1, <2>2
<1> QED
  BY <1>2, Zenon DEF SoundPieces, Sound, SizeOf

-----------------------------------------------------------------------------
(* Chunks laid side by side. *)

\* The chunks of a resume, the resumes and the enrichments.
Chunks == [type : {"project", "experience", "skill"}, source : Nat, piece : Pieces,
           achievement : Nat, merged : Nat]
Resume == [projects : Seq(Entity), experiences : Seq(Entity), skills : Seq(Nat)]
Enrichment == [projects : Seq(Nat), experiences : Nat, skills : Nat]

\* A sequence made of the first m parts: the chunks of a source are those of its part, side by side.
PlacedAt(x, parts, i, b) ==
    /\ \A k \in DOMAIN x : x[k].source = i <=> k \in (b + 1) .. (b + Len(parts[i]))
    /\ \A j \in 1..Len(parts[i]) : b + j \in DOMAIN x /\ x[b + j] = parts[i][j]
IsLaid(x, parts, m) ==
    /\ \A i \in 1..m : \E b \in Nat : PlacedAt(x, parts, i, b)
    /\ \A k \in DOMAIN x : \E i \in 1..m : \E j \in 1..Len(parts[i]) : x[k] = parts[i][j]

\* Every chunk of a part names it as its source.
OwnSources(parts) == \A i \in 1..Len(parts) : \A j \in 1..Len(parts[i]) : parts[i][j].source = i

\* One part more.
LEMMA LaidOneMore ==
    ASSUME NEW parts \in Seq(Seq(Chunks)), OwnSources(parts), NEW m \in 1..Len(parts),
           NEW x \in Seq(Chunks), IsLaid(x, parts, m - 1)
    PROVE  IsLaid(x \o parts[m], parts, m)
<1> DEFINE p == parts[m]
           y == x \o p
           l == Len(x)
           n == Len(p)
<1>1. m \in Nat /\ l \in Nat /\ n \in Nat /\ p \in Seq(Chunks) /\ \A i \in 1 .. m - 1 : i \in 1..Len(parts)
  OBVIOUS
<1>2. /\ DOMAIN x = 1..l /\ DOMAIN y = 1 .. l + n
      /\ \A k \in 1..l : y[k] = x[k]
      /\ \A j \in 1..n : l + j \in 1 .. l + n /\ y[l + j] = p[j]
  OBVIOUS
<1>3. \A j \in 1..n : p[j].source = m
  BY DEF OwnSources
<1>4. ASSUME NEW k \in 1..l PROVE \E i \in 1 .. m - 1 : x[k].source = i
  <2>1. PICK i \in 1 .. m - 1 : \E j \in 1..Len(parts[i]) : x[k] = parts[i][j]
    BY <1>2 DEF IsLaid
  <2>2. i \in 1..Len(parts)
    BY <1>1
  <2> QED BY <2>1, <2>2 DEF OwnSources
<1>5. \A k \in 1 .. l + n : k \in 1..l \/ \E j \in 1..n : k = l + j
  <2>1. ASSUME NEW k \in 1 .. l + n, k \notin 1..l PROVE k - l \in 1..n /\ k = l + (k - l)
    <3> HIDE DEF l, n
    <3> QED BY <1>1, <2>1
  <2> QED BY <2>1
<1>6. ASSUME NEW i \in 1 .. m - 1 PROVE \E b \in Nat : PlacedAt(y, parts, i, b)
  <2>1. PICK b \in Nat : PlacedAt(x, parts, i, b)
    BY DEF IsLaid
  <2> DEFINE a == Len(parts[i])
  <2>2. a \in Nat /\ i # m
    BY <1>1
  <2>3. \A j \in 1..a : b + j \in 1..l /\ x[b + j] = parts[i][j]
    BY <1>2, <2>1 DEF PlacedAt
  <2>4. \A j \in 1..a : b + j \in 1 .. l + n /\ y[b + j] = parts[i][j]
    <3> HIDE DEF a, l, n, y
    <3> QED BY <1>1, <1>2, <2>2, <2>3
  <2>5. a > 0 => b + a =< l
    <3> HIDE DEF l, n
    <3> QED BY <1>1, <2>2, <2>3
  <2>6. ASSUME NEW k \in 1 .. l + n
        PROVE  y[k].source = i <=> k \in (b + 1) .. (b + a)
    <3>1. CASE k \in 1..l
      <4>1. y[k] = x[k] /\ (x[k].source = i <=> k \in (b + 1) .. (b + a))
        BY <1>2, <2>1, <3>1 DEF PlacedAt
      <4> QED BY <4>1
    <3>2. ASSUME NEW j \in 1..n, k = l + j PROVE y[k].source = i <=> k \in (b + 1) .. (b + a)
      <4>1. y[k].source # i
        <5> HIDE DEF y, n, p, l
        <5> QED BY <1>2, <1>3, <2>2, <3>2
      <4>2. k \notin (b + 1) .. (b + a)
        <5> HIDE DEF l, n, a
        <5> QED BY <1>1, <2>2, <2>5, <3>2
      <4> QED BY <4>1, <4>2
    <3> QED BY <1>5, <3>1, <3>2
  <2> HIDE DEF y
  <2> QED BY <1>2, <2>4, <2>6 DEF PlacedAt
<1>7. PlacedAt(y, parts, m, l)
  <2>1. ASSUME NEW k \in 1 .. l + n
        PROVE  y[k].source = m <=> k \in (l + 1) .. (l + n)
    <3>1. CASE k \in 1..l
      <4>1. y[k].source # m
        BY <1>1, <1>2, <1>4, <3>1
      <4>2. k \notin (l + 1) .. (l + n)
        <5> HIDE DEF l, n
        <5> QED BY <1>1, <3>1
      <4> QED BY <4>1, <4>2
    <3>2. ASSUME NEW j \in 1..n, k = l + j PROVE y[k].source = m <=> k \in (l + 1) .. (l + n)
      <4>1. y[k].source = m
        <5> HIDE DEF y, n, p, l
        <5> QED BY <1>2, <1>3, <3>2
      <4>2. k \in (l + 1) .. (l + n)
        <5> HIDE DEF l, n
        <5> QED BY <1>1, <3>2
      <4> QED BY <4>1, <4>2
    <3> QED BY <1>5, <3>1, <3>2
  <2> HIDE DEF y
  <2> QED BY <1>2, <2>1 DEF PlacedAt
<1>8. ASSUME NEW k \in 1 .. l + n
      PROVE  \E i \in 1..m : \E j \in 1..Len(parts[i]) : y[k] = parts[i][j]
  <2>1. CASE k \in 1..l
    <3>1. \E i \in 1 .. m - 1 : \E j \in 1..Len(parts[i]) : x[k] = parts[i][j]
      BY <1>2, <2>1 DEF IsLaid
    <3>2. y[k] = x[k] /\ \A i \in 1 .. m - 1 : i \in 1..m
      BY <1>1, <1>2, <2>1
    <3> HIDE DEF y
    <3> QED BY <3>1, <3>2
  <2>2. ASSUME NEW j \in 1..n, k = l + j
        PROVE  \E i \in 1..m : \E q \in 1..Len(parts[i]) : y[k] = parts[i][q]
    <3>1. y[k] = parts[m][j] /\ m \in 1..m /\ j \in 1..Len(parts[m])
      BY <1>1, <1>2, <2>2
    <3> HIDE DEF y
    <3> QED BY <3>1
  <2> QED BY <1>5, <2>1, <2>2
<1>9. \A i \in 1..m : i \in 1 .. m - 1 \/ i = m
  BY <1>1
<1> HIDE DEF y
<1>10. \A i \in 1..m : \E b \in Nat : PlacedAt(y, parts, i, b)
  BY <1>1, <1>6, <1>7, <1>9
<1> QED
  BY <1>2, <1>8, <1>10 DEF IsLaid, y

\* All parts.
LEMMA FlattenIsLaid ==
    ASSUME NEW parts \in Seq(Seq(Chunks)), OwnSources(parts)
    PROVE  FlattenSeq(parts) \in Seq(Chunks) /\ IsLaid(FlattenSeq(parts), parts, Len(parts))
<1> DEFINE n == Len(parts)
<1>1. PICK h \in [0..n -> Seq(Chunks)] :
          /\ h[0] = <<>>
          /\ \A i \in 1..n : h[i] = h[i - 1] \o parts[i]
          /\ FlattenSeq(parts) = h[n]
  BY FlattenPrefixes
<1> DEFINE T == {i \in 0..n : IsLaid(h[i], parts, i)}
<1>2. n \in Nat
  OBVIOUS
<1>3. 0 \in T
  <2>1. IsLaid(<<>>, parts, 0)
    BY DEF IsLaid
  <2> QED BY <1>1, <1>2, <2>1
<1>4. ASSUME NEW i \in 1..n, i - 1 \in T PROVE i \in T
  <2>1. i - 1 \in 0..n /\ i \in 0..n
    BY <1>2
  <2>2. h[i - 1] \in Seq(Chunks) /\ IsLaid(h[i - 1], parts, i - 1)
    BY <1>1, <1>4, <2>1
  <2>3. IsLaid(h[i - 1] \o parts[i], parts, i)
    BY <2>2, LaidOneMore
  <2>4. h[i] = h[i - 1] \o parts[i]
    BY <1>1
  <2> QED BY <2>1, <2>3, <2>4
<1> HIDE DEF T
<1>5. n \in T
  <2> HIDE DEF n
  <2>1. \A i \in 0..n : i \in T
    BY ONLY <1>2, <1>3, <1>4, PrefixInduction
  <2> QED BY <1>2, <2>1
<1> QED
  BY <1>1, <1>2, <1>5 DEF T

\* The kinds of the chunks of a sequence, and where those of a part are.
AllOf(x, type) == \A k \in DOMAIN x : x[k].type = type /\ x[k].merged \in {0, x[k].source}
NoneOf(x, type) == \A k \in DOMAIN x : x[k].type # type
Stands(made, type, i, part) ==
    \E b \in Nat :
        /\ {k \in DOMAIN made : made[k].type = type /\ made[k].source = i}
              = (b + 1) .. (b + Len(part))
        /\ \A j \in 1..Len(part) : made[b + j] = part[j]

\* The chunks of one kind and source in a sequence of which one stretch has that kind.
LEMMA OfOneKind ==
    ASSUME NEW before \in Seq(Chunks), NEW x \in Seq(Chunks), NEW after \in Seq(Chunks), NEW type,
           NEW parts \in Seq(Seq(Chunks)), IsLaid(x, parts, Len(parts)),
           NoneOf(before, type), AllOf(x, type), NoneOf(after, type),
           NEW made, made = (before \o x) \o after, NEW i \in 1..Len(parts)
    PROVE  Stands(made, type, i, parts[i])
<1> DEFINE l == Len(before)
           m == Len(x)
           n == Len(after)
           a == Len(parts[i])
<1>1. l \in Nat /\ m \in Nat /\ n \in Nat /\ a \in Nat /\ DOMAIN x = 1..m
  OBVIOUS
<1>2. /\ DOMAIN made = 1 .. l + m + n
      /\ \A k \in 1..l : made[k].type # type
      /\ \A k \in 1..m : made[l + k] = x[k]
      /\ \A k \in 1..n : made[l + m + k].type # type
  <2>1. Len(before \o x) = l + m /\ before \o x \in Seq(Chunks)
    OBVIOUS
  <2>2. DOMAIN made = 1 .. l + m + n
    BY <2>1
  <2>3. /\ \A k \in 1..l : (before \o x)[k] = before[k]
        /\ \A k \in 1..m : (before \o x)[l + k] = x[k]
    OBVIOUS
  <2>4. \A k \in 1 .. l + m : made[k] = (before \o x)[k]
    BY <2>1
  <2>5. \A k \in 1..n : made[l + m + k] = after[k]
    BY <2>1
  <2>6. /\ \A k \in 1..l : k \in 1 .. l + m
        /\ \A k \in 1..m : l + k \in 1 .. l + m
    <3> HIDE DEF l, m
    <3> QED BY <1>1
  <2>7. \A k \in 1..l : made[k] = before[k]
    BY <2>3, <2>4, <2>6
  <2>8. \A k \in 1..m : made[l + k] = x[k]
    BY <2>3, <2>4, <2>6
  <2> QED BY <2>2, <2>5, <2>7, <2>8, SMTT(30) DEF NoneOf
<1>3. PICK c \in Nat : PlacedAt(x, parts, i, c)
  BY DEF IsLaid
<1>4. /\ \A k \in 1..m : x[k].source = i <=> k \in (c + 1) .. (c + a)
      /\ \A j \in 1..a : c + j \in 1..m /\ x[c + j] = parts[i][j]
  BY <1>1, <1>3 DEF PlacedAt
<1>5. \A k \in 1..m : made[l + k].type = type
  BY <1>1, <1>2, ZenonT(30) DEF AllOf
<1> DEFINE b == l + c
<1>6. \A k \in 1 .. l + m + n :
          \/ k \in 1..l
          \/ k - l \in 1..m /\ k = l + (k - l)
          \/ k - l - m \in 1..n /\ k = l + m + (k - l - m)
  <2> HIDE DEF l, m, n
  <2> QED BY <1>1
<1>7. ASSUME NEW k \in 1 .. l + m + n
      PROVE  made[k].type = type /\ made[k].source = i <=> k \in (b + 1) .. (b + a)
  <2>1. a > 0 => c + a =< m
    <3>1. a > 0 => a \in 1..a
      <4> HIDE DEF a
      <4> QED BY <1>1
    <3>2. a > 0 => c + a \in 1..m
      BY <1>4, <3>1
    <3> HIDE DEF a, m
    <3> QED BY <1>1, <3>2
  <2>2. CASE k \in 1..l
    <3>1. k \notin (b + 1) .. (b + a)
      <4> HIDE DEF l, a
      <4> QED BY <1>1, <2>2
    <3> QED BY <1>2, <2>2, <3>1
  <2>3. ASSUME NEW q, q \in 1..m, k = l + q
        PROVE  made[k].type = type /\ made[k].source = i <=> k \in (b + 1) .. (b + a)
    <3>1. made[k] = x[q] /\ made[k].type = type
      BY <1>2, <1>5, <2>3
    <3>2. x[q].source = i <=> q \in (c + 1) .. (c + a)
      BY <1>4, <2>3
    <3>3. q \in (c + 1) .. (c + a) <=> k \in (b + 1) .. (b + a)
      <4> HIDE DEF l, a, m
      <4> QED BY <1>1, <2>3
    <3> QED BY <3>1, <3>2, <3>3
  <2>4. ASSUME NEW q, q \in 1..n, k = l + m + q
        PROVE  made[k].type = type /\ made[k].source = i <=> k \in (b + 1) .. (b + a)
    <3>1. k \notin (b + 1) .. (b + a)
      <4> HIDE DEF l, a, m, n
      <4> QED BY <1>1, <2>1, <2>4
    <3>2. made[k].type # type
      BY <1>2, <2>4
    <3> QED BY <3>1, <3>2
  <2> HIDE DEF b, l, m, n, a
  <2> QED BY <1>6, <2>2, <2>3, <2>4
<1>8. (b + 1) .. (b + a) \subseteq 1 .. l + m + n
  <2>1. a > 0 => c + a =< m
    <3>1. a > 0 => a \in 1..a
      <4> HIDE DEF a
      <4> QED BY <1>1
    <3>2. a > 0 => c + a \in 1..m
      BY <1>4, <3>1
    <3> HIDE DEF a, m
    <3> QED BY <1>1, <3>2
  <2> HIDE DEF l, m, n, a
  <2> QED BY <1>1, <2>1
<1>9. {k \in DOMAIN made : made[k].type = type /\ made[k].source = i} = (b + 1) .. (b + a)
  <2> HIDE DEF b, l, m, n, a
  <2> QED BY <1>2, <1>7, <1>8
<1>10. \A j \in 1..a : made[b + j] = parts[i][j]
  <2>1. ASSUME NEW j \in 1..a PROVE made[b + j] = parts[i][j]
    <3>1. c + j \in 1..m /\ x[c + j] = parts[i][j]
      BY <1>4
    <3>2. b + j = l + (c + j)
      <4> HIDE DEF l, a
      <4> QED BY <1>1
    <3>3. made[l + (c + j)] = x[c + j]
      BY <1>2, <3>1
    <3> QED BY <3>1, <3>2, <3>3
  <2> QED BY <2>1
<1>11. b \in Nat
  BY <1>1
<1> HIDE DEF b
<1> QED
  BY <1>9, <1>10, <1>11 DEF Stands

\* What is between two numbers, counted, and its least element.
LEMMA Stretch ==
    ASSUME NEW b \in Nat, NEW a \in Nat
    PROVE  /\ Cardinality((b + 1) .. (b + a)) = a
           /\ (b + 1) .. (b + a) = {} <=> a = 0
           /\ a > 0 => Min((b + 1) .. (b + a)) = b + 1
<1> DEFINE S == (b + 1) .. (b + a)
<1>1. Cardinality(S) = a
  <2>1. b + 1 \in Int /\ b + a \in Int
    OBVIOUS
  <2>2. Cardinality(S) = IF b + 1 > b + a THEN 0 ELSE (b + a) - (b + 1) + 1
    BY ONLY <2>1, FS_Interval
  <2> QED BY <2>2
<1>2. S = {} <=> a = 0
  <2>1. a > 0 => b + 1 \in S
    OBVIOUS
  <2> QED BY <2>1
<1>3. a > 0 => Min(S) = b + 1
  <2>1. a > 0 => b + 1 \in S /\ \A y \in S : b + 1 =< y
    OBVIOUS
  <2>2. a > 0 => Min(S) \in S /\ \A y \in S : Min(S) =< y
    BY <2>1 DEF Min
  <2>3. \A y \in S : y \in Int
    OBVIOUS
  <2> HIDE DEF S
  <2> QED BY <2>1, <2>2, <2>3
<1> QED
  BY <1>1, <1>2, <1>3

-----------------------------------------------------------------------------
(* The chunks of one entity. *)

\* An entity is cut into one piece at least.
LEMMA EntityPiecesType ==
    ASSUME NEW e \in Entity, NEW label \in Nat, NEW target \in Nat, NEW overlap \in Nat
    PROVE  EntityPieces(label, e, target, overlap) \in Seq(Pieces) \ {<<>>}
<1> DEFINE pieces == EntityPieces(label, e, target, overlap)
           all == [i \in DOMAIN e.sentences |-> i]
           budget == Max({target - Tokens(Header(label, e)), 1})
           done == Packed(e, budget, overlap)
<1>1. e.tail \in Nat /\ Len(e.sentences) \in Nat
  BY DEF Entity
<1>2. pieces = <<Piece(all, e.tail > 0)>> \/ pieces = Append(done.pieces, Piece(done.current, e.tail > 0))
  BY SplitIsPacked DEF EntityPieces
<1>3. <<Piece(all, e.tail > 0)>> \in Seq(Pieces) \ {<<>>}
  <2>1. all = [i \in 1..Len(e.sentences) |-> i]
    BY DEF Entity
  <2>2. \A i \in 1..Len(e.sentences) : i \in Nat
    BY <1>1
  <2>3. all \in Seq(Nat)
    <3> DEFINE n == Len(e.sentences)
    <3> HIDE DEF n
    <3> QED BY ONLY <1>1, <2>1, <2>2, FunctionIsSeq DEF n
  <2>4. Piece(all, e.tail > 0) \in Pieces
    <3> HIDE DEF all
    <3> QED BY <2>3 DEF Piece, Pieces
  <2> HIDE DEF all
  <2> QED BY <2>4
<1>4. Append(done.pieces, Piece(done.current, e.tail > 0)) \in Seq(Pieces) \ {<<>>}
  <2>1. budget \in Int
    <3>1. Header(label, e) \in Nat
      BY DEF Header, Entity
    <3>2. target - Tokens(Header(label, e)) \in Int
      BY <3>1 DEF Tokens
    <3> QED BY <3>2, OfTwo
  <2>2. done \in Packing
    <3> HIDE DEF budget
    <3>1. PICK h \in [0..Len(e.sentences) -> Packing] : done = h[Len(e.sentences)]
      BY <2>1, PackPrefixes
    <3>2. Len(e.sentences) \in 0..Len(e.sentences)
      BY <1>1
    <3> QED BY <3>1, <3>2
  <2> HIDE DEF done
  <2>3. done.pieces \in Seq(Pieces) /\ done.current \in Seq(Nat)
    BY <2>2 DEF Packing
  <2>4. Piece(done.current, e.tail > 0) \in Pieces
    BY <2>3 DEF Piece, Pieces
  <2> QED BY <2>3, <2>4, SMTT(30)
<1> HIDE DEF pieces, done, all
<1> QED
  BY <1>2, <1>3, <1>4 DEF pieces

\* A part of the chunks: of one kind and source, with its own enrichment or none.
OfPart(part, type, i) ==
    /\ part \in Seq(Chunks)
    /\ \A j \in 1..Len(part) :
          part[j].type = type /\ part[j].source = i /\ part[j].merged \in {0, i}

\* The chunks of one piece each.
LEMMA ChunkOfEachPiece ==
    ASSUME NEW pieces \in Seq(Pieces), NEW type \in {"project", "experience"}, NEW i \in Nat,
           NEW merged \in {0, i}
    PROVE  LET part == [k \in DOMAIN pieces |-> Chunk(type, i, pieces[k], 0, merged)]
           IN  OfPart(part, type, i) /\ Len(part) = Len(pieces)
<1> DEFINE n == Len(pieces)
           part == [k \in DOMAIN pieces |-> Chunk(type, i, pieces[k], 0, merged)]
<1>1. n \in Nat /\ DOMAIN pieces = 1..n
  OBVIOUS
<1>2. \A k \in 1..n : part[k] = Chunk(type, i, pieces[k], 0, merged)
  BY <1>1
<1>3. \A k \in 1..n : Chunk(type, i, pieces[k], 0, merged) \in Chunks
  BY <1>1 DEF Chunk, Chunks
<1>4. part \in Seq(Chunks) /\ Len(part) = n
  <2>1. part = [k \in 1..n |-> Chunk(type, i, pieces[k], 0, merged)]
    BY <1>1
  <2> DEFINE F(k) == Chunk(type, i, pieces[k], 0, merged)
  <2>2. \A k \in 1..n : F(k) \in Chunks
    BY <1>3
  <2>3. part = [k \in 1..n |-> F(k)]
    BY <2>1
  <2> HIDE DEF part, F, n
  <2> QED BY ONLY <1>1, <2>2, <2>3, FunctionIsSeq
<1>5. \A j \in 1..Len(part) :
          part[j].type = type /\ part[j].source = i /\ part[j].merged \in {0, i}
  BY <1>2, <1>4 DEF Chunk
<1> HIDE DEF part
<1> QED
  BY <1>4, <1>5 DEF OfPart, part

\* What build_chunks makes of a project.
LEMMA ProjectPart ==
    ASSUME NEW e \in Entity, NEW i \in Nat, NEW llm \in Enrichment, NEW target \in Nat, NEW overlap \in Nat
    PROVE  LET part == ProjectChunks(e, i, llm, target, overlap)
           IN  /\ OfPart(part, "project", i)
               /\ Len(part) = 0 <=> IsEmpty(e)
               /\ i \in DOMAIN llm.projects /\ llm.projects[i] > 0 /\ ~IsEmpty(e) =>
                     /\ Len(part) = llm.projects[i]
                     /\ \A j \in 1..Len(part) : part[j].achievement = j
<1> DEFINE part == ProjectChunks(e, i, llm, target, overlap)
           a == IF i \in DOMAIN llm.projects THEN llm.projects[i] ELSE 0
           pieces == EntityPieces(LabelLength.project, e, target, overlap)
           achieved == [j \in 1..a |-> Chunk("project", i, Piece(<<>>, e.tail > 0), j, i)]
           cut == [k \in DOMAIN pieces |-> Chunk("project", i, pieces[k], 0, 0)]
<1>1. a \in Nat
  BY DEF Enrichment
<1>2. pieces \in Seq(Pieces) /\ Len(pieces) \in Nat \ {0}
  <2>1. pieces \in Seq(Pieces) \ {<<>>}
    <3>1. LabelLength.project \in Nat
      BY DEF LabelLength
    <3> QED BY <3>1, EntityPiecesType
  <2> HIDE DEF pieces
  <2> QED BY <2>1
<1>3. CASE IsEmpty(e)
  <2>1. part = <<>>
    BY <1>3 DEF ProjectChunks
  <2>2. OfPart(<<>>, "project", i)
    BY DEF OfPart
  <2> HIDE DEF part
  <2> QED BY <1>3, <2>1, <2>2 DEF part
<1>4. CASE ~IsEmpty(e) /\ a > 0
  <2>1. part = achieved
    BY <1>4, Zenon DEF ProjectChunks
  <2>2. Piece(<<>>, e.tail > 0) \in Pieces
    <3>1. <<>> \in Seq(Nat)
      OBVIOUS
    <3> QED BY <3>1 DEF Piece, Pieces
  <2> DEFINE F(j) == Chunk("project", i, Piece(<<>>, e.tail > 0), j, i)
  <2>3. \A j \in 1..a : F(j) \in Chunks
    BY <1>1, <2>2 DEF Chunk, Chunks
  <2>4. achieved \in Seq(Chunks) /\ Len(achieved) = a
    <3>1. achieved = [j \in 1..a |-> F(j)]
      OBVIOUS
    <3> HIDE DEF achieved, F, a
    <3> QED BY ONLY <1>1, <2>3, <3>1, FunctionIsSeq
  <2>5. \A j \in 1..a : /\ achieved[j].type = "project" /\ achieved[j].source = i
                        /\ achieved[j].merged = i /\ achieved[j].achievement = j
    BY DEF Chunk
  <2>6. i \in DOMAIN llm.projects /\ llm.projects[i] > 0 => llm.projects[i] = a
    OBVIOUS
  <2> HIDE DEF part, achieved, a
  <2> QED BY <1>1, <1>4, <2>1, <2>4, <2>5, <2>6 DEF OfPart, part
<1>5. CASE ~IsEmpty(e) /\ ~(a > 0)
  <2>1. part = cut
    BY <1>5, Zenon DEF ProjectChunks
  <2>2. OfPart(cut, "project", i) /\ Len(cut) = Len(pieces)
    <3> HIDE DEF pieces
    <3> QED BY <1>2, ChunkOfEachPiece
  <2>3. ~(i \in DOMAIN llm.projects /\ llm.projects[i] > 0)
    BY <1>5
  <2> HIDE DEF part, cut, a, pieces
  <2> QED BY <1>2, <1>5, <2>1, <2>2, <2>3 DEF part
<1> QED
  BY <1>3, <1>4, <1>5

\* What it makes of an experience.
LEMMA ExperiencePart ==
    ASSUME NEW e \in Entity, NEW i \in Nat, NEW llm \in Enrichment, NEW target \in Nat, NEW overlap \in Nat
    PROVE  LET part == ExperienceChunks(e, i, llm, target, overlap)
           IN  /\ OfPart(part, "experience", i)
               /\ Len(part) = 0 <=> (e.title = 0 /\ Description(e) = 0)
<1> DEFINE part == ExperienceChunks(e, i, llm, target, overlap)
           job == [e EXCEPT !.tail = 0]
           pieces == EntityPieces(LabelLength.experience, job, target, overlap)
           merged == IF i =< llm.experiences THEN i ELSE 0
           cut == [k \in DOMAIN pieces |-> Chunk("experience", i, pieces[k], 0, merged)]
<1>1. job \in Entity /\ merged \in {0, i}
  BY DEF Entity
<1>2. pieces \in Seq(Pieces) /\ Len(pieces) \in Nat \ {0}
  <2>1. pieces \in Seq(Pieces) \ {<<>>}
    <3>1. LabelLength.experience \in Nat
      BY DEF LabelLength
    <3> HIDE DEF job
    <3> QED BY <1>1, <3>1, EntityPiecesType
  <2> HIDE DEF pieces
  <2> QED BY <2>1
<1>3. IsEmpty(job) <=> (e.title = 0 /\ Description(e) = 0)
  <2>1. job.title = e.title /\ job.tail = 0 /\ job.sentences = e.sentences /\ job.blanks = e.blanks
    BY DEF Entity
  <2>2. Description(job) = Description(e)
    <3> HIDE DEF job
    <3> QED BY <2>1 DEF Description
  <2> HIDE DEF job
  <2> QED BY <2>1, <2>2 DEF IsEmpty
<1>4. CASE IsEmpty(job)
  <2>1. part = <<>>
    BY <1>4 DEF ExperienceChunks
  <2>2. OfPart(<<>>, "experience", i)
    BY DEF OfPart
  <2> HIDE DEF part, job
  <2> QED BY <1>3, <1>4, <2>1, <2>2 DEF part
<1>5. CASE ~IsEmpty(job)
  <2>1. part = cut
    BY <1>5, Zenon DEF ExperienceChunks
  <2>2. OfPart(cut, "experience", i) /\ Len(cut) = Len(pieces)
    <3> HIDE DEF pieces, merged
    <3> QED BY <1>1, <1>2, ChunkOfEachPiece, ZenonT(30)
  <2> HIDE DEF part, cut, pieces, job
  <2> QED BY <1>2, <1>3, <1>5, <2>1, <2>2 DEF part
<1> QED
  BY <1>4, <1>5

\* What it makes of a group of skills.
LEMMA SkillPart ==
    ASSUME NEW items \in Nat, NEW i \in Nat, NEW llm \in Enrichment
    PROVE  LET part == SkillChunks(items, i, llm)
           IN  OfPart(part, "skill", i) /\ Len(part) = Min({1, items})
<1> DEFINE part == SkillChunks(items, i, llm)
           merged == IF i =< llm.skills THEN i ELSE 0
           it == Chunk("skill", i, Piece(<<>>, FALSE), 0, merged)
<1>1. Min({1, items}) = IF items = 0 THEN 0 ELSE 1
  BY OfTwo
<1>2. part = IF items = 0 THEN <<>> ELSE <<it>>
  BY DEF SkillChunks
<1>3. it \in Chunks /\ it.type = "skill" /\ it.source = i /\ it.merged \in {0, i}
  <2>1. Piece(<<>>, FALSE) \in Pieces /\ merged \in {0, i} /\ merged \in Nat
    BY DEF Piece, Pieces
  <2> HIDE DEF merged
  <2> QED BY <2>1 DEF Chunk, Chunks
<1> HIDE DEF part, it
<1>4. OfPart(part, "skill", i)
  BY <1>2, <1>3 DEF OfPart
<1> QED
  BY <1>1, <1>2, <1>4 DEF part

-----------------------------------------------------------------------------
(* The chunks of a resume. *)

\* The parts of one kind, one for each source.
ArePartsOf(parts, type, n) ==
    parts = [i \in 1..n |-> parts[i]] /\ \A i \in 1..n : OfPart(parts[i], type, i)

\* The parts of one kind, put together.
LEMMA OneKind ==
    ASSUME NEW type, NEW n \in Nat, NEW parts, ArePartsOf(parts, type, n)
    PROVE  /\ parts \in Seq(Seq(Chunks)) /\ Len(parts) = n
           /\ FlattenSeq(parts) \in Seq(Chunks) /\ IsLaid(FlattenSeq(parts), parts, Len(parts))
           /\ AllOf(FlattenSeq(parts), type)
<1> DEFINE S == Seq(Chunks)
           x == FlattenSeq(parts)
<1>1. parts \in Seq(S) /\ Len(parts) = n
  <2>1. \A i \in 1..n : parts[i] \in S
    BY DEF ArePartsOf, OfPart
  <2>2. parts \in [1..n -> S]
    <3> HIDE DEF S
    <3> QED BY <2>1 DEF ArePartsOf
  <2> HIDE DEF S
  <2> QED BY ONLY <2>2, n \in Nat, FunctionIsSeq
<1>2. OwnSources(parts)
  BY <1>1 DEF ArePartsOf, OfPart, OwnSources
<1>3. x \in Seq(Chunks) /\ IsLaid(x, parts, n)
  BY <1>1, <1>2, FlattenIsLaid
<1>4. ASSUME NEW k \in DOMAIN x PROVE x[k].type = type /\ x[k].merged \in {0, x[k].source}
  <2>1. PICK i \in 1..n : \E j \in 1..Len(parts[i]) : x[k] = parts[i][j]
    BY <1>3 DEF IsLaid
  <2>2. PICK j \in 1..Len(parts[i]) : x[k] = parts[i][j]
    BY <2>1
  <2>3. parts[i][j].type = type /\ parts[i][j].source = i /\ parts[i][j].merged \in {0, i}
    BY DEF ArePartsOf, OfPart
  <2> HIDE DEF x
  <2> QED BY <2>2, <2>3
<1> HIDE DEF x
<1>5. AllOf(x, type)
  BY <1>4 DEF AllOf
<1> QED
  BY <1>1, <1>3, <1>5 DEF x

\* Whatever a resume says and however short the enrichment the LLM returned is, every
\* entity with something in it has chunks of its own, no empty one has, an entity the
\* enrichment splits has one chunk for each achievement, in order, and a chunk takes
\* only the enrichment of the entity it is from (build_chunks).
THEOREM ChunksAreSound ==
    ASSUME NEW cv \in Resume, NEW llm \in Enrichment, NEW target \in Nat, NEW overlap \in Nat
    PROVE  SoundChunks(BuildChunks(cv, llm, target, overlap), cv, llm)
<1> DEFINE a == Len(cv.projects)
           b == Len(cv.experiences)
           c == Len(cv.skills)
           projects == [i \in DOMAIN cv.projects |->
                          ProjectChunks(cv.projects[i], i, llm, target, overlap)]
           experiences == [i \in DOMAIN cv.experiences |->
                             ExperienceChunks(cv.experiences[i], i, llm, target, overlap)]
           skills == [i \in DOMAIN cv.skills |-> SkillChunks(cv.skills[i], i, llm)]
           x == FlattenSeq(projects)
           y == FlattenSeq(experiences)
           z == FlattenSeq(skills)
           made == BuildChunks(cv, llm, target, overlap)
           of(type, i) == {k \in DOMAIN made : made[k].type = type /\ made[k].source = i}
<1>1. /\ a \in Nat /\ b \in Nat /\ c \in Nat
      /\ DOMAIN cv.projects = 1..a /\ DOMAIN cv.experiences = 1..b /\ DOMAIN cv.skills = 1..c
      /\ \A i \in 1..a : cv.projects[i] \in Entity
      /\ \A i \in 1..b : cv.experiences[i] \in Entity
      /\ \A i \in 1..c : cv.skills[i] \in Nat
  BY DEF Resume
<1>2. \A i \in 1..a : projects[i] = ProjectChunks(cv.projects[i], i, llm, target, overlap)
  BY <1>1
<1>3. \A i \in 1..b : experiences[i] = ExperienceChunks(cv.experiences[i], i, llm, target, overlap)
  BY <1>1
<1>4. \A i \in 1..c : skills[i] = SkillChunks(cv.skills[i], i, llm)
  BY <1>1
<1>5. /\ projects = [i \in 1..a |-> projects[i]]
      /\ experiences = [i \in 1..b |-> experiences[i]]
      /\ skills = [i \in 1..c |-> skills[i]]
  BY <1>1
<1> HIDE DEF projects, experiences, skills
<1>6. ASSUME NEW i \in 1..a
      PROVE  /\ OfPart(projects[i], "project", i)
             /\ Len(projects[i]) = 0 <=> IsEmpty(cv.projects[i])
             /\ i \in DOMAIN llm.projects /\ llm.projects[i] > 0 /\ ~IsEmpty(cv.projects[i]) =>
                   /\ Len(projects[i]) = llm.projects[i]
                   /\ \A j \in 1..Len(projects[i]) : projects[i][j].achievement = j
  <2>1. i \in Nat /\ cv.projects[i] \in Entity
    BY <1>1
  <2> QED BY <1>2, <2>1, ProjectPart
<1>7. ASSUME NEW i \in 1..b
      PROVE  /\ OfPart(experiences[i], "experience", i)
             /\ Len(experiences[i]) = 0
                   <=> (cv.experiences[i].title = 0 /\ Description(cv.experiences[i]) = 0)
  <2>1. i \in Nat /\ cv.experiences[i] \in Entity
    BY <1>1
  <2> QED BY <1>3, <2>1, ExperiencePart
<1>8. ASSUME NEW i \in 1..c
      PROVE  OfPart(skills[i], "skill", i) /\ Len(skills[i]) = Min({1, cv.skills[i]})
  <2>1. i \in Nat /\ cv.skills[i] \in Nat
    BY <1>1
  <2> QED BY <1>4, <2>1, SkillPart
<1>9. /\ projects \in Seq(Seq(Chunks)) /\ Len(projects) = a
      /\ x \in Seq(Chunks) /\ IsLaid(x, projects, Len(projects))
      /\ AllOf(x, "project")
  <2>1. ArePartsOf(projects, "project", a)
    BY <1>5, <1>6 DEF ArePartsOf
  <2> HIDE DEF a
  <2> QED BY <1>1, <2>1, OneKind
<1>10. /\ experiences \in Seq(Seq(Chunks)) /\ Len(experiences) = b
       /\ y \in Seq(Chunks) /\ IsLaid(y, experiences, Len(experiences))
       /\ AllOf(y, "experience")
  <2>1. ArePartsOf(experiences, "experience", b)
    BY <1>5, <1>7 DEF ArePartsOf
  <2> HIDE DEF b
  <2> QED BY <1>1, <2>1, OneKind
<1>11. /\ skills \in Seq(Seq(Chunks)) /\ Len(skills) = c
       /\ z \in Seq(Chunks) /\ IsLaid(z, skills, Len(skills))
       /\ AllOf(z, "skill")
  <2>1. ArePartsOf(skills, "skill", c)
    BY <1>5, <1>8 DEF ArePartsOf
  <2> HIDE DEF c
  <2> QED BY <1>1, <2>1, OneKind
<1>12. made = (x \o y) \o z
  BY Zenon DEF BuildChunks, projects, experiences, skills
<1> HIDE DEF x, y, z, made
<1>13. /\ x \o y \in Seq(Chunks) /\ y \o z \in Seq(Chunks) /\ <<>> \in Seq(Chunks)
       /\ made = (<<>> \o x) \o (y \o z)
       /\ made = ((x \o y) \o z) \o <<>>
  <2>1. (x \o y) \o z = x \o (y \o z) /\ <<>> \o x = x /\ ((x \o y) \o z) \o <<>> = (x \o y) \o z
    BY <1>9, <1>10, <1>11, SMTT(30)
  <2> QED BY <1>9, <1>10, <1>11, <1>12, <2>1
<1>14. /\ NoneOf(x \o y, "skill") /\ NoneOf(y \o z, "project")
       /\ NoneOf(x, "experience") /\ NoneOf(z, "experience")
       /\ NoneOf(<<>>, "project") /\ NoneOf(<<>>, "skill")
       /\ \A k \in DOMAIN made : made[k].merged \in {0, made[k].source}
  <2>1. ASSUME NEW k \in DOMAIN (x \o y)
        PROVE  \/ k \in DOMAIN x /\ (x \o y)[k] = x[k]
               \/ k - Len(x) \in DOMAIN y /\ (x \o y)[k] = y[k - Len(x)]
    BY <1>9, <1>10
  <2>2. ASSUME NEW k \in DOMAIN (y \o z)
        PROVE  \/ k \in DOMAIN y /\ (y \o z)[k] = y[k]
               \/ k - Len(y) \in DOMAIN z /\ (y \o z)[k] = z[k - Len(y)]
    BY <1>10, <1>11
  <2>3. ASSUME NEW k \in DOMAIN made
        PROVE  \/ k \in DOMAIN (x \o y) /\ made[k] = (x \o y)[k]
               \/ k - Len(x \o y) \in DOMAIN z /\ made[k] = z[k - Len(x \o y)]
    <3>1. x \o y \in Seq(Chunks) /\ z \in Seq(Chunks) /\ made = (x \o y) \o z
      BY <1>11, <1>12, <1>13
    <3> DEFINE xy == x \o y
    <3> HIDE DEF xy
    <3> QED BY <3>1 DEF xy
  <2>4. \A k \in DOMAIN (x \o y) : (x \o y)[k].type # "skill"
    BY <1>9, <1>10, <2>1 DEF AllOf
  <2>5. \A k \in DOMAIN (y \o z) : (y \o z)[k].type # "project"
    BY <1>10, <1>11, <2>2 DEF AllOf
  <2>6. \A k \in DOMAIN (x \o y) : (x \o y)[k].merged \in {0, (x \o y)[k].source}
    BY <1>9, <1>10, <2>1 DEF AllOf
  <2>7. \A k \in DOMAIN made : made[k].merged \in {0, made[k].source}
    BY <1>11, <2>3, <2>6 DEF AllOf
  <2> QED BY <1>9, <1>11, <2>4, <2>5, <2>7 DEF AllOf, NoneOf
<1>15. ASSUME NEW i \in 1..a
       PROVE  Stands(made, "project", i, projects[i])
  <2>1. i \in 1..Len(projects)
    BY <1>9
  <2> HIDE DEF a
  <2> QED BY ONLY <1>9, <1>13, <1>14, <2>1, OfOneKind
<1>16. ASSUME NEW i \in 1..b
       PROVE  Stands(made, "experience", i, experiences[i])
  <2>1. i \in 1..Len(experiences)
    BY <1>10
  <2> HIDE DEF b
  <2> QED BY ONLY <1>9, <1>10, <1>11, <1>12, <1>14, <2>1, OfOneKind
<1>17. ASSUME NEW i \in 1..c
       PROVE  Stands(made, "skill", i, skills[i])
  <2>1. i \in 1..Len(skills)
    BY <1>11
  <2> HIDE DEF c
  <2> QED BY ONLY <1>11, <1>13, <1>14, <2>1, OfOneKind
<1>18. ASSUME NEW i \in 1..a
       PROVE  /\ (of("project", i) = {}) <=> IsEmpty(cv.projects[i])
              /\ \A k \in of("project", i) :
                    i \in DOMAIN llm.projects /\ llm.projects[i] > 0 =>
                        /\ Cardinality(of("project", i)) = llm.projects[i]
                        /\ made[k].achievement = k - Min(of("project", i)) + 1
  <2> DEFINE n == Len(projects[i])
             S == of("project", i)
  <2>1. PICK q \in Nat : /\ S = (q + 1) .. (q + n)
                         /\ \A j \in 1..n : made[q + j] = projects[i][j]
    BY <1>15 DEF Stands
  <2>2. n \in Nat
    BY <1>9
  <2>3. Cardinality(S) = n /\ (S = {} <=> n = 0) /\ (n > 0 => Min(S) = q + 1)
    <3> HIDE DEF S, n
    <3> QED BY <2>1, <2>2, Stretch
  <2>4. S = {} <=> IsEmpty(cv.projects[i])
    <3> HIDE DEF S
    <3> QED BY <1>6, <2>3
  <2>5. ASSUME NEW k \in S, i \in DOMAIN llm.projects, llm.projects[i] > 0
        PROVE  Cardinality(S) = llm.projects[i] /\ made[k].achievement = k - Min(S) + 1
    <3>1. ~IsEmpty(cv.projects[i])
      BY <2>4
    <3>2. n = llm.projects[i] /\ \A j \in 1..n : projects[i][j].achievement = j
      BY <1>6, <2>5, <3>1
    <3>3. k \in (q + 1) .. (q + n)
      <4> HIDE DEF S
      <4> QED BY <2>1
    <3>4. k - q \in 1..n /\ k = q + (k - q) /\ n > 0
      <4> HIDE DEF S, n
      <4> QED BY <2>2, <3>3
    <3>5. made[k].achievement = k - q
      <4>1. made[q + (k - q)] = projects[i][k - q]
        BY <2>1, <3>4
      <4> HIDE DEF n
      <4> QED BY <3>2, <3>4, <4>1
    <3>6. k - Min(S) + 1 = k - q
      <4> HIDE DEF S, n
      <4> QED BY <2>1, <2>3, <3>3, <3>4
    <3> HIDE DEF S, n
    <3> QED BY <2>3, <3>2, <3>5, <3>6
  <2> HIDE DEF S
  <2> QED BY <2>4, <2>5 DEF S
<1>19. ASSUME NEW i \in 1..b
       PROVE  (of("experience", i) = {})
                 <=> (cv.experiences[i].title = 0 /\ Description(cv.experiences[i]) = 0)
  <2> DEFINE n == Len(experiences[i])
             S == of("experience", i)
  <2>1. PICK q \in Nat : S = (q + 1) .. (q + n)
    BY <1>16 DEF Stands
  <2>2. n \in Nat
    BY <1>10
  <2>3. S = {} <=> n = 0
    <3> HIDE DEF S, n
    <3> QED BY <2>1, <2>2, Stretch
  <2> HIDE DEF S
  <2> QED BY <1>7, <2>3 DEF S
<1>20. ASSUME NEW i \in 1..c PROVE Cardinality(of("skill", i)) = Min({1, cv.skills[i]})
  <2> DEFINE n == Len(skills[i])
             S == of("skill", i)
  <2>1. PICK q \in Nat : S = (q + 1) .. (q + n)
    BY <1>17 DEF Stands
  <2>2. n \in Nat
    BY <1>11
  <2>3. Cardinality(S) = n
    <3> HIDE DEF S, n
    <3> QED BY <2>1, <2>2, Stretch
  <2> HIDE DEF S
  <2> QED BY <1>8, <2>3 DEF S
<1> HIDE DEF a, b, c
<1>21. SoundChunks(made, cv, llm)
  BY <1>1, <1>14, <1>18, <1>19, <1>20, Zenon DEF SoundChunks
<1> QED
  BY <1>21 DEF made

-----------------------------------------------------------------------------
(* Two builders. *)

\* Nothing came back from the LLM.
NoEnrichment == [projects |-> <<>>, experiences |-> 0, skills |-> 0]

\* The builder the tests call cuts a resume as the one the pipeline calls does without
\* an enrichment (chunk_structured_data, build_chunks): two loops over the same data
\* that nothing but this keeps in step.
THEOREM BuildersAgree ==
    ASSUME NEW cv \in Resume, NEW target, NEW overlap
    PROVE  BuildChunks(cv, NoEnrichment, target, overlap) = ChunkStructuredData(cv, target, overlap)
<1> DEFINE pieces(type, e) ==
               IF Tokens(Joined(<<Header(LabelLength[type], e), Description(e), e.tail>>)) =< target
               THEN <<Piece([s \in DOMAIN e.sentences |-> s], e.tail > 0)>>
               ELSE SplitOversized(Header(LabelLength[type], e), e, target, overlap)
           AddEntity(type, i, e) ==
               IF IsEmpty(e) THEN <<>>
               ELSE [k \in DOMAIN pieces(type, e) |-> Chunk(type, i, pieces(type, e)[k], 0, 0)]
           skill(i) == IF cv.skills[i] = 0 THEN <<>>
                       ELSE <<Chunk("skill", i, Piece(<<>>, FALSE), 0, 0)>>
<1>1. ChunkStructuredData(cv, target, overlap)
        = FlattenSeq([i \in DOMAIN cv.projects |-> AddEntity("project", i, cv.projects[i])])
          \o FlattenSeq([i \in DOMAIN cv.experiences |->
                            AddEntity("experience", i, [cv.experiences[i] EXCEPT !.tail = 0])])
          \o FlattenSeq([i \in DOMAIN cv.skills |-> skill(i)])
  BY Zenon DEF ChunkStructuredData
<1>2. \A type, e : pieces(type, e) = EntityPieces(LabelLength[type], e, target, overlap)
  BY Zenon DEF EntityPieces
<1>3. NoEnrichment.projects = <<>> /\ NoEnrichment.experiences = 0 /\ NoEnrichment.skills = 0
  BY DEF NoEnrichment
<1>4. \A i \in DOMAIN cv.projects : \A e :
          ProjectChunks(e, i, NoEnrichment, target, overlap) = AddEntity("project", i, e)
  <2> SUFFICES ASSUME NEW i \in DOMAIN cv.projects, NEW e
               PROVE  ProjectChunks(e, i, NoEnrichment, target, overlap) = AddEntity("project", i, e)
    OBVIOUS
  <2> DEFINE p == pieces("project", e)
             a == IF i \in DOMAIN NoEnrichment.projects THEN NoEnrichment.projects[i] ELSE 0
  <2>1. EntityPieces(LabelLength.project, e, target, overlap) = p
    BY <1>2
  <2>2. a = 0 /\ ~(a > 0)
    BY <1>3
  <2>3. CASE IsEmpty(e)
    BY <2>3, Zenon DEF ProjectChunks
  <2>4. CASE ~IsEmpty(e)
    <3>1. ProjectChunks(e, i, NoEnrichment, target, overlap)
            = [k \in DOMAIN p |-> Chunk("project", i, p[k], 0, 0)]
      <4> HIDE DEF p
      <4> QED BY ONLY <2>1, <2>2, <2>4, Zenon DEF ProjectChunks
    <3> QED BY <2>4, <3>1, Zenon
  <2> QED BY <2>3, <2>4
<1>5. \A i \in DOMAIN cv.experiences : \A e :
          ExperienceChunks(e, i, NoEnrichment, target, overlap)
            = AddEntity("experience", i, [e EXCEPT !.tail = 0])
  <2> SUFFICES ASSUME NEW i \in DOMAIN cv.experiences, NEW e
               PROVE  ExperienceChunks(e, i, NoEnrichment, target, overlap)
                        = AddEntity("experience", i, [e EXCEPT !.tail = 0])
    OBVIOUS
  <2> DEFINE job == [e EXCEPT !.tail = 0]
             p == pieces("experience", job)
             merged == IF i =< NoEnrichment.experiences THEN i ELSE 0
  <2>1. EntityPieces(LabelLength.experience, job, target, overlap) = p
    BY <1>2, Zenon
  <2>2. merged = 0
    BY <1>3 DEF Resume
  <2>3. CASE IsEmpty(job)
    BY <2>3, Zenon DEF ExperienceChunks
  <2>4. CASE ~IsEmpty(job)
    <3>1. ExperienceChunks(e, i, NoEnrichment, target, overlap)
            = [k \in DOMAIN p |-> Chunk("experience", i, p[k], 0, merged)]
      <4> HIDE DEF p
      <4> QED BY ONLY <2>1, <2>4, Zenon DEF ExperienceChunks
    <3> HIDE DEF merged
    <3>2. ExperienceChunks(e, i, NoEnrichment, target, overlap)
            = [k \in DOMAIN p |-> Chunk("experience", i, p[k], 0, 0)]
      BY ONLY <2>2, <3>1, Zenon
    <3> QED BY <2>4, <3>2, Zenon
  <2> QED BY <2>3, <2>4
<1>6. \A i \in DOMAIN cv.skills : SkillChunks(cv.skills[i], i, NoEnrichment) = skill(i)
  <2> SUFFICES ASSUME NEW i \in DOMAIN cv.skills
               PROVE  SkillChunks(cv.skills[i], i, NoEnrichment) = skill(i)
    OBVIOUS
  <2> DEFINE merged == IF i =< NoEnrichment.skills THEN i ELSE 0
  <2>1. merged = 0
    BY <1>3 DEF Resume
  <2>2. SkillChunks(cv.skills[i], i, NoEnrichment)
          = IF cv.skills[i] = 0 THEN <<>>
            ELSE <<Chunk("skill", i, Piece(<<>>, FALSE), 0, merged)>>
    BY Zenon DEF SkillChunks
  <2> HIDE DEF merged
  <2> QED BY <2>1, <2>2, Zenon
<1> HIDE DEF AddEntity, skill
<1>7. /\ [i \in DOMAIN cv.projects |-> ProjectChunks(cv.projects[i], i, NoEnrichment, target, overlap)]
            = [i \in DOMAIN cv.projects |-> AddEntity("project", i, cv.projects[i])]
      /\ [i \in DOMAIN cv.experiences |->
              ExperienceChunks(cv.experiences[i], i, NoEnrichment, target, overlap)]
            = [i \in DOMAIN cv.experiences |->
                  AddEntity("experience", i, [cv.experiences[i] EXCEPT !.tail = 0])]
      /\ [i \in DOMAIN cv.skills |-> SkillChunks(cv.skills[i], i, NoEnrichment)]
            = [i \in DOMAIN cv.skills |-> skill(i)]
  BY <1>4, <1>5, <1>6, Zenon
<1> QED
  BY <1>1, <1>7, Zenon DEF BuildChunks

-----------------------------------------------------------------------------
(* The chunks a run commits. *)

\* The descriptions, resumes and enrichments of the runs are among those of the theorems.
LEMMA OnInstances ==
    /\ Described \subseteq Entity
    /\ CVs \subseteq Resume
    /\ Analyses \subseteq Enrichment
<1>1. \A S, n : n \in Nat => BoundedSeq(S, n) \subseteq Seq(S)
  BY DEF BoundedSeq, SeqOf
<1>2. Described \subseteq Entity
  <2>1. BoundedSeq({1, 4, 10}, 3) \subseteq Seq({1, 4, 10})
    BY <1>1
  <2>2. [1 .. 4 -> {4, 10}] \subseteq Seq({1, 4, 10})
    <3>1. ASSUME NEW f \in [1 .. 4 -> {4, 10}] PROVE f \in Seq({1, 4, 10})
      <4> DEFINE n == 4
                 S == {1, 4, 10}
      <4>1. n \in Nat /\ f \in [1..n -> S]
        OBVIOUS
      <4> HIDE DEF n, S
      <4>2. f \in Seq(S)
        BY ONLY <4>1, FunctionIsSeq
      <4> QED BY <4>2 DEF S
    <3> QED BY <3>1
  <2>3. Seq({1, 4, 10}) \subseteq Seq(Nat \ {0})
    OBVIOUS
  <2> QED BY <2>1, <2>2, <2>3 DEF Described, Entity, Texts
<1>3. Sorts \subseteq Entity
  BY DEF Sorts, Sort, Entity
<1>4. CVs \subseteq Resume
  <2>1. BoundedSeq(Sorts, 2) \subseteq Seq(Sorts) /\ BoundedSeq(Sorts, 1) \subseteq Seq(Sorts)
    BY <1>1
  <2>2. Seq(Sorts) \subseteq Seq(Entity)
    BY <1>3
  <2>3. {<<>>, <<0, 2>>, <<2, 0>>} \subseteq Seq(Nat)
    OBVIOUS
  <2> QED BY <2>1, <2>2, <2>3 DEF CVs, Resume
<1>5. Analyses \subseteq Enrichment
  <2> DEFINE P == {<<>>, <<0>>, <<2>>, <<0, 2>>, <<2, 1>>}
  <2>1. P \subseteq Seq(Nat) /\ {0, 1} \subseteq Nat
    OBVIOUS
  <2>2. Analyses = [projects : P, experiences : {0, 1}, skills : {0, 1}]
    BY DEF Analyses
  <2> HIDE DEF P
  <2> QED BY <2>1, <2>2 DEF Enrichment
<1> QED
  BY <1>2, <1>4, <1>5

\* The chunks a run commits say the resume it was given: what the run checks on its
\* instances is the theorems above at those instances.
THEOREM ChunksSayIt == Spec => []ChunksSayTheResume
<1>1. DescriptionsAreCutSoundly
  <2>1. LabelLength.project \in Nat
    BY DEF LabelLength
  <2>2. {1, 5, 9, 14} \subseteq Nat /\ 0 .. 2 \subseteq Nat
    OBVIOUS
  <2> QED BY <2>1, <2>2, OnInstances, PiecesAreSound, Zenon DEF DescriptionsAreCutSoundly
<1>2. EntitiesHaveChunks
  <2>1. 9 \in Nat /\ 1 \in Nat
    OBVIOUS
  <2> QED BY <2>1, OnInstances, ChunksAreSound, Zenon DEF EntitiesHaveChunks
<1>3. BothBuildersAgree
  BY OnInstances, BuildersAgree, Zenon DEF BothBuildersAgree, NoEnrichment
<1>4. ChunksSayTheResume
  BY <1>1, <1>2, <1>3 DEF ChunksSayTheResume
<1> QED
  BY <1>4, PTL
=============================================================================
