------------------------ MODULE ReportContents_proofs ------------------------
(***************************************************************************)
(* Theorems about what the report handlers save.                           *)
(*                                                                         *)
(* Of SpeechSegments, for recordings of any length in blocks of any size   *)
(* and for any thresholds: no sample and no window is lost at a seam, the  *)
(* loop over the windows finds the stretches of speech between silences,   *)
(* and what is measured of the padded segments is sound.  The loops are    *)
(* folds, and a fold is what it computes over the prefixes (Data_proofs):  *)
(* an invariant says what the state knows after i windows.  Heard is the   *)
(* one of speech_segments: which speeches were closed so far, and whether  *)
(* nobody speaks, or a speech is open and since when a silence is waited   *)
(* for.  That a speech ends with the first low window after its last high  *)
(* one needs both: an end remembered too long is a speech cut short.       *)
(*                                                                         *)
(* Of Evaluation, whatever the LLM returns: an evaluation that is not      *)
(* refused has a verdict for each pair, of that pair (Matches), since what *)
(* is accepted echoes the numbers sent, topic by topic, and the topics are *)
(* the pairs (TopicsAreSound, Data_proofs).                                *)
(***************************************************************************)
EXTENDS MCReportContents, Data_proofs, FiniteSetTheorems, SequenceTheorems

-----------------------------------------------------------------------------
(* The recording comes in blocks. *)

\* What the resampler keeps between two blocks.
Samples == [seen : Nat, taken : SUBSET Nat, phase : Nat]

\* A block leaves the resampler with counts and positions.
LEMMA PushType ==
    ASSUME NEW step \in Nat \ {0}, NEW r \in Samples, NEW length \in Nat
    PROVE  Push(step, r, length) \in Samples
<1> DEFINE offsets == {k \in r.phase .. length - 1 : (k - r.phase) % step = 0}
<1>1. r.seen \in Nat /\ r.taken \in SUBSET Nat /\ r.phase \in Nat
  BY DEF Samples
<1>2. \A k \in offsets : r.seen + k \in Nat
  BY <1>1
<1>3. (r.phase - length) % step \in Nat
  BY <1>1, DivMod, SMTT(30)
<1>4. r.taken \cup {r.seen + k : k \in offsets} \in SUBSET Nat
  BY <1>1, <1>2
<1> QED
  BY <1>1, <1>3, <1>4 DEF Push, Samples

\* The states of the resampler after each block.
LEMMA ResampledPrefixes ==
    ASSUME NEW step \in Nat \ {0}, NEW blocks \in Seq(Nat)
    PROVE  \E h \in [0..Len(blocks) -> Samples] :
              /\ h[0] = [seen |-> 0, taken |-> {}, phase |-> 0]
              /\ \A i \in 1..Len(blocks) : h[i] = Push(step, h[i - 1], blocks[i])
              /\ Resampled(step, blocks) = h[Len(blocks)]
<1> DEFINE n == Len(blocks)
           none == [seen |-> 0, taken |-> {}, phase |-> 0]
           F == [i \in 1..n |-> [r \in Samples |-> Push(step, r, blocks[i])]]
           Iter(g) == g = [s \in SUBSET (1..n) |->
                              IF s = {} THEN none ELSE Push(step, g[s \ {Max(s)}], blocks[Max(s)])]
<1>1. n \in Nat /\ DOMAIN blocks = 1..n /\ blocks \in [1..n -> Nat]
  OBVIOUS
<1>2. Resampled(step, blocks) = (CHOOSE g : Iter(g))[1..n]
  BY <1>1 DEF Resampled, FoldLeft, MapThenFoldSet
<1>3. none \in Samples
  BY DEF Samples
<1>4. F \in [1..n -> [Samples -> Samples]]
  BY <1>1, PushType
<1>5. \A s \in SUBSET (1..n) : s # {} => Max(s) \in 1..n
  <2>1. \A s \in SUBSET (1..n) : s \subseteq 0..n
    OBVIOUS
  <2> QED BY <1>1, <2>1, MaxIsGreatest
<1>6. PICK g0 \in [SUBSET (1..n) -> Samples] : IsFold(g0, n, none, F)
  <2> HIDE DEF F, n, none
  <2> QED BY <1>1, <1>3, <1>4, FoldExists
<1>7. Iter(g0)
  <2> HIDE DEF none
  <2>1. \A s \in SUBSET (1..n) :
            g0[s] = IF s = {} THEN none ELSE Push(step, g0[s \ {Max(s)}], blocks[Max(s)])
    BY <1>5, <1>6 DEF IsFold
  <2>2. g0 = [s \in SUBSET (1..n) |-> g0[s]]
    OBVIOUS
  <2> QED BY <2>1, <2>2
<1>8. PICK g : Iter(g) /\ Resampled(step, blocks) = g[1..n]
  BY <1>2, <1>7
<1> DEFINE Y == Samples \cup {g[s] : s \in SUBSET (1..n)}
           G == [i \in 1..n |-> [r \in Y |-> Push(step, r, blocks[i])]]
<1>9. IsFold(g, n, none, G)
  <2> HIDE DEF none
  <2> QED BY <1>5, <1>8 DEF IsFold
<1>10. \A i \in 1..n, r \in Samples :
          G[i][r] = Push(step, r, blocks[i]) /\ G[i][r] \in Samples
  BY <1>1, PushType
<1>11. KeepsTo(G, n, Samples)
  BY <1>10 DEF KeepsTo
<1>12. PICK h : AreStages(h, n, Samples, none, G) /\ h[n] = g[1..n]
  <2> HIDE DEF G, n, none
  <2> QED BY <1>1, <1>3, <1>9, <1>11, FoldPrefixes
<1>13. \A i \in 1..n : h[i] = Push(step, h[i - 1], blocks[i])
  <2>1. \A i \in 1..n : i - 1 \in 0..n
    BY <1>1
  <2> HIDE DEF G
  <2> QED BY <1>10, <1>12, <2>1 DEF AreStages
<1> HIDE DEF G
<1> QED
  BY <1>8, <1>12, <1>13 DEF AreStages

\* The positions of the first total samples that are taken.
Every(step, total) == {k \in 0 .. total - 1 : k % step = 0}

\* After seen samples the next one is due phase samples into the next block.
Due(step, seen, phase) == phase \in 0 .. step - 1 /\ (seen + phase) % step = 0

\* Where the next sample is due, phase samples into the block: the samples taken from
\* there on are those that the whole recording numbers with multiples of step.
LEMMA DueIsMultiple ==
    ASSUME NEW step \in Nat \ {0}, NEW seen \in Nat, NEW phase,
           Due(step, seen, phase), NEW k \in Nat
    PROVE  (seen + k) % step = 0 <=> k >= phase /\ (k - phase) % step = 0
<1>0. phase \in 0 .. step - 1 /\ (seen + phase) % step = 0
  BY DEF Due
<1>1. (seen + k) % step = (k - phase) % step
  <2>1. PICK a \in Int, x \in Int : a = seen + phase /\ x = k - phase
    BY <1>0
  <2>2. a % step = 0
    BY <2>1, <1>0
  <2>3. (a + x) % step = x % step
    BY <2>2, ModShift
  <2>4. a + x = seen + k
    BY <2>1, <1>0
  <2> QED BY <2>1, <2>3, <2>4
<1>2. ASSUME k < phase PROVE (k - phase) % step # 0
  <2>1. PICK x \in (1 - step) .. (-1) : x = k - phase
    BY <1>0, <1>2
  <2> QED BY <2>1, ModBelow
<1>3. k < phase \/ k >= phase
  BY <1>0
<1> QED
  BY <1>1, <1>2, <1>3

\* The phase that a block leaves is where the next sample is due.
LEMMA PhaseIsCarried ==
    ASSUME NEW step \in Nat \ {0}, NEW seen \in Nat, NEW phase,
           Due(step, seen, phase), NEW length \in Nat
    PROVE  Due(step, seen + length, (phase - length) % step)
<1>0. phase \in 0 .. step - 1 /\ (seen + phase) % step = 0
  BY DEF Due
<1>1. PICK x \in Int : x = phase - length
  BY <1>0
<1>2. PICK q \in Int, p \in 0 .. step - 1 : x = step * q + p /\ x % step = p
  BY DivMod
<1>3. PICK m \in Int : m = step * (-q)
  OBVIOUS
<1>4. m % step = 0
  <2>1. step * (-q) + 0 = step * (-q) /\ 0 \in 0 .. (step - 1) /\ -q \in Int
    OBVIOUS
  <2> QED BY <2>1, <1>3, DivModUnique
<1>5. step * (-q) = -(step * q) /\ step * q \in Int
  OBVIOUS
<1>6. m = p - x
  BY <1>2, <1>3, <1>5
<1>7. PICK a \in Int : a = seen + phase
  BY <1>0
<1>8. (m + a) % step = a % step
  BY <1>4, ModShift
<1>9. m + a = seen + length + p
  BY <1>0, <1>1, <1>6, <1>7
<1>10. (seen + length + p) % step = 0
  BY <1>0, <1>7, <1>8, <1>9
<1> QED
  BY <1>1, <1>2, <1>10 DEF Due

\* The samples of the recording that are due in a block.
DueIn(step, seen, phase, length) ==
    {seen + k : k \in {j \in phase .. length - 1 : (j - phase) % step = 0}}

\* A block adds the samples that are due in it.
LEMMA BlockIsTaken ==
    ASSUME NEW step \in Nat \ {0}, NEW seen \in Nat, NEW phase,
           Due(step, seen, phase), NEW length \in Nat
    PROVE  Every(step, seen + length)
             = Every(step, seen) \cup DueIn(step, seen, phase, length)
<1> DEFINE offsets == {j \in phase .. length - 1 : (j - phase) % step = 0}
<1>0. phase \in 0 .. step - 1
  BY DEF Due
<1>1. ASSUME NEW k \in Every(step, seen + length)
      PROVE  k \in Every(step, seen) \cup {seen + j : j \in offsets}
  <2>1. k \in 0 .. (seen + length) - 1 /\ k % step = 0
    BY <1>1 DEF Every
  <2>2. CASE k < seen
    BY <2>1, <2>2 DEF Every
  <2>3. CASE k >= seen
    <3>1. PICK j \in Nat : k = seen + j /\ j =< length - 1
      BY <2>1, <2>3
    <3>2. j >= phase /\ (j - phase) % step = 0
      BY <2>1, <3>1, DueIsMultiple
    <3>3. j \in offsets
      BY <1>0, <3>1, <3>2
    <3> QED BY <3>1, <3>3
  <2> QED BY <2>1, <2>2, <2>3
<1>2. ASSUME NEW k \in Every(step, seen) PROVE k \in Every(step, seen + length)
  BY <1>2 DEF Every
<1>3. ASSUME NEW k \in offsets PROVE seen + k \in Every(step, seen + length)
  <2>1. k \in Nat /\ k >= phase /\ k =< length - 1 /\ (k - phase) % step = 0
    BY <1>0, <1>3
  <2>2. (seen + k) % step = 0
    BY <2>1, DueIsMultiple
  <2>3. seen + k \in 0 .. (seen + length) - 1
    BY <2>1
  <2> QED BY <2>2, <2>3 DEF Every
<1> HIDE DEF offsets
<1>4. Every(step, seen + length) = Every(step, seen) \cup {seen + k : k \in offsets}
  BY <1>1, <1>2, <1>3
<1> QED
  BY <1>4 DEF offsets, DueIn

\* The samples taken are every step-th one of the recording, however it came in blocks.
LEMMA SamplesHaveNoSeam ==
    ASSUME NEW step \in Nat \ {0}, NEW blocks \in Seq(Nat)
    PROVE  /\ SumOf(blocks) \in Nat
           /\ Resampled(step, blocks).taken = Every(step, SumOf(blocks))
<1> DEFINE n == Len(blocks)
<1>1. n \in Nat /\ DOMAIN blocks = 1..n /\ blocks \in [1..n -> Nat] /\ blocks \in Seq(Int)
  OBVIOUS
<1>2. PICK t \in [0..n -> Int] :
          /\ t[0] = 0
          /\ \A i \in 1..n : t[i] = t[i - 1] + blocks[i]
          /\ SumOf(blocks) = t[n]
  BY <1>1, SumPrefixes
<1>3. PICK h \in [0..n -> Samples] :
          /\ h[0] = [seen |-> 0, taken |-> {}, phase |-> 0]
          /\ \A i \in 1..n : h[i] = Push(step, h[i - 1], blocks[i])
          /\ Resampled(step, blocks) = h[n]
  BY ResampledPrefixes
<1> DEFINE Fits(i) == \E phase \in Nat :
                         /\ t[i] \in Nat /\ Due(step, t[i], phase)
                         /\ h[i] = [seen |-> t[i], taken |-> Every(step, t[i]), phase |-> phase]
           S == {i \in 0..n : Fits(i)}
<1>4. 0 \in S
  <2>1. Due(step, 0, 0)
    <3>1. step * 0 + 0 = 0 /\ 0 \in 0..(step - 1) /\ 0 \in Int /\ 0 + 0 = 0
      OBVIOUS
    <3>2. 0 % step = 0
      BY <3>1, DivModUnique
    <3> QED BY <3>1, <3>2 DEF Due
  <2>2. Every(step, 0) = {}
    BY DEF Every
  <2>3. t[0] = 0 /\ 0 \in Nat /\ 0 \in 0..n
    <3>1. t[0] = 0
      BY <1>2
    <3> QED BY <1>1, <3>1
  <2>4. h[0] = [seen |-> t[0], taken |-> Every(step, t[0]), phase |-> 0]
    BY <1>3, <2>2, <2>3
  <2> QED BY <2>1, <2>3, <2>4
<1>5. ASSUME NEW i \in 1..n, i - 1 \in S PROVE i \in S
  <2>1. PICK phase \in Nat :
            /\ t[i - 1] \in Nat /\ Due(step, t[i - 1], phase)
            /\ h[i - 1] = [seen |-> t[i - 1], taken |-> Every(step, t[i - 1]), phase |-> phase]
    BY <1>5
  <2>2. PICK seen \in Nat : seen = t[i - 1]
    BY <2>1
  <2>3. PICK length \in Nat : length = blocks[i]
    BY <1>1
  <2>4. t[i] = seen + length /\ h[i] = Push(step, h[i - 1], length) /\ i \in 0..n
    <3>1. t[i] = seen + length
      BY <1>2, <2>2, <2>3
    <3>2. h[i] = Push(step, h[i - 1], length)
      BY <1>3, <2>3
    <3> QED BY <1>1, <3>1, <3>2
  <2>5. Due(step, seen, phase)
    BY <2>1, <2>2
  <2>6. h[i] = [seen  |-> seen + length,
                taken |-> Every(step, seen) \cup DueIn(step, seen, phase, length),
                phase |-> (phase - length) % step]
    <3>1. h[i - 1].seen = seen /\ h[i - 1].taken = Every(step, seen) /\ h[i - 1].phase = phase
      BY <2>1, <2>2
    <3> QED BY ONLY <2>4, <3>1, Zenon DEF Push, DueIn
  <2>7. h[i] = [seen |-> seen + length, taken |-> Every(step, seen + length),
                phase |-> (phase - length) % step]
    <3>1. Every(step, seen + length)
             = Every(step, seen) \cup DueIn(step, seen, phase, length)
      BY <2>5, BlockIsTaken
    <3> QED BY ONLY <2>6, <3>1, Zenon
  <2>8. Due(step, seen + length, (phase - length) % step)
    BY <2>5, PhaseIsCarried
  <2>9. seen + length \in Nat /\ (phase - length) % step \in Nat
    BY <2>8 DEF Due
  <2> QED BY <2>4, <2>7, <2>8, <2>9
<1>6. \A i \in 0..n : i \in S
  <2> HIDE DEF S
  <2> QED BY <1>1, <1>4, <1>5, PrefixInduction
<1>7. n \in S
  BY <1>1, <1>6, SMTT(30)
<1> HIDE DEF n
<1>8. PICK phase \in Nat :
         /\ t[n] \in Nat
         /\ h[n] = [seen |-> t[n], taken |-> Every(step, t[n]), phase |-> phase]
  BY <1>7
<1>9. h[n].taken = Every(step, t[n])
  BY <1>8
<1> QED
  BY ONLY <1>2, <1>3, <1>8, <1>9, Zenon

\* What the windows leave between two blocks.
Pending == [carry : Nat, windows : Nat]

\* A block leaves a count and a carry.
LEMMA RunWindowsType ==
    ASSUME NEW window \in Nat \ {0}, NEW v \in Pending, NEW length \in Nat
    PROVE  RunWindows(window, v, length) \in Pending
<1>1. v.carry + length \in Nat /\ v.windows \in Nat
  BY DEF Pending
<1>2. (v.carry + length) % window \in Nat /\ (v.carry + length) \div window \in Nat
  BY <1>1
<1> QED
  BY <1>1, <1>2 DEF RunWindows, Pending

\* What waits and what was run after each block.
LEMMA WindowsPrefixes ==
    ASSUME NEW window \in Nat \ {0}, NEW blocks \in Seq(Nat)
    PROVE  \E h \in [0..Len(blocks) -> Pending] :
              /\ h[0] = [carry |-> 0, windows |-> 0]
              /\ \A i \in 1..Len(blocks) : h[i] = RunWindows(window, h[i - 1], blocks[i])
              /\ FoldLeft(LAMBDA acc, length : RunWindows(window, acc, length),
                       [carry |-> 0, windows |-> 0], blocks) = h[Len(blocks)]
<1> DEFINE n == Len(blocks)
           none == [carry |-> 0, windows |-> 0]
           F == [i \in 1..n |-> [r \in Pending |-> RunWindows(window, r, blocks[i])]]
           Iter(g) == g = [s \in SUBSET (1..n) |->
                              IF s = {} THEN none ELSE RunWindows(window, g[s \ {Max(s)}], blocks[Max(s)])]
<1>1. n \in Nat /\ DOMAIN blocks = 1..n /\ blocks \in [1..n -> Nat]
  OBVIOUS
<1>2. FoldLeft(LAMBDA acc, length : RunWindows(window, acc, length),
                       [carry |-> 0, windows |-> 0], blocks) = (CHOOSE g : Iter(g))[1..n]
  BY <1>1 DEF FoldLeft, MapThenFoldSet
<1>3. none \in Pending
  BY DEF Pending
<1>4. F \in [1..n -> [Pending -> Pending]]
  BY <1>1, RunWindowsType
<1>5. \A s \in SUBSET (1..n) : s # {} => Max(s) \in 1..n
  <2>1. \A s \in SUBSET (1..n) : s \subseteq 0..n
    OBVIOUS
  <2> QED BY <1>1, <2>1, MaxIsGreatest
<1>6. PICK g0 \in [SUBSET (1..n) -> Pending] : IsFold(g0, n, none, F)
  <2> HIDE DEF F, n, none
  <2> QED BY <1>1, <1>3, <1>4, FoldExists
<1>7. Iter(g0)
  <2> HIDE DEF none
  <2>1. \A s \in SUBSET (1..n) :
            g0[s] = IF s = {} THEN none ELSE RunWindows(window, g0[s \ {Max(s)}], blocks[Max(s)])
    BY <1>5, <1>6 DEF IsFold
  <2>2. g0 = [s \in SUBSET (1..n) |-> g0[s]]
    OBVIOUS
  <2> QED BY <2>1, <2>2
<1>8. PICK g : Iter(g) /\ FoldLeft(LAMBDA acc, length : RunWindows(window, acc, length),
                       [carry |-> 0, windows |-> 0], blocks) = g[1..n]
  BY <1>2, <1>7
<1> DEFINE Y == Pending \cup {g[s] : s \in SUBSET (1..n)}
           G == [i \in 1..n |-> [r \in Y |-> RunWindows(window, r, blocks[i])]]
<1>9. IsFold(g, n, none, G)
  <2> HIDE DEF none
  <2> QED BY <1>5, <1>8 DEF IsFold
<1>10. \A i \in 1..n, r \in Pending :
          G[i][r] = RunWindows(window, r, blocks[i]) /\ G[i][r] \in Pending
  BY <1>1, RunWindowsType
<1>11. KeepsTo(G, n, Pending)
  BY <1>10 DEF KeepsTo
<1>12. PICK h : AreStages(h, n, Pending, none, G) /\ h[n] = g[1..n]
  <2> HIDE DEF G, n, none
  <2> QED BY <1>1, <1>3, <1>9, <1>11, FoldPrefixes
<1>13. \A i \in 1..n : h[i] = RunWindows(window, h[i - 1], blocks[i])
  <2>1. \A i \in 1..n : i - 1 \in 0..n
    BY <1>1
  <2> HIDE DEF G
  <2> QED BY <1>10, <1>12, <2>1 DEF AreStages
<1> HIDE DEF G
<1> QED
  BY <1>8, <1>12, <1>13 DEF AreStages

\* Whole windows and what is carried over, before a block and after it.
LEMMA WindowsAddUp ==
    ASSUME NEW window \in Nat \ {0}, NEW done \in Nat, NEW carry \in Nat, NEW length \in Nat
    PROVE  \E next \in 0 .. window - 1, whole \in Nat :
              /\ next = (carry + length) % window
              /\ whole = done + (carry + length) \div window
              /\ window * whole + next = window * done + carry + length
<1>1. PICK x \in Nat : x = carry + length
  OBVIOUS
<1>2. PICK q \in Int, r \in 0 .. window - 1 :
          x = window * q + r /\ x % window = r /\ x \div window = q
  <2> DEFINE d == x \div window
             m == x % window
  <2>1. m \in 0 .. window - 1 /\ d \in Int /\ x = window * d + m
    BY DivMod
  <2> QED BY <2>1
<1>3. window * (done + q) = window * done + window * q
  OBVIOUS
<1>4. window * done \in Int /\ window * q \in Int
  OBVIOUS
<1>5. ASSUME q < 0 PROVE FALSE
  <2>1. window * q =< -window
    BY <1>5
  <2> QED BY <1>2, <1>4, <2>1
<1>6. done + q \in Nat
  BY <1>5
<1>7. window * (done + q) + r = window * done + carry + length
  BY <1>1, <1>2, <1>3, <1>4
<1> QED
  BY <1>1, <1>2, <1>6, <1>7

\* What is carried over at the end fills one more window.
LEMMA LastWindow ==
    ASSUME NEW window \in Nat \ {0}, NEW done \in Nat, NEW carry \in 0 .. window - 1
    PROVE  (window * done + carry + window - 1) \div window
             = IF carry = 0 THEN done ELSE done + 1
<1>1. PICK m \in Int : m = window * done
  OBVIOUS
<1>2. CASE carry = 0
  <2>1. window - 1 \in 0 .. (window - 1) /\ done \in Int
    OBVIOUS
  <2>2. (window * done + (window - 1)) \div window = done
    BY <2>1, DivModUnique
  <2>3. m + (window - 1) = m + carry + window - 1
    BY <1>2
  <2> QED BY <1>1, <1>2, <2>2, <2>3
<1>3. CASE carry # 0
  <2>1. carry - 1 \in 0 .. (window - 1) /\ done + 1 \in Int
    BY <1>3
  <2>2. (window * (done + 1) + (carry - 1)) \div window = done + 1
    BY <2>1, DivModUnique
  <2>3. window * (done + 1) = m + window
    BY <1>1
  <2>4. (m + window) + (carry - 1) = m + carry + window - 1
    OBVIOUS
  <2> QED BY <1>1, <1>3, <2>2, <2>3, <2>4
<1> QED
  BY <1>2, <1>3

\* No window is missing and none is doubled, however the samples came in blocks.
LEMMA WindowsHaveNoSeam ==
    ASSUME NEW window \in Nat \ {0}, NEW blocks \in Seq(Nat)
    PROVE  Windows(window, blocks)
             = (SumOf(blocks) + window - 1) \div window
<1> DEFINE n == Len(blocks)
<1>1. n \in Nat /\ DOMAIN blocks = 1..n /\ blocks \in [1..n -> Nat] /\ blocks \in Seq(Int)
  OBVIOUS
<1>2. PICK t \in [0..n -> Int] :
          /\ t[0] = 0
          /\ \A i \in 1..n : t[i] = t[i - 1] + blocks[i]
          /\ SumOf(blocks) = t[n]
  BY <1>1, SumPrefixes
<1>3. PICK h \in [0..n -> Pending] :
          /\ h[0] = [carry |-> 0, windows |-> 0]
          /\ \A i \in 1..n : h[i] = RunWindows(window, h[i - 1], blocks[i])
          /\ FoldLeft(LAMBDA acc, length : RunWindows(window, acc, length),
                      [carry |-> 0, windows |-> 0], blocks) = h[n]
  BY WindowsPrefixes
<1> DEFINE Fits(i) == \E done \in Nat, carry \in 0 .. window - 1 :
                         /\ h[i] = [carry |-> carry, windows |-> done]
                         /\ t[i] = window * done + carry
           S == {i \in 0..n : Fits(i)}
<1>4. 0 \in S
  <2>1. t[0] = 0
    BY <1>2
  <2>2. h[0] = [carry |-> 0, windows |-> 0]
    BY <1>3
  <2>3. window * 0 + 0 = 0 /\ 0 \in Nat /\ 0 \in 0 .. window - 1 /\ 0 \in 0..n
    BY <1>1
  <2> QED BY <2>1, <2>2, <2>3
<1>5. ASSUME NEW i \in 1..n, i - 1 \in S PROVE i \in S
  <2>1. PICK done \in Nat, carry \in 0 .. window - 1 :
            /\ h[i - 1] = [carry |-> carry, windows |-> done]
            /\ t[i - 1] = window * done + carry
    BY <1>5
  <2>2. PICK length \in Nat : length = blocks[i]
    BY <1>1
  <2>3. t[i] = window * done + carry + length /\ i \in 0..n
    <3>1. t[i] = t[i - 1] + length
      BY <1>2, <2>2
    <3> QED BY <1>1, <2>1, <3>1
  <2>4. h[i] = [carry |-> (carry + length) % window,
                windows |-> done + (carry + length) \div window]
    <3>1. h[i] = RunWindows(window, h[i - 1], length)
      BY <1>3, <2>2
    <3>2. h[i - 1].carry = carry /\ h[i - 1].windows = done
      BY <2>1
    <3> QED BY ONLY <3>1, <3>2, Zenon DEF RunWindows
  <2>5. carry \in Nat
    OBVIOUS
  <2>6. PICK next \in 0 .. window - 1, whole \in Nat :
            /\ next = (carry + length) % window
            /\ whole = done + (carry + length) \div window
            /\ window * whole + next = window * done + carry + length
    <3>1. \A c, l \in Nat : \E next \in 0 .. window - 1, whole \in Nat :
              /\ next = (c + l) % window
              /\ whole = done + (c + l) \div window
              /\ window * whole + next = window * done + c + l
      BY WindowsAddUp, Zenon
    <3> QED BY <2>5, <3>1, Zenon
  <2> QED BY <2>3, <2>4, <2>6
<1>6. \A i \in 0..n : i \in S
  <2> HIDE DEF S
  <2> QED BY <1>1, <1>4, <1>5, PrefixInduction
<1>7. n \in S
  <2> HIDE DEF S
  <2> QED BY <1>1, <1>6
<1>8. PICK done \in Nat, carry \in 0 .. window - 1 :
          h[n] = [carry |-> carry, windows |-> done] /\ t[n] = window * done + carry
  BY <1>7
<1> HIDE DEF n
<1>9. Windows(window, blocks) = IF carry = 0 THEN done ELSE done + 1
  <2>1. h[n].carry = carry /\ h[n].windows = done
    BY <1>8
  <2> QED BY ONLY <1>3, <2>1, Zenon DEF Windows
<1>10. (t[n] + window - 1) \div window = IF carry = 0 THEN done ELSE done + 1
  <2>1. (window * done + carry + window - 1) \div window = IF carry = 0 THEN done ELSE done + 1
    BY LastWindow, Zenon
  <2> QED BY <1>8, <2>1, Zenon
<1> QED
  BY <1>2, <1>9, <1>10

\* However a recording is cut into blocks, the detector hears the same: every step-th
\* sample once and each window once (_Resampler and probabilities).
THEOREM BlocksAreHeardWhole ==
    \A step, window \in Nat \ {0}, blocks \in Seq(Nat) : NoSeams(step, window, blocks)
<1> SUFFICES ASSUME NEW step \in Nat \ {0}, NEW window \in Nat \ {0}, NEW blocks \in Seq(Nat)
             PROVE  NoSeams(step, window, blocks)
  OBVIOUS
<1> QED
  BY SamplesHaveNoSeam, WindowsHaveNoSeam, Zenon DEF NoSeams, Every, SumOf

-----------------------------------------------------------------------------
(* What a speech is, window by window. *)

Detector == [window : Nat \ {0}, minSpeech : Nat, minSilence : Nat, pad : Nat]

\* No high window from a to b.
Mute(levels, a, b) == \A k \in a..b : levels[k] # "high"

\* The first samples of x and of y are a silence apart.
LongEnough(p, x, y) == p.minSilence =< p.window * (y - x)

\* A silence begins with the low window x and is long enough with the low window y.
Silence(p, levels, x, y) ==
    /\ x =< y /\ levels[x] = "low" /\ levels[y] = "low"
    /\ Mute(levels, x, y) /\ LongEnough(p, x, y)

NoSilence(p, levels, a, b) == \A x, y \in a..b : ~Silence(p, levels, x, y)

\* A speech starts with f: there is none before, or a silence ended the last.
Starts(p, levels, f) ==
    /\ levels[f] = "high"
    /\ \/ Mute(levels, 1, f - 1)
       \/ \E x, y \in 1 .. f - 1 : Silence(p, levels, x, y) /\ Mute(levels, x, f - 1)

\* The first low window after the last high one.
FirstLow(levels, l, c) ==
    /\ l < c /\ levels[l] = "high" /\ levels[c] = "low"
    /\ \A k \in l + 1 .. c - 1 : levels[k] = "between"

\* The speech from f ends with c, as is known when n windows were heard.
Ends(p, levels, f, c, n) ==
    /\ \E l \in f .. c - 1 : FirstLow(levels, l, c)
    /\ NoSilence(p, levels, f, c - 1)
    /\ \E y \in c .. n : Silence(p, levels, c, y)

\* A stretch that holds a long one is long.
LEMMA LongerStill ==
    ASSUME NEW p \in Detector, NEW a \in Int, NEW x \in Int, NEW y \in Int, NEW b \in Int,
           a =< x, y =< b, LongEnough(p, x, y)
    PROVE  LongEnough(p, a, b)
<1>1. PICK w \in Nat \ {0} : w = p.window
  BY DEF Detector
<1>2. PICK m \in Nat : m = p.minSilence
  BY DEF Detector
<1>3. PICK d \in Int, e \in Int : d = y - x /\ e = b - a /\ d =< e
  OBVIOUS
<1>4. w * d =< w * e
  <2>1. w * (e - d) >= 0
    BY <1>3
  <2> QED BY <1>3, <2>1
<1>5. m =< w * d /\ w * d \in Int /\ w * e \in Int
  BY <1>1, <1>2, <1>3 DEF LongEnough
<1> QED
  BY <1>1, <1>2, <1>3, <1>4, <1>5 DEF LongEnough

\* The high window before x.
LEMMA HighBefore ==
    ASSUME NEW levels \in Seq(Levels), NEW i \in 1 .. Len(levels), NEW x \in 1 .. Len(levels) + 1,
           i < x, levels[i] = "high"
    PROVE  \E j \in i .. x - 1 : levels[j] = "high" /\ Mute(levels, j + 1, x - 1)
<1> DEFINE S == {j \in i .. x - 1 : levels[j] = "high"}
<1>1. S # {} /\ S \subseteq 0..(x - 1) /\ x - 1 \in Nat
  OBVIOUS
<1>2. Max(S) \in S /\ \A j \in S : j =< Max(S)
  BY <1>1, MaxIsGreatest
<1>3. PICK m \in S : \A j \in S : j =< m
  BY <1>2
<1>4. Mute(levels, m + 1, x - 1)
  <2>1. ASSUME NEW k \in m + 1 .. x - 1, levels[k] = "high" PROVE FALSE
    <3>1. k \in S
      BY <2>1
    <3> QED BY <1>3, <3>1
  <2> QED BY <2>1 DEF Mute
<1> QED
  BY <1>3, <1>4

\* The next high window of SpeechesOf.
LEMMA NextHigh ==
    ASSUME NEW levels \in Seq(Levels), NEW i \in 1 .. Len(levels)
    PROVE  LET highs == {k \in DOMAIN levels : levels[k] = "high"}
               next == Min({j \in highs : j > i} \cup {Len(levels) + 1})
           IN  /\ next \in i + 1 .. Len(levels) + 1
               /\ Mute(levels, i + 1, next - 1)
               /\ next =< Len(levels) => levels[next] = "high"
<1> DEFINE highs == {k \in DOMAIN levels : levels[k] = "high"}
           S == {j \in highs : j > i} \cup {Len(levels) + 1}
<1>1. S \subseteq Nat /\ S # {} /\ S \subseteq i + 1 .. Len(levels) + 1
  OBVIOUS
<1>2. PICK m \in S : m = Min(S) /\ \A x \in S : m =< x
  <2>1. Min(S) \in S /\ \A x \in S : Min(S) =< x
    BY <1>1, MinIsLeast
  <2> QED BY <2>1
<1>3. m \in i + 1 .. Len(levels) + 1
  BY <1>1
<1>4. Mute(levels, i + 1, m - 1)
  <2>1. ASSUME NEW k \in i + 1 .. m - 1, levels[k] = "high" PROVE FALSE
    <3>1. k \in S
      BY <1>3, <2>1
    <3>2. m =< k
      BY <1>2, <3>1
    <3> QED BY <1>3, <3>2
  <2> QED BY <2>1 DEF Mute
<1>5. m =< Len(levels) => levels[m] = "high"
  BY <1>3
<1> QED
  BY <1>2, <1>3, <1>4, <1>5

\* A silence of SpeechesOf between two high windows.
LEMMA SilenceBetween ==
    ASSUME NEW p \in Detector, NEW levels \in Seq(Levels),
           NEW i \in 1 .. Len(levels), NEW j \in i + 1 .. Len(levels) + 1,
           Mute(levels, i + 1, j - 1)
    PROVE  /\ IsSilence(p, levels, i, j)
                <=> \E x, y \in i + 1 .. j - 1 : Silence(p, levels, x, y)
           /\ LowsBetween(levels, i, j) # {} =>
                /\ Min(LowsBetween(levels, i, j)) \in i + 1 .. j - 1
                /\ levels[Min(LowsBetween(levels, i, j))] = "low"
                /\ \A k \in i + 1 .. j - 1 :
                      levels[k] = "low" => Min(LowsBetween(levels, i, j)) =< k
           /\ IsSilence(p, levels, i, j) =>
                \E y \in i + 1 .. j - 1 : Silence(p, levels, Min(LowsBetween(levels, i, j)), y)
<1> DEFINE lows == LowsBetween(levels, i, j)
<1>1. lows = {k \in i + 1 .. j - 1 : levels[k] = "low"} /\ lows \subseteq Nat /\ lows \subseteq 0..(j - 1)
  BY DEF LowsBetween
<1>2. ASSUME lows # {}
      PROVE  \E a, b \in lows : /\ a = Min(lows) /\ b = Max(lows)
                                /\ \A k \in lows : a =< k /\ k =< b
  <2>1. Min(lows) \in lows /\ \A k \in lows : Min(lows) =< k
    BY <1>1, <1>2, MinIsLeast
  <2>2. Max(lows) \in lows /\ \A k \in lows : k =< Max(lows)
    <3>1. j - 1 \in Nat
      OBVIOUS
    <3> QED BY <1>1, <1>2, <3>1, MaxIsGreatest
  <2> QED BY <2>1, <2>2
<1>3. IsSilence(p, levels, i, j) <=> lows # {} /\ LongEnough(p, Min(lows), Max(lows))
  <2>1. PICK w \in Nat, m \in Nat : w = p.window /\ m = p.minSilence
    BY DEF Detector
  <2>2. CASE lows = {}
    BY <2>2 DEF IsSilence
  <2>3. CASE lows # {}
    <3>1. PICK a, b \in lows : a = Min(lows) /\ b = Max(lows)
      BY <1>2, <2>3
    <3>2. a \in Int /\ b \in Int
      BY <1>1
    <3>3. PICK z \in Int : z = w * (b - a)
      BY <3>2
    <3> QED BY <2>1, <2>3, <3>1, <3>2, <3>3 DEF IsSilence, LongEnough
  <2> QED BY <2>2, <2>3
<1> HIDE DEF lows
<1>4. ASSUME lows # {}, LongEnough(p, Min(lows), Max(lows))
      PROVE  \E y \in i + 1 .. j - 1 : Silence(p, levels, Min(lows), y)
  <2>1. PICK a, b \in lows : a = Min(lows) /\ b = Max(lows) /\ \A k \in lows : a =< k /\ k =< b
    BY <1>2, <1>4
  <2>2. a \in i + 1 .. j - 1 /\ b \in i + 1 .. j - 1 /\ levels[a] = "low" /\ levels[b] = "low" /\ a =< b
    BY <1>1, <2>1
  <2>3. Mute(levels, a, b)
    BY <2>2 DEF Mute
  <2> QED BY <1>4, <2>1, <2>2, <2>3 DEF Silence
<1>5. ASSUME NEW x \in i + 1 .. j - 1, NEW y \in i + 1 .. j - 1, Silence(p, levels, x, y)
      PROVE  lows # {} /\ LongEnough(p, Min(lows), Max(lows))
  <2>1. x \in lows /\ y \in lows
    BY <1>1, <1>5 DEF Silence
  <2>2. PICK a, b \in lows : a = Min(lows) /\ b = Max(lows) /\ \A k \in lows : a =< k /\ k =< b
    BY <1>2, <2>1
  <2>3. a =< x /\ y =< b /\ a \in Int /\ b \in Int /\ x \in Int /\ y \in Int /\ LongEnough(p, x, y)
    BY <1>1, <1>5, <2>1, <2>2 DEF Silence
  <2>4. LongEnough(p, a, b)
    BY <2>3, LongerStill
  <2> QED BY <2>1, <2>2, <2>4
<1>6. lows # {} =>
         /\ Min(lows) \in i + 1 .. j - 1 /\ levels[Min(lows)] = "low"
         /\ \A k \in i + 1 .. j - 1 : levels[k] = "low" => Min(lows) =< k
  BY <1>1, <1>2
<1>7. lows # {} => Min(lows) \in i + 1 .. j - 1
  BY <1>6
<1> QED
  BY <1>3, <1>4, <1>5, <1>6, <1>7 DEF lows

\* The high window after i, or the one after the last; a high window before a silence.
NextOf(levels, i) ==
    Min({j \in {k \in DOMAIN levels : levels[k] = "high"} : j > i} \cup {Len(levels) + 1})

IsLast(p, levels, i) == levels[i] = "high" /\ IsSilence(p, levels, i, NextOf(levels, i))

\* The facts of NextHigh and SilenceBetween, of the windows after i.
LEMMA AfterHigh ==
    ASSUME NEW p \in Detector, NEW levels \in Seq(Levels), NEW i \in 1 .. Len(levels)
    PROVE  /\ NextOf(levels, i) \in i + 1 .. Len(levels) + 1
           /\ Mute(levels, i + 1, NextOf(levels, i) - 1)
           /\ NextOf(levels, i) =< Len(levels) => levels[NextOf(levels, i)] = "high"
           /\ IsSilence(p, levels, i, NextOf(levels, i))
                <=> \E x, y \in i + 1 .. NextOf(levels, i) - 1 : Silence(p, levels, x, y)
<1>1. /\ NextOf(levels, i) \in i + 1 .. Len(levels) + 1
      /\ Mute(levels, i + 1, NextOf(levels, i) - 1)
      /\ NextOf(levels, i) =< Len(levels) => levels[NextOf(levels, i)] = "high"
  BY NextHigh, Zenon DEF NextOf
<1>2. PICK j \in i + 1 .. Len(levels) + 1 : j = NextOf(levels, i)
  BY <1>1
<1>3. IsSilence(p, levels, i, j) <=> \E x, y \in i + 1 .. j - 1 : Silence(p, levels, x, y)
  BY <1>1, <1>2, SilenceBetween
<1> QED
  BY <1>1, <1>2, <1>3

\* A silence after the high window i is after a last one.
LEMMA SilenceHasLast ==
    ASSUME NEW p \in Detector, NEW levels \in Seq(Levels), NEW i \in 1 .. Len(levels),
           levels[i] = "high", NEW x \in i .. Len(levels), NEW y \in i .. Len(levels),
           Silence(p, levels, x, y)
    PROVE  \E j \in i .. x - 1 : IsLast(p, levels, j)
<1>1. x \in 1 .. Len(levels) + 1 /\ i < x /\ x =< y /\ Mute(levels, x, y)
  BY DEF Silence
<1>2. PICK j \in i .. x - 1 : levels[j] = "high" /\ Mute(levels, j + 1, x - 1)
  BY <1>1, HighBefore
<1>3. j \in 1 .. Len(levels)
  BY <1>1
<1>4. PICK next \in j + 1 .. Len(levels) + 1 :
          /\ next = NextOf(levels, j)
          /\ next =< Len(levels) => levels[next] = "high"
          /\ IsSilence(p, levels, j, next)
                <=> \E a, b \in j + 1 .. next - 1 : Silence(p, levels, a, b)
  BY <1>3, AfterHigh
<1>5. next > y
  BY <1>1, <1>2, <1>4 DEF Mute
<1>6. x \in j + 1 .. next - 1 /\ y \in j + 1 .. next - 1
  BY <1>1, <1>5
<1> QED
  BY <1>2, <1>4, <1>6 DEF IsLast

\* SpeechesOf and the windows agree on where a speech starts.
LEMMA FirstsStart ==
    ASSUME NEW p \in Detector, NEW levels \in Seq(Levels), NEW i \in 1 .. Len(levels),
           levels[i] = "high"
    PROVE  (\A j \in 1 .. Len(levels) :
                levels[j] = "high" /\ j < i /\ NextOf(levels, j) = i => IsLast(p, levels, j))
             <=> Starts(p, levels, i)
<1>1. ASSUME NEW j \in 1 .. Len(levels), levels[j] = "high", j < i, NextOf(levels, j) = i,
             Starts(p, levels, i)
      PROVE  IsLast(p, levels, j)
  <2>1. PICK x, y \in 1 .. i - 1 : Silence(p, levels, x, y) /\ Mute(levels, x, i - 1)
    BY <1>1 DEF Starts, Mute
  <2>2. j < x /\ x =< y
    BY <1>1, <2>1 DEF Mute, Silence
  <2>3. IsSilence(p, levels, j, i)
    <3>1. PICK next \in j + 1 .. Len(levels) + 1 :
            /\ next = NextOf(levels, j)
            /\ IsSilence(p, levels, j, next)
                  <=> \E a, b \in j + 1 .. next - 1 : Silence(p, levels, a, b)
      BY AfterHigh
    <3>2. next = i
      BY <1>1, <3>1
    <3>3. x \in j + 1 .. i - 1 /\ y \in j + 1 .. i - 1
      BY <2>2
    <3> QED BY <2>1, <3>1, <3>2, <3>3
  <2> QED BY <1>1, <2>3 DEF IsLast
<1>2. ASSUME \A j \in 1 .. Len(levels) :
                levels[j] = "high" /\ j < i /\ NextOf(levels, j) = i => IsLast(p, levels, j),
             ~Mute(levels, 1, i - 1)
      PROVE  \E x, y \in 1 .. i - 1 : Silence(p, levels, x, y) /\ Mute(levels, x, i - 1)
  <2>1. PICK h \in 1 .. i - 1 : levels[h] = "high"
    BY <1>2 DEF Mute
  <2>2. h \in 1 .. Len(levels) /\ i \in 1 .. Len(levels) + 1 /\ h < i
    BY <2>1
  <2>3. PICK j \in h .. i - 1 : levels[j] = "high" /\ Mute(levels, j + 1, i - 1)
    BY <2>1, <2>2, HighBefore
  <2>4. j \in 1 .. Len(levels) /\ j < i
    BY <2>2
  <2>5. PICK next \in j + 1 .. Len(levels) + 1 :
          /\ next = NextOf(levels, j) /\ Mute(levels, j + 1, next - 1)
          /\ next =< Len(levels) => levels[next] = "high"
          /\ IsSilence(p, levels, j, next)
                <=> \E a, b \in j + 1 .. next - 1 : Silence(p, levels, a, b)
    BY <2>4, AfterHigh
  <2>6. next = i
    BY <2>3, <2>4, <2>5 DEF Mute
  <2>7. PICK x, y \in j + 1 .. i - 1 : Silence(p, levels, x, y)
    BY <1>2, <2>3, <2>4, <2>5, <2>6 DEF IsLast
  <2>8. x \in 1 .. i - 1 /\ y \in 1 .. i - 1 /\ Mute(levels, x, i - 1)
    BY <2>3, <2>4 DEF Mute
  <2> QED BY <2>7, <2>8
<1> QED
  BY <1>1, <1>2 DEF Starts

\* A speech ends once.
LEMMA EndsOnce ==
    ASSUME NEW p, NEW levels, NEW n \in Nat, NEW f \in 1..n, NEW c \in 1..n, NEW d \in 1..n,
           Ends(p, levels, f, c, n), Ends(p, levels, f, d, n)
    PROVE  c = d
<1>1. ASSUME NEW a \in 1..n, NEW b \in 1..n, a < b,
             Ends(p, levels, f, a, n), Ends(p, levels, f, b, n)
      PROVE  FALSE
  <2>1. PICK y \in a..n : Silence(p, levels, a, y)
    BY <1>1 DEF Ends
  <2>2. PICK l \in f .. b - 1 : FirstLow(levels, l, b)
    BY <1>1 DEF Ends
  <2>3. levels[a] = "low" /\ Mute(levels, a, y) /\ a =< y
    BY <2>1 DEF Silence
  <2>4. l >= a
    BY <1>1, <2>2, <2>3 DEF FirstLow
  <2>5. y < l
    BY <2>2, <2>3, <2>4 DEF FirstLow, Mute
  <2>6. f =< a
    BY <1>1 DEF Ends
  <2>7. a \in f .. b - 1 /\ y \in f .. b - 1
    BY <1>1, <2>2, <2>3, <2>5, <2>6
  <2> QED BY <1>1, <2>1, <2>7 DEF Ends, NoSilence
<1> QED
  BY <1>1

\* A speech that has ended is not open.
LEMMA EndedIsOver ==
    ASSUME NEW p, NEW levels, NEW n \in Nat, NEW f \in 1..n, NEW c \in 1..n,
           Ends(p, levels, f, c, n)
    PROVE  f < c /\ ~NoSilence(p, levels, f, n)
<1>1. PICK y \in c..n : Silence(p, levels, c, y)
  BY DEF Ends
<1>2. f < c
  BY DEF Ends
<1>3. c \in f..n /\ y \in f..n
  BY <1>2
<1> QED
  BY <1>1, <1>2, <1>3 DEF NoSilence

\* SpeechesOf and the windows agree on where a speech ends.
EndOf(p, levels, total, i) ==
    LET after == {j \in DOMAIN levels : IsLast(p, levels, j) /\ j >= i}
    IN  IF after = {} THEN total
        ELSE p.window * (Min(LowsBetween(levels, Min(after), NextOf(levels, Min(after)))) - 1)

LEMMA EndIsFound ==
    ASSUME NEW p \in Detector, NEW levels \in Seq(Levels), NEW total, NEW i \in 1 .. Len(levels),
           levels[i] = "high"
    PROVE  \/ /\ NoSilence(p, levels, i, Len(levels))
              /\ EndOf(p, levels, total, i) = total
           \/ \E c \in 1 .. Len(levels) :
                 /\ Ends(p, levels, i, c, Len(levels))
                 /\ EndOf(p, levels, total, i) = p.window * (c - 1)
<1> DEFINE after == {j \in DOMAIN levels : IsLast(p, levels, j) /\ j >= i}
<1>1. after = {j \in i .. Len(levels) : IsLast(p, levels, j)} /\ after \subseteq Nat
  OBVIOUS
<1> HIDE DEF after
<1>2. CASE after = {}
  <2>1. NoSilence(p, levels, i, Len(levels))
    <3>1. ASSUME NEW x \in i .. Len(levels), NEW y \in i .. Len(levels), Silence(p, levels, x, y)
          PROVE  FALSE
      <4>1. PICK j \in i .. x - 1 : IsLast(p, levels, j)
        BY <3>1, SilenceHasLast
      <4> QED BY <1>1, <1>2, <4>1
    <3> QED BY <3>1 DEF NoSilence
  <2>2. EndOf(p, levels, total, i) = total
    BY <1>2, Zenon DEF EndOf, after
  <2> QED BY <2>1, <2>2
<1>3. CASE after # {}
  <2>1. Min(after) \in after /\ \A j \in after : Min(after) =< j
    BY <1>1, <1>3, MinIsLeast
  <2>2. PICK m \in after : m = Min(after) /\ \A j \in after : m =< j
    BY <2>1
  <2>3. m \in 1 .. Len(levels) /\ m >= i /\ IsLast(p, levels, m)
    BY <1>1
  <2>4. PICK next \in m + 1 .. Len(levels) + 1 :
            next = NextOf(levels, m) /\ Mute(levels, m + 1, next - 1)
    BY <2>3, AfterHigh
  <2>5. IsSilence(p, levels, m, next) /\ levels[m] = "high"
    BY <2>3, <2>4 DEF IsLast
  <2>6. LowsBetween(levels, m, next) # {}
    BY <2>5 DEF IsSilence
  <2>7. PICK c \in m + 1 .. next - 1 :
            /\ c = Min(LowsBetween(levels, m, next)) /\ levels[c] = "low"
            /\ \A k \in m + 1 .. next - 1 : levels[k] = "low" => c =< k
            /\ \E y \in m + 1 .. next - 1 : Silence(p, levels, c, y)
    BY <2>3, <2>4, <2>5, <2>6, SilenceBetween, ZenonT(30)
  <2>8. PICK y \in m + 1 .. next - 1 : Silence(p, levels, c, y)
    BY <2>7
  <2>9. c \in 1 .. Len(levels) /\ y \in c .. Len(levels)
    BY <2>3, <2>8 DEF Silence
  <2>10. FirstLow(levels, m, c)
    <3>1. ASSUME NEW k \in m + 1 .. c - 1 PROVE levels[k] = "between"
      <4>1. k \in m + 1 .. next - 1 /\ k \in 1 .. Len(levels) /\ ~(c =< k)
        BY <2>3
      <4>2. levels[k] # "high" /\ levels[k] # "low"
        BY <2>4, <2>7, <4>1 DEF Mute
      <4> QED BY <4>1, <4>2 DEF Levels
    <3>2. m < c
      BY <2>3
    <3> QED BY <2>5, <2>7, <3>1, <3>2 DEF FirstLow
  <2>11. NoSilence(p, levels, i, c - 1)
    <3>1. ASSUME NEW x \in i .. c - 1, NEW z \in i .. c - 1, Silence(p, levels, x, z) PROVE FALSE
      <4>1. x < m
        <5>1. x =< m
          <6>1. SUFFICES ASSUME x > m PROVE FALSE
            BY <2>3
          <6>2. x \in m + 1 .. next - 1 /\ ~(c =< x) /\ levels[x] = "low"
            BY <2>3, <3>1, <6>1 DEF Silence
          <6> QED BY <2>7, <6>2
        <5>2. x # m
          BY <2>5, <3>1 DEF Silence
        <5> QED BY <2>3, <5>1, <5>2
      <4>2. x \in i .. Len(levels) /\ z \in i .. Len(levels)
        BY <2>9
      <4>3. PICK j \in i .. x - 1 : IsLast(p, levels, j)
        BY <3>1, <4>2, SilenceHasLast
      <4>4. j \in after
        BY <1>1, <4>2, <4>3
      <4> QED BY <2>2, <2>3, <4>1, <4>3, <4>4
    <3> QED BY <3>1 DEF NoSilence
  <2>12. Ends(p, levels, i, c, Len(levels))
    <3>1. m \in i .. c - 1
      BY <2>3
    <3> QED BY <2>8, <2>9, <2>10, <2>11, <3>1 DEF Ends
  <2>13. EndOf(p, levels, total, i) = p.window * (c - 1)
    BY <1>3, <2>2, <2>4, <2>7, Zenon DEF EndOf, after
  <2> QED BY <2>9, <2>12, <2>13
<1> QED
  BY <1>2, <1>3

\* SpeechesOf, by windows.
LEMMA SpeechesByWindows ==
    ASSUME NEW p \in Detector, NEW levels \in Seq(Levels), NEW total
    PROVE  SpeechesOf(p, levels, total)
             = {s \in {<<p.window * (i - 1), EndOf(p, levels, total, i)>> :
                          i \in {k \in 1 .. Len(levels) : Starts(p, levels, k)}} :
                  s[2] - s[1] > p.minSpeech}
<1> DEFINE highs  == {i \in DOMAIN levels : levels[i] = "high"}
           next(i) == Min({j \in highs : j > i} \cup {Len(levels) + 1})
           lasts  == {i \in highs : IsSilence(p, levels, i, next(i))}
           firsts == {i \in highs : \A j \in highs : j < i /\ next(j) = i => j \in lasts}
           end(i) == LET after == {j \in lasts : j >= i}
                     IN  IF after = {} THEN total
                         ELSE p.window * (Min(LowsBetween(levels, Min(after), next(Min(after)))) - 1)
<1>1. \A i : next(i) = NextOf(levels, i)
  BY Zenon DEF NextOf
<1>2. highs = {i \in 1 .. Len(levels) : levels[i] = "high"} /\ DOMAIN levels = 1 .. Len(levels)
  OBVIOUS
<1>3. SpeechesOf(p, levels, total)
        = {s \in {<<p.window * (i - 1), end(i)>> : i \in firsts} : s[2] - s[1] > p.minSpeech}
  BY Zenon DEF SpeechesOf
<1> HIDE DEF highs, next
<1>4. \A i : i \in lasts <=> i \in highs /\ IsLast(p, levels, i)
  BY <1>1, <1>2 DEF IsLast
<1>5. \A i : end(i) = EndOf(p, levels, total, i)
  <2>1. ASSUME NEW i
        PROVE  {j \in lasts : j >= i} = {j \in DOMAIN levels : IsLast(p, levels, j) /\ j >= i}
    <3>1. \A j : j \in lasts <=> j \in DOMAIN levels /\ IsLast(p, levels, j)
      BY <1>2, <1>4 DEF IsLast
    <3> HIDE DEF lasts
    <3> QED BY <3>1, Zenon
  <2> HIDE DEF lasts
  <2> QED BY <2>1, <1>1, Zenon DEF EndOf
<1>6. firsts = {k \in 1 .. Len(levels) : Starts(p, levels, k)}
  <2>1. ASSUME NEW i \in highs PROVE i \in firsts <=> Starts(p, levels, i)
    <3>1. i \in 1 .. Len(levels) /\ levels[i] = "high"
      BY <1>2
    <3>2. i \in firsts <=> \A j \in 1 .. Len(levels) :
                levels[j] = "high" /\ j < i /\ NextOf(levels, j) = i => IsLast(p, levels, j)
      <4> HIDE DEF lasts
      <4> QED BY <1>1, <1>2, <1>4
    <3> HIDE DEF firsts
    <3> QED BY <3>1, <3>2, FirstsStart
  <2>2. \A i : i \in firsts => i \in highs
    OBVIOUS
  <2>3. \A k \in 1 .. Len(levels) : Starts(p, levels, k) => k \in highs
    BY <1>2 DEF Starts
  <2> HIDE DEF firsts
  <2> QED BY <1>2, <2>1, <2>2, <2>3
<1> HIDE DEF firsts, end
<1> QED
  BY <1>3, <1>5, <1>6, Zenon

-----------------------------------------------------------------------------
(* The loop over the windows. *)

\* What speech_segments keeps between two windows.
Listening == [speeches : Seq(Nat \X Nat), triggered : BOOLEAN, start : Nat, end : Nat]

\* A window leaves positions.
LEMMA HearType ==
    ASSUME NEW p \in Detector, NEW s \in Listening, NEW level, NEW cur \in Nat
    PROVE  Hear(p, s, level, cur) \in Listening
<1>1. /\ s.speeches \in Seq(Nat \X Nat) /\ s.triggered \in BOOLEAN /\ s.start \in Nat
      /\ s.end \in Nat /\ s = [speeches |-> s.speeches, triggered |-> s.triggered,
                               start |-> s.start, end |-> s.end]
  BY DEF Listening
<1>2. ASSUME NEW end \in Nat
      PROVE  /\ Append(s.speeches, <<s.start, end>>) \in Seq(Nat \X Nat)
             /\ [s EXCEPT !.end = end] \in Listening
  <2>1. <<s.start, end>> \in Nat \X Nat
    BY <1>1
  <2>2. Append(s.speeches, <<s.start, end>>) \in Seq(Nat \X Nat)
    BY <1>1, <2>1
  <2> QED BY <1>1, <2>2 DEF Listening
<1>3. \A speeches \in Seq(Nat \X Nat) : [Quiet EXCEPT !.speeches = speeches] \in Listening
  <2>1. <<>> \in Seq(Nat \X Nat) /\ 0 \in Nat
    OBVIOUS
  <2> QED BY <2>1 DEF Quiet, Listening
<1>4. Low(p, s, cur) \in Listening
  <2> DEFINE end == IF s.end = 0 THEN cur ELSE s.end
  <2>1. end \in Nat
    BY <1>1
  <2>2. Low(p, s, cur) =
            CASE cur - end < p.minSilence -> [s EXCEPT !.end = end]
              [] cur - end >= p.minSilence /\ end - s.start > p.minSpeech ->
                    [Quiet EXCEPT !.speeches = Append(s.speeches, <<s.start, end>>)]
              [] OTHER -> [Quiet EXCEPT !.speeches = s.speeches]
    BY Zenon DEF Low
  <2> HIDE DEF end
  <2>3. /\ [s EXCEPT !.end = end] \in Listening
        /\ [Quiet EXCEPT !.speeches = Append(s.speeches, <<s.start, end>>)] \in Listening
        /\ [Quiet EXCEPT !.speeches = s.speeches] \in Listening
    BY <1>1, <1>2, <1>3, <2>1
  <2> QED BY <2>2, <2>3
<1>5. [s EXCEPT !.triggered = TRUE, !.start = cur] \in Listening /\ [s EXCEPT !.end = 0] \in Listening
  BY <1>1 DEF Listening
<1> QED
  BY <1>4, <1>5 DEF Hear

\* The windows of a recording, one after the other.
LEMMA SpeechPrefixes ==
    ASSUME NEW p \in Detector, NEW levels \in Seq(Levels)
    PROVE  \E h \in [0..Len(levels) -> Listening] :
              /\ h[0] = Quiet
              /\ \A i \in 1..Len(levels) :
                    h[i] = Hear(p, h[i - 1], levels[i], p.window * (i - 1))
              /\ FoldLeftDomain(LAMBDA acc, i : Hear(p, acc, levels[i], p.window * (i - 1)),
                                Quiet, levels) = h[Len(levels)]
<1> DEFINE n == Len(levels)
           Op(s, i) == Hear(p, s, levels[i], p.window * (i - 1))
           F == [i \in 1..n |-> [s \in Listening |-> Op(s, i)]]
           Iter(g) == g = [s \in SUBSET (1..n) |->
                              IF s = {} THEN Quiet ELSE Op(g[s \ {Max(s)}], Max(s))]
<1>1. n \in Nat /\ DOMAIN levels = 1..n
  OBVIOUS
<1>2. \A s \in SUBSET (1..n) : s # {} => Max(s) \in 1..n
  <2>1. \A s \in SUBSET (1..n) : s \subseteq 0..n
    OBVIOUS
  <2> QED BY <1>1, <2>1, MaxIsGreatest
<1>3. FoldLeftDomain(LAMBDA acc, i : Hear(p, acc, levels[i], p.window * (i - 1)), Quiet, levels)
        = (CHOOSE g : Iter(g))[1..n]
  <2> DEFINE seq == [i \in 1..n |-> i]
             Raw(g) == g = [s \in SUBSET (1..n) |->
                              IF s = {} THEN Quiet ELSE Op(g[s \ {Max(s)}], seq[Max(s)])]
  <2>1. FoldLeftDomain(LAMBDA acc, i : Hear(p, acc, levels[i], p.window * (i - 1)), Quiet, levels)
          = (CHOOSE g : Raw(g))[1..n]
    BY <1>1 DEF FoldLeftDomain, FoldLeft, MapThenFoldSet
  <2>2. ASSUME NEW g PROVE Raw(g) <=> Iter(g)
    <3>1. \A s \in SUBSET (1..n) : s # {} => seq[Max(s)] = Max(s)
      BY <1>2
    <3> HIDE DEF seq, Op
    <3> QED BY <3>1
  <2> HIDE DEF Raw, Iter
  <2>3. (CHOOSE g : Raw(g)) = (CHOOSE g : Iter(g))
    BY <2>2, Zenon
  <2> QED BY <2>1, <2>3
<1>4. Quiet \in Listening
  BY DEF Quiet, Listening
<1>5. \A i \in 1..n, s \in Listening : Op(s, i) \in Listening
  <2>1. ASSUME NEW i \in 1..n PROVE p.window * (i - 1) \in Nat
    <3>1. PICK w \in Nat : w = p.window
      BY DEF Detector
    <3>2. i - 1 \in Nat
      OBVIOUS
    <3> QED BY <3>1, <3>2
  <2> QED BY <2>1, HearType
<1> HIDE DEF Op
<1>6. F \in [1..n -> [Listening -> Listening]]
  BY <1>5
<1>7. PICK g0 \in [SUBSET (1..n) -> Listening] : IsFold(g0, n, Quiet, F)
  <2> HIDE DEF F, n
  <2> QED BY <1>1, <1>4, <1>6, FoldExists
<1>8. Iter(g0)
  <2>1. \A s \in SUBSET (1..n) :
            g0[s] = IF s = {} THEN Quiet ELSE Op(g0[s \ {Max(s)}], Max(s))
    BY <1>2, <1>7 DEF IsFold
  <2>2. g0 = [s \in SUBSET (1..n) |-> g0[s]]
    OBVIOUS
  <2> QED BY <2>1, <2>2
<1>9. PICK g : Iter(g) /\ (CHOOSE g1 : Iter(g1)) = g
  BY <1>8
<1> DEFINE Y == Listening \cup {g[s] : s \in SUBSET (1..n)}
           G == [i \in 1..n |-> [s \in Y |-> Op(s, i)]]
<1>10. IsFold(g, n, Quiet, G)
  <2>1. \A s \in SUBSET (1..n) :
            g[s] = IF s = {} THEN Quiet ELSE Op(g[s \ {Max(s)}], Max(s))
    BY <1>9
  <2>2. \A s \in SUBSET (1..n) : s # {} => s \ {Max(s)} \in SUBSET (1..n) /\ g[s \ {Max(s)}] \in Y
    OBVIOUS
  <2>3. \A i \in 1..n, x \in Y : G[i][x] = Op(x, i)
    OBVIOUS
  <2> HIDE DEF Y, G
  <2> QED BY <1>2, <2>1, <2>2, <2>3 DEF IsFold
<1>11. \A i \in 1..n, s \in Listening : G[i][s] = Op(s, i) /\ G[i][s] \in Listening
  BY <1>1, <1>5
<1>12. KeepsTo(G, n, Listening)
  BY <1>11 DEF KeepsTo
<1>13. PICK h : AreStages(h, n, Listening, Quiet, G) /\ h[n] = g[1..n]
  <2> HIDE DEF G, n
  <2> QED BY <1>1, <1>4, <1>10, <1>12, FoldPrefixes
<1>14. \A i \in 1..n : h[i] = Op(h[i - 1], i)
  <2>1. \A i \in 1..n : i - 1 \in 0..n
    BY <1>1
  <2> HIDE DEF G
  <2> QED BY <1>11, <1>13, <2>1 DEF AreStages
<1> HIDE DEF G, Iter
<1> QED
  BY <1>3, <1>9, <1>13, <1>14 DEF AreStages, Op

\* The first sample of a window.
At(p, k) == p.window * (k - 1)

\* The speeches that started and ended within the first i windows, and what is kept of them.
Closed(p, levels, i) ==
    {q \in (1..i) \X (1..i) : Starts(p, levels, q[1]) /\ Ends(p, levels, q[1], q[2], i)}

Spoken(p, levels, i) ==
    {<<At(p, q[1]), At(p, q[2])>> :
        q \in {r \in Closed(p, levels, i) : At(p, r[2]) - At(p, r[1]) > p.minSpeech}}

\* After i windows nobody speaks, or the speech from f is still open: since the last
\* high window there was no low one yet, or the first one is remembered.
Resting(p, levels, i) ==
    \/ Mute(levels, 1, i)
    \/ \E x, y \in 1..i : Silence(p, levels, x, y) /\ Mute(levels, x, i)

Waiting(p, levels, i, f, end) ==
    \/ end = 0 /\ \E l \in f..i : levels[l] = "high" /\ \A k \in l + 1 .. i : levels[k] = "between"
    \/ \E l \in f..i : \E c \in l + 1 .. i :
          FirstLow(levels, l, c) /\ Mute(levels, l + 1, i) /\ end = At(p, c)

Open(p, levels, i, f, s) ==
    /\ s.start = At(p, f) /\ Starts(p, levels, f) /\ NoSilence(p, levels, f, i)
    /\ Waiting(p, levels, i, f, s.end)

Heard(p, levels, i, s) ==
    /\ s \in Listening
    /\ ToSet(s.speeches) = Spoken(p, levels, i)
    /\ ~s.triggered => s.end = 0 /\ Resting(p, levels, i)
    /\ s.triggered => \E f \in 1..i : Open(p, levels, i, f, s)

\* The first samples of windows are in order.
LEMMA AtInOrder ==
    ASSUME NEW p \in Detector, NEW a \in Nat \ {0}, NEW b \in Nat \ {0}
    PROVE  /\ At(p, a) \in Nat
           /\ a < b => At(p, a) < At(p, b)
           /\ a = 1 <=> At(p, a) = 0
           /\ LongEnough(p, a, b) <=> At(p, b) - At(p, a) >= p.minSilence
<1>1. PICK w \in Nat \ {0} : w = p.window
  BY DEF Detector
<1>2. w * (b - 1) = w * b - w /\ w * (a - 1) = w * a - w /\ w * (b - a) = w * b - w * a
  OBVIOUS
<1>3. w * b \in Int /\ w * a \in Int
  OBVIOUS
<1>4. w * (a - 1) \in Nat
  OBVIOUS
<1>5. a < b => w * (b - a) > 0
  OBVIOUS
<1>6. a # 1 => w * (a - 1) > 0
  OBVIOUS
<1>7. a = 1 => w * (a - 1) = 0
  OBVIOUS
<1>8. p.minSilence \in Nat
  BY DEF Detector
<1> QED
  BY <1>1, <1>2, <1>3, <1>4, <1>5, <1>6, <1>7, <1>8 DEF At, LongEnough

\* A speech that ends with the window i ends with a silence that is just long enough.
LEMMA NewEnd ==
    ASSUME NEW p, NEW levels, NEW i \in Nat \ {0}, NEW f \in 1..i, NEW c \in 1..i,
           Starts(p, levels, f), Ends(p, levels, f, c, i),
           <<f, c>> \notin Closed(p, levels, i - 1)
    PROVE  /\ f < c /\ levels[i] = "low" /\ Silence(p, levels, c, i)
           /\ \A y \in c .. i - 1 : ~Silence(p, levels, c, y)
<1>1. f < c
  BY EndedIsOver
<1>2. ASSUME NEW y \in c .. i - 1, Silence(p, levels, c, y) PROVE FALSE
  <2>1. f \in 1 .. i - 1 /\ c \in 1 .. i - 1
    BY <1>1
  <2>2. Ends(p, levels, f, c, i - 1)
    BY <1>2 DEF Ends
  <2> QED BY <2>1, <2>2 DEF Closed
<1>3. PICK y \in c..i : Silence(p, levels, c, y)
  BY DEF Ends
<1>4. y = i
  BY <1>2, <1>3
<1> QED
  BY <1>1, <1>2, <1>3, <1>4 DEF Silence

\* What has ended remains ended.
LEMMA ClosedGrows ==
    ASSUME NEW p, NEW levels, NEW i \in Nat \ {0}
    PROVE  Closed(p, levels, i - 1) \subseteq Closed(p, levels, i)
<1>1. ASSUME NEW f \in 1 .. i - 1, NEW c \in 1 .. i - 1, Ends(p, levels, f, c, i - 1)
      PROVE  f \in 1..i /\ c \in 1..i /\ Ends(p, levels, f, c, i)
  BY <1>1 DEF Ends
<1> QED
  BY <1>1 DEF Closed

\* A window ends no speech if no pair is new.
LEMMA NothingEnds ==
    ASSUME NEW p, NEW levels, NEW i \in Nat \ {0},
           \A f, c \in 1..i : Starts(p, levels, f) /\ Ends(p, levels, f, c, i)
                                => <<f, c>> \in Closed(p, levels, i - 1)
    PROVE  Spoken(p, levels, i) = Spoken(p, levels, i - 1)
<1>1. Closed(p, levels, i) \subseteq Closed(p, levels, i - 1)
  BY DEF Closed
<1>2. Closed(p, levels, i) = Closed(p, levels, i - 1)
  BY <1>1, ClosedGrows
<1> QED
  BY <1>2, Zenon DEF Spoken

\* Only a low window ends a speech.
LEMMA OnlyLowEnds ==
    ASSUME NEW p, NEW levels, NEW i \in Nat \ {0}, levels[i] # "low"
    PROVE  Spoken(p, levels, i) = Spoken(p, levels, i - 1)
<1>1. ASSUME NEW f \in 1..i, NEW c \in 1..i, Starts(p, levels, f), Ends(p, levels, f, c, i)
      PROVE  <<f, c>> \in Closed(p, levels, i - 1)
  BY <1>1, NewEnd
<1> QED
  BY <1>1, NothingEnds

\* A high window after a silence starts a speech.
LEMMA HighStarts ==
    ASSUME NEW p \in Detector, NEW levels \in Seq(Levels), NEW i \in 1 .. Len(levels),
           NEW s, Heard(p, levels, i - 1, s), levels[i] = "high", ~s.triggered
    PROVE  Heard(p, levels, i, [s EXCEPT !.triggered = TRUE, !.start = At(p, i)])
<1> DEFINE t == [s EXCEPT !.triggered = TRUE, !.start = At(p, i)]
<1>1. s \in Listening /\ s.end = 0 /\ Resting(p, levels, i - 1)
      /\ ToSet(s.speeches) = Spoken(p, levels, i - 1)
  BY DEF Heard
<1>2. At(p, i) \in Nat
  BY AtInOrder
<1>3. /\ t \in Listening /\ t.speeches = s.speeches /\ t.triggered = TRUE
      /\ t.start = At(p, i) /\ t.end = 0
  BY <1>1, <1>2 DEF Listening
<1>4. Starts(p, levels, i)
  BY <1>1 DEF Resting, Starts
<1>5. NoSilence(p, levels, i, i)
  BY DEF NoSilence, Silence
<1>6. Waiting(p, levels, i, i, 0)
  BY DEF Waiting
<1>7. Spoken(p, levels, i) = Spoken(p, levels, i - 1)
  BY OnlyLowEnds
<1> HIDE DEF t
<1>8. Open(p, levels, i, i, t) /\ i \in 1..i
  BY <1>3, <1>4, <1>5, <1>6 DEF Open
<1>9. Heard(p, levels, i, t)
  BY <1>1, <1>3, <1>7, <1>8 DEF Heard
<1> QED
  BY <1>9 DEF t

\* A high window in a speech forgets the pause.
LEMMA HighGoesOn ==
    ASSUME NEW p \in Detector, NEW levels \in Seq(Levels), NEW i \in 1 .. Len(levels),
           NEW s, Heard(p, levels, i - 1, s), levels[i] = "high", s.triggered
    PROVE  Heard(p, levels, i, [s EXCEPT !.end = 0])
<1> DEFINE t == [s EXCEPT !.end = 0]
<1>1. s \in Listening /\ ToSet(s.speeches) = Spoken(p, levels, i - 1)
  BY DEF Heard
<1>2. PICK f \in 1 .. i - 1 : Open(p, levels, i - 1, f, s)
  BY DEF Heard
<1>3. /\ t \in Listening /\ t.speeches = s.speeches /\ t.triggered = s.triggered
      /\ t.start = s.start /\ t.end = 0
  BY <1>1 DEF Listening
<1>4. NoSilence(p, levels, f, i)
  <2>1. ASSUME NEW x \in f..i, NEW y \in f..i, Silence(p, levels, x, y) PROVE FALSE
    <3>1. x # i /\ y # i
      BY <2>1 DEF Silence
    <3>2. x \in f .. i - 1 /\ y \in f .. i - 1
      BY <3>1
    <3> QED BY <1>2, <2>1, <3>2 DEF Open, NoSilence
  <2> QED BY <2>1 DEF NoSilence
<1>5. Waiting(p, levels, i, f, 0)
  BY <1>2 DEF Waiting
<1>6. Spoken(p, levels, i) = Spoken(p, levels, i - 1)
  BY OnlyLowEnds
<1> HIDE DEF t
<1>7. Open(p, levels, i, f, t) /\ f \in 1..i
  BY <1>2, <1>3, <1>4, <1>5 DEF Open
<1>8. Heard(p, levels, i, t)
  BY <1>1, <1>3, <1>6, <1>7 DEF Heard
<1> QED
  BY <1>8 DEF t

\* A window between the thresholds changes nothing.
LEMMA BetweenGoesOn ==
    ASSUME NEW p \in Detector, NEW levels \in Seq(Levels), NEW i \in 1 .. Len(levels),
           NEW s, Heard(p, levels, i - 1, s), levels[i] = "between"
    PROVE  Heard(p, levels, i, s)
<1>1. s \in Listening /\ ToSet(s.speeches) = Spoken(p, levels, i - 1)
  BY DEF Heard
<1>2. Spoken(p, levels, i) = Spoken(p, levels, i - 1)
  BY OnlyLowEnds
<1>3. ASSUME ~s.triggered PROVE s.end = 0 /\ Resting(p, levels, i)
  BY <1>3 DEF Heard, Resting, Mute
<1>4. ASSUME s.triggered PROVE \E f \in 1..i : Open(p, levels, i, f, s)
  <2>1. PICK f \in 1 .. i - 1 : Open(p, levels, i - 1, f, s)
    BY <1>4 DEF Heard
  <2>2. NoSilence(p, levels, f, i)
    <3>1. ASSUME NEW x \in f..i, NEW y \in f..i, Silence(p, levels, x, y) PROVE FALSE
      <4>1. x # i /\ y # i
        BY <3>1 DEF Silence
      <4>2. x \in f .. i - 1 /\ y \in f .. i - 1
        BY <4>1
      <4> QED BY <2>1, <3>1, <4>2 DEF Open, NoSilence
    <3> QED BY <3>1 DEF NoSilence
  <2>3. Waiting(p, levels, i, f, s.end)
    <3>1. Waiting(p, levels, i - 1, f, s.end)
      BY <2>1 DEF Open
    <3>2. CASE s.end = 0 /\ \E l \in f .. i - 1 :
                  levels[l] = "high" /\ \A k \in l + 1 .. i - 1 : levels[k] = "between"
      BY <3>2 DEF Waiting
    <3>3. CASE \E l \in f .. i - 1 : \E c \in l + 1 .. i - 1 :
                  FirstLow(levels, l, c) /\ Mute(levels, l + 1, i - 1) /\ s.end = At(p, c)
      <4>1. PICK l \in f .. i - 1 : \E c \in l + 1 .. i - 1 :
                  FirstLow(levels, l, c) /\ Mute(levels, l + 1, i - 1) /\ s.end = At(p, c)
        BY <3>3
      <4>2. PICK c \in l + 1 .. i - 1 :
                  FirstLow(levels, l, c) /\ Mute(levels, l + 1, i - 1) /\ s.end = At(p, c)
        BY <4>1
      <4>3. Mute(levels, l + 1, i)
        BY <4>2 DEF Mute
      <4>4. l \in f..i /\ c \in l + 1 .. i
        OBVIOUS
      <4> QED BY <4>2, <4>3, <4>4 DEF Waiting
    <3> QED BY <3>1, <3>2, <3>3 DEF Waiting
  <2>4. f \in 1..i
    OBVIOUS
  <2> QED BY <2>1, <2>2, <2>3, <2>4 DEF Open
<1> QED
  BY <1>1, <1>2, <1>3, <1>4 DEF Heard

\* A low window while nobody speaks changes nothing.
LEMMA LowRests ==
    ASSUME NEW p \in Detector, NEW levels \in Seq(Levels), NEW i \in 1 .. Len(levels),
           NEW s, Heard(p, levels, i - 1, s), levels[i] = "low", ~s.triggered
    PROVE  Heard(p, levels, i, s)
<1>1. s \in Listening /\ ToSet(s.speeches) = Spoken(p, levels, i - 1) /\ s.end = 0
      /\ Resting(p, levels, i - 1)
  BY DEF Heard
<1>2. Resting(p, levels, i)
  BY <1>1 DEF Resting, Mute
<1>3. ASSUME NEW f \in 1..i, NEW c \in 1..i, Starts(p, levels, f), Ends(p, levels, f, c, i)
      PROVE  <<f, c>> \in Closed(p, levels, i - 1)
  <2>1. SUFFICES ASSUME <<f, c>> \notin Closed(p, levels, i - 1) PROVE FALSE
    OBVIOUS
  <2>2. Silence(p, levels, c, i) /\ \A y \in c .. i - 1 : ~Silence(p, levels, c, y)
    BY <1>3, <2>1, NewEnd
  <2>3. PICK l \in f .. c - 1 : FirstLow(levels, l, c)
    BY <1>3 DEF Ends
  <2>4. l \in 1 .. i - 1 /\ levels[l] = "high"
    BY <2>3 DEF FirstLow
  <2>5. PICK x, y \in 1 .. i - 1 : Silence(p, levels, x, y) /\ Mute(levels, x, i - 1)
    BY <1>1, <2>4 DEF Resting, Mute
  <2>6. l < x
    BY <2>4, <2>5 DEF Mute
  <2>7. c =< x
    BY <2>3, <2>5, <2>6 DEF FirstLow, Silence
  <2>8. x =< y /\ y =< i - 1 /\ LongEnough(p, x, y) /\ levels[y] = "low"
    BY <2>5 DEF Silence
  <2>9. LongEnough(p, c, y)
    BY <2>7, <2>8, LongerStill
  <2>10. y \in c .. i - 1 /\ c =< y
    BY <2>7, <2>8
  <2>11. Silence(p, levels, c, y)
    BY <2>2, <2>8, <2>9, <2>10 DEF Silence, Mute
  <2> QED BY <2>2, <2>10, <2>11
<1>4. Spoken(p, levels, i) = Spoken(p, levels, i - 1)
  BY <1>3, NothingEnds
<1> QED
  BY <1>1, <1>2, <1>4 DEF Heard

\* The pause that a low window of a speech goes on with, or begins.
LEMMA PauseBegins ==
    ASSUME NEW p \in Detector, NEW levels \in Seq(Levels), NEW i \in 1 .. Len(levels),
           NEW f \in 1 .. i - 1, NEW end, Waiting(p, levels, i - 1, f, end), levels[i] = "low"
    PROVE  \E l \in f .. i - 1 : \E c \in l + 1 .. i :
              /\ FirstLow(levels, l, c) /\ Mute(levels, l + 1, i)
              /\ (IF end = 0 THEN At(p, i) ELSE end) = At(p, c)
<1>1. CASE end = 0 /\ \E l \in f .. i - 1 :
              levels[l] = "high" /\ \A k \in l + 1 .. i - 1 : levels[k] = "between"
  <2>1. PICK l \in f .. i - 1 :
              levels[l] = "high" /\ \A k \in l + 1 .. i - 1 : levels[k] = "between"
    BY <1>1
  <2>2. FirstLow(levels, l, i) /\ Mute(levels, l + 1, i) /\ i \in l + 1 .. i
    BY <2>1 DEF FirstLow, Mute
  <2> QED BY <1>1, <2>2
<1>2. CASE \E l \in f .. i - 1 : \E c \in l + 1 .. i - 1 :
              FirstLow(levels, l, c) /\ Mute(levels, l + 1, i - 1) /\ end = At(p, c)
  <2>1. PICK l \in f .. i - 1 : \E c \in l + 1 .. i - 1 :
              FirstLow(levels, l, c) /\ Mute(levels, l + 1, i - 1) /\ end = At(p, c)
    BY <1>2
  <2>2. PICK c \in l + 1 .. i - 1 :
              FirstLow(levels, l, c) /\ Mute(levels, l + 1, i - 1) /\ end = At(p, c)
    BY <2>1
  <2>3. Mute(levels, l + 1, i) /\ c \in l + 1 .. i /\ c \in Nat \ {0} /\ c # 1
    BY <2>2 DEF Mute
  <2>4. end # 0
    BY <2>2, <2>3, AtInOrder
  <2> QED BY <2>2, <2>3, <2>4
<1> QED
  BY <1>1, <1>2 DEF Waiting

\* It is the only one.
LEMMA OnePause ==
    ASSUME NEW levels, NEW i \in Nat, NEW l \in 1..i, NEW c \in l + 1 .. i,
           NEW k \in 1..i, NEW d \in k + 1 .. i,
           FirstLow(levels, l, c), Mute(levels, l + 1, i), FirstLow(levels, k, d), Mute(levels, d, i)
    PROVE  c = d
<1>1. ~(d =< l)
  BY DEF FirstLow, Mute
<1>2. ~(d < c)
  BY <1>1 DEF FirstLow
<1>3. ASSUME c < d PROVE FALSE
  <2>1. CASE k < c
    BY <1>3, <2>1 DEF FirstLow
  <2>2. CASE k >= c
    <3>1. k \in l + 1 .. i
      BY <2>2
    <3> QED BY <3>1 DEF FirstLow, Mute
  <2> QED BY <2>1, <2>2
<1> QED
  BY <1>2, <1>3

\* No two speeches are open at once.
LEMMA OneStart ==
    ASSUME NEW p, NEW levels, NEW c \in Nat, NEW f \in 1 .. c - 1, NEW g \in 1 .. c - 1,
           Starts(p, levels, f), Starts(p, levels, g),
           NoSilence(p, levels, f, c - 1), NoSilence(p, levels, g, c - 1)
    PROVE  f = g
<1>1. ASSUME NEW a \in 1 .. c - 1, NEW b \in 1 .. c - 1, a < b,
             Starts(p, levels, a), Starts(p, levels, b), NoSilence(p, levels, a, c - 1)
      PROVE  FALSE
  <2>1. levels[a] = "high" /\ a \in 1 .. b - 1
    BY <1>1 DEF Starts
  <2>2. PICK x, y \in 1 .. b - 1 : Silence(p, levels, x, y) /\ Mute(levels, x, b - 1)
    BY <1>1, <2>1 DEF Starts, Mute
  <2>3. a < x
    BY <2>1, <2>2 DEF Mute
  <2>4. x \in a .. c - 1 /\ y \in a .. c - 1
    BY <2>2, <2>3 DEF Silence
  <2> QED BY <1>1, <2>2, <2>4 DEF NoSilence
<1> QED
  BY <1>1

\* A short pause of a speech is remembered.
LEMMA LowGoesOn ==
    ASSUME NEW p \in Detector, NEW levels \in Seq(Levels), NEW i \in 1 .. Len(levels),
           NEW s, NEW f \in 1 .. i - 1, NEW l \in f .. i - 1, NEW c \in l + 1 .. i,
           Heard(p, levels, i - 1, s), levels[i] = "low", s.triggered,
           Open(p, levels, i - 1, f, s), FirstLow(levels, l, c), Mute(levels, l + 1, i),
           ~LongEnough(p, c, i)
    PROVE  Heard(p, levels, i, [s EXCEPT !.end = At(p, c)])
<1> DEFINE t == [s EXCEPT !.end = At(p, c)]
<1>1. s \in Listening /\ ToSet(s.speeches) = Spoken(p, levels, i - 1)
  BY DEF Heard
<1>2. c \in Nat \ {0} /\ At(p, c) \in Nat
  BY AtInOrder
<1>3. /\ t \in Listening /\ t.speeches = s.speeches /\ t.triggered = s.triggered
      /\ t.start = s.start /\ t.end = At(p, c)
  BY <1>1, <1>2 DEF Listening
<1>4. NoSilence(p, levels, f, i)
  <2>1. ASSUME NEW x \in f..i, NEW y \in f..i, Silence(p, levels, x, y) PROVE FALSE
    <3>1. ~(x \in f .. i - 1 /\ y \in f .. i - 1)
      BY <2>1 DEF Open, NoSilence
    <3>2. y = i
      BY <2>1, <3>1 DEF Silence
    <3>3. Mute(levels, x, i) /\ levels[x] = "low" /\ LongEnough(p, x, i)
      BY <2>1, <3>2 DEF Silence
    <3>4. l < x
      BY <3>3 DEF Mute, FirstLow
    <3>5. c =< x
      BY <3>3, <3>4 DEF FirstLow
    <3>6. LongEnough(p, c, i)
      BY <3>3, <3>5, LongerStill
    <3> QED BY <3>6
  <2> QED BY <2>1 DEF NoSilence
<1>5. Waiting(p, levels, i, f, At(p, c))
  <2>1. l \in f..i
    OBVIOUS
  <2> QED BY <2>1 DEF Waiting
<1>6. ASSUME NEW g \in 1..i, NEW d \in 1..i, Starts(p, levels, g), Ends(p, levels, g, d, i)
      PROVE  <<g, d>> \in Closed(p, levels, i - 1)
  <2>1. SUFFICES ASSUME <<g, d>> \notin Closed(p, levels, i - 1) PROVE FALSE
    OBVIOUS
  <2>2. Silence(p, levels, d, i)
    BY <1>6, <2>1, NewEnd
  <2>3. PICK k \in g .. d - 1 : FirstLow(levels, k, d)
    BY <1>6 DEF Ends
  <2>4. k \in 1..i /\ d \in k + 1 .. i /\ l \in 1..i /\ Mute(levels, d, i) /\ LongEnough(p, d, i)
    BY <2>2 DEF Silence
  <2>5. c = d
    BY <2>3, <2>4, OnePause
  <2> QED BY <2>4, <2>5
<1>7. Spoken(p, levels, i) = Spoken(p, levels, i - 1)
  BY <1>6, NothingEnds
<1> HIDE DEF t
<1>8. Open(p, levels, i, f, t) /\ f \in 1..i
  BY <1>3, <1>4, <1>5 DEF Open
<1>9. Heard(p, levels, i, t)
  BY <1>1, <1>3, <1>7, <1>8 DEF Heard
<1> QED
  BY <1>9 DEF t

\* A long one ends it: the pair is the only new one.
LEMMA LowEnds ==
    ASSUME NEW p \in Detector, NEW levels \in Seq(Levels), NEW i \in 1 .. Len(levels),
           NEW s, NEW f \in 1 .. i - 1, NEW l \in f .. i - 1, NEW c \in l + 1 .. i,
           levels[i] = "low", Open(p, levels, i - 1, f, s),
           FirstLow(levels, l, c), Mute(levels, l + 1, i), LongEnough(p, c, i)
    PROVE  /\ Closed(p, levels, i) = Closed(p, levels, i - 1) \cup {<<f, c>>}
           /\ Resting(p, levels, i)
<1>1. levels[c] = "low" /\ Mute(levels, c, i)
  BY DEF FirstLow, Mute
<1>2. Silence(p, levels, c, i)
  BY <1>1 DEF Silence
<1>3. Resting(p, levels, i)
  <2>1. c \in 1..i /\ i \in 1..i
    OBVIOUS
  <2> QED BY <1>1, <1>2, <2>1 DEF Resting
<1>4. NoSilence(p, levels, f, c - 1) /\ Starts(p, levels, f)
  BY DEF Open, NoSilence
<1>5. <<f, c>> \in Closed(p, levels, i)
  <2>1. l \in f .. c - 1 /\ i \in c..i /\ f \in 1..i /\ c \in 1..i
    OBVIOUS
  <2>2. Ends(p, levels, f, c, i)
    BY <1>2, <1>4, <2>1 DEF Ends
  <2> QED BY <1>4, <2>1, <2>2 DEF Closed
<1>6. ASSUME NEW g \in 1..i, NEW d \in 1..i, Starts(p, levels, g), Ends(p, levels, g, d, i),
             <<g, d>> \notin Closed(p, levels, i - 1)
      PROVE  g = f /\ d = c
  <2>1. Silence(p, levels, d, i)
    BY <1>6, NewEnd
  <2>2. PICK k \in g .. d - 1 : FirstLow(levels, k, d)
    BY <1>6 DEF Ends
  <2>3. k \in 1..i /\ d \in k + 1 .. i /\ l \in 1..i /\ Mute(levels, d, i)
    BY <2>1 DEF Silence
  <2>4. d = c
    BY <2>2, <2>3, OnePause
  <2>5. g \in 1 .. c - 1 /\ f \in 1 .. c - 1 /\ c \in Nat /\ NoSilence(p, levels, g, c - 1)
    BY <1>6, <2>3, <2>4 DEF Ends
  <2> QED BY <1>4, <1>6, <2>4, <2>5, OneStart
<1>7. Closed(p, levels, i) \subseteq Closed(p, levels, i - 1) \cup {<<f, c>>}
  BY <1>6 DEF Closed
<1>8. Closed(p, levels, i - 1) \subseteq Closed(p, levels, i)
  BY ClosedGrows
<1> QED
  BY <1>3, <1>5, <1>7, <1>8

\* What Append adds.
LEMMA ToSetAppend ==
    ASSUME NEW X, NEW seq \in Seq(X), NEW x \in X
    PROVE  ToSet(Append(seq, x)) = ToSet(seq) \cup {x}
<1> DEFINE t == Append(seq, x)
<1>1. /\ Len(t) = Len(seq) + 1 /\ Len(seq) \in Nat /\ t[Len(seq) + 1] = x
      /\ \A i \in 1 .. Len(seq) : t[i] = seq[i]
      /\ DOMAIN t = 1 .. Len(t) /\ DOMAIN seq = 1 .. Len(seq)
  OBVIOUS
<1> HIDE DEF t
<1>2. ToSet(t) = ToSet(seq) \cup {x}
  <2>1. \A i \in 1 .. Len(seq) + 1 : i \in 1 .. Len(seq) \/ i = Len(seq) + 1
    BY <1>1
  <2>2. Len(seq) + 1 \in 1 .. Len(seq) + 1 /\ \A i \in 1 .. Len(seq) : i \in 1 .. Len(seq) + 1
    BY <1>1
  <2> QED BY <1>1, <2>1, <2>2 DEF ToSet
<1> QED
  BY <1>2 DEF t

\* What the pair that a low window ends adds to the speeches.
LEMMA SpokenGrows ==
    ASSUME NEW p, NEW levels, NEW i, NEW f, NEW c,
           Closed(p, levels, i) = Closed(p, levels, i - 1) \cup {<<f, c>>}
    PROVE  Spoken(p, levels, i) = IF At(p, c) - At(p, f) > p.minSpeech
                                  THEN Spoken(p, levels, i - 1) \cup {<<At(p, f), At(p, c)>>}
                                  ELSE Spoken(p, levels, i - 1)
<1> DEFINE Pair(q) == <<At(p, q[1]), At(p, q[2])>>
           Long(q) == At(p, q[2]) - At(p, q[1]) > p.minSpeech
           old == Closed(p, levels, i - 1)
           new == Closed(p, levels, i)
<1>1. Spoken(p, levels, i - 1) = {Pair(q) : q \in {r \in old : Long(r)}}
  BY DEF Spoken
<1>2. Spoken(p, levels, i) = {Pair(q) : q \in {r \in new : Long(r)}}
  BY DEF Spoken
<1>3. /\ Long(<<f, c>>) <=> At(p, c) - At(p, f) > p.minSpeech
      /\ Pair(<<f, c>>) = <<At(p, f), At(p, c)>>
  OBVIOUS
<1>4. new = old \cup {<<f, c>>}
  OBVIOUS
<1> HIDE DEF Pair, Long, old, new
<1>5. CASE Long(<<f, c>>)
  <2>1. {r \in new : Long(r)} = {r \in old : Long(r)} \cup {<<f, c>>}
    BY <1>4, <1>5
  <2>2. Spoken(p, levels, i) = Spoken(p, levels, i - 1) \cup {Pair(<<f, c>>)}
    BY <1>1, <1>2, <2>1
  <2> QED BY <1>3, <1>5, <2>2
<1>6. CASE ~Long(<<f, c>>)
  <2>1. {r \in new : Long(r)} = {r \in old : Long(r)}
    BY <1>4, <1>6
  <2>2. Spoken(p, levels, i) = Spoken(p, levels, i - 1)
    BY <1>1, <1>2, <2>1
  <2> QED BY <1>3, <1>6, <2>2
<1> QED
  BY <1>5, <1>6

\* Nobody speaks after the speeches so far.
LEMMA RestingState ==
    ASSUME NEW said \in Seq(Nat \X Nat)
    PROVE  LET t == [Quiet EXCEPT !.speeches = said]
           IN  t \in Listening /\ t.speeches = said /\ ~t.triggered /\ t.end = 0
<1>1. <<>> \in Seq(Nat \X Nat) /\ 0 \in Nat
  OBVIOUS
<1> QED
  BY <1>1 DEF Quiet, Listening

\* A low window in a speech.
LEMMA LowIsHeard ==
    ASSUME NEW p \in Detector, NEW levels \in Seq(Levels), NEW i \in 1 .. Len(levels),
           NEW s, Heard(p, levels, i - 1, s), levels[i] = "low", s.triggered
    PROVE  Heard(p, levels, i, Low(p, s, At(p, i)))
<1>1. /\ s \in Listening /\ ToSet(s.speeches) = Spoken(p, levels, i - 1)
      /\ s.speeches \in Seq(Nat \X Nat)
  BY DEF Heard, Listening
<1>2. PICK f \in 1 .. i - 1 : Open(p, levels, i - 1, f, s)
  BY DEF Heard
<1> DEFINE end == IF s.end = 0 THEN At(p, i) ELSE s.end
<1>3. Waiting(p, levels, i - 1, f, s.end)
  BY <1>2 DEF Open
<1>4. PICK l \in f .. i - 1 : \E c \in l + 1 .. i :
          FirstLow(levels, l, c) /\ Mute(levels, l + 1, i) /\ end = At(p, c)
  BY <1>3, PauseBegins
<1>5. PICK c \in l + 1 .. i :
          FirstLow(levels, l, c) /\ Mute(levels, l + 1, i) /\ end = At(p, c)
  BY <1>4
<1>6. Low(p, s, At(p, i)) =
          CASE At(p, i) - end < p.minSilence -> [s EXCEPT !.end = end]
            [] At(p, i) - end >= p.minSilence /\ end - s.start > p.minSpeech ->
                  [Quiet EXCEPT !.speeches = Append(s.speeches, <<s.start, end>>)]
            [] OTHER -> [Quiet EXCEPT !.speeches = s.speeches]
  BY Zenon DEF Low
<1> HIDE DEF end
<1>7. /\ c \in Nat \ {0} /\ f \in Nat \ {0} /\ i \in Nat \ {0}
      /\ At(p, c) \in Nat /\ At(p, f) \in Nat /\ At(p, i) \in Nat /\ p.minSilence \in Nat
      /\ LongEnough(p, c, i) <=> At(p, i) - At(p, c) >= p.minSilence
  <2>1. c \in Nat \ {0} /\ f \in Nat \ {0} /\ i \in Nat \ {0} /\ p.minSilence \in Nat
    BY DEF Detector
  <2> QED BY <2>1, AtInOrder
<1>8. CASE ~LongEnough(p, c, i)
  <2>1. Low(p, s, At(p, i)) = [s EXCEPT !.end = At(p, c)]
    BY <1>5, <1>6, <1>7, <1>8
  <2> QED BY <1>2, <1>5, <1>8, <2>1, LowGoesOn
<1>9. CASE LongEnough(p, c, i)
  <2>1. /\ Closed(p, levels, i) = Closed(p, levels, i - 1) \cup {<<f, c>>}
        /\ Resting(p, levels, i)
    BY <1>2, <1>5, <1>9, LowEnds
  <2>2. Spoken(p, levels, i) = IF At(p, c) - At(p, f) > p.minSpeech
                               THEN Spoken(p, levels, i - 1) \cup {<<At(p, f), At(p, c)>>}
                               ELSE Spoken(p, levels, i - 1)
    BY <2>1, SpokenGrows
  <2>3. ASSUME NEW speeches \in Seq(Nat \X Nat), ToSet(speeches) = Spoken(p, levels, i)
        PROVE  Heard(p, levels, i, [Quiet EXCEPT !.speeches = speeches])
    <3> DEFINE t == [Quiet EXCEPT !.speeches = speeches]
    <3>1. t \in Listening /\ t.speeches = speeches /\ ~t.triggered /\ t.end = 0
      BY RestingState
    <3> HIDE DEF t
    <3>2. Heard(p, levels, i, t)
      BY <2>1, <2>3, <3>1 DEF Heard
    <3> QED BY <3>2 DEF t
  <2>4. s.start = At(p, f)
    BY <1>2 DEF Open
  <2>5. CASE At(p, c) - At(p, f) > p.minSpeech
    <3>1. <<s.start, end>> = <<At(p, f), At(p, c)>> /\ <<At(p, f), At(p, c)>> \in Nat \X Nat
      BY <1>5, <1>7, <2>4
    <3>2. Low(p, s, At(p, i)) = [Quiet EXCEPT !.speeches = Append(s.speeches, <<s.start, end>>)]
      BY <1>5, <1>6, <1>7, <1>9, <2>4, <2>5
    <3>3. ToSet(Append(s.speeches, <<s.start, end>>)) = Spoken(p, levels, i)
      <4>1. ToSet(Append(s.speeches, <<At(p, f), At(p, c)>>))
              = ToSet(s.speeches) \cup {<<At(p, f), At(p, c)>>}
        <5> DEFINE pairs == Nat \X Nat
                   pair == <<At(p, f), At(p, c)>>
        <5>1. s.speeches \in Seq(pairs) /\ pair \in pairs
          BY <1>1, <3>1
        <5> HIDE DEF pairs, pair
        <5>2. ToSet(Append(s.speeches, pair)) = ToSet(s.speeches) \cup {pair}
          BY <5>1, ToSetAppend
        <5> QED BY <5>2 DEF pair
      <4> QED BY <1>1, <2>2, <2>5, <3>1, <4>1
    <3>4. Append(s.speeches, <<s.start, end>>) \in Seq(Nat \X Nat)
      BY <1>1, <3>1
    <3> QED BY <2>3, <3>2, <3>3, <3>4
  <2>6. CASE ~(At(p, c) - At(p, f) > p.minSpeech)
    <3>1. Low(p, s, At(p, i)) = [Quiet EXCEPT !.speeches = s.speeches]
      BY <1>5, <1>6, <1>7, <1>9, <2>4, <2>6
    <3> QED BY <1>1, <2>2, <2>3, <2>6, <3>1
  <2> QED BY <2>5, <2>6
<1> QED
  BY <1>8, <1>9

\* A window.
LEMMA WindowIsHeard ==
    ASSUME NEW p \in Detector, NEW levels \in Seq(Levels), NEW i \in 1 .. Len(levels),
           NEW s, Heard(p, levels, i - 1, s)
    PROVE  Heard(p, levels, i, Hear(p, s, levels[i], At(p, i)))
<1>1. s.triggered \in BOOLEAN /\ levels[i] \in Levels
  BY DEF Heard, Listening
<1>2. CASE levels[i] = "high" /\ ~s.triggered
  BY <1>2, HighStarts DEF Hear
<1>3. CASE levels[i] = "high" /\ s.triggered
  BY <1>3, HighGoesOn DEF Hear
<1>4. CASE levels[i] = "between"
  BY <1>4, BetweenGoesOn DEF Hear
<1>5. CASE levels[i] = "low" /\ ~s.triggered
  BY <1>5, LowRests DEF Hear
<1>6. CASE levels[i] = "low" /\ s.triggered
  BY <1>6, LowIsHeard DEF Hear
<1> QED
  BY <1>1, <1>2, <1>3, <1>4, <1>5, <1>6 DEF Levels

\* The speeches that the loop finds are those of the recording.
LEMMA SpeechesAreFound ==
    ASSUME NEW p \in Detector, NEW levels \in Seq(Levels), NEW total \in Nat
    PROVE  ToSet(Speeches(p, levels, total)) = SpeechesOf(p, levels, total)
<1> DEFINE n == Len(levels)
<1>1. PICK h \in [0..n -> Listening] :
          /\ h[0] = Quiet
          /\ \A i \in 1..n : h[i] = Hear(p, h[i - 1], levels[i], p.window * (i - 1))
          /\ FoldLeftDomain(LAMBDA acc, i : Hear(p, acc, levels[i], p.window * (i - 1)),
                            Quiet, levels) = h[n]
  BY SpeechPrefixes
<1> DEFINE S == {i \in 0..n : Heard(p, levels, i, h[i])}
<1>2. 0 \in S
  <2>1. Heard(p, levels, 0, Quiet)
    <3>1. Quiet \in Listening
      BY DEF Quiet, Listening
    <3>2. Spoken(p, levels, 0) = {}
      BY DEF Spoken, Closed
    <3>3. ToSet(<<>>) = {}
      BY DEF ToSet
    <3>4. Resting(p, levels, 0)
      BY DEF Resting, Mute
    <3>5. Quiet.speeches = <<>> /\ ~Quiet.triggered /\ Quiet.end = 0
      BY DEF Quiet
    <3> QED BY <3>1, <3>2, <3>3, <3>4, <3>5 DEF Heard
  <2>2. 0 \in 0..n
    OBVIOUS
  <2>3. h[0] = Quiet
    BY <1>1
  <2> QED BY <2>1, <2>2, <2>3
<1>3. ASSUME NEW i \in 1..n, i - 1 \in S PROVE i \in S
  <2>1. Heard(p, levels, i - 1, h[i - 1]) /\ i \in 1 .. Len(levels) /\ i \in 0..n
    BY <1>3
  <2>2. Heard(p, levels, i, Hear(p, h[i - 1], levels[i], At(p, i)))
    BY <2>1, WindowIsHeard
  <2>3. h[i] = Hear(p, h[i - 1], levels[i], At(p, i))
    BY <1>1 DEF At
  <2> QED BY <2>1, <2>2, <2>3
<1>4. \A i \in 0..n : i \in S
  <2>1. n \in Nat
    OBVIOUS
  <2> HIDE DEF S, n
  <2> QED BY <1>2, <1>3, <2>1, PrefixInduction
<1>5. PICK s : s = h[n] /\ Heard(p, levels, n, s)
  BY <1>4
<1>6. Speeches(p, levels, total) = IF s.triggered /\ total - s.start > p.minSpeech
                                   THEN Append(s.speeches, <<s.start, total>>)
                                   ELSE s.speeches
  BY <1>1, <1>5, Zenon DEF Speeches
<1>7. /\ s.speeches \in Seq(Nat \X Nat) /\ s.start \in Nat /\ s.triggered \in BOOLEAN
      /\ ToSet(s.speeches) = Spoken(p, levels, n)
  BY <1>5 DEF Heard, Listening
<1> DEFINE Pair(i) == <<At(p, i), EndOf(p, levels, total, i)>>
           Long(e) == e[2] - e[1] > p.minSpeech
<1>8. SpeechesOf(p, levels, total)
        = {e \in {Pair(i) : i \in {k \in 1..n : Starts(p, levels, k)}} : Long(e)}
  BY SpeechesByWindows, Zenon DEF At
<1> HIDE DEF n
<1>9. n = Len(levels) /\ n \in Nat
  BY DEF n
<1>10. ASSUME NEW f \in 1..n, NEW c \in 1..n, Starts(p, levels, f), Ends(p, levels, f, c, n)
       PROVE  Pair(f) = <<At(p, f), At(p, c)>>
  <2>1. ~NoSilence(p, levels, f, n)
    BY <1>9, <1>10, EndedIsOver
  <2>2. levels[f] = "high"
    BY <1>10 DEF Starts
  <2>3. PICK d \in 1..n : Ends(p, levels, f, d, n) /\ EndOf(p, levels, total, f) = At(p, d)
    BY <1>9, <2>1, <2>2, EndIsFound DEF At
  <2>4. c = d
    BY <1>9, <1>10, <2>3, EndsOnce
  <2> QED BY <2>3, <2>4
<1>11. ASSUME NEW f \in 1..n, Starts(p, levels, f), NoSilence(p, levels, f, n)
       PROVE  Pair(f) = <<At(p, f), total>>
  <2>1. levels[f] = "high"
    BY <1>11 DEF Starts
  <2>2. \A c \in 1..n : ~Ends(p, levels, f, c, n)
    BY <1>9, <1>11, EndedIsOver
  <2> QED BY <1>9, <2>1, <2>2, EndIsFound
<1>12. ASSUME NEW f \in 1..n, Starts(p, levels, f)
       PROVE  NoSilence(p, levels, f, n) \/ \E c \in 1..n : Ends(p, levels, f, c, n)
  <2>1. levels[f] = "high"
    BY <1>12 DEF Starts
  <2> QED BY <1>9, <2>1, EndIsFound
<1>13. ASSUME NEW f \in 1..n, Starts(p, levels, f), NoSilence(p, levels, f, n)
       PROVE  s.triggered /\ s.start = At(p, f)
  <2>1. levels[f] = "high"
    BY <1>13 DEF Starts
  <2>2. CASE ~s.triggered
    <3>1. Resting(p, levels, n)
      BY <1>5, <2>2 DEF Heard
    <3>2. PICK x, y \in 1..n : Silence(p, levels, x, y) /\ Mute(levels, x, n)
      BY <1>9, <2>1, <3>1 DEF Resting, Mute
    <3>3. f < x
      BY <1>9, <2>1, <3>2 DEF Mute
    <3>4. x \in f..n /\ y \in f..n
      BY <1>9, <3>2, <3>3 DEF Silence
    <3> QED BY <1>13, <3>2, <3>4 DEF NoSilence
  <2>3. CASE s.triggered
    <3>1. PICK g \in 1..n : Open(p, levels, n, g, s)
      BY <1>5, <2>3 DEF Heard
    <3>2. Starts(p, levels, g) /\ NoSilence(p, levels, g, n) /\ s.start = At(p, g)
      BY <3>1 DEF Open
    <3>3. f = g
      <4>1. PICK c \in Nat : c = n + 1 /\ c - 1 = n
        BY <1>9
      <4> QED BY <1>13, <3>2, <4>1, OneStart
    <3> QED BY <2>3, <3>2, <3>3
  <2> QED BY <2>2, <2>3
<1>14. \A e : e \in Spoken(p, levels, n) <=>
          \E f, c \in 1..n : /\ Starts(p, levels, f) /\ Ends(p, levels, f, c, n)
                             /\ e = <<At(p, f), At(p, c)>> /\ Long(e)
  <2>1. ASSUME NEW e \in Spoken(p, levels, n)
        PROVE  \E f, c \in 1..n : /\ Starts(p, levels, f) /\ Ends(p, levels, f, c, n)
                                  /\ e = <<At(p, f), At(p, c)>> /\ Long(e)
    <3>1. PICK q \in Closed(p, levels, n) :
              e = <<At(p, q[1]), At(p, q[2])>> /\ At(p, q[2]) - At(p, q[1]) > p.minSpeech
      BY DEF Spoken
    <3>2. q[1] \in 1..n /\ q[2] \in 1..n /\ Starts(p, levels, q[1]) /\ Ends(p, levels, q[1], q[2], n)
      BY DEF Closed
    <3> QED BY <3>1, <3>2
  <2>2. ASSUME NEW f \in 1..n, NEW c \in 1..n, Starts(p, levels, f), Ends(p, levels, f, c, n),
               Long(<<At(p, f), At(p, c)>>)
        PROVE  <<At(p, f), At(p, c)>> \in Spoken(p, levels, n)
    <3>1. <<f, c>> \in Closed(p, levels, n)
      BY <2>2 DEF Closed
    <3> QED BY <2>2, <3>1 DEF Spoken
  <2> HIDE DEF Long
  <2> QED BY <2>1, <2>2
<1>15. ASSUME s.triggered
       PROVE  \E f \in 1..n : /\ Starts(p, levels, f) /\ NoSilence(p, levels, f, n)
                              /\ s.start = At(p, f)
  BY <1>5, <1>15 DEF Heard, Open
<1> DEFINE last == <<s.start, total>>
<1>16. \A e : e \in ToSet(Speeches(p, levels, total)) <=>
          e \in Spoken(p, levels, n) \/ (e = last /\ s.triggered /\ Long(last))
  <2>1. last \in Nat \X Nat /\ (Long(last) <=> total - s.start > p.minSpeech)
    BY <1>7
  <2>2. ToSet(Append(s.speeches, last)) = ToSet(s.speeches) \cup {last}
    <3> DEFINE pairs == Nat \X Nat
    <3>1. s.speeches \in Seq(pairs) /\ last \in pairs
      BY <1>7, <2>1
    <3> HIDE DEF pairs, last
    <3> QED BY <3>1, ToSetAppend
  <2> QED BY <1>6, <1>7, <2>1, <2>2
<1> HIDE DEF Long
<1>17. \A e : e \in ToSet(Speeches(p, levels, total)) => e \in SpeechesOf(p, levels, total)
  <2>1. ASSUME NEW e \in Spoken(p, levels, n) PROVE e \in SpeechesOf(p, levels, total)
    <3>1. PICK f, c \in 1..n : /\ Starts(p, levels, f) /\ Ends(p, levels, f, c, n)
                               /\ e = <<At(p, f), At(p, c)>> /\ Long(e)
      BY <1>14
    <3>2. Pair(f) = e
      BY <1>10, <3>1
    <3> HIDE DEF Pair
    <3> QED BY <1>8, <3>1, <3>2
  <2>2. ASSUME s.triggered, Long(last) PROVE last \in SpeechesOf(p, levels, total)
    <3>1. PICK f \in 1..n : /\ Starts(p, levels, f) /\ NoSilence(p, levels, f, n)
                            /\ s.start = At(p, f)
      BY <1>15, <2>2
    <3>2. Pair(f) = last
      BY <1>11, <3>1
    <3> HIDE DEF Pair, last
    <3> QED BY <1>8, <2>2, <3>1, <3>2
  <2> HIDE DEF last
  <2> QED BY <1>16, <2>1, <2>2
<1>18. \A e : e \in SpeechesOf(p, levels, total) => e \in ToSet(Speeches(p, levels, total))
  <2>1. ASSUME NEW f \in 1..n, Starts(p, levels, f), Long(Pair(f))
        PROVE  Pair(f) \in ToSet(Speeches(p, levels, total))
    <3>1. CASE NoSilence(p, levels, f, n)
      <4>1. Pair(f) = last /\ s.triggered
        BY <1>11, <1>13, <2>1, <3>1
      <4> HIDE DEF Pair, last
      <4> QED BY <1>16, <2>1, <4>1
    <3>2. ASSUME NEW c \in 1..n, Ends(p, levels, f, c, n)
          PROVE  Pair(f) \in ToSet(Speeches(p, levels, total))
      <4>1. Pair(f) = <<At(p, f), At(p, c)>>
        BY <1>10, <2>1, <3>2
      <4> HIDE DEF Pair, last
      <4>2. Pair(f) \in Spoken(p, levels, n)
        BY <1>14, <2>1, <3>2, <4>1
      <4> QED BY <1>16, <4>2
    <3> QED BY <1>12, <2>1, <3>1, <3>2
  <2> HIDE DEF Pair
  <2> QED BY <1>8, <2>1
<1> QED
  BY <1>17, <1>18

-----------------------------------------------------------------------------
(* The order of the speeches. *)

\* Speeches one after the other, the last one over at the sample bound.
InOrder(said, bound) ==
    \A k \in 1 .. Len(said) : /\ said[k][1] < said[k][2] /\ said[k][2] =< bound
                              /\ k > 1 => said[k - 1][2] =< said[k][1]

\* They stay so later.
LEMMA InOrderLater ==
    ASSUME NEW said \in Seq(Nat \X Nat), NEW a \in Int, NEW b \in Int, a =< b, InOrder(said, a)
    PROVE  InOrder(said, b)
<1>1. ASSUME NEW k \in 1 .. Len(said) PROVE said[k][2] \in Int
  <2>1. said[k] \in Nat \X Nat
    OBVIOUS
  <2> QED BY <2>1
<1> QED
  BY <1>1, SMTT(30) DEF InOrder

\* A speech that starts after the others comes after them.
LEMMA InOrderAppend ==
    ASSUME NEW said \in Seq(Nat \X Nat), NEW start \in Nat, NEW end \in Nat,
           InOrder(said, start), start < end
    PROVE  /\ Append(said, <<start, end>>) \in Seq(Nat \X Nat)
           /\ InOrder(Append(said, <<start, end>>), end)
<1> DEFINE t == Append(said, <<start, end>>)
<1>1. <<start, end>> \in Nat \X Nat
  OBVIOUS
<1>2. /\ Len(t) = Len(said) + 1 /\ Len(said) \in Nat /\ t[Len(said) + 1] = <<start, end>>
      /\ \A i \in 1 .. Len(said) : t[i] = said[i]
      /\ t \in Seq(Nat \X Nat)
  BY <1>1
<1>3. \A k \in 1 .. Len(said) : said[k][1] \in Nat /\ said[k][2] \in Nat
  <2>1. \A k \in 1 .. Len(said) : said[k] \in Nat \X Nat
    OBVIOUS
  <2> QED BY <2>1
<1> HIDE DEF t
<1>4. ASSUME NEW k \in 1 .. Len(said) + 1
      PROVE  /\ t[k][1] < t[k][2] /\ t[k][2] =< end
             /\ k > 1 => t[k - 1][2] =< t[k][1]
  <2>1. CASE k \in 1 .. Len(said)
    <3>1. k > 1 => k - 1 \in 1 .. Len(said)
      BY <1>2, <2>1
    <3>2. t[k] = said[k] /\ (k > 1 => t[k - 1] = said[k - 1])
      BY <1>2, <2>1, <3>1
    <3> QED BY <1>3, <2>1, <3>1, <3>2, SMTT(30) DEF InOrder
  <2>2. CASE k = Len(said) + 1
    <3>1. t[k][1] = start /\ t[k][2] = end
      BY <1>2, <2>2
    <3>2. k > 1 => k - 1 \in 1 .. Len(said) /\ t[k - 1] = said[k - 1]
      BY <1>2, <2>2, SMTT(30)
    <3>3. k > 1 => t[k - 1][2] =< start
      BY <3>2 DEF InOrder
    <3> QED BY <3>1, <3>3
  <2> QED BY <1>2, <2>1, <2>2
<1>5. InOrder(t, end)
  BY <1>2, <1>4 DEF InOrder
<1> QED
  BY <1>2, <1>5 DEF t

\* After i windows the speeches so far are in order, and before the one that is open.
Timely(p, i, s) ==
    /\ s \in Listening
    /\ InOrder(s.speeches, IF s.triggered THEN s.start ELSE At(p, i))
    /\ s.start =< At(p, i) \/ ~s.triggered
    /\ s.end =< At(p, i) \/ s.end = 0

\* A window keeps the order.
LEMMA WindowIsTimely ==
    ASSUME NEW p \in Detector, NEW i \in Nat \ {0}, NEW level, NEW s, Timely(p, i - 1, s)
    PROVE  Timely(p, i, Hear(p, s, level, At(p, i)))
<1>1. PICK cur \in Nat, before \in Int :
          /\ cur = At(p, i) /\ before = At(p, i - 1) /\ before =< cur
  <2>1. PICK w \in Nat : w = p.window
    BY DEF Detector
  <2>2. PICK m \in Int : m = w * ((i - 1) - 1)
    OBVIOUS
  <2>3. w * (i - 1) = m + w
    BY <2>2
  <2>4. w * (i - 1) \in Nat
    OBVIOUS
  <2> QED BY <2>1, <2>2, <2>3, <2>4 DEF At
<1>2. /\ s \in Listening /\ s.speeches \in Seq(Nat \X Nat) /\ s.triggered \in BOOLEAN
      /\ s.start \in Nat /\ s.end \in Nat
  BY DEF Timely, Listening
<1>3. /\ s.triggered => InOrder(s.speeches, s.start) /\ s.start =< before
      /\ ~s.triggered => InOrder(s.speeches, before)
      /\ s.end =< before \/ s.end = 0
  BY <1>1 DEF Timely
<1>4. ~s.triggered => InOrder(s.speeches, cur)
  BY <1>1, <1>2, <1>3, InOrderLater
<1>5. CASE level = "high" /\ ~s.triggered
  <2> DEFINE t == [s EXCEPT !.triggered = TRUE, !.start = cur]
  <2>1. /\ t \in Listening /\ t.speeches = s.speeches /\ t.triggered = TRUE /\ t.start = cur
        /\ t.end = s.end
    BY <1>2 DEF Listening
  <2> HIDE DEF t
  <2>2. Timely(p, i, t)
    BY <1>1, <1>2, <1>3, <1>4, <1>5, <2>1 DEF Timely
  <2> QED BY <1>1, <1>5, <2>2 DEF Hear, t
<1>6. CASE level = "high" /\ s.triggered
  <2> DEFINE t == [s EXCEPT !.end = 0]
  <2>1. /\ t \in Listening /\ t.speeches = s.speeches /\ t.triggered = s.triggered
        /\ t.start = s.start /\ t.end = 0
    BY <1>2 DEF Listening
  <2> HIDE DEF t
  <2>2. Timely(p, i, t)
    BY <1>1, <1>2, <1>3, <1>6, <2>1 DEF Timely
  <2> QED BY <1>6, <2>2 DEF Hear, t
<1>7. CASE level = "low" /\ s.triggered
  <2> DEFINE end == IF s.end = 0 THEN cur ELSE s.end
  <2>1. end \in Nat /\ end =< cur
    BY <1>1, <1>2, <1>3
  <2>2. Low(p, s, cur) =
          CASE cur - end < p.minSilence -> [s EXCEPT !.end = end]
            [] cur - end >= p.minSilence /\ end - s.start > p.minSpeech ->
                  [Quiet EXCEPT !.speeches = Append(s.speeches, <<s.start, end>>)]
            [] OTHER -> [Quiet EXCEPT !.speeches = s.speeches]
    BY Zenon DEF Low
  <2> HIDE DEF end
  <2>3. Timely(p, i, [s EXCEPT !.end = end])
    <3> DEFINE t == [s EXCEPT !.end = end]
    <3>1. /\ t \in Listening /\ t.speeches = s.speeches /\ t.triggered = s.triggered
          /\ t.start = s.start /\ t.end = end
      BY <1>2, <2>1 DEF Listening
    <3> HIDE DEF t
    <3>2. Timely(p, i, t)
      BY <1>1, <1>2, <1>3, <1>7, <2>1, <3>1 DEF Timely
    <3> QED BY <3>2 DEF t
  <2>4. ASSUME NEW said \in Seq(Nat \X Nat), InOrder(said, cur)
        PROVE  Timely(p, i, [Quiet EXCEPT !.speeches = said])
    <3> DEFINE t == [Quiet EXCEPT !.speeches = said]
    <3>1. t \in Listening /\ t.speeches = said /\ ~t.triggered /\ t.end = 0
      BY RestingState
    <3> HIDE DEF t
    <3>2. Timely(p, i, t)
      BY <1>1, <2>4, <3>1 DEF Timely
    <3> QED BY <3>2 DEF t
  <2>5. ASSUME end - s.start > p.minSpeech
        PROVE  Timely(p, i, [Quiet EXCEPT !.speeches = Append(s.speeches, <<s.start, end>>)])
    <3>1. s.start < end
      <4>1. p.minSpeech \in Nat
        BY DEF Detector
      <4> QED BY <1>2, <2>1, <2>5, <4>1
    <3>2. /\ Append(s.speeches, <<s.start, end>>) \in Seq(Nat \X Nat)
          /\ InOrder(Append(s.speeches, <<s.start, end>>), end)
      BY <1>2, <1>3, <1>7, <2>1, <3>1, InOrderAppend
    <3>3. InOrder(Append(s.speeches, <<s.start, end>>), cur)
      <4> DEFINE u == Append(s.speeches, <<s.start, end>>)
      <4>1. u \in Seq(Nat \X Nat) /\ InOrder(u, end) /\ end \in Int /\ cur \in Int
        BY <2>1, <3>2
      <4> HIDE DEF u
      <4>2. InOrder(u, cur)
        BY <2>1, <4>1, InOrderLater
      <4> QED BY <4>2 DEF u
    <3> QED BY <2>4, <3>2, <3>3
  <2>6. Timely(p, i, [Quiet EXCEPT !.speeches = s.speeches])
    <3>1. InOrder(s.speeches, cur)
      BY <1>1, <1>2, <1>3, <1>7, InOrderLater
    <3> QED BY <1>2, <2>4, <3>1
  <2>7. Timely(p, i, Low(p, s, cur))
    BY <2>2, <2>3, <2>5, <2>6
  <2> QED BY <1>1, <1>7, <2>7 DEF Hear
<1>8. ASSUME ~(level = "high" /\ ~s.triggered), ~(level = "high" /\ s.triggered),
             ~(level = "low" /\ s.triggered)
      PROVE  Timely(p, i, Hear(p, s, level, At(p, i)))
  <2>1. Hear(p, s, level, At(p, i)) = s
    BY <1>8 DEF Hear
  <2>2. Timely(p, i, s)
    BY <1>1, <1>2, <1>3, <1>4 DEF Timely
  <2> QED BY <2>1, <2>2
<1> QED
  BY <1>5, <1>6, <1>7, <1>8

\* The speeches are in order and in the recording.
LEMMA SpeechesInOrder ==
    ASSUME NEW p \in Detector, NEW levels \in Seq(Levels), NEW total \in Nat,
           p.window * (Len(levels) - 1) =< total
    PROVE  /\ Speeches(p, levels, total) \in Seq(Nat \X Nat)
           /\ InOrder(Speeches(p, levels, total), total)
<1> DEFINE n == Len(levels)
<1>1. PICK h \in [0..n -> Listening] :
          /\ h[0] = Quiet
          /\ \A i \in 1..n : h[i] = Hear(p, h[i - 1], levels[i], p.window * (i - 1))
          /\ FoldLeftDomain(LAMBDA acc, i : Hear(p, acc, levels[i], p.window * (i - 1)),
                            Quiet, levels) = h[n]
  BY SpeechPrefixes
<1> DEFINE S == {i \in 0..n : Timely(p, i, h[i])}
<1>2. 0 \in S
  <2>1. Timely(p, 0, Quiet)
    <3>1. Quiet \in Listening
      BY DEF Quiet, Listening
    <3>2. Quiet.speeches = <<>> /\ ~Quiet.triggered /\ Quiet.end = 0 /\ Len(<<>>) = 0
      BY DEF Quiet
    <3> QED BY <3>1, <3>2 DEF Timely, InOrder
  <2>2. 0 \in 0..n
    OBVIOUS
  <2>3. h[0] = Quiet
    BY <1>1
  <2> QED BY <2>1, <2>2, <2>3
<1>3. ASSUME NEW i \in 1..n, i - 1 \in S PROVE i \in S
  <2>1. Timely(p, i - 1, h[i - 1]) /\ i \in Nat \ {0} /\ i \in 0..n
    BY <1>3
  <2>2. Timely(p, i, Hear(p, h[i - 1], levels[i], At(p, i)))
    BY <2>1, WindowIsTimely
  <2>3. h[i] = Hear(p, h[i - 1], levels[i], At(p, i))
    BY <1>1 DEF At
  <2> QED BY <2>1, <2>2, <2>3
<1>4. \A i \in 0..n : i \in S
  <2>1. n \in Nat
    OBVIOUS
  <2> HIDE DEF S, n
  <2> QED BY <1>2, <1>3, <2>1, PrefixInduction
<1>5. PICK s : s = h[n] /\ Timely(p, n, s)
  BY <1>4
<1>6. Speeches(p, levels, total) = IF s.triggered /\ total - s.start > p.minSpeech
                                   THEN Append(s.speeches, <<s.start, total>>)
                                   ELSE s.speeches
  BY <1>1, <1>5, Zenon DEF Speeches
<1>7. /\ s.speeches \in Seq(Nat \X Nat) /\ s.start \in Nat /\ s.triggered \in BOOLEAN
      /\ InOrder(s.speeches, IF s.triggered THEN s.start ELSE At(p, n))
      /\ s.start =< At(p, n) \/ ~s.triggered
  BY <1>5 DEF Timely, Listening
<1>8. PICK end \in Int : end = At(p, n) /\ end =< total
  <2>1. PICK w \in Nat : w = p.window
    BY DEF Detector
  <2>2. w * (n - 1) \in Int
    OBVIOUS
  <2> QED BY <2>1, <2>2 DEF At
<1> HIDE DEF n
<1>9. CASE s.triggered /\ total - s.start > p.minSpeech
  <2>1. s.start < total
    <3>1. p.minSpeech \in Nat
      BY DEF Detector
    <3> QED BY <1>7, <1>9, <3>1
  <2> QED BY <1>6, <1>7, <1>9, <2>1, InOrderAppend
<1>10. CASE ~(s.triggered /\ total - s.start > p.minSpeech)
  <2>1. InOrder(s.speeches, total)
    <3>1. CASE s.triggered
      <4>1. s.start =< total /\ s.start \in Int
        BY <1>7, <1>8, <3>1
      <4> QED BY <1>7, <3>1, <4>1, InOrderLater
    <3>2. CASE ~s.triggered
      BY <1>7, <1>8, <3>2, InOrderLater
    <3> QED BY <1>7, <3>1, <3>2
  <2> QED BY <1>6, <1>7, <1>10, <2>1
<1> QED
  BY <1>9, <1>10

-----------------------------------------------------------------------------
(* The padding. *)

\* Two paddings fit into the silence between their speeches.
LEMMA PaddingFits ==
    ASSUME NEW p \in Detector, NEW silence \in Nat
    PROVE  Padding(p, silence) \in Nat /\ 2 * Padding(p, silence) =< silence
<1>1. p.pad \in Nat
  BY DEF Detector
<1> QED
  BY <1>1 DEF Padding

\* Every segment holds its speech and ends before the next one, in the recording.
LEMMA SegmentsHoldSpeeches ==
    ASSUME NEW p \in Detector, NEW total \in Nat, NEW said \in Seq(Nat \X Nat),
           InOrder(said, total)
    PROVE  /\ Padded(p, said, total) \in Seq(Nat \X Nat)
           /\ Len(Padded(p, said, total)) = Len(said)
           /\ \A i \in 1 .. Len(said) :
                 LET segments == Padded(p, said, total)
                 IN  /\ segments[i][1] =< said[i][1]
                     /\ said[i][2] =< segments[i][2] /\ segments[i][2] =< total
                     /\ segments[i][1] < segments[i][2]
                     /\ i > 1 => segments[i - 1][2] =< segments[i][1]
<1> DEFINE n == Len(said)
           Silent(i) == said[i + 1][1] - said[i][2]
           Start(i) == Max({0, said[i][1] - (IF i = 1 THEN p.pad ELSE Padding(p, Silent(i - 1)))})
           End(i) == IF i = n THEN Min({total, said[i][2] + p.pad})
                     ELSE Min({total, said[i][2] + Padding(p, Silent(i))})
           segments == [i \in 1..n |-> <<Start(i), End(i)>>]
<1>1. n \in Nat /\ DOMAIN said = 1..n /\ p.pad \in Nat
  BY DEF Detector
<1>2. Padded(p, said, total) = segments
  <2>1. Padded(p, said, total) = [i \in DOMAIN said |-> <<Start(i), End(i)>>]
    BY Zenon DEF Padded
  <2> HIDE DEF Start, End, n
  <2> QED BY <1>1, <2>1
<1>3. ASSUME NEW i \in 1..n
      PROVE  /\ said[i][1] \in Nat /\ said[i][2] \in Nat /\ said[i][1] < said[i][2]
             /\ said[i][2] =< total
             /\ i > 1 => said[i - 1][2] \in Nat /\ Silent(i - 1) \in Nat
                         /\ Silent(i - 1) = said[i][1] - said[i - 1][2]
             /\ i # n => Silent(i) \in Nat
  <2>1. \A k \in 1..n : said[k] \in Nat \X Nat
    OBVIOUS
  <2>2. \A k \in 1..n : said[k][1] \in Nat /\ said[k][2] \in Nat
    BY <2>1
  <2>3. said[i][1] < said[i][2] /\ said[i][2] =< total
    BY DEF InOrder
  <2>4. ASSUME i > 1
        PROVE  said[i - 1][2] \in Nat /\ Silent(i - 1) \in Nat
               /\ Silent(i - 1) = said[i][1] - said[i - 1][2]
    <3>1. i - 1 \in 1..n /\ (i - 1) + 1 = i /\ said[i - 1][2] =< said[i][1]
      BY <2>4 DEF InOrder
    <3> QED BY <2>2, <3>1, SMTT(30)
  <2>5. ASSUME i # n PROVE Silent(i) \in Nat
    <3>1. i + 1 \in 1..n /\ i + 1 > 1 /\ (i + 1) - 1 = i
      <4> HIDE DEF n
      <4> QED BY <1>1, <2>5
    <3>2. said[i][2] =< said[i + 1][1]
      BY <3>1 DEF InOrder
    <3> QED BY <2>2, <3>1, <3>2, SMTT(30)
  <2> QED BY <2>2, <2>3, <2>4, <2>5
<1>4. ASSUME NEW i \in 1..n
      PROVE  /\ Start(i) \in Nat /\ End(i) \in Nat
             /\ Start(i) =< said[i][1] /\ said[i][2] =< End(i) /\ End(i) =< total
  <2>1. PICK a \in Nat : a = IF i = 1 THEN p.pad ELSE Padding(p, Silent(i - 1))
    <3>1. i # 1 => Silent(i - 1) \in Nat
      BY <1>3
    <3> HIDE DEF Silent
    <3>2. i # 1 => Padding(p, Silent(i - 1)) \in Nat
      BY <3>1, PaddingFits
    <3> QED BY <1>1, <3>2
  <2>2. PICK b \in Nat : b = IF i = n THEN p.pad ELSE Padding(p, Silent(i))
    <3>1. i # n => Silent(i) \in Nat
      BY <1>3
    <3> HIDE DEF Silent
    <3>2. i # n => Padding(p, Silent(i)) \in Nat
      BY <3>1, PaddingFits
    <3> QED BY <1>1, <3>2
  <2>3. PICK x \in Nat, y \in Nat : x = said[i][1] /\ y = said[i][2] /\ y =< total
    BY <1>3
  <2>4. Start(i) = Max({0, x - a})
    BY <2>1, <2>3
  <2>5. End(i) = Min({total, y + b})
    BY <2>2, <2>3
  <2>6. Start(i) = IF 0 >= x - a THEN 0 ELSE x - a
    <3>1. 0 \in Int /\ x - a \in Int
      OBVIOUS
    <3> QED BY <2>4, <3>1, OfTwo
  <2>7. End(i) = IF total =< y + b THEN total ELSE y + b
    <3>1. total \in Int /\ y + b \in Int
      OBVIOUS
    <3> QED BY <2>5, <3>1, OfTwo
  <2> HIDE DEF Start, End
  <2> QED BY <2>3, <2>6, <2>7, SMTT(30)
<1>5. ASSUME NEW i \in 1..n, i > 1 PROVE End(i - 1) =< Start(i)
  <2>1. i - 1 \in 1..n /\ i - 1 # n /\ i # 1
    BY <1>1, <1>5
  <2>2. PICK x \in Nat, y \in Nat, silence \in Nat :
            /\ x = said[i - 1][2] /\ y = said[i][1] /\ silence = Silent(i - 1) /\ silence = y - x
    BY <1>3, <1>5, ZenonT(30)
  <2>3. PICK a \in Nat : a = Padding(p, silence) /\ 2 * a =< silence
    BY PaddingFits
  <2>4. Start(i) = Max({0, y - a}) /\ End(i - 1) = Min({total, x + a})
    BY <2>1, <2>2, <2>3
  <2>5. Start(i) = IF 0 >= y - a THEN 0 ELSE y - a
    <3>1. 0 \in Int /\ y - a \in Int
      OBVIOUS
    <3> QED BY <2>4, <3>1, OfTwo
  <2>6. End(i - 1) = IF total =< x + a THEN total ELSE x + a
    <3>1. total \in Int /\ x + a \in Int
      OBVIOUS
    <3> QED BY <2>4, <3>1, OfTwo
  <2>7. x + a =< y - a
    <3>1. silence = y - x /\ 2 * a =< silence
      BY <2>2, <2>3
    <3> HIDE DEF Silent, Start, End
    <3> QED BY <3>1
  <2> DEFINE start == Start(i)
             end == End(i - 1)
  <2>8. start >= y - a /\ end =< x + a /\ start \in Int /\ end \in Int
    BY <2>5, <2>6
  <2> HIDE DEF start, end
  <2>9. end =< start
    BY <2>7, <2>8
  <2> QED BY <2>9 DEF start, end
<1> HIDE DEF Start, End
<1>6. segments \in Seq(Nat \X Nat) /\ Len(segments) = n
  <2>1. segments \in [1..n -> Nat \X Nat]
    BY <1>4
  <2>2. n \in Nat
    BY <1>1
  <2> HIDE DEF segments, n
  <2> QED BY <2>1, <2>2, FunctionIsSeq
<1>7. \A i \in 1..n : segments[i][1] = Start(i) /\ segments[i][2] = End(i)
  OBVIOUS
<1> HIDE DEF segments
<1>8. ASSUME NEW i \in 1..n
      PROVE  /\ segments[i][1] =< said[i][1]
             /\ said[i][2] =< segments[i][2] /\ segments[i][2] =< total
             /\ segments[i][1] < segments[i][2]
             /\ i > 1 => segments[i - 1][2] =< segments[i][1]
  <2>1. i > 1 => i - 1 \in 1..n
    BY <1>1
  <2>2. segments[i][1] =< said[i][1] /\ said[i][2] =< segments[i][2] /\ segments[i][2] =< total
    BY <1>4, <1>7
  <2>3. i > 1 => segments[i - 1][2] =< segments[i][1]
    BY <1>5, <1>7, <2>1
  <2>4. segments[i][1] < segments[i][2]
    <3>1. PICK a, b, x, y \in Nat :
              a = Start(i) /\ x = said[i][1] /\ y = said[i][2] /\ b = End(i)
      BY <1>3, <1>4
    <3>2. a =< x /\ x < y /\ y =< b
      BY <1>3, <1>4, <3>1
    <3>3. a < b
      BY <3>2
    <3> QED BY <1>7, <3>1, <3>3
  <2> QED BY <2>2, <2>3, <2>4
<1> QED
  BY <1>2, <1>6, <1>8

-----------------------------------------------------------------------------
(* What is counted. *)

\* The time of speech, segment by segment.
LEMMA PhonationPrefixes ==
    ASSUME NEW segments \in Seq(Nat \X Nat)
    PROVE  \E h \in [0..Len(segments) -> Int] :
              /\ h[0] = 0
              /\ \A i \in 1..Len(segments) : h[i] = h[i - 1] + segments[i][2] - segments[i][1]
              /\ Phonation(segments) = h[Len(segments)]
<1> DEFINE n == Len(segments)
           zero == 0
           X == Int
           Op(sum, i) == sum + segments[i][2] - segments[i][1]
           F == [i \in 1..n |-> [x \in X |-> Op(x, i)]]
           Iter(g) == g = [s \in SUBSET (1..n) |->
                              IF s = {} THEN zero ELSE Op(g[s \ {Max(s)}], Max(s))]
<1>1. n \in Nat /\ DOMAIN segments = 1..n /\ zero \in X
  OBVIOUS
<1>2. \A s \in SUBSET (1..n) : s # {} => Max(s) \in 1..n
  <2>1. \A s \in SUBSET (1..n) : s \subseteq 0..n
    OBVIOUS
  <2> QED BY <1>1, <2>1, MaxIsGreatest
<1>3. Phonation(segments) = (CHOOSE g : Iter(g))[1..n]
  BY <1>1 DEF Phonation, FoldLeft, MapThenFoldSet
<1>4. \A i \in 1..n, x \in X : Op(x, i) \in X
  <2>1. \A i \in 1..n : segments[i] \in Nat \X Nat
    OBVIOUS
  <2>2. \A i \in 1..n : segments[i][1] \in Int /\ segments[i][2] \in Int
    BY <2>1
  <2> QED BY <2>2
<1> HIDE DEF Op, X, zero
<1>5. F \in [1..n -> [X -> X]]
  BY <1>4
<1>6. PICK g0 \in [SUBSET (1..n) -> X] : IsFold(g0, n, zero, F)
  <2> HIDE DEF F, n
  <2> QED BY <1>1, <1>5, FoldExists
<1>7. Iter(g0)
  <2>1. \A s \in SUBSET (1..n) :
            g0[s] = IF s = {} THEN zero ELSE Op(g0[s \ {Max(s)}], Max(s))
    BY <1>2, <1>6 DEF IsFold
  <2>2. g0 = [s \in SUBSET (1..n) |-> g0[s]]
    OBVIOUS
  <2> QED BY <2>1, <2>2
<1>8. PICK g : Iter(g) /\ (CHOOSE g1 : Iter(g1)) = g
  BY <1>7
<1> DEFINE Y == X \cup {g[s] : s \in SUBSET (1..n)}
           G == [i \in 1..n |-> [x \in Y |-> Op(x, i)]]
<1>9. IsFold(g, n, zero, G)
  <2>1. \A s \in SUBSET (1..n) :
            g[s] = IF s = {} THEN zero ELSE Op(g[s \ {Max(s)}], Max(s))
    BY <1>8
  <2>2. \A s \in SUBSET (1..n) : s # {} => s \ {Max(s)} \in SUBSET (1..n) /\ g[s \ {Max(s)}] \in Y
    OBVIOUS
  <2>3. \A i \in 1..n, x \in Y : G[i][x] = Op(x, i)
    OBVIOUS
  <2> HIDE DEF Y, G
  <2> QED BY <1>2, <2>1, <2>2, <2>3 DEF IsFold
<1>10. \A i \in 1..n, x \in X : G[i][x] = Op(x, i) /\ G[i][x] \in X
  BY <1>1, <1>4
<1>11. KeepsTo(G, n, X)
  BY <1>10 DEF KeepsTo
<1>12. PICK h : AreStages(h, n, X, zero, G) /\ h[n] = g[1..n]
  <2> HIDE DEF G, n
  <2> QED BY <1>1, <1>9, <1>11, FoldPrefixes
<1>13. \A i \in 1..n : h[i] = Op(h[i - 1], i)
  <2>1. \A i \in 1..n : i - 1 \in 0..n
    BY <1>1
  <2> HIDE DEF G
  <2> QED BY <1>10, <1>12, <2>1 DEF AreStages
<1> HIDE DEF G, Iter
<1> QED
  BY <1>3, <1>8, <1>12, <1>13 DEF AreStages, Op, X, zero

\* The gaps that are pauses.
PausesOf(gaps, turnGap) ==
    FoldLeft(LAMBDA pauses, gap : IF 0 < gap /\ gap =< turnGap THEN Append(pauses, gap) ELSE pauses,
             <<>>, gaps)

\* The pauses, gap by gap.
LEMMA PausePrefixes ==
    ASSUME NEW gaps \in Seq(Int), NEW turnGap
    PROVE  \E h \in [0..Len(gaps) -> Seq(Int)] :
              /\ h[0] = <<>>
              /\ \A i \in 1..Len(gaps) :
                    h[i] = IF 0 < gaps[i] /\ gaps[i] =< turnGap THEN Append(h[i - 1], gaps[i])
                           ELSE h[i - 1]
              /\ PausesOf(gaps, turnGap) = h[Len(gaps)]
<1> DEFINE n == Len(gaps)
           none == <<>>
           X == Seq(Int)
           Op(pauses, i) == IF 0 < gaps[i] /\ gaps[i] =< turnGap THEN Append(pauses, gaps[i])
                            ELSE pauses
           F == [i \in 1..n |-> [x \in X |-> Op(x, i)]]
           Iter(g) == g = [s \in SUBSET (1..n) |->
                              IF s = {} THEN none ELSE Op(g[s \ {Max(s)}], Max(s))]
<1>1. n \in Nat /\ DOMAIN gaps = 1..n /\ none \in X
  OBVIOUS
<1>2. \A s \in SUBSET (1..n) : s # {} => Max(s) \in 1..n
  <2>1. \A s \in SUBSET (1..n) : s \subseteq 0..n
    OBVIOUS
  <2> QED BY <1>1, <2>1, MaxIsGreatest
<1>3. PausesOf(gaps, turnGap) = (CHOOSE g : Iter(g))[1..n]
  BY <1>1 DEF PausesOf, FoldLeft, MapThenFoldSet
<1>4. \A i \in 1..n, x \in X : Op(x, i) \in X
  OBVIOUS
<1> HIDE DEF Op, X, none
<1>5. F \in [1..n -> [X -> X]]
  BY <1>4
<1>6. PICK g0 \in [SUBSET (1..n) -> X] : IsFold(g0, n, none, F)
  <2> HIDE DEF F, n
  <2> QED BY <1>1, <1>5, FoldExists
<1>7. Iter(g0)
  <2>1. \A s \in SUBSET (1..n) :
            g0[s] = IF s = {} THEN none ELSE Op(g0[s \ {Max(s)}], Max(s))
    BY <1>2, <1>6 DEF IsFold
  <2>2. g0 = [s \in SUBSET (1..n) |-> g0[s]]
    OBVIOUS
  <2> QED BY <2>1, <2>2
<1>8. PICK g : Iter(g) /\ (CHOOSE g1 : Iter(g1)) = g
  BY <1>7
<1> DEFINE Y == X \cup {g[s] : s \in SUBSET (1..n)}
           G == [i \in 1..n |-> [x \in Y |-> Op(x, i)]]
<1>9. IsFold(g, n, none, G)
  <2>1. \A s \in SUBSET (1..n) :
            g[s] = IF s = {} THEN none ELSE Op(g[s \ {Max(s)}], Max(s))
    BY <1>8
  <2>2. \A s \in SUBSET (1..n) : s # {} => s \ {Max(s)} \in SUBSET (1..n) /\ g[s \ {Max(s)}] \in Y
    OBVIOUS
  <2>3. \A i \in 1..n, x \in Y : G[i][x] = Op(x, i)
    OBVIOUS
  <2> HIDE DEF Y, G
  <2> QED BY <1>2, <2>1, <2>2, <2>3 DEF IsFold
<1>10. \A i \in 1..n, x \in X : G[i][x] = Op(x, i) /\ G[i][x] \in X
  BY <1>1, <1>4
<1>11. KeepsTo(G, n, X)
  BY <1>10 DEF KeepsTo
<1>12. PICK h : AreStages(h, n, X, none, G) /\ h[n] = g[1..n]
  <2> HIDE DEF G, n
  <2> QED BY <1>1, <1>9, <1>11, FoldPrefixes
<1>13. \A i \in 1..n : h[i] = Op(h[i - 1], i)
  <2>1. \A i \in 1..n : i - 1 \in 0..n
    BY <1>1
  <2> HIDE DEF G
  <2> QED BY <1>10, <1>12, <2>1 DEF AreStages
<1> HIDE DEF G, Iter
<1> QED
  BY <1>3, <1>8, <1>12, <1>13 DEF AreStages, Op, X, none

\* Speech and pauses are no more than there is between the first and the last.
LEMMA CountedIsThere ==
    ASSUME NEW segments \in Seq(Nat \X Nat), NEW turnGap, segments # <<>>,
           \A i \in 1 .. Len(segments) : i > 1 => segments[i - 1][2] =< segments[i][1]
    PROVE  Phonation(segments) + SumOf(AnswerPauses(segments, turnGap))
             =< Last(segments)[2] - segments[1][1]
<1> DEFINE n == Len(segments)
           gaps == [i \in 1 .. n - 1 |-> segments[i + 1][1] - segments[i][2]]
<1>1. n \in Nat /\ n >= 1
  OBVIOUS
<1>2. ASSUME NEW i \in 1..n PROVE segments[i][1] \in Int /\ segments[i][2] \in Int
  <2>1. segments[i] \in Nat \X Nat
    OBVIOUS
  <2> QED BY <2>1
<1>3. gaps \in Seq(Int) /\ Len(gaps) = n - 1
  <2>1. \A i \in 1 .. n - 1 : i \in 1..n /\ i + 1 \in 1..n
    BY <1>1
  <2>2. gaps \in [1 .. n - 1 -> Int]
    <3>1. ASSUME NEW i \in 1 .. n - 1 PROVE segments[i + 1][1] - segments[i][2] \in Int
      <4>1. segments[i + 1][1] \in Int /\ segments[i][2] \in Int
        BY <1>2, <2>1
      <4> QED BY <4>1, SMTT(30)
    <3> QED BY <3>1
  <2>3. n - 1 \in Nat
    BY <1>1
  <2> QED BY <2>2, <2>3, SMTT(30)
<1>4. PICK v \in [0..n -> Int] :
          /\ v[0] = 0
          /\ \A i \in 1..n : v[i] = v[i - 1] + segments[i][2] - segments[i][1]
          /\ Phonation(segments) = v[n]
  BY PhonationPrefixes
<1>5. AnswerPauses(segments, turnGap) = PausesOf(gaps, turnGap)
  BY Zenon DEF AnswerPauses, PausesOf
<1>6. \A i \in 1 .. n - 1 : gaps[i] = segments[i + 1][1] - segments[i][2]
  OBVIOUS
<1> HIDE DEF gaps
<1>7. PICK h \in [0 .. Len(gaps) -> Seq(Int)] :
          /\ h[0] = <<>>
          /\ \A i \in 1 .. Len(gaps) :
                h[i] = IF 0 < gaps[i] /\ gaps[i] =< turnGap THEN Append(h[i - 1], gaps[i])
                       ELSE h[i - 1]
          /\ PausesOf(gaps, turnGap) = h[Len(gaps)]
  BY <1>3, PausePrefixes
<1> HIDE DEF n
<1> DEFINE Fits(i) == v[i] + SumOf(h[i - 1]) =< segments[i][2] - segments[1][1]
           S == {0} \cup {i \in 1..n : Fits(i)}
<1>8. SumOf(<<>>) = 0
  <2>1. <<>> \in Seq(Int) /\ Len(<<>>) = 0
    OBVIOUS
  <2> QED BY <2>1, SumPrefixes
<1>9. ASSUME NEW i \in 1..n, i - 1 \in S PROVE i \in S
  <2>1. CASE i = 1
    <3>1. v[1] = v[1 - 1] + segments[1][2] - segments[1][1] /\ 1 \in 1..n /\ 1 - 1 = 0
      BY <1>1, <1>4
    <3>2. v[1] = segments[1][2] - segments[1][1]
      BY <1>2, <1>4, <3>1
    <3>3. SumOf(h[1 - 1]) = 0
      BY <1>7, <1>8, <3>1
    <3>4. Fits(1)
      BY <1>2, <3>1, <3>2, <3>3
    <3> QED BY <2>1, <3>1, <3>4
  <2>2. CASE i # 1
    <3>1. i - 1 \in 1..n /\ i - 1 \in 1 .. Len(gaps) /\ Fits(i - 1) /\ (i - 1) - 1 \in 0 .. Len(gaps)
          /\ i > 1 /\ i - 1 \in 1 .. n - 1 /\ i - 1 \in 0..n /\ (i - 1) + 1 = i /\ 1 \in 1..n
      <4> HIDE DEF Fits
      <4> QED BY <1>1, <1>3, <1>9, <2>2
    <3> HIDE DEF Fits, S
    <3>0. segments[i - 1][2] =< segments[i][1]
      BY <3>1 DEF n
    <3>a. PICK a \in Int : a = segments[i][1]
      BY <1>2
    <3>b. PICK b \in Int : b = segments[i][2]
      BY <1>2
    <3>c. PICK c \in Int : c = segments[i - 1][2]
      BY <1>2, <3>1
    <3>d. PICK d \in Int : d = segments[1][1]
      BY <1>2, <3>1
    <3>e. PICK e \in Nat : e = a - c
      <4>1. c =< a
        BY <3>0, <3>a, <3>c
      <4> QED BY <4>1
    <3>2. /\ a = segments[i][1] /\ b = segments[i][2] /\ c = segments[i - 1][2]
          /\ d = segments[1][1] /\ e = a - c
      BY <3>a, <3>b, <3>c, <3>d, <3>e
    <3>3. v[i] = v[i - 1] + b - a /\ v[i - 1] \in Int
      <4>1. v[i] = v[i - 1] + segments[i][2] - segments[i][1]
        BY <1>4
      <4>2. v[i - 1] \in Int
        BY <3>1
      <4> QED BY <3>2, <4>1, <4>2
    <3>4. gaps[i - 1] = e
      <4>1. gaps[i - 1] = segments[(i - 1) + 1][1] - segments[i - 1][2]
        BY <1>6, <3>1
      <4>2. segments[(i - 1) + 1] = segments[i]
        BY <3>1
      <4> QED BY <3>2, <4>1, <4>2
    <3>5. PICK old \in Seq(Int) : old = h[(i - 1) - 1]
      BY <3>1
    <3>6. h[i - 1] = IF 0 < e /\ e =< turnGap THEN Append(old, e) ELSE old
      BY <1>7, <3>1, <3>4, <3>5
    <3>7. SumOf(old) \in Int /\ SumOf(Append(old, e)) = SumOf(old) + e
      BY SumAppend
    <3>8. SumOf(h[i - 1]) \in Int /\ SumOf(h[i - 1]) =< SumOf(old) + e
      <4>2. CASE 0 < e /\ e =< turnGap
        BY <3>6, <3>7, <4>2, SMTT(30)
      <4>3. CASE ~(0 < e /\ e =< turnGap)
        BY <3>6, <3>7, <4>3
      <4> QED BY <4>2, <4>3
    <3>9. v[i - 1] + SumOf(old) =< c - d /\ v[i - 1] \in Int
      BY <3>1, <3>2, <3>3, <3>5 DEF Fits
    <3>10. v[i] + SumOf(h[i - 1]) =< b - d
      <4> DEFINE x == v[i - 1]
                 y == SumOf(old)
                 z == SumOf(h[i - 1])
      <4>1. /\ x \in Int /\ y \in Int /\ z \in Int /\ e = a - c
            /\ v[i] = x + b - a /\ z =< y + e /\ x + y =< c - d
        BY <3>2, <3>3, <3>7, <3>8, <3>9
      <4> HIDE DEF x, y
      <4>2. ASSUME NEW w \in Int, w = z PROVE v[i] + w =< b - d
        <5>1. w =< y + e
          BY <4>1, <4>2
        <5> HIDE DEF z
        <5> QED BY <4>1, <5>1
      <4> QED BY <4>1, <4>2
    <3> QED BY <3>2, <3>10 DEF Fits, S
  <2> QED BY <2>1, <2>2
<1>10. \A i \in 0..n : i \in S
  <2> HIDE DEF Fits
  <2>1. 0 \in S
    OBVIOUS
  <2> HIDE DEF S
  <2> QED BY <1>1, <1>9, <2>1, PrefixInduction
<1>11. Fits(n)
  <2> HIDE DEF Fits
  <2>1. n \in S /\ n # 0
    BY <1>1, <1>10
  <2> QED BY <2>1
<1> QED
  BY <1>3, <1>4, <1>5, <1>7, <1>11 DEF Last, n

\* Whatever is heard, what is measured of it is sound (speech_segments, answer_pauses,
\* measure): no window begins after the end of the recording, as in the code.
THEOREM SegmentsAreSound ==
    \A p \in Detector, levels \in Seq(Levels), total \in Nat, turnGap \in Nat :
        p.window * (Len(levels) - 1) =< total => SoundSegments(p, levels, total, turnGap)
<1> SUFFICES ASSUME NEW p \in Detector, NEW levels \in Seq(Levels), NEW total \in Nat,
                    NEW turnGap \in Nat, p.window * (Len(levels) - 1) =< total
             PROVE  SoundSegments(p, levels, total, turnGap)
  OBVIOUS
<1>1. PICK said \in Seq(Nat \X Nat) : said = Speeches(p, levels, total) /\ InOrder(said, total)
  BY SpeechesInOrder
<1>2. PICK segments \in Seq(Nat \X Nat) : segments = Segments(p, levels, total)
                                       /\ segments = Padded(p, said, total)
  BY <1>1, SegmentsHoldSpeeches DEF Segments
<1>3. Len(segments) = Len(said) /\ DOMAIN segments = 1 .. Len(said)
  BY <1>1, <1>2, SegmentsHoldSpeeches
<1>4. ASSUME NEW i \in 1 .. Len(said)
      PROVE  /\ segments[i][1] =< said[i][1]
             /\ said[i][2] =< segments[i][2] /\ segments[i][2] =< total
             /\ i > 1 => segments[i - 1][2] =< segments[i][1]
  BY <1>1, <1>2, SegmentsHoldSpeeches
<1>5. ASSUME NEW i \in 1 .. Len(said) PROVE 0 =< segments[i][1]
  <2>1. segments[i] \in Nat \X Nat
    BY <1>3
  <2> QED BY <2>1
<1>6. segments # <<>> =>
         Phonation(segments) + SumOf(AnswerPauses(segments, turnGap))
           =< Last(segments)[2] - segments[1][1]
  <2>1. \A i \in 1 .. Len(segments) : i > 1 => segments[i - 1][2] =< segments[i][1]
    BY <1>3, <1>4
  <2> QED BY <2>1, CountedIsThere
<1>7. /\ Measured(segments, turnGap, 1).phonation = Phonation(segments)
      /\ Measured(segments, turnGap, 1).pause = SumOf(AnswerPauses(segments, turnGap))
  BY Zenon DEF Measured, SumOf
<1>8. ToSet(said) = SpeechesOf(p, levels, total)
  BY <1>1, SpeechesAreFound
<1>9. segments # <<>> =>
         Measured(segments, turnGap, 1).phonation + Measured(segments, turnGap, 1).pause
           =< Last(segments)[2] - segments[1][1]
  BY <1>6, <1>7, Zenon
<1>10. \A i \in DOMAIN segments :
          /\ 0 =< segments[i][1] /\ segments[i][1] =< said[i][1]
          /\ said[i][2] =< segments[i][2] /\ segments[i][2] =< total
          /\ i > 1 => segments[i - 1][2] =< segments[i][1]
  BY <1>3, <1>4, <1>5
<1> QED
  BY <1>1, <1>2, <1>8, <1>9, <1>10, Zenon DEF SoundSegments

-----------------------------------------------------------------------------
(* The delivery score. *)

\* No delivery score counts anything but the speech of its recording, whatever the
\* handlers did before they saved it: what the run checks, from the two theorems above.
THEOREM DeliveryHolds == Spec => []DeliveryIsOfTheSpeech
<1>1. SpeechIsFound
  <2> SUFFICES ASSUME NEW p \in Detectors, NEW n \in 0 .. 7, NEW levels \in [1 .. n -> Levels],
                      NEW total \in {p.window * n, p.window * n - 2} \cap Nat
               PROVE  SoundSegments(p, levels, total, 10)
    BY Zenon DEF SpeechIsFound
  <2>1. p \in Detector /\ p.window = 3
    BY DEF Detectors, Detector
  <2>2. levels \in Seq(Levels) /\ Len(levels) = n /\ n \in Nat
    OBVIOUS
  <2>3. total \in Nat /\ p.window * (Len(levels) - 1) =< total
    BY <2>1, <2>2
  <2> QED BY <2>1, <2>2, <2>3, SegmentsAreSound
<1>2. BlocksLeaveNoSeam
  <2>1. \A blocks \in BoundedSeq(1 .. 5, 4) : blocks \in Seq(Nat)
    <3>1. \A m \in 0 .. 4 : \A blocks \in [1 .. m -> 1 .. 5] : blocks \in Seq(Nat)
      OBVIOUS
    <3> QED BY <3>1, Zenon DEF BoundedSeq, SeqOf
  <2>2. \A step \in {1, 2, 3} : step \in Nat \ {0}
    OBVIOUS
  <2>3. \A window \in {2, 3, 4} : window \in Nat \ {0}
    OBVIOUS
  <2> QED BY <2>1, <2>2, <2>3, BlocksAreHeardWhole, Zenon DEF BlocksLeaveNoSeam
<1>3. DeliveryIsOfTheSpeech
  BY <1>1, <1>2 DEF DeliveryIsOfTheSpeech
<1> QED
  BY <1>3, PTL

-----------------------------------------------------------------------------
(* The transcripts of the run. *)

\* What the agent appends to a log it may go on with.
LEMMA AdditionsKeepWell ==
    ASSUME NEW l \in Seq(Utterance), NEW floor \in Nat, NEW r, Ongoing(l, floor, r),
           NEW m \in Additions(l, floor)
    PROVE  m \in Seq(Utterance) /\ Ongoing(m, floor, r)
<1>1. CASE \E type \in QuestionTypes : /\ m = Append(l, NewQuestion(l, floor, type, TRUE))
                                       /\ QuestionAccepted(l, NewQuestion(l, floor, type, TRUE))
  <2>1. PICK type \in QuestionTypes : /\ m = Append(l, NewQuestion(l, floor, type, TRUE))
                                      /\ QuestionAccepted(l, NewQuestion(l, floor, type, TRUE))
    BY <1>1
  <2>2. /\ NewQuestion(l, floor, type, TRUE) \in Utterance
        /\ IsQuestion(NewQuestion(l, floor, type, TRUE))
    BY NewQuestionType DEF NewQuestion, IsQuestion
  <2> QED BY <2>1, <2>2, QuestionKeepsWell
<1>2. CASE LastQuestion(l) # 0 /\ m = Append(l, NewAnswer(l, TRUE))
  BY <1>2, AnswerKeepsWell
<1>3. CASE m = Append(l, NewClosing(TRUE))
  BY <1>3, ClosingKeepsWell
<1> QED
  BY <1>1, <1>2, <1>3 DEF Additions, QuestionTypes, RootTypes

\* The agent's logs grow well.
IsGrown(log) == log \in Seq(Utterance) /\ Ongoing(log, 0, 0)

LEMMA GrownIsGrown ==
    ASSUME NEW logs, \A l \in logs : IsGrown(l)
    PROVE  \A l \in Grown(logs) : IsGrown(l)
<1> SUFFICES ASSUME NEW m \in Grown(logs) PROVE IsGrown(m)
  OBVIOUS
<1>1. CASE m \in logs
  BY <1>1
<1>2. CASE m \notin logs
  <2>1. PICK l \in logs : m \in Additions(l, 0)
    BY <1>2 DEF Grown
  <2> QED BY <2>1, AdditionsKeepWell DEF IsGrown
<1> QED
  BY <1>1, <1>2

\* A log of valid utterances.
IsValid(log) == log \in Seq(Utterance) /\ AllValid(log)

\* What Redis keeps of logs of valid utterances, and one log pushed onto another.
LEMMA CopiesAreValid ==
    ASSUME NEW logs, \A l \in logs : IsValid(l)
    PROVE  \A m \in Copies(logs) : IsValid(m)
<1> SUFFICES ASSUME NEW m \in Copies(logs) PROVE IsValid(m)
  OBVIOUS
<1>1. PICK l \in logs : m \in {Kept(l, S) : S \in SUBSET DOMAIN l}
  BY DEF Copies
<1>2. PICK S \in SUBSET DOMAIN l : m = Kept(l, S)
  BY <1>1
<1> QED BY <1>2, HolesKeepWell DEF IsValid

\* A log that was pushed onto another is as valid as the two.
LEMMA PushedIsValid ==
    ASSUME NEW l, NEW m, IsValid(l), IsValid(m)
    PROVE  IsValid(l \o m)
<1>1. /\ l \in Seq(Utterance) /\ m \in Seq(Utterance) /\ l \o m \in Seq(Utterance)
      /\ DOMAIN l = 1 .. Len(l) /\ DOMAIN m = 1 .. Len(m) /\ Len(l) \in Nat /\ Len(m) \in Nat
      /\ DOMAIN (l \o m) = 1 .. Len(l) + Len(m)
      /\ \A i \in 1 .. Len(l) + Len(m) : (l \o m)[i] = IF i =< Len(l) THEN l[i] ELSE m[i - Len(l)]
  BY DEF IsValid
<1>2. ASSUME NEW i \in 1 .. Len(l) + Len(m) PROVE ValidUtterance((l \o m)[i])
  <2>1. CASE i =< Len(l)
    BY <1>1, <2>1 DEF IsValid, AllValid
  <2>2. CASE ~(i =< Len(l))
    <3>1. i - Len(l) \in DOMAIN m
      BY <1>1, <2>2
    <3> QED BY <1>1, <2>2, <3>1 DEF IsValid, AllValid
  <2> QED BY <2>1, <2>2
<1> QED
  BY <1>1, <1>2 DEF IsValid, AllValid

\* Every transcript the runs look at is a log of valid utterances.
LEMMA TranscriptsAreValid == \A log \in Transcripts : IsValid(log)
<1>1. \A l \in {<<>>} : IsGrown(l)
  BY DEF IsGrown, Ongoing, WellKeptFrom
<1>2. (\A l \in Short : IsGrown(l)) /\ \A l \in Interviews : IsGrown(l)
  <2> DEFINE A == {<<>>}
             B == Grown(A)
             C == Grown(Short)
  <2>1. Short = Grown(B) /\ Interviews = Grown(C)
    BY DEF Short, Interviews
  <2> HIDE DEF A
  <2>2. \A l \in B : IsGrown(l)
    BY <1>1, GrownIsGrown DEF A
  <2> HIDE DEF B
  <2>3. \A l \in Short : IsGrown(l)
    BY <2>1, <2>2, GrownIsGrown
  <2>4. \A l \in C : IsGrown(l)
    BY <2>3, GrownIsGrown
  <2> HIDE DEF C
  <2> QED BY <2>1, <2>3, <2>4, GrownIsGrown
<1>3. \A l : IsGrown(l) => IsValid(l)
  BY DEF IsGrown, IsValid, Ongoing, WellKeptFrom, AllValid
<1>4. \A m \in Restored : IsValid(m)
  <2> DEFINE Pushed == {l \o m : l, m \in Short}
             Logs   == Interviews \cup Pushed
  <2>1. \A l \in Pushed : IsValid(l)
    <3>1. SUFFICES ASSUME NEW p \in Pushed PROVE IsValid(p)
      OBVIOUS
    <3>2. PICK l \in Short, m \in Short : p = l \o m
      OBVIOUS
    <3>3. IsValid(l) /\ IsValid(m)
      BY <1>2, <1>3
    <3>4. IsValid(l \o m)
      BY ONLY <3>3, PushedIsValid
    <3> QED BY ONLY <3>2, <3>4
  <2> HIDE DEF Pushed
  <2>2. \A l \in Logs : IsValid(l)
    BY <1>2, <1>3, <2>1
  <2>3. Restored = Copies(Logs)
    BY DEF Restored, Pushed
  <2> HIDE DEF Logs
  <2> QED BY <2>2, <2>3, CopiesAreValid
<1>5. ASSUME NEW l \in Restored, NEW m \in Additions(l, NumberFloor(l))
      PROVE  IsValid(m)
  <2>1. l \in Seq(Utterance) /\ AllValid(l)
    BY <1>4 DEF IsValid
  <2>2. NumberFloor(l) \in Nat /\ Ongoing(l, NumberFloor(l), Len(l))
    BY <2>1, RestoredIsOngoing
  <2>3. m \in Seq(Utterance) /\ Ongoing(m, NumberFloor(l), Len(l))
    BY <2>1, <2>2, AdditionsKeepWell
  <2> QED BY <2>3 DEF IsValid, Ongoing, WellKeptFrom, AllValid
<1> QED
  BY <1>4, <1>5 DEF Transcripts

-----------------------------------------------------------------------------
(* What is saved of an answer. *)

\* The first elements of a sequence.
LEMMA FirstOfIs ==
    ASSUME NEW X, NEW s \in Seq(X), NEW n \in Nat
    PROVE  /\ FirstOf(s, n) \in Seq(X)
           /\ Len(FirstOf(s, n)) = IF n =< Len(s) THEN n ELSE Len(s)
           /\ \A k \in 1..Len(FirstOf(s, n)) : FirstOf(s, n)[k] = s[k]
<1> DEFINE m == IF n =< Len(s) THEN n ELSE Len(s)
<1>1. Len(s) \in Nat
  OBVIOUS
<1>2. Min({n, Len(s)}) = m
  <2>1. n \in Int /\ Len(s) \in Int
    OBVIOUS
  <2> QED BY <2>1, OfTwo
<1>3. m \in 0..Len(s)
  BY <1>1
<1>4. FirstOf(s, n) = SubSeq(s, 1, m)
  BY <1>2 DEF FirstOf
<1> HIDE DEF m
<1>5. \A k \in 1..m : s[k] \in X
  BY <1>3
<1>6. /\ SubSeq(s, 1, m) \in Seq(X)
      /\ Len(SubSeq(s, 1, m)) = IF 1 =< m THEN m - 1 + 1 ELSE 0
      /\ \A k \in 1 .. m - 1 + 1 : SubSeq(s, 1, m)[k] = s[1 + k - 1]
  <2>1. 1 \in Int /\ m \in Int
    BY <1>3
  <2> QED BY <1>5, <2>1, SubSeqProperties
<1>7. (IF 1 =< m THEN m - 1 + 1 ELSE 0) = m /\ m - 1 + 1 = m /\ \A k \in 1..m : 1 + k - 1 = k
  BY <1>3
<1>8. Len(FirstOf(s, n)) = m /\ FirstOf(s, n) \in Seq(X) /\ \A k \in 1..m : FirstOf(s, n)[k] = s[k]
  BY <1>4, <1>6, <1>7
<1> QED
  BY <1>8 DEF m

\* An evaluation within the rules.
Sane(e) ==
    /\ e \in Evaluated
    /\ ToSet(e.tags) \subseteq TextWeaknessTags
    /\ Len(e.tags) =< 3 /\ Len(e.tasks) =< 2
    /\ e.tags = <<>> => e.tasks = <<>>

LEMMA SanitizedIsSane ==
    ASSUME NEW e \in Evaluated
    PROVE  Sane(SanitizeEvaluation(e)) /\ SanitizeEvaluation(e).num = e.num
<1> DEFINE K == {k \in DOMAIN e.tags : e.tags[k] \in TextWeaknessTags}
           L == {k \in DOMAIN e.tasks : e.tasks[k] =< MaxTaskTitleLength}
           known == Kept(e.tags, K)
           short == Kept(e.tasks, L)
           tags  == FirstOf(known, MaxTagsPerAnswer)
           tasks == IF known = <<>> THEN <<>> ELSE FirstOf(short, MaxTasksPerAnswer)
<1>1. e.tags \in Seq(Nat) /\ e.tasks \in Seq(Nat)
  BY DEF Evaluated
<1>2. K \subseteq 1..Len(e.tags) /\ L \subseteq 1..Len(e.tasks)
  BY <1>1
<1>3. \A k \in K : e.tags[k] \in TextWeaknessTags
  OBVIOUS
<1>4. SanitizeEvaluation(e) = [e EXCEPT !.tags = tags, !.tasks = tasks]
  BY DEF SanitizeEvaluation
<1> HIDE DEF K, L
<1>5. known \in Seq(Nat) /\ \E order : IsKept(known, e.tags, K, order)
  BY <1>1, <1>2, KeptIsKept
<1>6. short \in Seq(Nat)
  BY <1>1, <1>2, KeptIsKept
<1> HIDE DEF known, short
<1>7. \A k \in 1..Len(known) : known[k] \in TextWeaknessTags
  <2>1. PICK order : IsKept(known, e.tags, K, order)
    BY <1>5
  <2>2. order \in Seq(K) /\ Len(known) = Len(order)
        /\ \A k \in 1..Len(order) : known[k] = e.tags[order[k]]
    BY <2>1 DEF IsKept, IsOrdered
  <2>3. \A k \in 1..Len(order) : order[k] \in K
    BY <2>2
  <2> QED BY <1>3, <2>2, <2>3
<1>8. /\ tags \in Seq(Nat)
      /\ Len(tags) = IF 3 =< Len(known) THEN 3 ELSE Len(known)
      /\ \A k \in 1..Len(tags) : tags[k] = known[k]
  <2>1. 3 \in Nat
    OBVIOUS
  <2> QED BY <1>5, <2>1, FirstOfIs DEF MaxTagsPerAnswer
<1>9. tasks \in Seq(Nat) /\ Len(tasks) =< 2
  <2> DEFINE x == FirstOf(short, 2)
  <2>1. 2 \in Nat /\ <<>> \in Seq(Nat) /\ Len(<<>>) = 0
    OBVIOUS
  <2>2. x \in Seq(Nat) /\ Len(x) = IF 2 =< Len(short) THEN 2 ELSE Len(short)
    BY <1>6, <2>1, FirstOfIs
  <2>3. Len(short) \in Nat
    BY <1>6
  <2>4. tasks = <<>> \/ tasks = x
    BY DEF MaxTasksPerAnswer
  <2> HIDE DEF x, tasks
  <2>5. Len(x) =< 2
    BY <2>2, <2>3
  <2>6. CASE tasks = <<>>
    BY <2>6
  <2>7. CASE tasks = x
    BY <2>2, <2>5, <2>7
  <2> QED BY <2>4, <2>6, <2>7
<1> HIDE DEF tags
<1>10. Len(tags) =< 3 /\ \A k \in 1..Len(tags) : tags[k] \in TextWeaknessTags
  <2>1. Len(known) \in Nat
    BY <1>5
  <2>2. \A k \in 1..Len(tags) : k \in 1..Len(known)
    BY <1>8, <2>1
  <2> QED BY <1>7, <1>8, <2>1, <2>2
<1>11. ToSet(tags) \subseteq TextWeaknessTags
  <2>1. tags \in Seq(Nat)
    BY <1>8
  <2>2. DOMAIN tags = 1..Len(tags)
    BY ONLY <2>1
  <2> QED BY <1>10, <2>2 DEF ToSet
<1>12. tags = <<>> => tasks = <<>>
  <2>1. tags = <<>> => Len(tags) = 0
    BY <1>8
  <2>2. Len(tags) = 0 => Len(known) = 0
    BY <1>5, <1>8
  <2>3. Len(known) = 0 => known = <<>>
    BY <1>5
  <2> QED BY <2>1, <2>2, <2>3
<1> HIDE DEF tasks
<1> DEFINE s == [e EXCEPT !.tags = tags, !.tasks = tasks]
<1>13. s \in Evaluated /\ s.tags = tags /\ s.tasks = tasks /\ s.num = e.num
  BY <1>8, <1>9 DEF Evaluated
<1> HIDE DEF s
<1>14. Sane(s)
  BY <1>9, <1>10, <1>11, <1>12, <1>13 DEF Sane
<1> QED
  BY <1>4, <1>13, <1>14 DEF s

\* A result is refused, or has an evaluation for each pair of the topic, of that pair.
IsResultOf(result, topic) ==
    /\ result \in Seq(Evaluated) /\ Len(result) = Len(topic)
    /\ \A k \in 1..Len(topic) : Sane(result[k]) /\ result[k].num = topic[k].num

\* The answer echoes the topic.
Echoes(raw, topic) == [k \in DOMAIN raw |-> raw[k].num] = [k \in DOMAIN topic |-> topic[k].num]

LEMMA ValidatedIsOfTopic ==
    ASSUME NEW raw \in Seq(Evaluated), NEW topic \in Seq(QA), topic # <<>>
    PROVE  /\ ~Echoes(raw, topic) => ValidatedTopicResult(raw, topic) = <<>>
           /\ Echoes(raw, topic) => /\ IsResultOf(ValidatedTopicResult(raw, topic), topic)
                                    /\ ValidatedTopicResult(raw, topic) # <<>>
<1> DEFINE result == ValidatedTopicResult(raw, topic)
           n == Len(raw)
<1>1. ~Echoes(raw, topic) => result = <<>>
  BY DEF Echoes, ValidatedTopicResult
<1>2. CASE Echoes(raw, topic)
  <2>1. n \in Nat /\ DOMAIN raw = 1..n /\ \A k \in 1..n : raw[k] \in Evaluated
    OBVIOUS
  <2>2. Len(topic) \in Nat /\ DOMAIN topic = 1..Len(topic)
    OBVIOUS
  <2>3. DOMAIN raw = DOMAIN topic /\ \A k \in DOMAIN raw : raw[k].num = topic[k].num
    <3> DEFINE f == [k \in DOMAIN raw |-> raw[k].num]
               g == [k \in DOMAIN topic |-> topic[k].num]
    <3>1. f = g
      BY <1>2 DEF Echoes
    <3>2. DOMAIN f = DOMAIN raw /\ DOMAIN g = DOMAIN topic
      OBVIOUS
    <3>3. \A k \in DOMAIN raw : f[k] = raw[k].num
      OBVIOUS
    <3>4. \A k \in DOMAIN topic : g[k] = topic[k].num
      OBVIOUS
    <3> HIDE DEF f, g
    <3> QED BY <3>1, <3>2, <3>3, <3>4
  <2>4. n = Len(topic)
    <3> DEFINE m == Len(topic)
    <3>1. 1..n = 1..m /\ n \in Nat /\ m \in Nat
      BY <2>1, <2>2, <2>3
    <3> HIDE DEF n, m
    <3>2. n # 0 => n \in 1..m
      BY <3>1
    <3>3. m # 0 => m \in 1..n
      BY <3>1
    <3>4. n = m
      BY <3>1, <3>2, <3>3
    <3> QED BY <3>4 DEF m
  <2>5. result = [k \in 1..n |-> SanitizeEvaluation(raw[k])]
    BY <1>2, <2>1 DEF Echoes, ValidatedTopicResult
  <2>6. \A k \in 1..n : Sane(SanitizeEvaluation(raw[k])) /\ SanitizeEvaluation(raw[k]).num = raw[k].num
    BY <2>1, SanitizedIsSane
  <2>7. \A k \in 1..n : SanitizeEvaluation(raw[k]) \in Evaluated
    BY <2>6 DEF Sane
  <2>8. result \in Seq(Evaluated) /\ Len(result) = n
    <3> DEFINE F(k) == SanitizeEvaluation(raw[k])
    <3>1. result = [k \in 1..n |-> F(k)] /\ \A k \in 1..n : F(k) \in Evaluated
      BY <2>5, <2>7
    <3> HIDE DEF F, n, result
    <3>2. result \in [1..n -> Evaluated]
      BY <3>1
    <3> QED BY <2>1, <3>2, FunctionIsSeq
  <2> HIDE DEF result
  <2>9. IsResultOf(result, topic)
    BY <2>1, <2>3, <2>4, <2>5, <2>6, <2>8 DEF IsResultOf
  <2>10. result # <<>>
    <3>1. Len(topic) # 0
      BY <2>2
    <3> QED BY <2>4, <2>8, <3>1
  <2> QED BY <1>2, <2>9, <2>10 DEF result
<1> QED
  BY <1>1, <1>2

-----------------------------------------------------------------------------
(* The evaluations of the topics. *)

\* An answer with its evaluation.
Answered == {r \in [qa : QA, evaluation : Evaluated] :
                Sane(r.evaluation) /\ r.evaluation.num = r.qa.num}

\* The evaluations are of these pairs, in their order.
Matches(answered, pairs) ==
    /\ Len(answered) = Len(pairs)
    /\ \A k \in 1..Len(pairs) : answered[k].qa = pairs[k]

LEMMA MatchesConcat ==
    ASSUME NEW X, NEW Y, NEW a \in Seq(X), NEW b \in Seq(Y), NEW c \in Seq(X), NEW d \in Seq(Y),
           Matches(a, b), Matches(c, d)
    PROVE  Matches(a \o c, b \o d)
<1> DEFINE m == Len(b)
           n == Len(d)
           u == a \o c
           v == b \o d
<1>1. m \in Nat /\ n \in Nat /\ Len(a) = m /\ Len(c) = n
  BY DEF Matches
<1>2. /\ Len(u) = m + n
      /\ \A k \in 1 .. m + n : u[k] = IF k =< m THEN a[k] ELSE c[k - m]
  <2>1. /\ Len(u) = Len(a) + Len(c)
        /\ \A k \in 1 .. Len(a) + Len(c) : u[k] = IF k =< Len(a) THEN a[k] ELSE c[k - Len(a)]
    OBVIOUS
  <2> HIDE DEF u, m, n
  <2> QED BY <1>1, <2>1
<1>3. /\ Len(v) = m + n
      /\ \A k \in 1 .. m + n : v[k] = IF k =< m THEN b[k] ELSE d[k - m]
  BY <1>1
<1>4. \A k \in 1 .. m + n : (k =< m /\ k \in 1..m) \/ (~(k =< m) /\ k - m \in 1..n)
  BY <1>1
<1>5. \A k \in 1..m : a[k].qa = b[k]
  BY DEF Matches
<1>6. \A k \in 1..n : c[k].qa = d[k]
  BY DEF Matches
<1> HIDE DEF u, v, m, n
<1>7. \A k \in 1 .. m + n : u[k].qa = v[k]
  BY <1>2, <1>3, <1>4, <1>5, <1>6
<1>8. Matches(u, v)
  BY <1>2, <1>3, <1>7 DEF Matches
<1> QED
  BY <1>8 DEF u, v

\* Put together they still match.
LEMMA FlattenMatches ==
    ASSUME NEW X, NEW Y, NEW xs \in Seq(Seq(X)), NEW ys \in Seq(Seq(Y)), Len(xs) = Len(ys),
           \A t \in 1..Len(ys) : Matches(xs[t], ys[t])
    PROVE  Matches(FlattenSeq(xs), FlattenSeq(ys))
<1> DEFINE n == Len(ys)
           U == Seq(X)
           V == Seq(Y)
<1>1. n \in Nat /\ Len(xs) = n /\ \A t \in 1..n : xs[t] \in Seq(X) /\ ys[t] \in Seq(Y)
  <2>1. xs \in Seq(U)
    OBVIOUS
  <2>2. ys \in Seq(V)
    OBVIOUS
  <2> HIDE DEF U, V
  <2>3. \A t \in 1..Len(xs) : xs[t] \in U
    BY ONLY <2>1
  <2>4. n \in Nat /\ \A t \in 1..n : ys[t] \in V
    BY ONLY <2>2
  <2> QED BY <2>3, <2>4 DEF U, V
<1>2. PICK g : /\ g \in [0..Len(xs) -> Seq(X)] /\ g[0] = <<>>
               /\ \A i \in 1..Len(xs) : g[i] = g[i - 1] \o xs[i]
               /\ FlattenSeq(xs) = g[Len(xs)]
  BY FlattenPrefixes
<1>3. PICK h : /\ h \in [0..Len(ys) -> Seq(Y)] /\ h[0] = <<>>
               /\ \A i \in 1..Len(ys) : h[i] = h[i - 1] \o ys[i]
               /\ FlattenSeq(ys) = h[Len(ys)]
  BY FlattenPrefixes
<1> DEFINE S == {i \in 0..n : Matches(g[i], h[i])}
<1>4. 0 \in S
  <2>1. Matches(<<>>, <<>>)
    BY DEF Matches
  <2> QED BY <1>1, <1>2, <1>3, <2>1
<1>5. ASSUME NEW i \in 1..n, i - 1 \in S PROVE i \in S
  <2>1. /\ i - 1 \in 0..n /\ i \in 0..n
        /\ g[i - 1] \in Seq(X) /\ h[i - 1] \in Seq(Y) /\ Matches(g[i - 1], h[i - 1])
        /\ xs[i] \in Seq(X) /\ ys[i] \in Seq(Y) /\ Matches(xs[i], ys[i])
    <3>1. i - 1 \in 0..n /\ i \in 0..n /\ Matches(g[i - 1], h[i - 1]) /\ Matches(xs[i], ys[i])
      <4>1. i - 1 \in 0..n /\ i \in 0..n
        BY ONLY <1>1, i \in 1..n
      <4> QED BY <1>5, <4>1, Zenon
    <3>2. g \in [0..n -> U] /\ h \in [0..n -> V]
      BY <1>1, <1>2, <1>3
    <3> HIDE DEF U, V, n
    <3>3. g[i - 1] \in U /\ h[i - 1] \in V
      BY <3>1, <3>2
    <3> QED BY <1>1, <3>1, <3>3 DEF U, V
  <2>2. g[i] = g[i - 1] \o xs[i] /\ h[i] = h[i - 1] \o ys[i]
    BY <1>1, <1>2, <1>3
  <2>3. Matches(g[i - 1] \o xs[i], h[i - 1] \o ys[i])
    <3> HIDE DEF S, n
    <3> QED BY <2>1, MatchesConcat
  <2> QED BY <2>1, <2>2, <2>3
<1>6. \A i \in 0..n : i \in S
  <2> HIDE DEF S, n
  <2> QED BY <1>1, <1>4, <1>5, PrefixInduction
<1>7. n \in S
  BY <1>1, <1>6
<1> QED
  BY <1>1, <1>2, <1>3, <1>7

\* The results of the topics, and what one adds.
ResultsOf(topics, answers) ==
    [t \in DOMAIN topics |-> ValidatedTopicResult(answers[t], topics[t])]

Zipped(topic, result) ==
    [k \in 1 .. Min({Len(topic), Len(result)}) |-> [qa |-> topic[k], evaluation |-> result[k]]]

LEMMA ZippedIs ==
    ASSUME NEW topic \in Seq(QA), NEW result, IsResultOf(result, topic)
    PROVE  Zipped(topic, result) \in Seq(Answered) /\ Matches(Zipped(topic, result), topic)
<1> DEFINE n == Len(topic)
           F(k) == [qa |-> topic[k], evaluation |-> result[k]]
           z == Zipped(topic, result)
<1>1. n \in Nat /\ Len(result) = n /\ \A k \in 1..n : topic[k] \in QA
  BY DEF IsResultOf
<1>2. Min({n, Len(result)}) = n
  <2>1. n \in Int
    BY <1>1
  <2> QED BY <1>1, <2>1, OfTwo
<1>3. z = [k \in 1..n |-> F(k)]
  BY <1>2 DEF Zipped
<1>4. ASSUME NEW k \in 1..n PROVE F(k) \in Answered
  <2>1. /\ result[k] \in Evaluated /\ Sane(result[k]) /\ result[k].num = topic[k].num
        /\ topic[k] \in QA
    BY <1>1 DEF IsResultOf, Sane
  <2>2. F(k) \in [qa : QA, evaluation : Evaluated] /\ F(k).qa = topic[k] /\ F(k).evaluation = result[k]
    BY <2>1
  <2> HIDE DEF F
  <2> QED BY <2>1, <2>2 DEF Answered
<1>5. \A k \in 1..n : F(k).qa = topic[k]
  OBVIOUS
<1>6. z \in Seq(Answered) /\ Len(z) = n
  <2>1. z \in [1..n -> Answered]
    BY <1>3, <1>4
  <2> HIDE DEF n, z
  <2> QED BY <1>1, <2>1, FunctionIsSeq
<1>7. \A k \in 1..n : z[k] = F(k)
  BY <1>3
<1> HIDE DEF z, F
<1>8. Matches(z, topic)
  BY <1>5, <1>6, <1>7 DEF Matches
<1> QED
  BY <1>6, <1>8 DEF z

\* What the LLM says of the topics.
AreAnswers(answers, topics) == \A t \in DOMAIN topics : answers[t] \in Seq(Evaluated)

\* Either some answer does not echo its topic and nothing is evaluated, or the
\* evaluations match what was sent.
LEMMA EvaluateAllIs ==
    ASSUME NEW pairs \in Seq(QA), Rising(pairs), NEW answers,
           AreAnswers(answers, GroupTopics(pairs))
    PROVE  /\ (\A t \in DOMAIN GroupTopics(pairs) : Echoes(answers[t], GroupTopics(pairs)[t]))
                 => /\ EvaluateAll(pairs, answers) \in Seq(Answered)
                    /\ Matches(EvaluateAll(pairs, answers), FlattenSeq(GroupTopics(pairs)))
           /\ (\E t \in DOMAIN GroupTopics(pairs) : ~Echoes(answers[t], GroupTopics(pairs)[t]))
                 => EvaluateAll(pairs, answers) = <<>>
<1> DEFINE topics == GroupTopics(pairs)
           results == ResultsOf(topics, answers)
           zip == [t \in DOMAIN topics |->
                      [k \in 1 .. Min({Len(topics[t]), Len(results[t])}) |->
                          [qa |-> topics[t][k], evaluation |-> results[t][k]]]]
           all == EvaluateAll(pairs, answers)
           n == Len(topics)
<1>1. all = IF \E t \in DOMAIN topics : results[t] = <<>> THEN <<>> ELSE FlattenSeq(zip)
  BY DEF EvaluateAll, ResultsOf
<1>2. PICK parents : AreTopics(topics, pairs, parents)
  BY GroupTopicsIs
<1>3. AreAnswers(answers, topics)
  OBVIOUS
<1> HIDE DEF topics
<1>4. /\ topics \in Seq(Seq(QA)) /\ n \in Nat /\ DOMAIN topics = 1..n
      /\ \A t \in 1..n : topics[t] \in Seq(QA) /\ topics[t] # <<>>
  <2>1. /\ topics \in Seq(Seq(QA)) /\ parents \in Seq(Nat) /\ Len(topics) = Len(parents)
        /\ \A t \in DOMAIN parents : IsTopic(topics[t], pairs, parents[t])
    BY <1>2 DEF AreTopics
  <2>2. n \in Nat /\ DOMAIN topics = 1..n /\ DOMAIN parents = 1..n
    BY <2>1
  <2> HIDE DEF n
  <2> QED BY <2>1, <2>2 DEF IsTopic
<1>5. ASSUME NEW t \in 1..n
      PROVE  /\ ~Echoes(answers[t], topics[t]) => results[t] = <<>>
             /\ Echoes(answers[t], topics[t]) => IsResultOf(results[t], topics[t]) /\ results[t] # <<>>
  <2>1. answers[t] \in Seq(Evaluated)
    BY <1>3, <1>4 DEF AreAnswers
  <2>2. results[t] = ValidatedTopicResult(answers[t], topics[t])
    BY <1>4 DEF ResultsOf
  <2> HIDE DEF results
  <2> QED BY <1>4, <2>1, <2>2, ValidatedIsOfTopic
<1>6. zip = [t \in 1..n |-> Zipped(topics[t], results[t])]
  BY <1>4 DEF Zipped
<1> HIDE DEF results, zip, all
<1>7. ASSUME \A t \in 1..n : Echoes(answers[t], topics[t])
      PROVE  all \in Seq(Answered) /\ Matches(all, FlattenSeq(topics))
  <2>1. all = FlattenSeq(zip)
    BY <1>1, <1>4, <1>5, <1>7
  <2>2. \A t \in 1..n : /\ Zipped(topics[t], results[t]) \in Seq(Answered)
                        /\ Matches(Zipped(topics[t], results[t]), topics[t])
    BY <1>4, <1>5, <1>7, ZippedIs
  <2>3. zip \in Seq(Seq(Answered)) /\ Len(zip) = n
    <3> DEFINE X == Seq(Answered)
    <3>1. zip \in [1..n -> X]
      BY <1>6, <2>2
    <3> HIDE DEF X, n
    <3>2. zip \in Seq(X) /\ Len(zip) = n
      BY <1>4, <3>1, FunctionIsSeq
    <3> QED BY <3>2 DEF X
  <2>4. \A t \in 1..n : Matches(zip[t], topics[t])
    BY <1>6, <2>2
  <2>5. FlattenSeq(zip) \in Seq(Answered)
    BY <2>3, FlattenType
  <2>6. Matches(FlattenSeq(zip), FlattenSeq(topics))
    BY <1>4, <2>3, <2>4, FlattenMatches
  <2> QED BY <2>1, <2>5, <2>6
<1>8. ASSUME NEW t \in 1..n, ~Echoes(answers[t], topics[t]) PROVE all = <<>>
  BY <1>1, <1>4, <1>5, <1>8
<1> QED
  BY <1>4, <1>7, <1>8 DEF all, topics

-----------------------------------------------------------------------------
(* The score and the summary. *)

\* A sum of numbers between two bounds.
LEMMA SumBounds ==
    ASSUME NEW s \in Seq(Int), NEW lo \in Int, NEW hi \in Int,
           \A k \in 1..Len(s) : lo =< s[k] /\ s[k] =< hi
    PROVE  /\ SumOf(s) \in Int
           /\ Len(s) * lo =< SumOf(s) /\ SumOf(s) =< Len(s) * hi
<1> DEFINE n == Len(s)
<1>1. n \in Nat /\ \A k \in 1..n : s[k] \in Int
  OBVIOUS
<1>2. PICK h \in [0..n -> Int] :
          /\ h[0] = 0
          /\ \A i \in 1..n : h[i] = h[i - 1] + s[i]
          /\ SumOf(s) = h[n]
  BY SumPrefixes
<1> DEFINE S == {i \in 0..n : i * lo =< h[i] /\ h[i] =< i * hi}
<1>3. 0 \in S
  BY <1>1, <1>2
<1>4. ASSUME NEW i \in 1..n, i - 1 \in S PROVE i \in S
  <2>1. i \in 0..n /\ i \in Int /\ (i - 1) * lo =< h[i - 1] /\ h[i - 1] =< (i - 1) * hi
    BY <1>1, <1>4
  <2>2. h[i] = h[i - 1] + s[i] /\ h[i - 1] \in Int /\ s[i] \in Int /\ lo =< s[i] /\ s[i] =< hi
    BY <1>1, <1>2, <1>4
  <2>3. (i - 1) * lo = i * lo - lo /\ (i - 1) * hi = i * hi - hi /\ i * lo \in Int /\ i * hi \in Int
    <3>1. i \in Int /\ lo \in Int /\ hi \in Int
      BY <2>1
    <3>2. i * lo \in Int /\ i * hi \in Int
      BY ONLY <3>1
    <3>3. (i - 1) * lo = i * lo - lo
      BY ONLY <3>1, SMTT(30)
    <3>4. (i - 1) * hi = i * hi - hi
      BY ONLY <3>1, SMTT(30)
    <3> QED BY <3>2, <3>3, <3>4
  <2>4. i * lo =< h[i] /\ h[i] =< i * hi
    <3> DEFINE a == i * lo
               b == i * hi
    <3>1. a - lo =< h[i - 1] /\ h[i - 1] =< b - hi /\ a \in Int /\ b \in Int
      BY <2>1, <2>3
    <3> HIDE DEF a, b
    <3>2. a =< h[i] /\ h[i] =< b
      BY <2>2, <3>1
    <3> QED BY <3>2 DEF a, b
  <2> QED BY <2>1, <2>4
<1>5. \A i \in 0..n : i \in S
  <2> HIDE DEF S, n
  <2> QED BY <1>1, <1>3, <1>4, PrefixInduction
<1>6. n \in S
  BY <1>1, <1>5
<1> QED
  BY <1>1, <1>2, <1>6

\* Half up, a mean is between the least and the greatest.
LEMMA RoundMeanIsBetween ==
    ASSUME NEW s \in Seq(Int), s # <<>>, NEW lo \in Int, NEW hi \in Int,
           \A k \in 1..Len(s) : lo =< s[k] /\ s[k] =< hi
    PROVE  lo =< RoundMean(s) /\ RoundMean(s) =< hi
<1> DEFINE n == Len(s)
           S == SumOf(s)
           a == 2 * S + n
           b == 2 * n
           q == a \div b
<1>1. n \in Nat /\ n >= 1
  OBVIOUS
<1>2. S \in Int /\ n * lo =< S /\ S =< n * hi
  BY SumBounds
<1>3. RoundMean(s) = q
  BY DEF RoundMean, SumOf
<1> HIDE DEF n, S
<1>4. a \in Int /\ b \in Nat \ {0}
  BY <1>1, <1>2
<1>5. a % b \in 0 .. b - 1 /\ q \in Int /\ a = b * q + (a % b)
  <2> HIDE DEF a, b
  <2> QED BY <1>4, DivMod
<1> HIDE DEF q
<1>6. b * q =< a /\ a < b * q + b
  <2> DEFINE r == a % b
             p == b * q
  <2>1. p \in Int
    BY <1>4, <1>5
  <2>2. r \in 0 .. b - 1 /\ a = p + r
    BY <1>5
  <2> HIDE DEF r, p
  <2>3. p =< a /\ a < p + b
    BY <1>4, <2>1, <2>2
  <2> QED BY <2>3 DEF p
<1>7. lo =< q
  <2> SUFFICES ASSUME q + 1 =< lo PROVE FALSE
    BY <1>5
  <2>1. n * (q + 1) =< n * lo
    BY <1>1, <1>5
  <2>2. b * q + b = 2 * (n * (q + 1))
    BY <1>1, <1>5
  <2>3. n * lo \in Int /\ n * (q + 1) \in Int
    BY <1>1, <1>5
  <2> QED BY <1>1, <1>2, <1>6, <2>1, <2>2, <2>3
<1>8. q =< hi
  <2> SUFFICES ASSUME hi + 1 =< q PROVE FALSE
    BY <1>5
  <2>1. n * (hi + 1) =< n * q
    BY <1>1, <1>5
  <2>2. b * q = 2 * (n * q) /\ n * (hi + 1) = n * hi + n
    BY <1>1, <1>5
  <2>3. n * hi \in Int /\ n * q \in Int
    BY <1>1, <1>5
  <2> QED BY <1>1, <1>2, <1>6, <2>1, <2>2, <2>3
<1> QED
  BY <1>3, <1>7, <1>8

\* The score.
LEMMA ScoreIsBetween ==
    ASSUME NEW answered \in Seq(Answered), answered # <<>>
    PROVE  LET scores == {answered[k].evaluation.score : k \in DOMAIN answered} IN
           Min(scores) =< AggregateScore(answered) /\ AggregateScore(answered) =< Max(scores)
<1> DEFINE n == Len(answered)
           s == [k \in DOMAIN answered |-> answered[k].evaluation.score]
           scores == {answered[k].evaluation.score : k \in DOMAIN answered}
<1>1. n \in Nat /\ n # 0 /\ DOMAIN answered = 1..n /\ \A k \in 1..n : answered[k] \in Answered
  OBVIOUS
<1>2. \A k \in 1..n : answered[k].evaluation.score \in 0..100
  BY <1>1 DEF Answered, Evaluated
<1>3. scores \subseteq 0..100 /\ scores # {}
  <2>1. 1 \in DOMAIN answered
    BY <1>1
  <2> QED BY <1>1, <1>2, <2>1
<1>4. Min(scores) \in scores /\ \A x \in scores : Min(scores) =< x
  <2> HIDE DEF scores
  <2>1. scores \subseteq Nat
    <3>1. 0..100 \subseteq Nat
      OBVIOUS
    <3> QED BY ONLY <1>3, <3>1, Zenon
  <2> QED BY <1>3, <2>1, MinIsLeast
<1>5. Max(scores) \in scores /\ \A x \in scores : x =< Max(scores)
  <2> HIDE DEF scores
  <2>1. 100 \in Nat
    OBVIOUS
  <2> QED BY <1>3, <2>1, MaxIsGreatest
<1>6. s \in Seq(Int) /\ Len(s) = n
  <2>1. \A k \in 1..n : answered[k].evaluation.score \in Int
    <3>1. 0..100 \subseteq Int
      OBVIOUS
    <3> QED BY ONLY <1>2, <3>1, Zenon
  <2>2. s \in [1..n -> Int]
    BY <1>1, <2>1
  <2> HIDE DEF s, n
  <2> QED BY <1>1, <2>2, FunctionIsSeq
<1>7. \A k \in 1..n : s[k] \in scores
  BY <1>1
<1>8. AggregateScore(answered) = RoundMean(s)
  BY DEF AggregateScore
<1> HIDE DEF s, scores
<1>9. s # <<>>
  BY <1>1, <1>6
<1>10. Min(scores) \in Int /\ Max(scores) \in Int
  <2>1. \A x \in scores : x \in Int
    BY <1>3
  <2> QED BY <1>4, <1>5, <2>1
<1>11. \A k \in 1..Len(s) : Min(scores) =< s[k] /\ s[k] =< Max(scores)
  BY <1>4, <1>5, <1>6, <1>7
<1>12. Min(scores) =< RoundMean(s) /\ RoundMean(s) =< Max(scores)
  BY <1>6, <1>9, <1>10, <1>11, RoundMeanIsBetween
<1> QED
  BY <1>8, <1>12 DEF scores

\* How often a tag is given: never, for one that is in no evaluation.
LEMMA FrequencyIs ==
    ASSUME NEW answered \in Seq(Answered), NEW tag
    PROVE  /\ Frequency(answered, tag) \in Nat
           /\ (\A k \in DOMAIN answered : tag \notin ToSet(answered[k].evaluation.tags))
                 => Frequency(answered, tag) = 0
<1> DEFINE n == Len(answered)
           times(tags) == Cardinality({j \in DOMAIN tags : tags[j] = tag})
           s == [k \in DOMAIN answered |-> times(answered[k].evaluation.tags)]
<1>1. n \in Nat /\ DOMAIN answered = 1..n /\ \A k \in 1..n : answered[k] \in Answered
  OBVIOUS
<1>2. Frequency(answered, tag) = SumOf(s)
  BY DEF Frequency, SumOf
<1>3. ASSUME NEW tags \in Seq(Nat) PROVE times(tags) \in Nat /\ (tag \notin ToSet(tags) => times(tags) = 0)
  <2> DEFINE J == {j \in DOMAIN tags : tags[j] = tag}
  <2>1. Len(tags) \in Nat /\ J \subseteq 0..Len(tags)
    OBVIOUS
  <2>2. tag \notin ToSet(tags) => J = {}
    BY DEF ToSet
  <2> HIDE DEF J
  <2>3. IsFiniteSet(J)
    BY <2>1, BoundedIsFinite
  <2>4. Cardinality(J) \in Nat
    BY <2>3, FS_CardinalityType
  <2>5. J = {} => Cardinality(J) = 0
    BY FS_EmptySet
  <2> QED BY <2>2, <2>4, <2>5 DEF J
<1>4. \A k \in 1..n : answered[k].evaluation.tags \in Seq(Nat)
  BY <1>1 DEF Answered, Evaluated
<1>5. \A k \in 1..n : s[k] \in Nat
                      /\ (tag \notin ToSet(answered[k].evaluation.tags) => s[k] = 0)
  <2> HIDE DEF times
  <2> QED BY <1>1, <1>3, <1>4
<1>6. s \in Seq(Int) /\ Len(s) = n
  <2>1. s = [k \in 1..n |-> s[k]]
    BY <1>1
  <2> HIDE DEF s, n
  <2>2. s \in [1..n -> Int]
    BY <1>5, <2>1
  <2> QED BY <1>1, <2>2, FunctionIsSeq
<1> HIDE DEF s
<1>7. SumOf(s) >= 0
  <2> DEFINE t == [k \in 1..n |-> s[k]]
  <2>1. PICK h \in [0..Len(s) -> Int] :
              /\ h[0] = 0
              /\ \A i \in 1..Len(s) : h[i] = h[i - 1] + s[i]
              /\ SumOf(s) = h[Len(s)]
    BY <1>6, SumPrefixes
  <2> DEFINE S == {i \in 0..n : h[i] >= 0}
  <2>2. 0 \in S
    BY <1>1, <2>1
  <2>3. ASSUME NEW i \in 1..n, i - 1 \in S PROVE i \in S
    <3>1. i - 1 \in 0..n /\ i \in 0..n /\ h[i - 1] >= 0
      BY <1>1, <2>3
    <3>2. h[i] = h[i - 1] + s[i] /\ h[i - 1] \in Int
      BY <1>6, <2>1, <3>1
    <3>3. s[i] \in Nat
      BY <1>5
    <3> QED BY <3>1, <3>2, <3>3
  <2>4. \A i \in 0..n : i \in S
    <3> HIDE DEF S, n
    <3> QED BY <1>1, <2>2, <2>3, PrefixInduction
  <2> QED BY <1>1, <1>6, <2>1, <2>4
<1>8. ASSUME \A k \in 1..n : s[k] = 0 PROVE SumOf(s) = 0
  <2>1. 0 \in Int /\ \A k \in 1..Len(s) : 0 =< s[k] /\ s[k] =< 0
    BY <1>6, <1>8
  <2>2. SumOf(s) \in Int /\ Len(s) * 0 =< SumOf(s) /\ SumOf(s) =< Len(s) * 0
    BY <1>6, <2>1, SumBounds
  <2>3. Len(s) * 0 = 0
    BY <1>1, <1>6
  <2> QED BY <2>2, <2>3
<1>9. SumOf(s) \in Int
  <2>1. PICK h \in [0..Len(s) -> Int] : SumOf(s) = h[Len(s)]
    BY <1>6, SumPrefixes
  <2> QED BY <1>1, <1>6, <2>1
<1>10. (\A k \in DOMAIN answered : tag \notin ToSet(answered[k].evaluation.tags)) => SumOf(s) = 0
  BY <1>1, <1>5, <1>8
<1> QED
  BY <1>2, <1>7, <1>9, <1>10

\* No tag outside the summary is more frequent than one in it.
LEMMA SummaryHasTheMostFrequent ==
    ASSUME NEW answered \in Seq(Answered)
    PROVE  LET summary == AggregateTagSummary(answered) IN
           \A t \in TextWeaknessTags \ ToSet(summary), i \in DOMAIN summary :
              Frequency(answered, t) =< Frequency(answered, summary[i])
<1> DEFINE F(t) == Frequency(answered, t)
           T == UNION {ToSet(answered[k].evaluation.tags) : k \in DOMAIN answered}
           R == {p \in T \X T : \/ Frequency(answered, p[1]) > Frequency(answered, p[2])
                                \/ Frequency(answered, p[1]) = Frequency(answered, p[2]) /\ p[1] < p[2]}
           ranked == Ranked(T, R)
           summary == AggregateTagSummary(answered)
           n == Cardinality(T)
<1>1. summary = FirstOf(ranked, 3)
  BY DEF AggregateTagSummary
<1>2. T \subseteq 0..12
  <2>1. \A k \in DOMAIN answered : ToSet(answered[k].evaluation.tags) \subseteq 1..12
    <3>1. \A k \in DOMAIN answered : answered[k] \in Answered
      OBVIOUS
    <3> QED BY <3>1 DEF Answered, Sane, TextWeaknessTags
  <2>2. \A t \in T : t \in 1..12
    BY <2>1
  <2> HIDE DEF T
  <2> QED BY <2>2
<1>3. \A t : F(t) \in Nat /\ (t \notin T => F(t) = 0)
  <2> SUFFICES ASSUME NEW t PROVE F(t) \in Nat /\ (t \notin T => F(t) = 0)
    OBVIOUS
  <2>1. t \notin T => \A k \in DOMAIN answered : t \notin ToSet(answered[k].evaluation.tags)
    OBVIOUS
  <2> HIDE DEF T
  <2> QED BY <2>1, FrequencyIs
<1>4. \A x, y \in T : <<x, y>> \in R <=> F(x) > F(y) \/ (F(x) = F(y) /\ x < y)
  OBVIOUS
<1> HIDE DEF T, R, F, ranked, summary
<1>5. IsFiniteSet(T)
  <2>1. 12 \in Nat
    OBVIOUS
  <2> QED BY <1>2, <2>1, BoundedIsFinite
<1>6. Orders(R, T)
  <2>1. \A x \in T : x \in Int /\ F(x) \in Int
    BY <1>2, <1>3
  <2>2. \A x \in T : <<x, x>> \notin R
    BY <1>4, <2>1
  <2>3. \A x, y \in T : x = y \/ <<x, y>> \in R \/ <<y, x>> \in R
    <3> SUFFICES ASSUME NEW x \in T, NEW y \in T, x # y PROVE <<x, y>> \in R \/ <<y, x>> \in R
      OBVIOUS
    <3>1. x < y \/ y < x
      BY <2>1
    <3>2. F(x) > F(y) \/ F(x) = F(y) \/ F(y) > F(x)
      BY <2>1
    <3>3. <<x, y>> \in R <=> F(x) > F(y) \/ (F(x) = F(y) /\ x < y)
      BY <1>4
    <3>4. <<y, x>> \in R <=> F(y) > F(x) \/ (F(y) = F(x) /\ y < x)
      BY <1>4
    <3> QED BY <3>1, <3>2, <3>3, <3>4
  <2>4. \A x, y, z \in T : <<x, y>> \in R /\ <<y, z>> \in R => <<x, z>> \in R
    BY <1>4, <2>1
  <2> QED BY <2>2, <2>3, <2>4 DEF Orders
<1>7. IsRanking(ranked, T, R)
  BY <1>5, <1>6, RankedIsRanking DEF ranked
<1>8. /\ n \in Nat /\ ranked \in [1..n -> T]
      /\ \A x \in T : \E k \in 1..n : ranked[k] = x
      /\ \A i, j \in 1..n : i < j => <<ranked[i], ranked[j]>> \in R
  BY <1>7 DEF IsRanking
<1> HIDE DEF n
<1>9. ranked \in Seq(T) /\ Len(ranked) = n
  BY <1>8, FunctionIsSeq
<1>10. /\ summary \in Seq(T) /\ Len(summary) = IF 3 =< n THEN 3 ELSE n
       /\ \A k \in 1..Len(summary) : summary[k] = ranked[k]
  <2>1. 3 \in Nat
    OBVIOUS
  <2> QED BY <1>1, <1>9, <2>1, FirstOfIs
<1>11. DOMAIN summary = 1..Len(summary) /\ Len(summary) =< n /\ Len(summary) \in Nat
  <2>1. summary \in Seq(T)
    BY <1>10
  <2>2. DOMAIN summary = 1..Len(summary) /\ Len(summary) \in Nat
    BY ONLY <2>1
  <2>3. Len(summary) =< n
    BY <1>8, <1>10
  <2> QED BY <2>2, <2>3
<1>12. ASSUME NEW t, t \notin ToSet(summary), NEW i \in DOMAIN summary PROVE F(t) =< F(summary[i])
  <2>1. i \in 1..n /\ summary[i] = ranked[i] /\ ranked[i] \in T
    BY <1>8, <1>10, <1>11
  <2>2. F(t) \in Nat /\ F(ranked[i]) \in Nat
    BY <1>3
  <2>3. CASE t \in T
    <3>1. PICK j \in 1..n : ranked[j] = t
      BY <1>8, <2>3
    <3>2. ~(j \in 1..Len(summary))
      BY <1>10, <1>11, <1>12, <3>1 DEF ToSet
    <3>3. i < j
      BY <1>8, <1>11, <2>1, <3>2
    <3>4. <<ranked[i], t>> \in R
      BY <1>8, <2>1, <3>1, <3>3
    <3> QED BY <1>4, <2>1, <2>2, <2>3, <3>4
  <2>4. CASE t \notin T
    BY <1>3, <2>1, <2>2, <2>4
  <2> QED BY <2>3, <2>4
<1> QED
  BY <1>12 DEF F, summary

\* As many pairs are sent as there are.
LEMMA SentCounts ==
    ASSUME NEW pairs \in Seq(QA), Rising(pairs)
    PROVE  Len(FlattenSeq(GroupTopics(pairs))) = Len(pairs)
<1> DEFINE sent == FlattenSeq(GroupTopics(pairs))
<1>1. sent \in Seq(QA) /\ InterviewOrder(sent) /\ ToSet(sent) = ToSet(pairs)
  BY SentIsAll
<1> HIDE DEF sent
<1>2. Apart(sent) /\ Apart(pairs)
  BY <1>1, InOrderIsApart
<1>3. Cardinality(ToSet(sent)) = Len(sent) /\ Cardinality(ToSet(pairs)) = Len(pairs)
  BY <1>1, <1>2, ApartCounts
<1> QED
  BY <1>1, <1>3 DEF sent

\* Whatever the LLM says of the topics of any pairs, nothing is evaluated unless it
\* echoes every topic, and then every pair is, soundly (validated_topic_result,
\* _evaluate_all, aggregate_tag_summary, _round_mean).
THEOREM EvaluationsAreSound ==
    ASSUME NEW pairs \in Seq(QA), Rising(pairs), NEW answers,
           AreAnswers(answers, GroupTopics(pairs))
    PROVE  /\ EvaluateAll(pairs, answers) # <<>>
                 => SoundEvaluation(pairs, EvaluateAll(pairs, answers))
           /\ (\A t \in DOMAIN GroupTopics(pairs) : Echoes(answers[t], GroupTopics(pairs)[t]))
                 => Len(EvaluateAll(pairs, answers)) = Len(pairs)
<1> DEFINE topics == GroupTopics(pairs)
           sent == FlattenSeq(topics)
           evaluated == EvaluateAll(pairs, answers)
           echoed == \A t \in DOMAIN topics : Echoes(answers[t], topics[t])
<1>1. /\ echoed => evaluated \in Seq(Answered) /\ Matches(evaluated, sent)
      /\ ~echoed => evaluated = <<>>
  <2>1. /\ (\A t \in DOMAIN topics : Echoes(answers[t], topics[t]))
              => evaluated \in Seq(Answered) /\ Matches(evaluated, sent)
        /\ (\E t \in DOMAIN topics : ~Echoes(answers[t], topics[t])) => evaluated = <<>>
    BY EvaluateAllIs
  <2> HIDE DEF topics, sent, evaluated
  <2> QED BY <2>1
<1>2. sent \in Seq(QA) /\ ToSet(sent) = ToSet(pairs) /\ Len(sent) = Len(pairs)
  BY SentIsAll, SentCounts
<1> HIDE DEF topics, sent, evaluated, echoed
<1>3. echoed => Len(evaluated) = Len(pairs)
  BY <1>1, <1>2 DEF Matches
<1>4. ASSUME evaluated # <<>> PROVE SoundEvaluation(pairs, evaluated)
  <2>1. evaluated \in Seq(Answered) /\ Matches(evaluated, sent) /\ Len(evaluated) = Len(pairs)
    BY <1>1, <1>3, <1>4
  <2>2. /\ DOMAIN evaluated = 1..Len(sent) /\ DOMAIN sent = 1..Len(sent)
        /\ \A k \in DOMAIN evaluated : evaluated[k].qa = sent[k]
    BY <1>2, <2>1 DEF Matches
  <2>3. {evaluated[k].qa : k \in DOMAIN evaluated} = ToSet(pairs)
    BY <1>2, <2>2 DEF ToSet
  <2>4. \A k \in DOMAIN evaluated :
              LET e == evaluated[k].evaluation
              IN  /\ e.num = evaluated[k].qa.num
                  /\ ToSet(e.tags) \subseteq TextWeaknessTags
                  /\ Len(e.tags) =< 3 /\ Len(e.tasks) =< 2
                  /\ e.tags = <<>> => e.tasks = <<>>
    <3>1. \A k \in DOMAIN evaluated : evaluated[k] \in Answered
      BY <2>1
    <3> QED BY <3>1 DEF Answered, Sane
  <2>5. LET summary == AggregateTagSummary(evaluated) IN
        \A t \in TextWeaknessTags \ ToSet(summary), i \in DOMAIN summary :
              Frequency(evaluated, t) =< Frequency(evaluated, summary[i])
    BY <2>1, SummaryHasTheMostFrequent
  <2>6. LET scores == {evaluated[k].evaluation.score : k \in DOMAIN evaluated} IN
        Min(scores) =< AggregateScore(evaluated) /\ AggregateScore(evaluated) =< Max(scores)
    BY <1>4, <2>1, ScoreIsBetween
  <2> QED BY <2>1, <2>3, <2>4, <2>5, <2>6 DEF SoundEvaluation
<1> QED
  BY <1>3, <1>4 DEF topics, evaluated, echoed

-----------------------------------------------------------------------------
(* The runs' answers. *)

LEMMA EvaluationType ==
    ASSUME NEW n \in Nat
    PROVE  Evaluation(n) \in Evaluated /\ Evaluation(n).num = n
<1>1. (25 * (n - 1)) % 101 \in 0..100
  <2>1. 25 * (n - 1) \in Int /\ 101 \in Nat \ {0}
    OBVIOUS
  <2>2. (25 * (n - 1)) % 101 \in 0 .. (101 - 1)
    BY <2>1, DivMod
  <2> QED BY <2>2
<1>2. (IF n % 2 = 0 THEN <<0>> ELSE <<0, n, 12, 2, 5>>) \in Seq(Nat)
  OBVIOUS
<1>3. <<60, 10, 20, 30>> \in Seq(Nat)
  OBVIOUS
<1> QED
  BY <1>1, <1>2, <1>3 DEF Evaluation, Evaluated

LEMMA LLMType ==
    ASSUME NEW topic \in Seq(QA), topic # <<>>,
           NEW whim \in {"echo", "reorder", "omit", "invent"}
    PROVE  /\ LLM(whim, topic) \in Seq(Evaluated)
           /\ Echoes(LLM("echo", topic), topic)
<1> DEFINE echo == [k \in DOMAIN topic |-> Evaluation(topic[k].num)]
           n == Len(topic)
<1>1. n \in Nat /\ n # 0 /\ DOMAIN topic = 1..n /\ \A k \in 1..n : topic[k].num \in Nat
  <2>1. n \in Nat /\ n # 0 /\ DOMAIN topic = 1..n /\ \A k \in 1..n : topic[k] \in QA
    OBVIOUS
  <2> QED BY <2>1 DEF QA
<1>2. \A k \in 1..n : Evaluation(topic[k].num) \in Evaluated /\ Evaluation(topic[k].num).num = topic[k].num
  BY <1>1, EvaluationType
<1>3. echo \in Seq(Evaluated) /\ Len(echo) = n
  <2>1. echo \in [1..n -> Evaluated]
    BY <1>1, <1>2
  <2> HIDE DEF echo, n
  <2> QED BY <1>1, <2>1, FunctionIsSeq
<1>4. \A k \in DOMAIN topic : echo[k].num = topic[k].num
  BY <1>1, <1>2
<1> HIDE DEF echo
<1>5. LLM("echo", topic) = echo
  BY DEF LLM, echo
<1>6. Echoes(echo, topic)
  <2>1. DOMAIN echo = DOMAIN topic
    BY <1>1, <1>3
  <2> QED BY <1>4, <2>1 DEF Echoes
<1>7. Reverse(echo) \in Seq(Evaluated)
  <2> DEFINE F(i) == echo[(Len(echo) - i) + 1]
  <2>1. Reverse(echo) = [i \in 1..n |-> F(i)]
    BY <1>3 DEF Reverse
  <2>2. \A i \in 1..n : (n - i) + 1 \in 1..n
    BY <1>1
  <2>3. \A i \in 1..n : F(i) \in Evaluated
    <3>1. \A i \in 1..n : echo[i] \in Evaluated
      BY <1>3
    <3> QED BY <1>3, <2>2, <3>1
  <2> HIDE DEF F, n
  <2>4. Reverse(echo) \in [1..n -> Evaluated]
    BY <2>1, <2>3
  <2> QED BY <1>1, <2>4, FunctionIsSeq
<1>8. Front(echo) \in Seq(Evaluated)
  <2> DEFINE one == 1
             last == n - 1
  <2>1. one \in Int /\ last \in Int /\ \A i \in one..last : echo[i] \in Evaluated
    BY <1>1, <1>3
  <2>2. Front(echo) = SubSeq(echo, one, last)
    BY <1>3 DEF Front
  <2> HIDE DEF one, last
  <2> QED BY <2>1, <2>2, SubSeqProperties
<1>9. Evaluation(9) \in Evaluated
  BY EvaluationType
<1>10. Append(Front(echo), Evaluation(9)) \in Seq(Evaluated)
  BY <1>8, <1>9
<1>11. LLM(whim, topic) \in {echo, Reverse(echo), Front(echo), Append(Front(echo), Evaluation(9))}
  BY DEF LLM, echo
<1> QED
  BY <1>3, <1>5, <1>6, <1>7, <1>8, <1>10, <1>11

\* What the workers save of a text half is the evaluation of the interview.
THEOREM EvaluationHolds == Spec => []EvaluationIsOfTheInterview
<1>1. TopicsAreTheInterview
  <2>1. \A log \in Transcripts :
            log \in Seq(Utterance) /\ \A i \in DOMAIN log : ValidUtterance(log[i])
    BY TranscriptsAreValid DEF IsValid, AllValid
  <2> QED BY <2>1, TopicsAreSound DEF TopicsAreTheInterview
<1>2. AnswersAreEvaluated
  <2> SUFFICES ASSUME NEW log \in Transcripts, NEW whim \in {"echo", "reorder", "omit", "invent"}
               PROVE  LET pairs     == GroupUtterances(log)
                          topics    == GroupTopics(pairs)
                          evaluated == EvaluateAll(pairs, [t \in DOMAIN topics |-> LLM(whim, topics[t])])
                      IN  /\ whim = "echo" => Len(evaluated) = Len(pairs)
                          /\ evaluated # <<>> => SoundEvaluation(pairs, evaluated)
    BY DEF AnswersAreEvaluated
  <2> DEFINE pairs == GroupUtterances(log)
             topics == GroupTopics(pairs)
             answers == [t \in DOMAIN topics |-> LLM(whim, topics[t])]
             evaluated == EvaluateAll(pairs, answers)
  <2>1. log \in Seq(Utterance)
    BY TranscriptsAreValid DEF IsValid
  <2>2. pairs \in Seq(QA) /\ Rising(pairs)
    BY <2>1, GroupUtterancesIs
  <2> HIDE DEF pairs
  <2>3. PICK parents : AreTopics(topics, pairs, parents)
    BY <2>2, GroupTopicsIs
  <2>4. \A t \in DOMAIN topics : topics[t] \in Seq(QA) /\ topics[t] # <<>>
    <3>1. DOMAIN topics = DOMAIN parents
      <4> HIDE DEF topics
      <4>1. topics \in Seq(Seq(QA)) /\ parents \in Seq(Nat) /\ Len(topics) = Len(parents)
        BY <2>3 DEF AreTopics
      <4> QED BY <4>1
    <3> HIDE DEF topics
    <3> QED BY <2>3, <3>1 DEF AreTopics, IsTopic
  <2> HIDE DEF topics
  <2>5. \A t \in DOMAIN topics : /\ answers[t] \in Seq(Evaluated)
                                 /\ whim = "echo" => Echoes(answers[t], topics[t])
    BY <2>4, LLMType
  <2> HIDE DEF answers
  <2>6. AreAnswers(answers, topics)
    BY <2>5 DEF AreAnswers
  <2>7. /\ evaluated # <<>> => SoundEvaluation(pairs, evaluated)
        /\ (\A t \in DOMAIN topics : Echoes(answers[t], topics[t])) => Len(evaluated) = Len(pairs)
    BY <2>2, <2>6, EvaluationsAreSound DEF topics
  <2> QED BY <2>5, <2>7 DEF pairs, topics, answers
<1>3. EvaluationIsOfTheInterview
  BY <1>1, <1>2 DEF EvaluationIsOfTheInterview
<1> QED
  BY <1>3, PTL
=============================================================================
