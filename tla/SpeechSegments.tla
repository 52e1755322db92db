---------------------------- MODULE SpeechSegments ----------------------------
(***************************************************************************)
(* From a recording to the stretches in which the candidate speaks, and to *)
(* the pauses of the answers (worker/src/report/audio.py): what the        *)
(* delivery score counts.  Pure functions, as operators.                   *)
(*                                                                         *)
(* The probability of a window is abstracted to what the thresholds tell   *)
(* apart: "high" (at least VAD_THRESHOLD), "low" (below                    *)
(* VAD_NEG_THRESHOLD), "between".  Positions are samples at 16 kHz.  The   *)
(* filter, the network and the score are numbers and are left out.  p has  *)
(* the constants of the detector: window, minSpeech, minSilence and pad.   *)
(*                                                                         *)
(* A definition named X_Y is X with a mistake in it: what a property must  *)
(* be able to tell from X.  Nothing uses one.                              *)
(***************************************************************************)
EXTENDS SequencesExt, FiniteSetsExt, Integers

Levels == {"high", "between", "low"}

-----------------------------------------------------------------------------
\* _Resampler: the recording comes in blocks of any number of samples; every
\* step-th sample of the whole is taken, the phase is carried over the block's end.
Push(step, r, length) ==
    LET offsets == {k \in r.phase .. length - 1 : (k - r.phase) % step = 0}
    IN  [seen  |-> r.seen + length,
         taken |-> r.taken \cup {r.seen + k : k \in offsets},
         phase |-> (r.phase - length) % step]

Resampled(step, blocks) ==
    FoldLeft(LAMBDA r, length : Push(step, r, length),
             [seen |-> 0, taken |-> {}, phase |-> 0], blocks)

\* SileroVad.probabilities: whole windows are run, what is left over is carried, the
\* last one is filled up with silence.  Blocks and windows are numbers of samples.
RunWindows(window, v, length) ==
    LET waiting == v.carry + length
    IN  [carry |-> waiting % window, windows |-> v.windows + waiting \div window]

Windows(window, blocks) ==
    LET v == FoldLeft(LAMBDA acc, length : RunWindows(window, acc, length),
                      [carry |-> 0, windows |-> 0], blocks)
    IN  IF v.carry = 0 THEN v.windows ELSE v.windows + 1

-----------------------------------------------------------------------------
\* speech_segments, the loop over the windows: a speech starts at a high window and
\* ends at the first low one of a silence long enough.  end is temp_end, 0 for none.
Quiet == [speeches |-> <<>>, triggered |-> FALSE, start |-> 0, end |-> 0]

Low(p, s, cur) ==
    LET end == IF s.end = 0 THEN cur ELSE s.end
    IN  CASE cur - end < p.minSilence -> [s EXCEPT !.end = end]
          [] cur - end >= p.minSilence /\ end - s.start > p.minSpeech ->
                [Quiet EXCEPT !.speeches = Append(s.speeches, <<s.start, end>>)]
          [] OTHER -> [Quiet EXCEPT !.speeches = s.speeches]

Hear_KeepsEnd(p, s, level, cur) ==
    CASE level = "high" /\ ~s.triggered -> [s EXCEPT !.triggered = TRUE, !.start = cur]
      [] level = "low" /\ s.triggered -> Low(p, s, cur)
      [] OTHER -> s

Hear(p, s, level, cur) ==
    CASE level = "high" /\ ~s.triggered -> [s EXCEPT !.triggered = TRUE, !.start = cur]
      [] level = "high" /\ s.triggered -> [s EXCEPT !.end = 0]
      [] level = "low" /\ s.triggered -> Low(p, s, cur)
      [] OTHER -> s

Speeches(p, levels, total) ==
    LET s == FoldLeftDomain(LAMBDA acc, i : Hear(p, acc, levels[i], p.window * (i - 1)),
                            Quiet, levels)
    IN  IF s.triggered /\ total - s.start > p.minSpeech
        THEN Append(s.speeches, <<s.start, total>>)
        ELSE s.speeches

\* The second loop: every speech is padded, two that come close share the silence.
Padding(p, silence) == IF silence < 2 * p.pad THEN silence \div 2 ELSE p.pad

Padded(p, speeches, total) ==
    LET Silence(i) == speeches[i + 1][1] - speeches[i][2]
        Start(i) == Max({0, speeches[i][1]
                              - (IF i = 1 THEN p.pad ELSE Padding(p, Silence(i - 1)))})
        End(i) == IF i = Len(speeches) THEN Min({total, speeches[i][2] + p.pad})
                  ELSE Min({total, speeches[i][2] + Padding(p, Silence(i))})
    IN  [i \in DOMAIN speeches |-> <<Start(i), End(i)>>]

Segments(p, levels, total) == Padded(p, Speeches(p, levels, total), total)

\* answer_pauses: a gap longer than turnGap is the interviewer's turn.
AnswerPauses(segments, turnGap) ==
    FoldLeft(LAMBDA pauses, gap : IF 0 < gap /\ gap =< turnGap THEN Append(pauses, gap) ELSE pauses,
             <<>>, [i \in 1 .. Len(segments) - 1 |-> segments[i + 1][1] - segments[i][2]])

\* measure
Phonation(segments) == FoldLeft(LAMBDA sum, s : sum + s[2] - s[1], 0, segments)

Measured(segments, turnGap, longPause) ==
    LET pauses == AnswerPauses(segments, turnGap)
    IN  [phonation  |-> Phonation(segments),
         pause      |-> FoldLeft(+, 0, pauses),
         longPauses |-> Cardinality({k \in DOMAIN pauses : pauses[k] >= longPause})]

-----------------------------------------------------------------------------
\* What a speech is, said of the recording as a whole.  Between the windows i and j
\* there is a silence if the first low window and the last one are far enough apart;
\* a high window starts a speech if it is the first one or comes after a silence.
LowsBetween(levels, i, j) == {k \in i + 1 .. j - 1 : levels[k] = "low"}

IsSilence(p, levels, i, j) ==
    LET lows == LowsBetween(levels, i, j)
    IN  lows # {} /\ p.window * (Max(lows) - Min(lows)) >= p.minSilence

SpeechesOf(p, levels, total) ==
    LET highs  == {i \in DOMAIN levels : levels[i] = "high"}
        next(i) == Min({j \in highs : j > i} \cup {Len(levels) + 1})
        lasts  == {i \in highs : IsSilence(p, levels, i, next(i))}
        firsts == {i \in highs : \A j \in highs : j < i /\ next(j) = i => j \in lasts}
        end(i) == LET after == {j \in lasts : j >= i}
                  IN  IF after = {} THEN total
                      ELSE p.window * (Min(LowsBetween(levels, Min(after), next(Min(after)))) - 1)
    IN  {s \in {<<p.window * (i - 1), end(i)>> : i \in firsts} : s[2] - s[1] > p.minSpeech}

\* The speeches are those, in order; the segments are in order, apart, inside the
\* recording, and hold the speeches they are made of; what is counted as speech and
\* as pause is no more than there is between the first and the last.
SoundSegments(p, levels, total, turnGap) ==
    LET speeches == Speeches(p, levels, total)
        segments == Segments(p, levels, total)
        measured == Measured(segments, turnGap, 1)
    IN  /\ ToSet(speeches) = SpeechesOf(p, levels, total)
        /\ \A i \in DOMAIN segments :
              /\ 0 =< segments[i][1] /\ segments[i][1] =< speeches[i][1]
              /\ speeches[i][2] =< segments[i][2] /\ segments[i][2] =< total
              /\ i > 1 => segments[i - 1][2] =< segments[i][1]
        /\ segments # <<>> =>
              measured.phonation + measured.pause =< Last(segments)[2] - segments[1][1]

\* However the recording was cut into blocks, the samples taken are every step-th one
\* and no window is missing or doubled.
NoSeams(step, window, blocks) ==
    LET length  == FoldLeft(+, 0, blocks)
        samples == Resampled(step, blocks).taken
    IN  /\ samples = {k \in 0 .. length - 1 : k % step = 0}
        /\ Windows(window, blocks) = (length + window - 1) \div window
=============================================================================
