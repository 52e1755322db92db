--------------------------- MODULE MCReportContents ---------------------------
(***************************************************************************)
(* What the handlers of ReportWorker save: Evaluation on small interviews  *)
(* and SpeechSegments on short recordings, next to MCReportWorker.         *)
(***************************************************************************)
EXTENDS MCReportWorker, Evaluation, SpeechSegments

\* A window is three samples: a speech lasts two windows at least and a silence one
\* and a half, the padding is as small as in the code or so large that speeches meet.
Detectors == [window : {3}, minSpeech : {4}, minSilence : {4}, pad : {2, 6}]

SpeechIsFound ==
    \A p \in Detectors, n \in 0 .. 7 : \A levels \in [1 .. n -> Levels] :
        \A total \in {p.window * n, p.window * n - 2} \cap Nat :
            SoundSegments(p, levels, total, 10)

BlocksLeaveNoSeam ==
    \A blocks \in BoundedSeq(1 .. 5, 4), step \in {1, 2, 3}, window \in {2, 3, 4} :
        NoSeams(step, window, blocks)

\* A delivery score that is saved counts the speech of the recording: however noisy
\* it is and however it was cut into blocks, the segments are the stretches of speech
\* between silences, in order and apart (speech_segments, _Resampler, probabilities).
DeliveryIsOfTheSpeech == report.audio => SpeechIsFound /\ BlocksLeaveNoSeam

-----------------------------------------------------------------------------
\* Interviews of up to four utterances as the agent grows its log, the Redis copy of
\* them with any holes, that of two of two utterances, one upon the other (the second
\* job could not read what the first had left), and what a restored job adds to it.
Additions(l, floor) ==
    LET asked == {NewQuestion(l, floor, type, TRUE) :
                    type \in IF l = <<>> THEN {"INITIAL"} ELSE {"TOPIC", "FOLLOW_UP", "FINAL"}}
    IN  {Append(l, u) : u \in {q \in asked : QuestionAccepted(l, q)}}
        \cup (IF LastQuestion(l) = 0 THEN {} ELSE {Append(l, NewAnswer(l, TRUE))})
        \cup {Append(l, NewClosing(TRUE))}

Grown(logs) == logs \cup UNION {Additions(l, 0) : l \in logs}
Short       == Grown(Grown({<<>>}))
Interviews  == Grown(Grown(Short))

Copies(logs) == UNION {{Kept(l, S) : S \in SUBSET DOMAIN l} : l \in logs}
Restored     == Copies(Interviews \cup {l \o m : l, m \in Short})

Transcripts == Restored \cup UNION {Additions(l, NumberFloor(l)) : l \in Restored}

\* What the LLM may answer on a topic: the evaluations it was asked for, the same in
\* another order, one less, or one of a number it was not asked for.
Evaluation(n) ==
    [num |-> n, score |-> (25 * (n - 1)) % 101,
     tags |-> IF n % 2 = 0 THEN <<0>> ELSE <<0, n, 12, 2, 5>>, tasks |-> <<60, 10, 20, 30>>]

LLM(whim, topic) ==
    LET echo == [k \in DOMAIN topic |-> Evaluation(topic[k].num)]
    IN  CASE whim = "echo" -> echo
          [] whim = "reorder" -> Reverse(echo)
          [] whim = "omit" -> Front(echo)
          [] whim = "invent" -> Append(Front(echo), Evaluation(9))

TopicsAreTheInterview ==
    \A log \in Transcripts : SoundTopics(log, GroupUtterances(log))

AnswersAreEvaluated ==
    \A log \in Transcripts, whim \in {"echo", "reorder", "omit", "invent"} :
        LET pairs     == GroupUtterances(log)
            topics    == GroupTopics(pairs)
            evaluated == EvaluateAll(pairs, [t \in DOMAIN topics |-> LLM(whim, topics[t])])
        IN  /\ whim = "echo" => Len(evaluated) = Len(pairs)
            /\ evaluated # <<>> => SoundEvaluation(pairs, evaluated)

\* A text half that is saved is of the interview: whatever the agent's log has lost,
\* and though it may have numbers twice, every utterance with a number is evaluated in
\* one pair and every branch in one topic, in the interview's order; and whatever the
\* LLM returns, what is saved of an answer was said of that answer (group_topics,
\* validated_topic_result).
EvaluationIsOfTheInterview ==
    report.text # Absent => TopicsAreTheInterview /\ AnswersAreEvaluated
=============================================================================
