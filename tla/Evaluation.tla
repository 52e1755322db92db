------------------------------ MODULE Evaluation ------------------------------
(***************************************************************************)
(* From the transcript of an interview, as the agent wrote it, to the      *)
(* evaluation of its answers: the worker's worker/src/contract/            *)
(* transcript.py, report/evaluator.py and the aggregation of               *)
(* report/pipeline.py, as operators over the log of ConversationLog.  This *)
(* is where the two programs meet: the numbers and branches the agent      *)
(* gives are all the worker has to tell which answer is to which question. *)
(*                                                                         *)
(* An utterance is its place in the transcript.  A weakness tag is its     *)
(* place in TEXT_WEAKNESS_TAGS, 0 for one outside it; an improvement task  *)
(* is the length of its title.  Within a number the agent's times are in   *)
(* the order of its log (a question's is taken before it is committed, an  *)
(* answer's when it is), so the worker's stable sort by spokenAt keeps it. *)
(*                                                                         *)
(* A definition named X_Y is X with a mistake in it: what a property must  *)
(* be able to tell from X.  Nothing uses one.                              *)
(***************************************************************************)
EXTENDS ConversationLog

TextWeaknessTags   == 1 .. 12
MaxTagsPerAnswer   == 3
MaxTasksPerAnswer  == 2
MaxTaskTitleLength == 50

Evaluated == [num : Nat, score : 0 .. 100, tags : Seq(Nat), tasks : Seq(Nat)]

-----------------------------------------------------------------------------
\* sorted(...), for a finite set and the pairs of a strict order: the k-th is the one
\* with k - 1 before it.  Of numbers the order is the usual one.
Ranked(S, before) ==
    [k \in 1 .. Cardinality(S) |->
        CHOOSE x \in S : Cardinality({y \in S : <<y, x>> \in before}) = k - 1]

Ordered(S) == Ranked(S, {p \in S \X S : p[1] < p[2]})

\* The elements of a sequence at some places, as they stand.
Kept(seq, places) ==
    LET order == Ordered(places) IN [k \in DOMAIN order |-> seq[order[k]]]

-----------------------------------------------------------------------------
\* load_transcript: what has no number (the closing) is no part of a pair; a
\* follow-up is a TAIL, everything else, an answer too, a MAIN.
Numbered(log) == {i \in DOMAIN log : log[i].num # 0}

QuestionType(u) == IF u.type = "FOLLOW_UP" THEN "TAIL" ELSE "MAIN"

\* group_utterances: one pair for each number, in order.  Its parent and type are
\* those of its first utterance.
GroupUtterances(log) ==
    LET group(n) == {i \in Numbered(log) : log[i].num = n}
        first(n) == log[Min(group(n))]
        Pair(n)  == [num      |-> n,
                     parent   |-> first(n).parent,
                     type     |-> QuestionType(first(n)),
                     question |-> Ordered({i \in group(n) : IsQuestion(log[i])}),
                     answer   |-> Ordered({i \in group(n) : IsAnswer(log[i])})]
        numbers  == Ordered({log[i].num : i \in Numbered(log)})
    IN  [k \in DOMAIN numbers |-> Pair(numbers[k])]

\* group_topics: the pairs of one parent, parents in order.
GroupTopics(pairs) ==
    LET parents == Ordered({pairs[k].parent : k \in DOMAIN pairs})
    IN  [t \in DOMAIN parents |->
            Kept(pairs, {k \in DOMAIN pairs : pairs[k].parent = parents[t]})]

-----------------------------------------------------------------------------
\* sanitize_evaluation: tags of the vocabulary, three at most; no task without a
\* tag, none with a long title, two at most.
FirstOf(s, n) == SubSeq(s, 1, Min({n, Len(s)}))

SanitizeEvaluation(e) ==
    LET known == Kept(e.tags, {k \in DOMAIN e.tags : e.tags[k] \in TextWeaknessTags})
        short == Kept(e.tasks, {k \in DOMAIN e.tasks : e.tasks[k] =< MaxTaskTitleLength})
    IN  [e EXCEPT !.tags  = FirstOf(known, MaxTagsPerAnswer),
                  !.tasks = IF known = <<>> THEN <<>> ELSE FirstOf(short, MaxTasksPerAnswer)]

\* validated_topic_result: the answer of the LLM is accepted if it echoes the
\* numbers it was sent, in their order; <<>> stands for the error.
ValidatedTopicResult_SameNumbers(raw, topic) ==
    IF {raw[k].num : k \in DOMAIN raw} = {topic[k].num : k \in DOMAIN topic}
    THEN [k \in DOMAIN raw |-> SanitizeEvaluation(raw[k])]
    ELSE <<>>
ValidatedTopicResult(raw, topic) ==
    IF [k \in DOMAIN raw |-> raw[k].num] = [k \in DOMAIN topic |-> topic[k].num]
    THEN [k \in DOMAIN raw |-> SanitizeEvaluation(raw[k])]
    ELSE <<>>

\* _evaluate_all: pairs and evaluations of the topics, zipped one by one.  answers has
\* what the LLM says of each topic; one that is refused ends the evaluation, <<>>.
EvaluateAll(pairs, answers) ==
    LET topics  == GroupTopics(pairs)
        results == [t \in DOMAIN topics |-> ValidatedTopicResult(answers[t], topics[t])]
    IN  IF \E t \in DOMAIN topics : results[t] = <<>> THEN <<>>
        ELSE FlattenSeq([t \in DOMAIN topics |->
                [k \in 1 .. Min({Len(topics[t]), Len(results[t])}) |->
                    [qa |-> topics[t][k], evaluation |-> results[t][k]]]])

\* _round_mean, halves up.
RoundMean(scores) == (2 * FoldLeft(+, 0, scores) + Len(scores)) \div (2 * Len(scores))

AggregateScore(evaluated) == RoundMean([k \in DOMAIN evaluated |-> evaluated[k].evaluation.score])

\* aggregate_tag_summary: the three most frequent tags, ties in the vocabulary's order.
Frequency(evaluated, tag) ==
    LET times(tags) == Cardinality({j \in DOMAIN tags : tags[j] = tag})
    IN  FoldLeft(+, 0, [k \in DOMAIN evaluated |-> times(evaluated[k].evaluation.tags)])

AggregateTagSummary(evaluated) ==
    LET tags   == UNION {ToSet(evaluated[k].evaluation.tags) : k \in DOMAIN evaluated}
        before == {p \in tags \X tags :
                      \/ Frequency(evaluated, p[1]) > Frequency(evaluated, p[2])
                      \/ Frequency(evaluated, p[1]) = Frequency(evaluated, p[2]) /\ p[1] < p[2]}
    IN  FirstOf(Ranked(tags, before), 3)

-----------------------------------------------------------------------------
\* No question is missing from the transcript.
IsWhole(pairs) == \A k \in DOMAIN pairs : pairs[k].question # <<>>

\* Every utterance with a number is in the pair of that number, as question or as
\* answer, and every pair in one topic; a topic is one branch, in order, and so are
\* the topics.  If the log is in order (no job began again at number 1 upon it), they
\* are the interview over again, unless a question is missing, and a question is a
\* TAIL unless it is the root of its branch.
SoundTopics(log, pairs) ==
    LET topics == GroupTopics(pairs)
        sent   == IF topics = <<>> THEN <<>> ELSE FlattenSeq(topics)
        Has(pair, i) == i \in ToSet(pair.question) \cup ToSet(pair.answer)
    IN  /\ \A i \in Numbered(log) :
              {pairs[k].num : k \in {j \in DOMAIN pairs : Has(pairs[j], i)}} = {log[i].num}
        /\ Len(sent) = Len(pairs) /\ ToSet(sent) = ToSet(pairs)
        /\ \A t, u \in DOMAIN topics : Head(topics[t]).parent = Head(topics[u]).parent => t = u
        /\ \A k \in 1 .. Len(sent) - 1 :
              \/ sent[k].parent < sent[k + 1].parent
              \/ sent[k].parent = sent[k + 1].parent /\ sent[k].num < sent[k + 1].num
        /\ WellKept(log) =>
              /\ IsWhole(pairs) => sent = pairs
              /\ \A pair \in ToSet(pairs) :
                    pair.question # <<>> => (pair.type = "MAIN" <=> pair.num = pair.parent)

\* There is an evaluation for each pair, of that pair, within the rules; the summary
\* has the most frequent tags; the score is a mean.
SoundEvaluation(pairs, evaluated) ==
    LET summary == AggregateTagSummary(evaluated)
        scores  == {evaluated[k].evaluation.score : k \in DOMAIN evaluated}
    IN  /\ Len(evaluated) = Len(pairs)
        /\ {evaluated[k].qa : k \in DOMAIN evaluated} = ToSet(pairs)
        /\ \A k \in DOMAIN evaluated :
              LET e == evaluated[k].evaluation
              IN  /\ e.num = evaluated[k].qa.num
                  /\ ToSet(e.tags) \subseteq TextWeaknessTags
                  /\ Len(e.tags) =< 3 /\ Len(e.tasks) =< 2
                  /\ e.tags = <<>> => e.tasks = <<>>
        /\ \A t \in TextWeaknessTags \ ToSet(summary), i \in DOMAIN summary :
              Frequency(evaluated, t) =< Frequency(evaluated, summary[i])
        /\ Min(scores) =< AggregateScore(evaluated) /\ AggregateScore(evaluated) =< Max(scores)
=============================================================================
