--------------------------- MODULE ConversationLog ---------------------------
(***************************************************************************)
(* The append-only conversation log of agent/src/interview/                *)
(* conversation_log.py, as operators over a sequence of utterances, and    *)
(* the derivation of the resume mode from it (agent/src/interview/         *)
(* restore.py).  Texts, times and reasons are left out: what the control   *)
(* flow reads is the kind of each utterance, its question number and the   *)
(* number of its branch root.                                              *)
(*                                                                         *)
(* A definition named X_Y is X with a mistake in it: what a property must  *)
(* be able to tell from X.  Nothing uses one.                              *)
(***************************************************************************)
EXTENDS SequencesExt

RootTypes     == {"INITIAL", "TOPIC"}
QuestionTypes == RootTypes \cup {"FOLLOW_UP", "FINAL"}

\* An utterance.  "ANSWER" stands for a CANDIDATE utterance.  A CLOSING has no
\* number and no parent (0).  intact is a history field of the model: the
\* candidate stayed in the room from the utterance's beginning to its commit (of an
\* answer, as far as its beginning is known).
Utterance == [type   : QuestionTypes \cup {"ANSWER", "CLOSING"},
              num    : Nat,
              parent : Nat,
              intact : BOOLEAN]

IsQuestion(u) == u.type \in QuestionTypes
IsAnswer(u)   == u.type = "ANSWER"

-----------------------------------------------------------------------------
\* _last_question: its index, 0 when the log has no question.
LastQuestion(l) == SelectLastInSeq(l, IsQuestion)

\* last_question_number: floor is _number_floor, the greatest number seen when
\* the log was rebuilt from the Redis copy (0 for a new interview).
LastQuestionNumber_NoFloor(l, floor) ==
    LET q == LastQuestion(l) IN IF q = 0 THEN 0 ELSE l[q].num
LastQuestionNumber(l, floor) ==
    LET q == LastQuestion(l)
    IN  IF q # 0 /\ l[q].num > floor THEN l[q].num ELSE floor

\* current_root, 0 for None.
CurrentRoot(l) == LET q == LastQuestion(l) IN IF q = 0 THEN 0 ELSE l[q].parent

\* question_for: the first question carrying the number, 0 for None.
QuestionFor(l, n) == SelectInSeq(l, LAMBDA u : IsQuestion(u) /\ u.num = n)

\* has_valid_current_root
HasValidCurrentRoot(l) ==
    LastQuestion(l) # 0 =>
        LET root == QuestionFor(l, CurrentRoot(l))
        IN  root # 0 /\ l[root].type \in RootTypes

\* has_topic_or_followup_question
HasTopicOrFollowUp(l) ==
    \E i \in DOMAIN l : l[i].type \in {"TOPIC", "FOLLOW_UP"}

\* followup_count_in_current_branch
FollowUpCount_Earlier(l) ==
    Cardinality({i \in 1..LastQuestion(l) - 1 : /\ l[i].parent = CurrentRoot(l)
                                               /\ l[i].type = "FOLLOW_UP"})
FollowUpCount(l) ==
    Cardinality({i \in DOMAIN l : /\ l[i].parent = CurrentRoot(l)
                                  /\ l[i].type = "FOLLOW_UP"})

-----------------------------------------------------------------------------
\* append_question as the pipeline calls it: number and parent are decided at
\* commit time, a follow-up joins the current branch, any other question is a
\* root of its own.
NewQuestion(l, floor, type, intact) ==
    LET n == LastQuestionNumber(l, floor) + 1
    IN  [type |-> type, num |-> n, intact |-> intact,
         parent |-> IF type = "FOLLOW_UP" THEN CurrentRoot(l) ELSE n]

\* The checks of append_question and of Utterance: a follow-up needs an earlier
\* root question to hang from.  When they fail the append raises.
QuestionAccepted(l, u) ==
    u.type = "FOLLOW_UP" =>
        /\ HasValidCurrentRoot(l)
        /\ u.parent # 0 /\ u.parent < u.num

\* append_answer: the answer takes over the number and parent of the last question.
NewAnswer(l, intact) ==
    LET q == LastQuestion(l)
    IN  [type |-> "ANSWER", num |-> l[q].num, parent |-> l[q].parent,
         intact |-> intact]

\* append_closing
NewClosing(intact) == [type |-> "CLOSING", num |-> 0, parent |-> 0, intact |-> intact]

\* rebuild_conversation_log: _number_floor of a rebuilt log.
NumberFloor(l) == Max({0} \cup {l[i].num : i \in DOMAIN l})

-----------------------------------------------------------------------------
\* Utterance.__post_init__, which every utterance of a log has passed, a rebuilt one's
\* too: only the closing has no number, and a question is its own root unless it is a
\* follow-up, which hangs from an earlier number.
ValidUtterance(u) ==
    /\ u.num = 0 <=> u.type = "CLOSING"
    /\ IsQuestion(u) =>
          /\ u.parent =< u.num
          /\ u.type = "FOLLOW_UP" <=> u.parent # u.num

\* What a reader can rely on in a log whose first r utterances were there already.  A
\* question's number is greater than all before it, those of answers whose question was
\* lost included; after r, no answer falls behind the questions before it, and branches
\* do not come back.
WellKeptFrom(l, r) ==
    /\ \A i \in DOMAIN l : ValidUtterance(l[i])
    /\ \A i, j \in DOMAIN l : i < j /\ j > r =>
          /\ IsQuestion(l[j]) => l[i].num < l[j].num
          /\ i > r /\ IsQuestion(l[i]) /\ IsAnswer(l[j]) => l[i].num =< l[j].num
          /\ i > r /\ IsQuestion(l[i]) /\ IsQuestion(l[j]) => l[i].parent =< l[j].parent
WellKept(l) == WellKeptFrom(l, 0)

-----------------------------------------------------------------------------
\* _derive_mode: how a restored session goes on, from its last utterance.  The
\* question of an answer is the nearest preceding one with its number.
AnsweredQuestion(l) ==
    SelectLastInSeq(Front(l), LAMBDA u : IsQuestion(u) /\ u.num = Last(l).num)

ResumeMode(l) ==
    CASE l = <<>> -> "RUNNING"
      [] l # <<>> /\ Last(l).type = "CLOSING" -> "CLOSE_RECOVERED"
      [] l # <<>> /\ Last(l).type = "FINAL" -> "WAITING_FINAL_ANSWER"
      [] l # <<>> /\ IsAnswer(Last(l)) ->
            LET q == AnsweredQuestion(l)
            IN  IF q # 0 /\ l[q].type = "FINAL" THEN "CLOSE_FINAL_ANSWERED" ELSE "RUNNING"
      [] OTHER -> "RUNNING"
=============================================================================
