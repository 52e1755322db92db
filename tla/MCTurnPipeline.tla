--------------------------- MODULE MCTurnPipeline ---------------------------
(***************************************************************************)
(* TurnPipeline on small instances: the conversation logs a job starts     *)
(* from.                                                                   *)
(***************************************************************************)
EXTENDS TurnPipeline, TLC

Interchangeable == Permutations(Slots)

Question(type, n, root) == [type |-> type, num |-> n, parent |-> root, intact |-> TRUE]
Answer(n, root)         == [type |-> "ANSWER", num |-> n, parent |-> root, intact |-> TRUE]

\* A new interview.
NewInterview == {<<>>}

\* Restored interviews: a pending follow-up, one that fills its branch, a pending and an
\* answered final question, and a branch whose root was lost with a hole in the Redis copy
\* (as were two answers of the full branch).
Pending       == <<Question("TOPIC", 2, 2), Answer(2, 2), Question("FOLLOW_UP", 3, 2)>>
FullBranch    == <<Question("TOPIC", 2, 2), Question("FOLLOW_UP", 3, 2),
                   Question("FOLLOW_UP", 4, 2)>>
Answered      == <<Question("INITIAL", 1, 1), Answer(1, 1)>>
PendingFinal  == Append(Answered, Question("FINAL", 2, 2))
AnsweredFinal == Append(PendingFinal, Answer(2, 2))
OrphanBranch  == <<Question("FOLLOW_UP", 3, 2), Answer(3, 2), Question("FOLLOW_UP", 4, 2)>>

\* What is left of a job that could not read the copy, began again at number 1 and pushed
\* onto it: a number twice, of an old final question and of the question just answered; a
\* closing in the middle; and a pending final question behind a greater number.
TwiceNumbered == <<Question("FINAL", 2, 2), Question("TOPIC", 2, 2), Answer(2, 2)>>
BegunAgain    == <<Question("TOPIC", 3, 3), NewClosing(TRUE), Question("INITIAL", 1, 1)>>
FinalAgain    == <<Question("TOPIC", 3, 3), Question("FINAL", 2, 2)>>

RestoredInterviews ==
    {Pending, FullBranch, PendingFinal, AnsweredFinal, OrphanBranch,
     TwiceNumbered, BegunAgain, FinalAgain}
EveryInterview == NewInterview \cup RestoredInterviews
AnsweredOnly   == {Answered}
=============================================================================
