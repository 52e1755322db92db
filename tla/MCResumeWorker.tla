---------------------------- MODULE MCResumeWorker ----------------------------
(***************************************************************************)
(* ResumeWorker on small instances: up to two handlers, up to two          *)
(* duplicates of the first request, and one later run of each mode; and    *)
(* Chunking on small descriptions.                                         *)
(***************************************************************************)
EXTENDS ResumeWorker, Chunking, TLC

AllRequests == FirstRequests \cup Reanalyses \cup Reindexes

Interchangeable ==
    Permutations(Consumers) \cup Permutations(FirstRequests) \cup Permutations(Structured)

-----------------------------------------------------------------------------
\* Descriptions of up to four sentences of no, two or five tokens, with and without
\* a title and techniques: below, at and above every budget.
Texts == BoundedSeq({1, 4, 10}, 3) \cup [1 .. 4 -> {4, 10}]

Described == [title : {0, 3}, sentences : Texts, blanks : {3}, tail : {0, 6}]

\* Empty, of techniques only, blank, of one piece, of two.
Sort(title, sentences, blanks, tail) ==
    [title |-> title, sentences |-> sentences, blanks |-> blanks, tail |-> tail]
Sorts == {Sort(0, <<>>, 0, 0), Sort(0, <<>>, 0, 6), Sort(0, <<>>, 1, 0),
          Sort(3, <<4>>, 0, 6), Sort(3, <<10, 10>>, 1, 6)}

CVs == [projects : BoundedSeq(Sorts, 2), experiences : BoundedSeq(Sorts, 1),
        skills : {<<>>, <<0, 2>>, <<2, 0>>}]

Analyses == [projects : {<<>>, <<0>>, <<2>>, <<0, 2>>, <<2, 1>>}, experiences : {0, 1}, skills : {0, 1}]

DescriptionsAreCutSoundly ==
    \A e \in Described, target \in {1, 5, 9, 14}, overlap \in 0 .. 2 :
        SoundPieces(EntityPieces(LabelLength.project, e, target, overlap),
                    LabelLength.project, e, target, overlap)

EntitiesHaveChunks ==
    \A cv \in CVs, llm \in Analyses : SoundChunks(BuildChunks(cv, llm, 9, 1), cv, llm)

BothBuildersAgree ==
    \A cv \in CVs, target \in {5, 9} :
        BuildChunks(cv, [projects |-> <<>>, experiences |-> 0, skills |-> 0], target, 1)
            = ChunkStructuredData(cv, target, 1)

\* The chunks that are committed say the resume: whatever the lengths, the target and the
\* overlap, a description is cut into pieces that lose no sentence and repeat only the
\* overlap (_split_oversized), and no entity that says anything is without a chunk, short
\* enrichment or not (build_chunks).  What the chunks of an achievement say is up to the
\* LLM: of an entity that has them no description is cut.  The builder the tests exercise
\* cuts as the one that runs (chunk_structured_data).
ChunksSayTheResume ==
    chunks # Absent => DescriptionsAreCutSoundly /\ EntitiesHaveChunks /\ BothBuildersAgree
=============================================================================
