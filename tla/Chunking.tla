------------------------------- MODULE Chunking -------------------------------
(***************************************************************************)
(* How the structured data of a resume becomes the chunks that are         *)
(* embedded (worker/src/analysis/chunking.py): pure functions, as          *)
(* operators over data.                                                    *)
(*                                                                         *)
(* A text is the number of its characters.  A sentence is its place in the *)
(* description it was cut from, so that a chunk tells which sentences it   *)
(* holds, and in which order.  Labels and topics are left out.             *)
(*                                                                         *)
(* A definition named X_Y is X with a mistake in it: what a property must  *)
(* be able to tell from X.  Nothing uses one.                              *)
(***************************************************************************)
EXTENDS SequencesExt, FiniteSetsExt, Naturals

\* A project or an experience: name and role (title), the sentences of its
\* description, the white space around and between them, the line of techniques.
Entity == [title : Nat, sentences : Seq(Nat \ {0}), blanks : Nat, tail : Nat]

Total(texts) == FoldLeft(+, 0, texts)

\* approx_tokens: two characters are about a token.
Tokens(text) == text \div 2

\* "\n".join(x for x in texts if x)
Joined(texts) ==
    LET kept == SelectSeq(texts, LAMBDA text : text > 0)
    IN  IF kept = <<>> THEN 0 ELSE Total(kept) + Len(kept) - 1

Description(e) == Total(e.sentences) + e.blanks

\* _is_empty_project, _is_empty_experience
IsEmpty(e) == e.title = 0 /\ Description(e) = 0 /\ e.tail = 0

\* "[...] title", stripped; label is the length of the bracketed word.
Header(label, e) == IF e.title = 0 THEN label ELSE label + 1 + e.title

-----------------------------------------------------------------------------
\* current[-n:] if n else []
LastOf_AlwaysSlices(current, n) ==
    IF n = 0 THEN current ELSE SubSeq(current, Max({1, Len(current) - n + 1}), Len(current))
LastOf(current, n) ==
    IF n = 0 THEN <<>> ELSE SubSeq(current, Max({1, Len(current) - n + 1}), Len(current))

\* _split_oversized: sentences are packed into pieces of at most the budget, each
\* piece begins with the last sentences of the one before, and only the last one
\* has the tail.  Without a sentence there is one piece all the same.
Piece(sentences, tail) == [sentences |-> sentences, tail |-> tail]

SplitOversized(header, e, target, overlap) ==
    LET budget == Max({target - Tokens(header), 1})
        Size(current) == FoldLeft(LAMBDA sum, i : sum + Tokens(e.sentences[i]), 0, current)
        Pack(done, i) ==
            IF done.current # <<>> /\ Size(Append(done.current, i)) > budget
            THEN [pieces  |-> Append(done.pieces, Piece(done.current, FALSE)),
                  current |-> Append(LastOf(done.current, overlap), i)]
            ELSE [done EXCEPT !.current = Append(@, i)]
        packed == FoldLeftDomain(Pack, [pieces |-> <<>>, current |-> <<>>], e.sentences)
    IN  Append(packed.pieces, Piece(packed.current, e.tail > 0))

\* _entity_pieces
EntityPieces(label, e, target, overlap) ==
    IF Tokens(Joined(<<Header(label, e), Description(e), e.tail>>)) =< target
    THEN <<Piece([i \in DOMAIN e.sentences |-> i], e.tail > 0)>>
    ELSE SplitOversized(Header(label, e), e, target, overlap)

-----------------------------------------------------------------------------
\* build_chunks.  A resume has projects, experiences, and the numbers of items of
\* its skills; the enrichment has, for each project, the number of achievements the
\* LLM split it into, and how many experiences and skills it knows.  A chunk says
\* where it is from and which enrichment is merged into its metadata (0 for none).
LabelLength == [project |-> 6, experience |-> 4]

Chunk(type, source, piece, achievement, merged) ==
    [type |-> type, source |-> source, piece |-> piece,
     achievement |-> achievement, merged |-> merged]

ProjectChunks(e, i, enrichment, target, overlap) ==
    LET achievements == IF i \in DOMAIN enrichment.projects THEN enrichment.projects[i] ELSE 0
        pieces == EntityPieces(LabelLength.project, e, target, overlap)
    IN  CASE IsEmpty(e) -> <<>>
          [] ~IsEmpty(e) /\ achievements > 0 ->
                [j \in 1 .. achievements |->
                    Chunk("project", i, Piece(<<>>, e.tail > 0), j, i)]
          [] OTHER -> [k \in DOMAIN pieces |-> Chunk("project", i, pieces[k], 0, 0)]

ExperienceChunks(e, i, enrichment, target, overlap) ==
    LET pieces == EntityPieces(LabelLength.experience, [e EXCEPT !.tail = 0], target, overlap)
    IN  IF IsEmpty([e EXCEPT !.tail = 0]) THEN <<>>
        ELSE [k \in DOMAIN pieces |->
                Chunk("experience", i, pieces[k], 0, IF i =< enrichment.experiences THEN i ELSE 0)]

SkillChunks(items, i, enrichment) ==
    IF items = 0 THEN <<>>
    ELSE <<Chunk("skill", i, Piece(<<>>, FALSE), 0, IF i =< enrichment.skills THEN i ELSE 0)>>

BuildChunks(cv, enrichment, target, overlap) ==
    FlattenSeq([i \in DOMAIN cv.projects |->
                    ProjectChunks(cv.projects[i], i, enrichment, target, overlap)])
    \o FlattenSeq([i \in DOMAIN cv.experiences |->
                    ExperienceChunks(cv.experiences[i], i, enrichment, target, overlap)])
    \o FlattenSeq([i \in DOMAIN cv.skills |-> SkillChunks(cv.skills[i], i, enrichment)])

\* chunk_structured_data: the chunks without an enrichment, by code of its own.  The
\* tests call this one, the pipeline build_chunks.
ChunkStructuredData(cv, target, overlap) ==
    LET AddEntity(type, i, e) ==
            LET header == Header(LabelLength[type], e)
                pieces == IF Tokens(Joined(<<header, Description(e), e.tail>>)) =< target
                          THEN <<Piece([s \in DOMAIN e.sentences |-> s], e.tail > 0)>>
                          ELSE SplitOversized(header, e, target, overlap)
            IN  IF IsEmpty(e) THEN <<>>
                ELSE [k \in DOMAIN pieces |-> Chunk(type, i, pieces[k], 0, 0)]
    IN  FlattenSeq([i \in DOMAIN cv.projects |-> AddEntity("project", i, cv.projects[i])])
        \o FlattenSeq([i \in DOMAIN cv.experiences |->
                        AddEntity("experience", i, [cv.experiences[i] EXCEPT !.tail = 0])])
        \o FlattenSeq([i \in DOMAIN cv.skills |->
                        IF cv.skills[i] = 0 THEN <<>>
                        ELSE <<Chunk("skill", i, Piece(<<>>, FALSE), 0, 0)>>])

-----------------------------------------------------------------------------
\* What a piece has of its own: what comes after its copy of the piece before.
Own(pieces, k, overlap) ==
    LET copied == IF k = 1 THEN 0 ELSE Min({overlap, Len(pieces[k - 1].sentences)})
        all    == pieces[k].sentences
    IN  SubSeq(all, copied + 1, Len(all))

\* The pieces of an entity say its description once, in order, but for the
\* sentences a piece copies from the end of the one before; a piece has one of its
\* own, and more only if the budget allows; a piece ends only where the next
\* sentence would have broken the budget; the tail is in the last one alone.
\* This determines the pieces.
SoundPieces(pieces, label, e, target, overlap) ==
    LET budget == Max({target - Tokens(Header(label, e)), 1})
        Size(indices) == FoldLeft(LAMBDA sum, i : sum + Tokens(e.sentences[i]), 0, indices)
        own(k) == Own(pieces, k, overlap)
    IN  /\ pieces # <<>>
        /\ FlattenSeq([k \in DOMAIN pieces |-> own(k)]) = [i \in DOMAIN e.sentences |-> i]
        /\ \A k \in DOMAIN pieces :
              /\ pieces[k].tail <=> (k = Len(pieces) /\ e.tail > 0)
              /\ e.sentences # <<>> => own(k) # <<>>
              /\ Len(own(k)) > 1 =>
                    \/ Size(pieces[k].sentences) =< budget
                    \/ Tokens(Joined(<<Header(label, e), Description(e), e.tail>>)) =< target
              /\ k > 1 =>
                    /\ Size(Append(pieces[k - 1].sentences, Head(own(k)))) > budget
                    /\ IsSuffix(SubSeq(pieces[k].sentences, 1,
                                       Len(pieces[k].sentences) - Len(own(k))),
                                pieces[k - 1].sentences)

\* Every entity that says anything has a chunk of its own kind and place, or one for
\* each achievement, whatever its texts weigh and however little the LLM returned;
\* no empty entity has one; what is merged into a chunk is of the entity it is from.
SoundChunks(made, cv, enrichment) ==
    LET of(type, i) == {k \in DOMAIN made : made[k].type = type /\ made[k].source = i}
    IN  /\ \A i \in DOMAIN cv.projects :
              /\ (of("project", i) = {}) <=> IsEmpty(cv.projects[i])
              /\ \A k \in of("project", i) :
                    i \in DOMAIN enrichment.projects /\ enrichment.projects[i] > 0 =>
                        /\ Cardinality(of("project", i)) = enrichment.projects[i]
                        /\ made[k].achievement = k - Min(of("project", i)) + 1
        /\ \A i \in DOMAIN cv.experiences :
              (of("experience", i) = {}) <=>
                  (cv.experiences[i].title = 0 /\ Description(cv.experiences[i]) = 0)
        /\ \A i \in DOMAIN cv.skills : Cardinality(of("skill", i)) = Min({1, cv.skills[i]})
        /\ \A k \in DOMAIN made : made[k].merged \in {0, made[k].source}
=============================================================================
