------------------------ MODULE SessionRecovery_proofs ------------------------
(***************************************************************************)
(* Proofs about SessionRecovery, for any number of jobs, utterances and    *)
(* departures: its types, that it implements SessionRecord, that what is   *)
(* purged is stored, that Spring's verdict stays true, and that the        *)
(* reconnect deadline follows the presence of the candidate.               *)
(***************************************************************************)
EXTENDS SessionRecovery, SequenceTheorems, TLAPS

-----------------------------------------------------------------------------
(* Sequences of utterances. *)

\* An utterance said goes to the end of a log, and its number is the only new one.
LEMMA AppendIds ==
    ASSUME NEW s \in Logs, NEW u \in Utterance
    PROVE  Append(s, u) \in Logs /\ Ids(Append(s, u)) = Ids(s) \cup {u.id}
<1>1. Append(s, u) \in Logs
  BY DEF Logs
<1>2. Ids(Append(s, u)) \subseteq Ids(s) \cup {u.id}
  BY DEF Ids, Logs
<1>3. Ids(s) \subseteq Ids(Append(s, u))
  <2> SUFFICES ASSUME NEW i \in DOMAIN s PROVE s[i].id \in Ids(Append(s, u))
    BY DEF Ids
  <2>1. i \in DOMAIN Append(s, u) /\ Append(s, u)[i] = s[i]
    BY DEF Logs
  <2> QED BY <2>1 DEF Ids
<1>4. u.id \in Ids(Append(s, u))
  <2>1. Len(s) + 1 \in DOMAIN Append(s, u) /\ Append(s, u)[Len(s) + 1] = u
    BY DEF Logs
  <2> QED BY <2>1 DEF Ids
<1> QED BY <1>1, <1>2, <1>3, <1>4

\* The oldest utterance of a queue, and what is left without it.
LEMMA HeadTail ==
    ASSUME NEW s \in Logs, s # <<>>
    PROVE  /\ Head(s) \in Utterance /\ Head(s).id \in Ids(s)
           /\ Tail(s) \in Logs /\ Ids(Tail(s)) \subseteq Ids(s)
<1>1. Head(s) \in Utterance /\ Tail(s) \in Logs
  BY DEF Logs
<1>2. 1 \in DOMAIN s /\ Head(s) = s[1]
  BY DEF Logs
<1>3. ASSUME NEW i \in DOMAIN Tail(s) PROVE Tail(s)[i].id \in Ids(s)
  <2>1. i + 1 \in DOMAIN s /\ Tail(s)[i] = s[i + 1]
    BY DEF Logs
  <2> QED BY <2>1 DEF Ids
<1>4. Ids(Tail(s)) \subseteq Ids(s)
  BY <1>3 DEF Ids
<1> QED BY <1>1, <1>2, <1>4 DEF Ids

LEMMA EmptyLog == <<>> \in Logs /\ Ids(<<>>) = {}
  BY DEF Logs, Ids

LEMMA IdsAreNumbers == ASSUME NEW s \in Logs PROVE Ids(s) \subseteq Nat
<1> SUFFICES ASSUME NEW i \in DOMAIN s PROVE s[i].id \in Nat
  BY DEF Ids
<1>1. s[i] \in Utterance
  BY DEF Logs
<1> QED BY <1>1, BoundsAreNaturals DEF Utterance

\* What the job says is an utterance.
LEMMA UtterType ==
    ASSUME TypeOK, NEW kind \in Kinds, Utter(kind)
    PROVE  /\ said' \in 0..MaxSaid
           /\ log' \in Logs /\ queue' \in Logs
           /\ Ids(log') = Ids(log) \cup {said + 1}
           /\ Ids(queue') = Ids(queue) \cup {said + 1}
<1> DEFINE u == [id |-> said + 1, kind |-> kind]
<1>1. u \in Utterance /\ u.id = said + 1 /\ said' \in 0..MaxSaid
  BY BoundsAreNaturals DEF TypeOK, Utter, Utterance
<1>2. log \in Logs /\ queue \in Logs
  BY DEF TypeOK
<1>3. log' = Append(log, u) /\ queue' = Append(queue, u)
  BY DEF Utter
<1> HIDE DEF u
<1> QED BY <1>1, <1>2, <1>3, AppendIds

-----------------------------------------------------------------------------
(* Types. *)

LEMMA InitTypeOK == Init => TypeOK
<1> SUFFICES ASSUME Init PROVE TypeOK
  OBVIOUS
<1>1. copy \in Logs /\ log \in Logs /\ queue \in Logs /\ deadlineOps \in Seq(Nat)
  BY EmptyLog DEF Init
<1>2. absences \in 0..MaxAbsences /\ said \in 0..MaxSaid /\ job \in 0..MaxJobs
  BY BoundsAreNaturals DEF Init
<1>3. /\ started \in BOOLEAN /\ deadline \in Nat /\ owner \in Nat
      /\ marker \in BOOLEAN /\ row \in Logs \cup {NoRow} /\ requests \in Nat
      /\ verdict \in {"open", "ENDED", "ABORTED"} /\ room \in BOOLEAN /\ present \in BOOLEAN
  BY DEF Init, Nobody, NoDeadline
<1>4. /\ pc \in Pcs /\ plan \in Plans /\ cause \in Causes \cup {NoCause}
      /\ armed \in BOOLEAN /\ settled \in BOOLEAN /\ blind \in BOOLEAN
  BY DEF Init, Pcs, Plans, NoCause
<1>5. closedBy \in Nat /\ forgotten \subseteq Nat /\ purged \subseteq Nat
  BY DEF Init
<1> QED BY <1>1, <1>2, <1>3, <1>4, <1>5 DEF TypeOK

LEMMA BlankType ==
    ASSUME Blank
    PROVE  /\ plan' \in Plans /\ cause' \in Causes \cup {NoCause} /\ log' \in Logs
           /\ queue' \in Logs /\ deadlineOps' \in Seq(Nat)
           /\ armed' = FALSE /\ settled' = FALSE /\ blind' = FALSE
  BY EmptyLog DEF Blank, Plans

LEMMA WriteDeadlineType ==
    ASSUME TypeOK, NEW d \in Nat, WriteDeadline(d)
    PROVE  deadline' \in Nat /\ settled' \in BOOLEAN
  BY DEF TypeOK, WriteDeadline

\* Each step of the job, of Spring and of the candidate keeps the types.
LEMMA StepTypeOK == TypeOK /\ [Next]_vars => TypeOK'
<1> SUFFICES ASSUME TypeOK, [Next]_vars PROVE TypeOK'
  OBVIOUS
<1> USE DEF record, meta, world, monitor, talk, plans, history
<1>1. CASE Dispatch
  BY <1>1, BlankType, BoundsAreNaturals DEF TypeOK, Dispatch, Pcs
<1>2. CASE ReadFails
  <2>1. forgotten' \subseteq Nat
    BY <1>2, IdsAreNumbers DEF TypeOK, ReadFails
  <2>2. blind' \in BOOLEAN /\ pc' \in Pcs
    BY <1>2 DEF ReadFails, Pcs
  <2> QED BY <1>2, <2>1, <2>2 DEF TypeOK, ReadFails
<1>3. CASE ReadTerminated
  BY <1>3 DEF TypeOK, ReadTerminated, Pcs
<1>4. CASE ReadPlan
  BY <1>4 DEF TypeOK, ReadPlan, Pcs
<1>5. CASE Claim
  BY <1>5 DEF TypeOK, Claim, Pcs, Entrance, Plans
<1>6. CASE LobbyEntered \/ LobbyTimesOut \/ WindowEntered
  <2>1. CASE LobbyEntered
    BY <2>1 DEF TypeOK, LobbyEntered, Pcs
  <2>2. CASE LobbyTimesOut
    BY <2>2 DEF TypeOK, LobbyTimesOut, Pcs
  <2>3. CASE WindowEntered
    BY <2>3 DEF TypeOK, WindowEntered, Pcs
  <2> QED BY <1>6, <2>1, <2>2, <2>3
<1>6a. CASE InitMeta
  <2>1. started' \in BOOLEAN
    BY <1>6a, Zenon DEF TypeOK, InitMeta
  <2> QED BY <1>6a, <2>1 DEF TypeOK, InitMeta, Pcs
<1>7. CASE Entry
  BY <1>7, BoundsAreNaturals DEF TypeOK, Entry, Pcs, NoDeadline
<1>8. CASE WindowTimesOut \/ WindowExpires
  <2>1. CASE WindowTimesOut
    BY <2>1 DEF TypeOK, WindowTimesOut, Pcs, Plans
  <2>2. CASE WindowExpires
    BY <2>2 DEF TypeOK, WindowExpires, Pcs
  <2> QED BY <1>8, <2>1, <2>2
<1>8a. CASE BeginClosing \/ GivesUp
  <2>1. CASE BeginClosing
    BY <2>1 DEF TypeOK, BeginClosing, Pcs, Causes
  <2>2. CASE GivesUp
    BY <2>2 DEF TypeOK, GivesUp, Pcs
  <2> QED BY <1>8a, <2>1, <2>2
<1>9. CASE ClearDeadline
  BY <1>9, WriteDeadlineType DEF TypeOK, ClearDeadline, Pcs, NoDeadline
<1>10. CASE Arm
  BY <1>10, BoundsAreNaturals DEF TypeOK, Arm, Pcs
<1>11. ASSUME NEW kind \in Kinds, Say(kind) PROVE TypeOK'
  <2>1. Utter(kind)
    BY <1>11 DEF Say
  <2>2. cause' \in Causes \cup {NoCause} /\ pc' \in Pcs
    BY <1>11 DEF TypeOK, Say, Causes, Pcs
  <2> QED BY <1>11, <2>1, <2>2, UtterType DEF TypeOK, Say
<1>12. CASE Push
  <2>1. queue \in Logs /\ queue # <<>> /\ copy \in Logs
    BY <1>12 DEF TypeOK, Push
  <2>2. queue' \in Logs /\ copy' \in Logs
    BY <1>12, <2>1, HeadTail, AppendIds DEF Push
  <2> QED BY <1>12, <2>2 DEF TypeOK, Push
<1>13. CASE StoreDeadline
  <2>1. Head(deadlineOps) \in Nat /\ Tail(deadlineOps) \in Seq(Nat)
    BY <1>13 DEF TypeOK, StoreDeadline
  <2> QED BY <1>13, <2>1, WriteDeadlineType DEF TypeOK, StoreDeadline
<1>14. CASE GuardAllows \/ GuardRefuses
  <2>1. pc' \in Pcs
    BY <1>14 DEF GuardAllows, GuardRefuses, Guards, Allowed, Refused, Pcs
  <2>2. CASE GuardAllows
    BY <2>1, <2>2 DEF TypeOK, GuardAllows
  <2>3. CASE GuardRefuses
    BY <2>1, <2>3 DEF TypeOK, GuardRefuses
  <2> QED BY <1>14, <2>2, <2>3
<1>15. CASE Mark
  <2>1. marker' \in BOOLEAN
    BY <1>15, Zenon DEF TypeOK, Mark
  <2>2. pc' \in Pcs
    BY <1>15 DEF Mark, Refused, Pcs
  <2> QED BY <1>15, <2>1, <2>2 DEF TypeOK, Mark
<1>16. CASE SpeakClosing
  <2>1. CASE Utter("closing") /\ closedBy' = job
    BY <1>16, <2>1, UtterType, BoundsAreNaturals DEF TypeOK, SpeakClosing, Pcs, Kinds
  <2>2. CASE UNCHANGED talk
    BY <1>16, <2>2 DEF TypeOK, SpeakClosing, Pcs
  <2> QED BY <1>16, <2>1, <2>2 DEF SpeakClosing
<1>17. CASE DrainEnds
  BY <1>17, EmptyLog DEF TypeOK, DrainEnds, Pcs
<1>18. CASE Insert
  BY <1>18 DEF TypeOK, Insert, Pcs
<1>19. CASE Purge
  <2>1. copy' \in Logs /\ purged' \subseteq Nat
    BY <1>19, EmptyLog, IdsAreNumbers DEF TypeOK, Purge
  <2>2. started' \in BOOLEAN
    BY <1>19, Zenon DEF TypeOK, Purge
  <2>3. deadline' \in Nat
    BY <1>19 DEF TypeOK, Purge, NoDeadline
  <2> QED BY <1>19, <2>1, <2>2, <2>3 DEF TypeOK, Purge, Pcs
<1>20. CASE Publish
  BY <1>20 DEF TypeOK, Publish, Pcs
<1>21. CASE DeleteRoom
  <2>1. room' \in BOOLEAN
    BY <1>21, Zenon DEF TypeOK, DeleteRoom
  <2> QED BY <1>21, <2>1 DEF TypeOK, DeleteRoom, Pcs
<1>22. CASE Leave
  BY <1>22, BlankType DEF TypeOK, Leave, Pcs, Nobody
<1>23. CASE Crash
  BY <1>23, BlankType DEF TypeOK, Crash, Pcs
<1>24. CASE CandidateLeaves
  <2>1. absences' \in 0..MaxAbsences /\ absences' \in Nat
    BY <1>24, BoundsAreNaturals DEF TypeOK, CandidateLeaves
  <2>2. deadlineOps' \in Seq(Nat)
    BY <1>24, <2>1 DEF TypeOK, CandidateLeaves
  <2> QED BY <1>24, <2>1, <2>2 DEF TypeOK, CandidateLeaves
<1>25. CASE CandidateEnters
  <2>1. deadlineOps' \in Seq(Nat)
    BY <1>25 DEF TypeOK, CandidateEnters, NoDeadline
  <2> QED BY <1>25, <2>1 DEF TypeOK, CandidateEnters
<1>26. CASE Judge
  BY <1>26 DEF TypeOK, Judge
<1>27. CASE UNCHANGED vars
  BY <1>27 DEF TypeOK, vars
<1> QED
  BY <1>1, <1>2, <1>3, <1>4, <1>5, <1>6, <1>6a, <1>7, <1>8, <1>8a, <1>9, <1>10, <1>11, <1>12, <1>13, <1>14,
     <1>15, <1>16, <1>17, <1>18, <1>19, <1>20, <1>21, <1>22, <1>23, <1>24, <1>25, <1>26, <1>27
  DEF Next, JobStep

\* Every variable of the session keeps its type, through every crash and failure.
THEOREM TypeCorrect == Spec => []TypeOK
  BY InitTypeOK, StepTypeOK, PTL DEF Spec

-----------------------------------------------------------------------------
(* The order of the end: the writer is drained before the row is written, the row before *)
(* the copy is purged and the report asked for, and the room goes last.                  *)

Drained == {"flush", "insert", "reinsert", "purge", "delete", "publish", "republish", "room",
            "kick"}
Stored  == {"reinsert", "purge", "delete", "publish", "republish", "room", "kick", "leave",
            "none"}

Stages ==
    /\ pc \in Drained \cup {"none", "read"} => queue = <<>>
    /\ row # NoRow => queue = <<>> /\ pc \in Stored
    /\ pc \in {"purge", "delete", "publish", "republish"} => row # NoRow
    /\ verdict # "open" \/ ~room => pc \in {"leave", "none"}
    /\ VerdictIsTrue

LEMMA InitStages == Init => Stages
  BY DEF Init, Stages, Drained, VerdictIsTrue

LEMMA StepStages == TypeOK /\ Stages /\ [Next]_vars => Stages'
<1> SUFFICES ASSUME TypeOK, Stages, [Next]_vars PROVE Stages'
  OBVIOUS
<1> USE DEF Stages, Drained, Stored, VerdictIsTrue, record, world, talk
<1>1. CASE Dispatch
  BY <1>1 DEF Dispatch, Blank
<1>2. CASE ReadFails \/ ReadTerminated
  BY <1>2 DEF ReadFails, ReadTerminated
<1>3. CASE ReadPlan
  BY <1>3 DEF ReadPlan
<1>4. CASE Claim
  BY <1>4 DEF Claim, Entrance, TypeOK, Plans
<1>5. CASE LobbyEntered \/ LobbyTimesOut
  BY <1>5 DEF LobbyEntered, LobbyTimesOut
<1>6. CASE InitMeta \/ Entry
  BY <1>6 DEF InitMeta, Entry
<1>7. CASE WindowEntered \/ WindowTimesOut
  BY <1>7 DEF WindowEntered, WindowTimesOut
<1>8. CASE ClearDeadline \/ Arm
  BY <1>8 DEF ClearDeadline, Arm
<1>9. ASSUME NEW kind \in Kinds, Say(kind) PROVE Stages'
  BY <1>9 DEF Say, Utter
<1>10. CASE BeginClosing \/ WindowExpires \/ GivesUp
  BY <1>10 DEF BeginClosing, WindowExpires, GivesUp
<1>11. CASE Push
  BY <1>11 DEF Push
<1>12. CASE StoreDeadline
  BY <1>12 DEF StoreDeadline
<1>13. CASE GuardAllows
  BY <1>13 DEF GuardAllows, Guards, Allowed
<1>14. CASE GuardRefuses
  BY <1>14 DEF GuardRefuses, Guards, Refused
<1>15. CASE Mark
  BY <1>15 DEF Mark, Refused
<1>16. CASE SpeakClosing
  BY <1>16 DEF SpeakClosing, Utter
<1>17. CASE DrainEnds
  BY <1>17 DEF DrainEnds
<1>18. CASE Insert
  <2>1. log # NoRow
    BY NoRowIsNoLog DEF TypeOK, Logs
  <2> QED BY <1>18, <2>1 DEF Insert
<1>19. CASE Purge
  BY <1>19 DEF Purge
<1>20. CASE Publish
  BY <1>20 DEF Publish
<1>21. CASE DeleteRoom
  BY <1>21 DEF DeleteRoom
<1>22. CASE Leave \/ Crash
  BY <1>22 DEF Leave, Crash, Blank
<1>23. CASE CandidateLeaves \/ CandidateEnters
  BY <1>23 DEF CandidateLeaves, CandidateEnters
<1>24. CASE Judge
  BY <1>24 DEF Judge
<1>25. CASE UNCHANGED vars
  BY <1>25 DEF vars
<1> QED
  BY <1>1, <1>2, <1>3, <1>4, <1>5, <1>6, <1>7, <1>8, <1>9, <1>10, <1>11, <1>12, <1>13, <1>14,
     <1>15, <1>16, <1>17, <1>18, <1>19, <1>20, <1>21, <1>22, <1>23, <1>24, <1>25
  DEF Next, JobStep

\* Spring's verdict agrees with the row for ever: no job that could still write the row is
\* left when the verdict is taken.
THEOREM VerdictStaysTrue == Spec => []VerdictIsTrue
<1>1. Stages => VerdictIsTrue
  BY DEF Stages
<1> QED BY <1>1, InitTypeOK, StepTypeOK, InitStages, StepStages, PTL DEF Spec

-----------------------------------------------------------------------------
(* Refinement: only seven steps touch the record. *)

LEMMA InitRecord == Init => Record!Init
  BY DEF Init, Record!Init

\* Every step of the session is a step of its record, or leaves it alone.
LEMMA StepRecord == TypeOK /\ Stages /\ [Next]_vars => [Record!Next]_(Record!vars)
<1> SUFFICES ASSUME TypeOK, Stages, [Next]_vars PROVE Record!Next \/ UNCHANGED Record!vars
  OBVIOUS
<1> USE DEF record, Record!vars
<1>1. CASE Push
  <2>1. row = NoRow
    BY <1>1 DEF Push, Stages
  <2>2. Head(queue) \in Utterance
    BY <1>1, HeadTail DEF Push, TypeOK
  <2>3. CASE copy' = copy
    BY <1>1, <2>3 DEF Push
  <2>4. CASE copy' = Append(copy, Head(queue))
    <3>1. Record!Copy(Head(queue))
      BY <1>1, <2>1, <2>4 DEF Push, Record!Copy
    <3> QED BY <2>2, <3>1 DEF Record!Next
  <2> QED BY <1>1, <2>3, <2>4 DEF Push
<1>2. CASE Mark
  <2>1. row = NoRow
    BY <1>2 DEF Mark, Stages, Stored
  <2>2. UNCHANGED <<copy, row, requests>>
    BY <1>2 DEF Mark
  <2>3. marker' = marker \/ marker' = TRUE
    BY <1>2, Zenon DEF Mark
  <2> QED BY <2>1, <2>2, <2>3, Zenon DEF Record!Next, Record!Mark
<1>3. CASE Insert
  <2>1. CASE row = NoRow /\ row' = log
    <3>1. Record!Store
      BY <1>3, <2>1 DEF Insert, Record!Store, TypeOK, Logs
    <3> QED BY <3>1 DEF Record!Next
  <2>2. CASE row' = row
    BY <1>3, <2>2 DEF Insert
  <2> QED BY <1>3, <2>1, <2>2 DEF Insert
<1>4. CASE Purge
  <2>1. row # NoRow
    BY <1>4 DEF Purge, Stages
  <2>2. UNCHANGED <<marker, row, requests>> /\ (copy' = <<>> \/ copy' = copy)
    BY <1>4 DEF Purge
  <2> QED BY <2>1, <2>2 DEF Record!Next, Record!Purge
<1>5. CASE Publish
  <2>1. row # NoRow
    BY <1>5 DEF Publish, Stages
  <2>2. UNCHANGED <<copy, marker, row>> /\ (requests' = requests + 1 \/ requests' = requests)
    BY <1>5 DEF Publish
  <2> QED BY <2>1, <2>2 DEF Record!Next, Record!Request
<1>6. CASE ReadFails \/ ReadTerminated \/ ReadPlan \/ Claim \/ LobbyEntered \/ LobbyTimesOut
  BY <1>6 DEF ReadFails, ReadTerminated, ReadPlan, Claim, LobbyEntered, LobbyTimesOut
<1>7. CASE InitMeta \/ Entry \/ WindowEntered \/ WindowTimesOut \/ ClearDeadline \/ Arm
  BY <1>7 DEF InitMeta, Entry, WindowEntered, WindowTimesOut, ClearDeadline, Arm
<1>8. CASE BeginClosing \/ WindowExpires \/ StoreDeadline \/ GuardAllows \/ GuardRefuses
  BY <1>8 DEF BeginClosing, WindowExpires, StoreDeadline, GuardAllows, GuardRefuses
<1>9. CASE SpeakClosing \/ DrainEnds \/ DeleteRoom \/ Leave \/ GivesUp \/ Crash
  BY <1>9 DEF SpeakClosing, DrainEnds, DeleteRoom, Leave, GivesUp, Crash
<1>10. CASE CandidateLeaves \/ CandidateEnters \/ Dispatch \/ Judge
  BY <1>10 DEF CandidateLeaves, CandidateEnters, Dispatch, Judge
<1>11. ASSUME NEW kind \in Kinds, Say(kind) PROVE UNCHANGED Record!vars
  BY <1>11 DEF Say
<1>12. CASE UNCHANGED vars
  BY <1>12 DEF vars
<1> QED
  BY <1>1, <1>2, <1>3, <1>4, <1>5, <1>6, <1>7, <1>8, <1>9, <1>10, <1>11, <1>12
  DEF Next, JobStep

\* The session implements its record: one row, written after the writer is drained, and
\* purge and request only with the row there, whatever crashes or goes unseen.
THEOREM SessionRefinesRecord == Spec => RecordSpec
<1>1. TypeOK /\ Stages /\ [Next]_vars => [Record!Next]_(Record!vars)
  BY StepRecord
<1> QED BY <1>1, InitRecord, InitTypeOK, StepTypeOK, InitStages, StepStages, PTL
        DEF Spec, RecordSpec, Record!Spec

-----------------------------------------------------------------------------
(* Nothing is purged that is not stored. *)

\* Unless its read failed, a job knows what is in the copy; so the row it writes holds it.
Known ==
    /\ Ids(queue) \subseteq Ids(log)
    /\ pc \notin {"none", "read"} => Ids(copy) \subseteq Ids(log) \cup forgotten
    /\ row # NoRow => Ids(copy) \subseteq Ids(row) \cup forgotten
    /\ PurgedIsStored

LEMMA InitKnown == Init => Known
  BY EmptyLog DEF Init, Known, PurgedIsStored

LEMMA StepKnown == TypeOK /\ Stages /\ Known /\ [Next]_vars => Known'
<1> SUFFICES ASSUME TypeOK, Stages, Known, [Next]_vars PROVE Known'
  OBVIOUS
<1> USE DEF Known, PurgedIsStored, record, talk, history
<1>1. CASE Dispatch \/ Leave \/ Crash
  <2>1. log' = <<>> /\ queue' = <<>> /\ pc' \in {"none", "read"}
    BY <1>1 DEF Dispatch, Leave, Crash, Blank
  <2>2. UNCHANGED <<copy, row, history>>
    BY <1>1 DEF Dispatch, Leave, Crash
  <2> QED BY <2>1, <2>2, EmptyLog
<1>2. CASE ReadFails
  BY <1>2 DEF ReadFails
<1>3. CASE ReadPlan
  <2>1. queue = <<>>
    BY <1>3 DEF ReadPlan, Stages
  <2> QED BY <1>3, <2>1, EmptyLog DEF ReadPlan
<1>4. ASSUME NEW kind \in Kinds, Utter(kind), UNCHANGED <<copy, row, history>>,
             pc \notin {"none", "read"}
      PROVE Known'
  BY <1>4, UtterType
<1>5. ASSUME NEW kind \in Kinds, Say(kind) PROVE Known'
  BY <1>4, <1>5 DEF Say
<1>6. CASE SpeakClosing
  <2>1. CASE Utter("closing")
    BY <1>4, <1>6, <2>1 DEF SpeakClosing, Kinds
  <2>2. CASE UNCHANGED talk
    BY <1>6, <2>2 DEF SpeakClosing
  <2> QED BY <1>6, <2>1, <2>2 DEF SpeakClosing
<1>7. CASE Push
  <2>1. queue \in Logs /\ queue # <<>> /\ copy \in Logs
    BY <1>7 DEF TypeOK, Push
  <2>2. /\ Head(queue) \in Utterance /\ Head(queue).id \in Ids(queue)
        /\ Ids(Tail(queue)) \subseteq Ids(queue)
    BY <2>1, HeadTail
  <2>3. Ids(copy') \subseteq Ids(copy) \cup {Head(queue).id}
    BY <1>7, <2>1, <2>2, AppendIds DEF Push
  <2>4. row = NoRow /\ pc \notin {"none", "read"}
    BY <1>7 DEF Push, Stages
  <2>5. UNCHANGED <<row, log, pc, history>> /\ queue' = Tail(queue)
    BY <1>7 DEF Push
  <2> QED BY <2>2, <2>3, <2>4, <2>5
<1>8. CASE DrainEnds
  BY <1>8, EmptyLog DEF DrainEnds
<1>9. CASE Insert
  BY <1>9 DEF Insert
<1>10. CASE Purge
  <2>1. row # NoRow
    BY <1>10 DEF Purge, Stages
  <2> QED BY <1>10, <2>1, EmptyLog DEF Purge
<1>11. ASSUME UNCHANGED <<copy, row, log, queue, forgotten, purged>>,
              pc' = "none" \/ (pc' # "read" /\ pc \notin {"none", "read"}) \/ pc' = pc
       PROVE Known'
  BY <1>11
<1>12. CASE ReadTerminated \/ Claim \/ LobbyEntered \/ LobbyTimesOut \/ InitMeta
  BY <1>11, <1>12 DEF ReadTerminated, Claim, LobbyEntered, LobbyTimesOut, InitMeta, Entrance,
                      TypeOK, Plans
<1>13. CASE Entry \/ WindowEntered \/ WindowTimesOut \/ ClearDeadline \/ Arm
  BY <1>11, <1>13 DEF Entry, WindowEntered, WindowTimesOut, ClearDeadline, Arm
<1>14. CASE BeginClosing \/ WindowExpires \/ GivesUp \/ StoreDeadline
  BY <1>11, <1>14 DEF BeginClosing, WindowExpires, GivesUp, StoreDeadline
<1>15. CASE GuardAllows \/ GuardRefuses \/ Mark
  BY <1>11, <1>15 DEF GuardAllows, GuardRefuses, Mark, Guards, Allowed, Refused
<1>16. CASE Publish \/ DeleteRoom
  BY <1>11, <1>16 DEF Publish, DeleteRoom
<1>17. CASE CandidateLeaves \/ CandidateEnters \/ Judge
  BY <1>11, <1>17 DEF CandidateLeaves, CandidateEnters, Judge
<1>18. CASE UNCHANGED vars
  BY <1>11, <1>18 DEF vars
<1> QED
  BY <1>1, <1>2, <1>3, <1>5, <1>6, <1>7, <1>8, <1>9, <1>10, <1>12, <1>13, <1>14,
     <1>15, <1>16, <1>17, <1>18
  DEF Next, JobStep

\* Whatever is purged from the copy is in the row, except what a job could not read: through
\* every crash, lost write and unseen commit, for any number of jobs.
THEOREM NothingPurgedIsLost == Spec => []PurgedIsStored
<1>1. Known => PurgedIsStored
  BY DEF Known
<1> QED BY <1>1, InitTypeOK, StepTypeOK, InitStages, StepStages, InitKnown, StepKnown, PTL
        DEF Spec

-----------------------------------------------------------------------------
(* The reconnect deadline. *)

\* The deadline the candidate's presence calls for.
Wanted == IF present THEN NoDeadline ELSE absences

\* The last waiter of the store lock writes what is wanted; with none, what is there is.
Unarmed == {"none", "read", "claim", "lobby", "init", "entry", "window", "clear", "start"}

DeadlineInv ==
    /\ pc \in Unarmed => ~armed
    /\ pc = "talk" => armed
    /\ ~armed => deadlineOps = <<>>
    /\ deadlineOps # <<>> => deadlineOps[Len(deadlineOps)] = Wanted
    /\ settled => pc \notin Unarmed \ {"start"}
    /\ settled /\ pc = "start" => deadline = NoDeadline
    /\ DeadlineFollowsPresence

LEMMA InitDeadline == Init => DeadlineInv
  BY DEF Init, DeadlineInv, DeadlineFollowsPresence, Unarmed

\* The last element after a removal at the head, and after an addition at the end.
LEMMA LastKept ==
    ASSUME NEW s \in Seq(Nat), s # <<>>
    PROVE  /\ Tail(s) # <<>> => Tail(s)[Len(Tail(s))] = s[Len(s)]
           /\ Tail(s) = <<>> => Head(s) = s[Len(s)]
<1>1. Len(s) \in Nat \ {0} /\ Len(Tail(s)) = Len(s) - 1
  OBVIOUS
<1>2. Head(s) = s[1] /\ \A i \in 1..Len(Tail(s)) : Tail(s)[i] = s[i + 1]
  OBVIOUS
<1>3. Tail(s) = <<>> <=> Len(Tail(s)) = 0
  BY HeadTailProperties, EmptySeq
<1>4. CASE Tail(s) = <<>>
  BY <1>1, <1>2, <1>3, <1>4
<1>5. CASE Tail(s) # <<>>
  <2>1. Len(Tail(s)) \in 1..Len(Tail(s)) /\ Len(Tail(s)) + 1 = Len(s)
    BY <1>1, <1>3, <1>5
  <2> QED BY <1>2, <1>5, <2>1
<1> QED BY <1>4, <1>5

LEMMA LastAdded ==
    ASSUME NEW s \in Seq(Nat), NEW d \in Nat
    PROVE  LET t == Append(s, d) IN t # <<>> /\ t[Len(t)] = d
  OBVIOUS

LEMMA StepDeadline == TypeOK /\ DeadlineInv /\ [Next]_vars => DeadlineInv'
<1> SUFFICES ASSUME TypeOK, DeadlineInv, [Next]_vars PROVE DeadlineInv'
  OBVIOUS
<1> USE DEF DeadlineInv, DeadlineFollowsPresence, Wanted, Unarmed, meta, world, monitor
<1>1. CASE Dispatch \/ Leave \/ Crash
  BY <1>1 DEF Dispatch, Leave, Crash, Blank
<1>2. CASE ReadFails \/ ReadTerminated \/ ReadPlan
  BY <1>2 DEF ReadFails, ReadTerminated, ReadPlan
<1>3. CASE Claim
  BY <1>3 DEF Claim, Entrance, TypeOK, Plans
<1>4. CASE LobbyEntered \/ LobbyTimesOut \/ InitMeta
  <2>1. UNCHANGED <<deadline, armed, deadlineOps, settled, present, absences>>
    BY <1>4 DEF LobbyEntered, LobbyTimesOut, InitMeta
  <2>2. pc \in {"lobby", "init"} /\ pc' \in {"init", "start", "leave"}
    BY <1>4 DEF LobbyEntered, LobbyTimesOut, InitMeta
  <2> QED BY <2>1, <2>2
<1>5. CASE Entry \/ WindowEntered \/ WindowTimesOut
  BY <1>5 DEF Entry, WindowEntered, WindowTimesOut
<1>6. CASE ClearDeadline
  BY <1>6 DEF ClearDeadline, WriteDeadline
<1>7. CASE Arm
  BY <1>7 DEF Arm
<1>8. ASSUME NEW kind \in Kinds, Say(kind) PROVE DeadlineInv'
  BY <1>8 DEF Say
<1>9. CASE BeginClosing \/ WindowExpires \/ GivesUp
  BY <1>9 DEF BeginClosing, WindowExpires, GivesUp
<1>10. CASE Push
  BY <1>10 DEF Push
<1>11. CASE StoreDeadline
  <2>1. deadlineOps \in Seq(Nat) /\ deadlineOps # <<>> /\ armed /\ pc \notin Unarmed
    BY <1>11 DEF StoreDeadline, TypeOK
  <2>2. UNCHANGED <<pc, armed, present, absences>> /\ deadlineOps' = Tail(deadlineOps)
    BY <1>11 DEF StoreDeadline
  <2>3. CASE Tail(deadlineOps) # <<>>
    BY <2>1, <2>2, <2>3, LastKept
  <2>4. CASE Tail(deadlineOps) = <<>>
    <3>1. Head(deadlineOps) = Wanted
      BY <2>1, <2>4, LastKept
    <3>2. settled' => deadline' = Wanted
      BY <1>11, <3>1 DEF StoreDeadline, WriteDeadline
    <3> QED BY <2>1, <2>2, <2>4, <3>2
  <2> QED BY <2>3, <2>4
<1>12. CASE GuardAllows \/ GuardRefuses \/ Mark
  <2>1. UNCHANGED <<deadline, armed, deadlineOps, settled, present, absences>>
    BY <1>12 DEF GuardAllows, GuardRefuses, Mark
  <2>2. pc \notin Unarmed /\ pc' \notin Unarmed \cup {"talk"}
    <3>1. Refused["marker"] \in {"speak", "drain"}
      BY DEF Refused
    <3>2. CASE Mark
      BY <3>1, <3>2 DEF Mark
    <3>3. CASE GuardAllows
      BY <3>3 DEF GuardAllows, Guards, Allowed
    <3>4. CASE GuardRefuses
      BY <3>4 DEF GuardRefuses, Guards, Refused
    <3> QED BY <1>12, <3>2, <3>3, <3>4
  <2> QED BY <2>1, <2>2
<1>13. CASE SpeakClosing \/ DrainEnds \/ Insert
  BY <1>13 DEF SpeakClosing, DrainEnds, Insert
<1>14. CASE Purge \/ Publish \/ DeleteRoom
  <2>1. UNCHANGED <<armed, deadlineOps, settled, present, absences>>
    BY <1>14 DEF Purge, Publish, DeleteRoom
  <2>2. pc \notin Unarmed /\ pc' \notin Unarmed \cup {"talk"}
    BY <1>14 DEF Purge, Publish, DeleteRoom
  <2> QED BY <2>1, <2>2
<1>15. CASE CandidateLeaves
  <2>1. absences' \in Nat
    BY <1>15, BoundsAreNaturals DEF CandidateLeaves, TypeOK
  <2>2. CASE armed
    <3>1. deadlineOps' = Append(deadlineOps, absences') /\ deadlineOps \in Seq(Nat)
      BY <1>15, <2>2 DEF CandidateLeaves, TypeOK
    <3>2. deadlineOps' # <<>> /\ deadlineOps'[Len(deadlineOps')] = absences'
      BY <2>1, <3>1, LastAdded
    <3> QED BY <1>15, <2>2, <3>2 DEF CandidateLeaves
  <2>3. CASE ~armed
    BY <1>15, <2>3 DEF CandidateLeaves
  <2> QED BY <2>2, <2>3
<1>16. CASE CandidateEnters
  <2>1. CASE armed
    <3>1. deadlineOps' = Append(deadlineOps, NoDeadline) /\ deadlineOps \in Seq(Nat)
      BY <1>16, <2>1 DEF CandidateEnters, TypeOK
    <3>2. deadlineOps' # <<>> /\ deadlineOps'[Len(deadlineOps')] = NoDeadline
      BY <3>1, LastAdded DEF NoDeadline
    <3> QED BY <1>16, <2>1, <3>2 DEF CandidateEnters
  <2>2. CASE ~armed
    BY <1>16, <2>2 DEF CandidateEnters
  <2> QED BY <2>1, <2>2
<1>17. CASE Judge
  BY <1>17 DEF Judge
<1>18. CASE UNCHANGED vars
  BY <1>18 DEF vars
<1> QED
  BY <1>1, <1>2, <1>3, <1>4, <1>5, <1>6, <1>7, <1>8, <1>9, <1>10, <1>11, <1>12, <1>13, <1>14,
     <1>15, <1>16, <1>17, <1>18
  DEF Next, JobStep

\* Once the writes have come to rest and the last succeeded, the deadline in Redis is that of
\* the absence that lasts, and none while the candidate is there: the store lock is a FIFO.
THEOREM DeadlineIsOfThisAbsence == Spec => []DeadlineFollowsPresence
<1>1. DeadlineInv => DeadlineFollowsPresence
  BY DEF DeadlineInv
<1> QED BY <1>1, InitTypeOK, StepTypeOK, InitDeadline, StepDeadline, PTL DEF Spec

-----------------------------------------------------------------------------
(* A closed interview stays closed. *)

Closing(u) == u.kind = "closing"

\* No closing statement in the copy but those a job could not read.
NoneInCopy == \A i \in DOMAIN copy : Closing(copy[i]) => copy[i].id \in forgotten

Entering  == {"lobby", "init", "entry", "window", "clear", "start", "talk"}
BeforeEnd == Entering \cup {"claim", "marker", "mark", "speak"}

\* Nothing follows a closing statement into the copy, so a job that talks found none there;
\* and it found no marker, unless it found nothing at all.
ClosingInv ==
    /\ \A i \in DOMAIN copy : Closing(copy[i]) /\ copy[i].id \notin forgotten => i = Len(copy)
    /\ \A i \in DOMAIN queue : Closing(queue[i]) => i = Len(queue)
    /\ queue # <<>> => NoneInCopy
    /\ pc \in BeforeEnd => \A i \in DOMAIN queue : ~Closing(queue[i])
    /\ pc \in BeforeEnd /\ plan # "silent" => NoneInCopy
    /\ pc \in Entering => plan # "silent"
    /\ pc = "speak" => plan # "silent"
    /\ pc \in Entering \cup {"claim"} /\ ~blind => ~marker

LEMMA InitClosing == Init => ClosingInv
  BY DEF Init, ClosingInv, NoneInCopy, BeforeEnd, Entering

\* What the job says before the end is not a closing statement, what it says at the end is
\* the last thing in its queue.
LEMMA UtterQueue ==
    ASSUME TypeOK, NEW kind \in Kinds, Utter(kind),
           \A i \in DOMAIN queue : ~Closing(queue[i])
    PROVE  /\ \A i \in DOMAIN queue' : Closing(queue'[i]) => i = Len(queue')
           /\ kind # "closing" => \A i \in DOMAIN queue' : ~Closing(queue'[i])
<1> DEFINE u == [id |-> said + 1, kind |-> kind]
<1>1. queue \in Seq(Utterance) /\ u \in Utterance
  BY BoundsAreNaturals DEF TypeOK, Utter, Utterance, Logs
<1>2. queue' = Append(queue, u) /\ Closing(u) = (kind = "closing")
  BY DEF Utter, Closing
<1> HIDE DEF u
<1>3. ASSUME NEW i \in DOMAIN queue'
      PROVE  \/ i = Len(queue') /\ queue'[i] = u
             \/ i \in DOMAIN queue /\ queue'[i] = queue[i]
  BY <1>1, <1>2
<1> QED BY <1>2, <1>3

\* A step that leaves the copy, the queue and what was forgotten alone.
LEMMA QuietClosing ==
    ASSUME ClosingInv, UNCHANGED <<copy, queue, forgotten, blind>>,
           pc' \in BeforeEnd => pc \in BeforeEnd /\ (plan' = "silent" \/ plan' = plan),
           pc' \in Entering \cup {"speak"} => plan' # "silent",
           pc' \in Entering \cup {"claim"} => pc \in Entering \cup {"claim"} /\ marker' = marker
    PROVE  ClosingInv'
  BY DEF ClosingInv, NoneInCopy, BeforeEnd, Entering

LEMMA StepClosing == TypeOK /\ Stages /\ ClosingInv /\ [Next]_vars => ClosingInv'
<1> SUFFICES ASSUME TypeOK, Stages, ClosingInv, [Next]_vars PROVE ClosingInv'
  OBVIOUS
<1> USE DEF record, talk, plans, history
<1>1. CASE Dispatch \/ Leave \/ Crash
  <2>1. queue' = <<>> /\ pc' \in {"none", "read"} /\ UNCHANGED <<copy, forgotten>>
    BY <1>1 DEF Dispatch, Leave, Crash, Blank
  <2> QED BY <2>1 DEF ClosingInv, NoneInCopy, BeforeEnd, Entering
<1>2. CASE ReadFails
  <2>1. /\ pc' = "claim" /\ blind' = TRUE /\ queue' = <<>>
        /\ forgotten' = forgotten \cup Ids(copy) /\ copy' = copy
    BY <1>2 DEF ReadFails, Stages
  <2>2. \A i \in DOMAIN copy' : copy'[i].id \in forgotten'
    BY <2>1 DEF Ids
  <2> QED BY <2>1, <2>2 DEF ClosingInv, NoneInCopy, BeforeEnd, Entering
<1>3. CASE ReadPlan
  <2>1. /\ pc' = "claim" /\ queue' = <<>> /\ ~marker /\ marker' = marker
        /\ copy' = copy /\ forgotten' = forgotten
    BY <1>3 DEF ReadPlan, Stages
  <2>2. plan' # "silent" => ~EndsIn(copy, "closing")
    BY <1>3 DEF ReadPlan, Planned, Restorable, EndsIn
  <2>3. plan' # "silent" => NoneInCopy
    <3> SUFFICES ASSUME plan' # "silent", NEW i \in DOMAIN copy, Closing(copy[i]),
                        copy[i].id \notin forgotten
                 PROVE  FALSE
      BY DEF NoneInCopy
    <3>1. i = Len(copy) /\ copy # <<>>
      BY DEF ClosingInv
    <3> QED BY <2>2, <3>1 DEF EndsIn, Last, Closing
  <2> QED BY <2>1, <2>3 DEF ClosingInv, NoneInCopy, BeforeEnd, Entering
<1>4. ASSUME NEW kind \in Kinds, Say(kind) PROVE ClosingInv'
  <2>1. /\ pc = "talk" /\ Utter(kind) /\ kind # "closing" /\ pc' \in {"talk", "marker"}
        /\ UNCHANGED <<copy, marker, forgotten, plan, blind>>
    BY <1>4 DEF Say
  <2>2. \A i \in DOMAIN queue : ~Closing(queue[i])
    BY <2>1 DEF ClosingInv, BeforeEnd, Entering
  <2>3. /\ \A i \in DOMAIN queue' : Closing(queue'[i]) => i = Len(queue')
        /\ \A i \in DOMAIN queue' : ~Closing(queue'[i])
    BY <2>1, <2>2, UtterQueue
  <2> QED BY <2>1, <2>3 DEF ClosingInv, NoneInCopy, BeforeEnd, Entering
<1>5. CASE SpeakClosing
  <2>1. pc = "speak" /\ pc' = "drain" /\ UNCHANGED <<copy, marker, forgotten, plan, blind>>
    BY <1>5 DEF SpeakClosing
  <2>2. NoneInCopy /\ \A i \in DOMAIN queue : ~Closing(queue[i])
    BY <2>1 DEF ClosingInv, BeforeEnd
  <2>3. \A i \in DOMAIN queue' : Closing(queue'[i]) => i = Len(queue')
    <3>1. CASE Utter("closing")
      BY <2>2, <3>1, UtterQueue DEF Kinds
    <3>2. CASE UNCHANGED talk
      BY <2>2, <3>2
    <3> QED BY <1>5, <3>1, <3>2 DEF SpeakClosing
  <2> QED BY <2>1, <2>2, <2>3 DEF ClosingInv, NoneInCopy, BeforeEnd, Entering
<1>6. CASE Push
  <2>1. /\ queue # <<>> /\ queue \in Seq(Utterance) /\ copy \in Seq(Utterance)
        /\ queue' = Tail(queue) /\ UNCHANGED <<pc, marker, forgotten, plan, blind>>
        /\ copy' = copy \/ copy' = Append(copy, Head(queue))
    BY <1>6 DEF Push, TypeOK, Logs
  <2>2. NoneInCopy
    BY <2>1 DEF ClosingInv
  <2>3. /\ Head(queue) = queue[1] /\ 1 \in DOMAIN queue /\ Head(queue) \in Utterance
        /\ Len(queue') = Len(queue) - 1 /\ Len(queue) \in Nat \ {0}
        /\ \A i \in DOMAIN queue' : i + 1 \in DOMAIN queue /\ queue'[i] = queue[i + 1]
    BY <2>1
  <2>4. /\ \A i \in DOMAIN queue' : Closing(queue'[i]) => i = Len(queue')
        /\ pc \in BeforeEnd => \A i \in DOMAIN queue' : ~Closing(queue'[i])
    BY <2>1, <2>3 DEF ClosingInv
  <2>5. ASSUME NEW i \in DOMAIN copy', Closing(copy'[i]), copy'[i].id \notin forgotten
        PROVE  i = Len(copy') /\ Closing(Head(queue))
    <3>1. CASE copy' = copy
      BY <2>2, <2>5, <3>1 DEF NoneInCopy
    <3>2. CASE copy' = Append(copy, Head(queue))
      <4>1. \/ i = Len(copy') /\ copy'[i] = Head(queue)
            \/ i \in DOMAIN copy /\ copy'[i] = copy[i]
        BY <2>1, <2>3, <3>2
      <4> QED BY <2>2, <2>5, <4>1 DEF NoneInCopy
    <3> QED BY <2>1, <3>1, <3>2
  <2>6. ~Closing(Head(queue)) => NoneInCopy'
    BY <2>1, <2>5 DEF NoneInCopy
  <2>7. queue' # <<>> => ~Closing(Head(queue))
    <3>1. Closing(Head(queue)) => Len(queue) = 1
      BY <2>3 DEF ClosingInv
    <3>2. Len(queue) = 1 => queue' = <<>>
      BY <2>1, <2>3
    <3> QED BY <3>1, <3>2
  <2>8. pc \in BeforeEnd => ~Closing(Head(queue))
    BY <2>3 DEF ClosingInv
  <2>9. \A i \in DOMAIN copy' : Closing(copy'[i]) /\ copy'[i].id \notin forgotten' => i = Len(copy')
    BY <2>1, <2>5
  <2> QED BY <2>1, <2>4, <2>6, <2>7, <2>8, <2>9 DEF ClosingInv
<1>7. CASE DrainEnds \/ Purge
  <2>1. CASE DrainEnds
    <3>1. /\ pc' \in {"room", "flush"} /\ queue' = <<>>
          /\ UNCHANGED <<copy, marker, forgotten, plan, blind>>
      BY <2>1 DEF DrainEnds
    <3> QED BY <3>1 DEF ClosingInv, NoneInCopy, BeforeEnd, Entering
  <2>2. CASE Purge
    <3>1. /\ pc' = "publish" /\ (copy' = <<>> \/ copy' = copy)
          /\ UNCHANGED <<queue, marker, forgotten, plan, blind>>
      BY <2>2 DEF Purge, talk, plans
    <3>2. CASE copy' = copy
      BY <3>1, <3>2 DEF ClosingInv, NoneInCopy, BeforeEnd, Entering
    <3>3. CASE copy' = <<>>
      BY <3>1, <3>3 DEF ClosingInv, NoneInCopy, BeforeEnd, Entering
    <3> QED BY <3>1, <3>2, <3>3
  <2> QED BY <1>7, <2>1, <2>2
<1>8. CASE ReadTerminated \/ Insert \/ Publish \/ DeleteRoom \/ GivesUp
  BY <1>8, QuietClosing
  DEF ReadTerminated, Insert, Publish, DeleteRoom, GivesUp, BeforeEnd, Entering
<1>9. CASE Claim
  BY <1>9, QuietClosing DEF Claim, Entrance, TypeOK, Plans, BeforeEnd, Entering
<1>10. CASE LobbyEntered \/ LobbyTimesOut \/ InitMeta \/ Entry
  BY <1>10, QuietClosing
  DEF LobbyEntered, LobbyTimesOut, InitMeta, Entry, ClosingInv, BeforeEnd, Entering
<1>11. CASE WindowEntered \/ WindowTimesOut \/ ClearDeadline \/ Arm
  BY <1>11, QuietClosing
  DEF WindowEntered, WindowTimesOut, ClearDeadline, Arm, ClosingInv, BeforeEnd, Entering
<1>12. CASE BeginClosing \/ WindowExpires
  BY <1>12, QuietClosing DEF BeginClosing, WindowExpires, BeforeEnd, Entering
<1>13. CASE GuardAllows \/ GuardRefuses \/ Mark
  <2>1. /\ UNCHANGED <<copy, queue, forgotten, blind, plan>>
        /\ pc' \notin Entering \cup {"claim"} /\ (pc' \in BeforeEnd => pc \in BeforeEnd)
        /\ pc' = "speak" => plan # "silent"
    <3>1. CASE GuardAllows
      BY <3>1 DEF GuardAllows, Guards, Allowed, BeforeEnd, Entering
    <3>2. CASE GuardRefuses
      BY <3>2 DEF GuardRefuses, Guards, Refused, BeforeEnd, Entering
    <3>3. CASE Mark
      BY <3>3 DEF Mark, Refused, BeforeEnd, Entering
    <3> QED BY <1>13, <3>1, <3>2, <3>3
  <2> QED BY <2>1, QuietClosing DEF BeforeEnd
<1>14. CASE StoreDeadline \/ CandidateLeaves \/ CandidateEnters \/ Judge \/ UNCHANGED vars
  <2>1. UNCHANGED <<copy, queue, forgotten, blind, plan, pc, marker>>
    BY <1>14 DEF StoreDeadline, CandidateLeaves, CandidateEnters, Judge, vars
  <2> QED BY <2>1, QuietClosing DEF ClosingInv, BeforeEnd, Entering
<1> QED
  BY <1>1, <1>2, <1>3, <1>4, <1>5, <1>6, <1>7, <1>8, <1>9, <1>10, <1>11, <1>12, <1>13, <1>14
  DEF Next, JobStep

\* After a closing statement a later job goes on with the interview only if it could read
\* nothing, or if the marker and the statement are both missing.
THEOREM ClosedIsNotReopened == Spec => ClosedStaysClosed
<1>1. TypeOK /\ Stages /\ ClosingInv /\ [Next]_vars
      => [closedBy # 0 /\ closedBy # job /\ pc = "talk" /\ said' # said
            => \/ blind
               \/ /\ ~marker
                  /\ \A i \in DOMAIN copy : copy[i].kind = "closing" => copy[i].id \in forgotten]_vars
  BY DEF ClosingInv, NoneInCopy, Closing, BeforeEnd, Entering
<1> QED BY <1>1, InitTypeOK, StepTypeOK, InitStages, StepStages, InitClosing, StepClosing, PTL
        DEF Spec, ClosedStaysClosed
=============================================================================
