----------------------------- MODULE ReportWorker -----------------------------
(***************************************************************************)
(* The report worker (worker/src/report): from the request "the interview  *)
(* of this session is over, evaluate it" to a COMPLETED or FAILED report.  *)
(* All state the handlers share hangs on one session, so one session is    *)
(* modelled: its row in reports (with the scores, feedbacks and tags saved *)
(* for it), the requests of the text stream and of the audio stream that   *)
(* name it, and the handlers that serve them.                              *)
(*                                                                         *)
(*   text handler    read -> create -> enter -> announce -> evaluate ->    *)
(*                   summarise -> begin -> commit -> announce -> ack       *)
(*   audio handler   read -> download -> begin -> commit -> announce -> ack*)
(*   grace loop      completes a report whose audio is overdue             *)
(*                                                                         *)
(* A step is what happens between two awaits on the database, on Redis or  *)
(* on an external call.  A handler keeps nothing of the row it read but    *)
(* the branch it took: what it does later it does to whatever the row has  *)
(* become.  A transaction that saves a half takes the row lock (SELECT ..  *)
(* FOR UPDATE) at "begin" and holds it until "commit"; a conditional       *)
(* UPDATE waits for the lock if the committed row matches its condition.   *)
(*                                                                         *)
(* Not modelled: the Job row (retry_count, error_message), which no branch *)
(* reads; the regeneration of a FAILED report, which is the backend's.     *)
(***************************************************************************)
EXTENDS ConsumerGroup, Sequences

CONSTANTS
    TextRequests, AudioRequests,      \* requests of the two streams
    TextConsumers, AudioConsumers,    \* their handlers
    Evaluations,          \* what the LLM may answer: two runs need not agree
    Sessions,             \* the kinds of session a request may name
    AudioSettings,        \* the values settings.audio_analysis_enabled may have
    RetryMaxAttempts,     \* settings.retry_max_attempts
    Absent, Nobody

ASSUME ReportAssumption ==
    /\ Messages = TextRequests \cup AudioRequests
    /\ TextRequests \cap AudioRequests = {}
    /\ Consumers = TextConsumers \cup AudioConsumers
    /\ TextConsumers \cap AudioConsumers = {}
    /\ Sessions \subseteq {"no transcript", "no resume", "silent", "spoken"}
    /\ AudioSettings \subseteq BOOLEAN
    /\ RetryMaxAttempts \in Nat \ {0}
    /\ Absent \notin Evaluations /\ "voice" \notin Evaluations
    /\ Nobody \notin Consumers

VARIABLES
    session,     \* the kind of session, fixed: the transcript is written before the request
    requireAudio,  \* settings.audio_analysis_enabled, fixed
    report,      \* the row: status, the saved halves, the tag summary, the overall score
    lock,        \* the transaction that holds the row lock
    overdue,     \* the grace period since text_analyzed_at has passed
    pc,          \* where a handler is
    run,         \* its local variables
    owed,        \* the grace loop completed the report and has not published it
    events       \* the statuses published so far

fixed == <<session, requireAudio>>
rowVars == <<report, lock, overdue>>
vars == <<groupVars, fixed, rowVars, pc, run, owed, events>>

-----------------------------------------------------------------------------
Terminal == {"COMPLETED", "FAILED"}
Status   == {"NONE", "PENDING", "PROCESSING"} \cup Terminal

\* overall_score, by the scores it averages.
Overall == [text : Evaluations, delivery : BOOLEAN]

\* "NONE" is the absent row; text stands for report_scores, report_feedbacks, the
\* summary and text_analyzed_at, audio for delivery_score and audio_analyzed_at.
Report == [status : Status, text : Evaluations \cup {Absent}, audio : BOOLEAN,
           tags : SUBSET (Evaluations \cup {"voice"}), overall : Overall \cup {Absent}]

NoReport == [status |-> "NONE", text |-> Absent, audio |-> FALSE, tags |-> {},
             overall |-> Absent]

Run == [count : 0 .. GiveUpAt, tries : 0 .. RetryMaxAttempts, tags : SUBSET (Evaluations \cup {"voice"}),
        evaluation : Evaluations \cup {Absent}, news : {"PROCESSING", Absent} \cup Terminal]

Begun(n) == [count |-> n, tries |-> 0, tags |-> {}, evaluation |-> Absent, news |-> Absent]

PCs == {"idle", "read", "create", "enter", "announce", "evaluate", "summarise", "download",
        "begin", "commit", "judge", "fail", "ack"}

HasPairs  == session # "no transcript"
HasResume == session # "no resume"
HasSpeech == session \in {"no resume", "spoken"}

-----------------------------------------------------------------------------
(* The conditional UPDATEs of repository.py.                               *)

\* The statement waits for the row lock only if the committed row matches.
CanUpdate(condition) == condition => lock = Nobody

\* Bug: try_complete does not ask for PROCESSING.
Completable_AnyStatus(r) ==
    /\ r.text # Absent
    /\ requireAudio => r.audio

\* Bug: try_complete does not ask for the text half.
Completable_AudioOnly(r) ==
    /\ r.status = "PROCESSING"
    /\ requireAudio => r.audio

\* Bug: try_complete does not wait for the audio half.
Completable_TextOnly(r) == r.status = "PROCESSING" /\ r.text # Absent

Completable(r) ==
    /\ r.status = "PROCESSING"
    /\ r.text # Absent
    /\ requireAudio => r.audio

Completed(r) ==
    [r EXCEPT !.status = "COMPLETED",
              !.overall = [text |-> r.text, delivery |-> r.audio]]

\* try_complete.
Judged(r) == IF Completable(r) THEN Completed(r) ELSE r

\* complete_overdue_audio's condition: the text half is old and the audio half missing.
Overdue(r) == r.status = "PROCESSING" /\ r.text # Absent /\ ~r.audio /\ overdue

\* Bug: the audio half is saved whatever the status is.
AudioSavable_Always(r) == r.status # "NONE"

AudioSavable(r) == r.status \in {"PENDING", "PROCESSING"}

-----------------------------------------------------------------------------
Goto(c, place) == pc' = [pc EXCEPT ![c] = place]

\* The coroutine is over and its locals with it.
Finish(c) ==
    /\ Goto(c, "idle")
    /\ run' = [run EXCEPT ![c] = Begun(0)]

Tell(c, status) ==
    /\ Goto(c, "announce")
    /\ run' = [run EXCEPT ![c].news = status]

Subscribed(c, m) == c \in TextConsumers <=> m \in TextRequests

Receive(c, m) ==
    /\ Subscribed(c, m)
    /\ Deliver(c, m)
    /\ Goto(c, "read")
    /\ run' = [run EXCEPT ![c] = Begun(DeliveryCount(m))]
    /\ UNCHANGED <<fixed, rowVars, owed, events>>

\* Bug: the delivery count is never looked at.
AfterTextRead_NoGiveUp(n) ==
    IF report.status \in Terminal THEN "ack"
    ELSE IF report.text # Absent THEN "judge"
    ELSE IF ~HasPairs THEN "ack"
    ELSE IF report.status = "NONE" THEN IF HasResume THEN "create" ELSE "ack"
    ELSE IF report.status = "PENDING" THEN "enter"
    ELSE IF n = 1 THEN "ack"
    ELSE "evaluate"

\* Bug: a reclaimed request yields to PROCESSING as a new one does.
AfterTextRead_AlwaysYields(n) ==
    IF report.status \in Terminal THEN "ack"
    ELSE IF report.text # Absent THEN "judge"
    ELSE IF n >= GiveUpAt THEN IF report.status = "NONE" THEN "ack" ELSE "fail"
    ELSE IF ~HasPairs THEN "ack"
    ELSE IF report.status = "NONE" THEN IF HasResume THEN "create" ELSE "ack"
    ELSE IF report.status = "PENDING" THEN "enter"
    ELSE "ack"

\* The early returns of process_generation_request, in their order, for the n-th delivery.
AfterTextRead(n) ==
    IF report.status \in Terminal THEN "ack"
    ELSE IF report.text # Absent THEN "judge"
    ELSE IF n >= GiveUpAt THEN IF report.status = "NONE" THEN "ack" ELSE "fail"
    ELSE IF ~HasPairs THEN "ack"
    ELSE IF report.status = "NONE" THEN IF HasResume THEN "create" ELSE "ack"
    ELSE IF report.status = "PENDING" THEN "enter"
    ELSE IF n = 1 THEN "ack"
    ELSE "evaluate"

ReadForText(c) ==
    /\ pc[c] = "read" /\ c \in TextConsumers
    /\ Goto(c, AfterTextRead(run[c].count))
    /\ UNCHANGED <<groupVars, fixed, rowVars, run, owed, events>>

\* The report and its Job in one transaction; a unique violation means that another
\* handler was first.
CreateReport(c) ==
    /\ pc[c] = "create"
    /\ IF report.status = "NONE"
       THEN /\ report' = [report EXCEPT !.status = "PENDING"]
            /\ Goto(c, "enter")
       ELSE /\ Goto(c, "ack")
            /\ UNCHANGED report
    /\ UNCHANGED <<groupVars, fixed, lock, overdue, run, owed, events>>

\* try_transition(PENDING, PROCESSING): the loser yields.
EnterProcessing(c) ==
    /\ pc[c] = "enter"
    /\ CanUpdate(report.status = "PENDING")
    /\ IF report.status = "PENDING"
       THEN /\ report' = [report EXCEPT !.status = "PROCESSING"]
            /\ Tell(c, "PROCESSING")
       ELSE /\ Goto(c, "ack")
            /\ UNCHANGED <<report, run>>
    /\ UNCHANGED <<groupVars, fixed, lock, overdue, owed, events>>

\* Publishing is best seen as a step of its own: it follows the commit, and the
\* handler may die before it.
Announce(c) ==
    /\ pc[c] = "announce"
    /\ events' = Append(events, run[c].news)
    /\ Goto(c, IF run[c].news = "PROCESSING" THEN "evaluate" ELSE "ack")
    /\ run' = [run EXCEPT ![c].news = Absent]
    /\ UNCHANGED <<groupVars, fixed, rowVars, owed>>

Calling(c) == pc[c] \in {"evaluate", "summarise", "download"}

\* The topics are evaluated one after another, then summarised: two calls stand for
\* them.  The recording is analysed as soon as it is downloaded.
CallSucceeds(c) ==
    /\ Calling(c)
    /\ Goto(c, IF pc[c] = "evaluate" THEN "summarise" ELSE "begin")
    /\ IF pc[c] = "summarise"
       THEN \E e \in Evaluations :
               run' = [run EXCEPT ![c].tries = 0, ![c].evaluation = e]
       ELSE run' = [run EXCEPT ![c].tries = 0]
    /\ UNCHANGED <<groupVars, fixed, rowVars, owed, events>>

\* Bug: the last failure is swallowed, so that the request is acknowledged.
CallFails_Swallowed(c) ==
    /\ Calling(c)
    /\ IF run[c].tries + 1 < RetryMaxAttempts
       THEN run' = [run EXCEPT ![c].tries = @ + 1] /\ UNCHANGED pc
       ELSE Goto(c, "ack") /\ UNCHANGED run
    /\ UNCHANGED <<groupVars, fixed, rowVars, owed, events>>

\* with_retry: a transient failure is retried; the last one is raised.
CallFails(c) ==
    /\ Calling(c)
    /\ IF run[c].tries + 1 < RetryMaxAttempts
       THEN /\ run' = [run EXCEPT ![c].tries = @ + 1]
            /\ UNCHANGED <<groupVars, pc>>
       ELSE /\ Finish(c)
            /\ Abandon(c)
    /\ UNCHANGED <<fixed, rowVars, owed, events>>

\* Bug: the tag summary is read without FOR UPDATE.
BeginSave_NoLock(c) ==
    /\ pc[c] = "begin"
    /\ run' = [run EXCEPT ![c].tags = report.tags]
    /\ Goto(c, "commit")
    /\ UNCHANGED <<groupVars, fixed, rowVars, owed, events>>

\* _lock_tag_summary, inside the transaction of either half.  (The text half replaces its
\* scores and feedbacks before it takes the lock; nobody sees them before the commit, and
\* a second one that meets their UNIQUE constraint raises, which is Dies.)
BeginSave(c) ==
    /\ pc[c] = "begin"
    /\ lock = Nobody
    /\ lock' = c
    /\ run' = [run EXCEPT ![c].tags = report.tags]
    /\ Goto(c, "commit")
    /\ UNCHANGED <<groupVars, fixed, report, overdue, owed, events>>

\* save_text_results: no status is asked for, the voice tags read under the lock stay.
WithText(c) ==
    [report EXCEPT !.text = run[c].evaluation,
                   !.tags = {run[c].evaluation} \cup (run[c].tags \cap {"voice"})]

\* save_audio_result on a row it applies to: the text tags stay.
WithAudio(c) ==
    [report EXCEPT !.audio = TRUE, !.tags = run[c].tags \cup {"voice"}]

\* Bug: COMPLETED is announced because the save worked, not because try_complete did.
CommitText_TellsAnyway(c) ==
    /\ pc[c] = "commit" /\ c \in TextConsumers
    /\ report' = Judged(WithText(c))
    /\ Tell(c, "COMPLETED")
    /\ overdue' = FALSE
    /\ lock' = Nobody
    /\ UNCHANGED <<groupVars, fixed, owed, events>>

\* Saving the text half and the verdict are one transaction.
CommitText(c) ==
    /\ pc[c] = "commit" /\ c \in TextConsumers
    /\ report' = Judged(WithText(c))
    /\ IF Completable(WithText(c))
       THEN Tell(c, "COMPLETED")
       ELSE Goto(c, "ack") /\ UNCHANGED run
    /\ overdue' = FALSE
    /\ lock' = Nobody
    /\ UNCHANGED <<groupVars, fixed, owed, events>>

CommitAudio(c) ==
    /\ pc[c] = "commit" /\ c \in AudioConsumers
    /\ report' = IF AudioSavable(report) THEN Judged(WithAudio(c)) ELSE report
    /\ IF AudioSavable(report) /\ Completable(WithAudio(c))
       THEN Tell(c, "COMPLETED")
       ELSE Goto(c, "ack") /\ UNCHANGED run
    /\ lock' = Nobody
    /\ UNCHANGED <<groupVars, fixed, overdue, owed, events>>

\* The half was saved by an earlier delivery: only the verdict is left.
Judge(c) ==
    /\ pc[c] = "judge"
    /\ CanUpdate(Completable(report))
    /\ report' = Judged(report)
    /\ IF Completable(report)
       THEN Tell(c, "COMPLETED")
       ELSE Goto(c, "ack") /\ UNCHANGED run
    /\ UNCHANGED <<groupVars, fixed, lock, overdue, owed, events>>

\* _give_up: mark_failed spares a terminal report, and nothing else.
GiveUp(c) ==
    /\ pc[c] = "fail"
    /\ CanUpdate(report.status \notin Terminal)
    /\ IF report.status \notin Terminal
       THEN /\ report' = [report EXCEPT !.status = "FAILED"]
            /\ Tell(c, "FAILED")
       ELSE /\ Goto(c, "ack")
            /\ UNCHANGED <<report, run>>
    /\ UNCHANGED <<groupVars, fixed, lock, overdue, owed, events>>

Ack(c) ==
    /\ pc[c] = "ack"
    /\ Acknowledge(c)
    /\ Finish(c)
    /\ UNCHANGED <<fixed, rowVars, owed, events>>

-----------------------------------------------------------------------------
\* process_audio_request gives up without a verdict: the grace loop completes the report.
AfterAudioRead(n) ==
    IF report.status \in Terminal THEN "ack"
    ELSE IF report.audio THEN "judge"
    ELSE IF n >= GiveUpAt THEN "ack"
    ELSE IF report.status = "NONE" THEN IF HasSpeech THEN "not ready" ELSE "ack"
    ELSE "download"

ReadForAudio(c) ==
    /\ pc[c] = "read" /\ c \in AudioConsumers
    /\ AfterAudioRead(run[c].count) # "not ready"
    /\ Goto(c, AfterAudioRead(run[c].count))
    /\ UNCHANGED <<groupVars, fixed, rowVars, run, owed, events>>

\* ReportNotReady is raised: the request comes back.
ReportNotReady(c) ==
    /\ pc[c] = "read" /\ c \in AudioConsumers
    /\ AfterAudioRead(run[c].count) = "not ready"
    /\ Finish(c)
    /\ Abandon(c)
    /\ UNCHANGED <<fixed, rowVars, owed, events>>

-----------------------------------------------------------------------------
\* The process dies or a statement raises: an open transaction is rolled back.
Dies(c) ==
    /\ ~Idle(c)
    /\ Abandon(c)
    /\ Finish(c)
    /\ lock' = IF lock = c THEN Nobody ELSE lock
    /\ UNCHANGED <<fixed, report, overdue, owed, events>>

GracePasses ==
    /\ report.text # Absent /\ ~overdue
    /\ overdue' = TRUE
    /\ UNCHANGED <<groupVars, fixed, report, lock, pc, run, owed, events>>

\* complete_overdue_audio; the loop runs only where audio is analysed.
CompleteOverdue ==
    /\ requireAudio
    /\ Overdue(report) /\ lock = Nobody
    /\ report' = Completed(report)
    /\ owed' = TRUE
    /\ UNCHANGED <<groupVars, fixed, lock, overdue, pc, run, events>>

PublishOverdue ==
    /\ owed
    /\ events' = Append(events, "COMPLETED")
    /\ owed' = FALSE
    /\ UNCHANGED <<groupVars, fixed, rowVars, pc, run>>

\* The loop dies, or its publish raises, between the commit and the event.
GraceDies ==
    /\ owed
    /\ owed' = FALSE
    /\ UNCHANGED <<groupVars, fixed, rowVars, pc, run, events>>

Init ==
    /\ GroupInit
    /\ session \in Sessions /\ requireAudio \in AudioSettings
    /\ report = NoReport
    /\ lock = Nobody
    /\ overdue = FALSE
    /\ pc = [c \in Consumers |-> "idle"]
    /\ run = [c \in Consumers |-> Begun(0)]
    /\ owed = FALSE
    /\ events = <<>>

\* What a handler does by itself.
Work(c) ==
    \/ ReadForText(c)  \/ CreateReport(c) \/ EnterProcessing(c) \/ Announce(c)
    \/ CallSucceeds(c) \/ CallFails(c)    \/ BeginSave(c)       \/ CommitText(c)
    \/ CommitAudio(c)  \/ Judge(c)        \/ GiveUp(c)          \/ Ack(c)
    \/ ReadForAudio(c) \/ ReportNotReady(c)

Grace == GracePasses \/ CompleteOverdue \/ PublishOverdue

Next ==
    \/ \E c \in Consumers, m \in Messages : Receive(c, m)
    \/ \E c \in Consumers : Work(c) \/ Dies(c)
    \/ Grace \/ GraceDies

Spec == Init /\ [][Next]_vars

\* A handler that is scheduled makes progress (every external call has a timeout),
\* the subscribers keep reading, and the grace loop keeps polling.
FairSpec ==
    /\ Spec
    /\ \A c \in Consumers : WF_vars(Work(c))
    /\ \A m \in Messages : WF_vars(\E c \in Consumers : Receive(c, m))
    /\ WF_vars(GracePasses) /\ WF_vars(CompleteOverdue) /\ WF_vars(PublishOverdue)

-----------------------------------------------------------------------------
TypeOK ==
    /\ GroupTypeOK
    /\ session \in Sessions /\ requireAudio \in AudioSettings
    /\ report \in Report
    /\ lock \in Consumers \cup {Nobody}
    /\ overdue \in BOOLEAN
    /\ pc \in [Consumers -> PCs]
    /\ run \in [Consumers -> Run]
    /\ owed \in BOOLEAN
    /\ events \in Seq({"PROCESSING"} \cup Terminal)

\* A report that was COMPLETED or FAILED stays so, whatever slow or reclaimed handlers,
\* the audio path and the grace loop still have in hand (the CAS discipline of
\* try_transition, mark_failed, try_complete and complete_overdue_audio).
TerminalIsFinal ==
    [][report.status \in Terminal => report'.status = report.status]_vars

\* Where audio is analysed, a report is completed with both halves or after the
\* grace period of its text half, never earlier (delivery-score.md, chapter 7).
CompletedOnTime ==
    [][report.status # "COMPLETED" /\ report'.status = "COMPLETED"
         => /\ report'.text # Absent
            /\ requireAudio => report'.audio \/ overdue]_vars

\* A delivery score that is stored in a completed report is part of its overall score:
\* whoever commits later, the audio handler or the grace loop, sees the other.
OverallCountsDelivery ==
    report.status = "COMPLETED" => report.overall.delivery = report.audio

\* Neither half wipes out the tags of the other in the shared tag summary: the row lock
\* of _lock_tag_summary makes the two read-modify-writes serial.
TagsOfBothHalves ==
    report.tags = {e \in Evaluations : report.text = e}
                    \cup (IF report.audio THEN {"voice"} ELSE {})

\* The backend is never told of an outcome the row does not have, and is told of an
\* outcome at most once, by whichever handler committed it.
TerminalEventsTellTheTruth ==
    LET Outcomes == {i \in DOMAIN events : events[i] \in Terminal}
    IN \A i \in Outcomes : events[i] = report.status /\ Outcomes = {i}

\* As long as the text half of a created report is missing, one of its requests is
\* unacknowledged: a handler that yields leaves the report to one that can be reclaimed.
WorkHasRequest ==
    report.status \in {"PENDING", "PROCESSING"} /\ report.text = Absent
        => \E m \in TextRequests : pel[m] # "acked"

\* A handler dies finitely often; a call may go on failing (which ends like a death, but
\* is the work of the handler).
FewDeaths == <>[][\A c \in Consumers : Dies(c) => Work(c)]_vars

\* A report that was created is COMPLETED or FAILED in the end, through crashes of its
\* handlers, failing calls and duplicates of its request.
ReportConcludes ==
    FewDeaths => (report.status \in {"PENDING", "PROCESSING"} ~> report.status \in Terminal)

\* No request is redelivered forever: every one is acknowledged in the end.
RequestsDrain == FewDeaths => <>(\A m \in Messages : pel[m] = "acked")

\* What the documents say and the code does not keep.

\* delivery-score.md: "the scores that were shown do not change afterwards".
CompletedIsFrozen ==
    [][report.status = "COMPLETED" => report'.text = report.text]_vars

\* pipeline.py: a report that only waits for its verdict is never concluded as FAILED
\* by a delivery that reaches the threshold.
TextDoneNeverFails ==
    [][report.text # Absent /\ report'.status = "FAILED" => report.status = "FAILED"]_vars
=============================================================================
