---------------------------- MODULE TurnPipeline ----------------------------
(***************************************************************************)
(* One interview job of the agent, from the first utterance to the end of  *)
(* the job: agent/src/interview/turn_pipeline.py with the presence monitor *)
(* (reconnect.py), the end sequence (end_sequence.py) and the part of the  *)
(* entrypoint that wires them (main.py).  Of the end sequence this module  *)
(* keeps what it takes from the pipeline, the log it writes to the         *)
(* database, and what it gives back, the end of the job.                   *)
(*                                                                         *)
(* Everything runs on one asyncio event loop, so an action is the code     *)
(* between two awaits.  A coroutine is a slot of `task'; its pc says which *)
(* await it is parked at.  The speech lock is asyncio.Lock, which is FIFO: *)
(* speechQ holds the owner at its head and the waiters behind it.  The     *)
(* commit lock needs no variable: no coroutine yields while it holds it.   *)
(*                                                                         *)
(* A definition named X_Y is X with a mistake in it: what a property must  *)
(* be able to tell from X.  No action uses one.                            *)
(***************************************************************************)
EXTENDS ConversationLog

CONSTANTS
    Slots,               \* coroutines that may be alive at once (bound)
    Main,                \* the entrypoint coroutine
    Closer,              \* the coroutine of _closing_task
    InitialLogs,         \* conversation logs a job may start from
    MaxFollowups,        \* MAX_FOLLOWUPS_PER_BRANCH
    TurnsDuringPlayout,  \* does the framework deliver a user turn that ends while
                         \* a speech plays with allow_interruptions=False?
    UntimedSpeech,       \* may it leave out the time at which the speech began?
    MaxLog,              \* no answer is given to a log of this length (bound)
    MaxDepartures        \* times the candidate may leave the room (bound)

ASSUME PipelineAssumption ==
    /\ Main \notin Slots /\ Closer \notin Slots /\ Main # Closer
    /\ MaxFollowups \in Nat /\ MaxLog \in Nat /\ MaxDepartures \in Nat
    /\ TurnsDuringPlayout \in BOOLEAN /\ UntimedSpeech \in BOOLEAN
    /\ InitialLogs \subseteq Seq(Utterance)

\* A log is rebuilt from the Redis copy item by item, and whatever fails the checks of
\* Utterance is dropped; a copy that ends with a closing needs no session.  Nothing else
\* is promised: the copy has holes, and a job that could not read it has begun again at
\* number 1 and pushed onto it.
ASSUME RestoredLogsAssumption ==
    \A l \in InitialLogs :
        /\ \A i \in DOMAIN l : ValidUtterance(l[i])
        /\ l # <<>> => Last(l).type # "CLOSING"

VARIABLES
    phase, cause,   \* EndState
    log, floor,     \* ConversationLog and its _number_floor
    restored,       \* length of the log the job was rebuilt from (history)
    turnSeq,        \* TurnPipeline._turn_seq
    closed,         \* TurnPipeline._closed (aclose has run)
    task, speechQ,  \* the coroutines and the speech lock
    present,        \* the candidate is in the room
    departures,     \* PresenceMonitor._epoch
    window,         \* the reconnect window timer is armed
    speech,         \* the departure count when the candidate's current speech began,
                    \* Untimed if the hook will not know
    clock,          \* 0: main part, 1: wrap-up, 2: hard deadline passed
    guardOn,        \* start_time_guard has been called
    row,            \* length of the log written to the database, 0 for no row
    shutdown        \* ctx.shutdown has been called

roomVars == <<present, departures, window, speech>>
timeVars == <<clock, guardOn>>
vars == <<phase, cause, log, floor, restored, turnSeq, closed, task, speechQ,
          roomVars, timeVars, row, shutdown>>

ES == INSTANCE EndState

Tasks    == Slots \cup {Main, Closer}
Silent   == -1   \* the candidate is not speaking
Untimed  == -2   \* is speaking, nobody knows since when

-----------------------------------------------------------------------------
(* Coroutines. seq is the turn number a run was started with, type what it *)
(* is about to ask, intact whether the candidate has been in the           *)
(* room since the current playout began (history), resumed whether the     *)
(* coroutine descends from a re-entry rather than from an answer (history).*)

RunPCs     == {"run", "decide", "generate"}
WaitingPCs == {"ask?", "notice?", "respeak?", "closing?"}
PlayingPCs == {"ask1", "ask2", "notice", "respeak1", "respeak2", "closing1", "closing2"}
EndPCs     == {"cleanup", "room"}
OtherPCs   == {"idle", "start", "heading", "resume", "marker"}

Task == [pc      : RunPCs \cup WaitingPCs \cup PlayingPCs \cup EndPCs \cup OtherPCs,
         seq     : Nat,
         type    : QuestionTypes \cup {"END", "none"},
         intact  : BOOLEAN,
         resumed : BOOLEAN]

Idle == [pc |-> "idle", seq |-> 0, type |-> "none", intact |-> FALSE, resumed |-> FALSE]

Coroutine(pc, seq, type, resumed) ==
    [pc |-> pc, seq |-> seq, type |-> type, intact |-> FALSE, resumed |-> resumed]

IdleSlots   == {u \in Slots : task[u].pc = "idle"}

\* The bound on Slots: nothing new begins in the last one while the entrypoint
\* may need it for a run of its own.
SlotToSpare ==
    Cardinality(IdleSlots) > IF task[Main].pc \in {"notice?", "notice"} THEN 1 ELSE 0
SomePlaying == \E t \in Tasks : task[t].pc \in PlayingPCs

\* The entrypoint does not yield between session.start and its first words: no
\* coroutine runs and no turn ends before that.
Entered == task[Main].pc \notin {"start", "heading"}

\* _is_stale
IsStale_TurnOnly(t) == task[t].seq # turnSeq
IsStale(t) == \/ task[t].seq # turnSeq
              \/ phase # ES!RUNNING

\* begin_closing, which spawns _closing_task when it wins the transition; T is
\* the value task would otherwise get.
BeginClosing(c, T) ==
    IF ES!CanAdvance(ES!CLOSING)
    THEN /\ phase' = ES!CLOSING
         /\ cause' = c
         /\ task' = [T EXCEPT ![Closer] = Coroutine("marker", 0, "none", FALSE)]
    ELSE /\ task' = T
         /\ UNCHANGED <<phase, cause>>

\* PresenceMonitor.on_participant_disconnected with invalidate_inflight: the turn
\* in flight is void and the reconnect window opens.
OnDisconnected_NoWindow ==
    /\ present' = FALSE
    /\ departures' = departures + 1
    /\ turnSeq' = turnSeq + 1
    /\ UNCHANGED <<speech, window>>
OnDisconnected ==
    /\ present' = FALSE
    /\ departures' = departures + 1
    /\ window' = TRUE
    /\ turnSeq' = turnSeq + 1
    /\ UNCHANGED speech

\* Leaving a coroutine.  The entrypoint starts the time guard when its first
\* utterance returns.
Finished(t) == [task EXCEPT ![t] = Idle]
GuardAfter_RestoredOnly(t) == guardOn' = (guardOn \/ (t = Main /\ floor # 0))
GuardAfter(t) == guardOn' = (guardOn \/ t = Main)

\* `async with self._speech_lock': at once when the lock is free, else in line.
AcquireLock_Barge(t, T, wait, play) ==
    /\ speechQ' = Append(speechQ, t)
    /\ task' = [T EXCEPT ![t].pc = play, ![t].intact = present]
AcquireLock(t, T, wait, play) ==
    /\ speechQ' = Append(speechQ, t)
    /\ task' = IF speechQ = <<>>
               THEN [T EXCEPT ![t].pc = play, ![t].intact = present]
               ELSE [T EXCEPT ![t].pc = wait]
ReleaseLock == speechQ' = Tail(speechQ)
Granted(t, wait) == task[t].pc = wait /\ Head(speechQ) = t

Replay(t, play) ==
    /\ task' = [task EXCEPT ![t].pc = play, ![t].intact = present]
    /\ UNCHANGED <<phase, cause, log, floor, restored, turnSeq, closed, speechQ,
                   roomVars, timeVars, row, shutdown>>

\* Returning with the lock held, and nothing else.
GiveUp(t) ==
    /\ ReleaseLock
    /\ task' = Finished(t)
    /\ GuardAfter(t)
    /\ UNCHANGED <<phase, cause, log, floor, restored, turnSeq, closed, roomVars, clock,
                   row, shutdown>>

\* Returning without the lock, and nothing else.
Return(t) ==
    /\ task' = Finished(t)
    /\ GuardAfter(t)
    /\ UNCHANGED <<phase, cause, log, floor, restored, turnSeq, closed, speechQ, roomVars,
                   clock, row, shutdown>>

\* Playout was exhausted and the job cannot go on: shutdown_fn.
ShutdownOnSilence_Forgets(t) == GiveUp(t)
ShutdownOnSilence(t) ==
    /\ ReleaseLock
    /\ task' = Finished(t)
    /\ GuardAfter(t)
    /\ shutdown' = TRUE
    /\ UNCHANGED <<phase, cause, log, floor, restored, turnSeq, closed, roomVars, clock,
                   row>>

-----------------------------------------------------------------------------
(* The user turn hook: on_user_turn_completed.                             *)

SpeechStarts ==
    /\ ~closed /\ present /\ speech = Silent /\ Entered
    /\ speech' \in {departures} \cup (IF UntimedSpeech THEN {Untimed} ELSE {})
    /\ UNCHANGED <<phase, cause, log, floor, restored, turnSeq, closed, task, speechQ,
                   present, departures, window, timeVars, row, shutdown>>

\* What the hook lets through: the interview is not closing, the candidate is in
\* the room, the speech began after the last departure as far as is known, and there
\* is a question to answer.
AnswerAccepted_AnyPhase ==
    /\ present
    /\ speech \in {departures, Untimed}
    /\ LastQuestion(log) # 0
AnswerAccepted_BegunBefore ==
    /\ phase < ES!CLOSING
    /\ present
    /\ LastQuestion(log) # 0
AnswerAccepted ==
    /\ phase < ES!CLOSING
    /\ present
    /\ speech \in {departures, Untimed}
    /\ LastQuestion(log) # 0
    /\ phase = ES!WAITING_FINAL_ANSWER =>
          LET q == QuestionFor(log, LastQuestionNumber(log, floor))
          IN  q # 0 /\ log[q].type = "FINAL"

Delivered == TurnsDuringPlayout \/ ~SomePlaying

\* Commit the answer, take a new turn number, start _run.
AnswerTurn ==
    /\ ~closed /\ speech # Silent /\ Delivered
    /\ AnswerAccepted /\ phase # ES!WAITING_FINAL_ANSWER
    /\ Len(log) < MaxLog /\ SlotToSpare
    /\ log' = Append(log, NewAnswer(log, speech = departures))
    /\ turnSeq' = turnSeq + 1
    /\ \E u \in IdleSlots :
          task' = [task EXCEPT ![u] = Coroutine("run", turnSeq + 1, "none", FALSE)]
    /\ speech' = Silent
    /\ UNCHANGED <<phase, cause, floor, restored, closed, speechQ, present, departures,
                   window, timeVars, row, shutdown>>

\* WAITING_FINAL_ANSWER: commit the one last answer and close, in one step.
FinalAnswerTurn ==
    /\ ~closed /\ speech # Silent /\ Delivered
    /\ AnswerAccepted /\ phase = ES!WAITING_FINAL_ANSWER
    /\ log' = Append(log, NewAnswer(log, speech = departures))
    /\ BeginClosing("FINAL_QUESTION", task)
    /\ speech' = Silent
    /\ UNCHANGED <<floor, restored, turnSeq, closed, speechQ, present, departures, window,
                   timeVars, row, shutdown>>

\* The turn is refused, has no text, or is not delivered to the hook.
SpeechDropped ==
    /\ ~closed /\ speech # Silent
    /\ speech' = Silent
    /\ UNCHANGED <<phase, cause, log, floor, restored, turnSeq, closed, task, speechQ,
                   present, departures, window, timeVars, row, shutdown>>

-----------------------------------------------------------------------------
(* _run: decide, generate, ask.                                            *)

\* _decide, and what decide() can answer in each part of the interview; a
\* failing orchestrator falls back to a member of the same set.  The answer is
\* drawn when the call is made and delivered by RunDecided.
Decisions ==
    IF \/ ~HasValidCurrentRoot(log)
       \/ ~HasTopicOrFollowUp(log)
       \/ FollowUpCount(log) >= MaxFollowups
    THEN {IF clock > 0 THEN "FINAL" ELSE "TOPIC"}
    ELSE {"FOLLOW_UP"} \cup (IF clock > 0 THEN {"FINAL", "END"} ELSE {"TOPIC"})

RunStarts(t) ==
    /\ task[t].pc = "run"
    /\ \E d \in Decisions :
          task' = [task EXCEPT ![t].pc = "decide", ![t].type = d]
    /\ UNCHANGED <<phase, cause, log, floor, restored, turnSeq, closed, speechQ, roomVars,
                   timeVars, row, shutdown>>

Ask(t, type) ==
    /\ AcquireLock(t, [task EXCEPT ![t].type = type], "ask?", "ask1")
    /\ UNCHANGED <<phase, cause, log, floor, restored, turnSeq, closed, roomVars,
                   timeVars, row, shutdown>>

RunDecided(t) ==
    /\ task[t].pc = "decide"
    /\ \/ IsStale(t) /\ Return(t)
       \/ /\ ~IsStale(t) /\ task[t].type = "END"
          /\ BeginClosing("LLM_END", Finished(t))
          /\ UNCHANGED <<log, floor, restored, turnSeq, closed, speechQ, roomVars,
                         timeVars, row, shutdown>>
       \/ ~IsStale(t) /\ task[t].type = "FINAL" /\ Ask(t, "FINAL")
       \/ /\ ~IsStale(t) /\ task[t].type \in {"TOPIC", "FOLLOW_UP"}
          /\ task' = [task EXCEPT ![t].pc = "generate"]
          /\ UNCHANGED <<phase, cause, log, floor, restored, turnSeq, closed, speechQ,
                         roomVars, timeVars, row, shutdown>>

\* A failed generation falls back to a vetted question, which is a new topic.
RunGenerated(t) ==
    /\ task[t].pc = "generate"
    /\ \/ IsStale(t) /\ Return(t)
       \/ ~IsStale(t) /\ \E type \in {task[t].type, "TOPIC"} : Ask(t, type)

\* The speech lock is ours: a run that went stale in line says nothing.
AskGranted(t) ==
    /\ Granted(t, "ask?")
    /\ IF IsStale(t) THEN GiveUp(t) ELSE Replay(t, "ask1")

\* Only a changed turn number or an empty room refuse a question that was played,
\* not the phase.
Committable_PresentNow(t) == present
Committable(t) == task[t].seq = turnSeq /\ present

\* _speak_final_question waits for the last answer once the question is committed.
PhaseAfterFinal_Uncommitted(committed) ==
    IF ES!CanAdvance(ES!WAITING_FINAL_ANSWER) THEN ES!WAITING_FINAL_ANSWER ELSE phase
PhaseAfterFinal_Backwards(committed) ==
    IF committed THEN ES!WAITING_FINAL_ANSWER ELSE phase
PhaseAfterFinal(committed) ==
    IF committed /\ ES!CanAdvance(ES!WAITING_FINAL_ANSWER)
    THEN ES!WAITING_FINAL_ANSWER ELSE phase

\* The playout succeeded.  The number is given out here, in the same step as
\* the commit.  An append that raises ends the coroutine with no commit.
AskPlayed(t) ==
    LET q       == NewQuestion(log, floor, task[t].type, task[t].intact)
        commits == Committable(t) /\ QuestionAccepted(log, q)
    IN  /\ task[t].pc \in {"ask1", "ask2"}
        /\ ReleaseLock
        /\ task' = Finished(t)
        /\ GuardAfter(t)
        /\ log' = IF commits THEN Append(log, q) ELSE log
        /\ phase' = IF q.type = "FINAL" THEN PhaseAfterFinal(commits) ELSE phase
        /\ UNCHANGED <<cause, floor, restored, turnSeq, closed, roomVars, clock, row,
                       shutdown>>

\* The playout failed: once more unless stale, then the job ends; the final
\* question closes the interview instead.
AskFailed(t) ==
    \/ task[t].pc = "ask1" /\ IF IsStale(t) THEN GiveUp(t) ELSE Replay(t, "ask2")
    \/ task[t].pc = "ask2" /\ task[t].type # "FINAL" /\ ShutdownOnSilence(t)
    \/ /\ task[t].pc = "ask2" /\ task[t].type = "FINAL"
       /\ ReleaseLock
       /\ GuardAfter(t)
       /\ BeginClosing("FINAL_QUESTION", Finished(t))
       /\ UNCHANGED <<log, floor, restored, turnSeq, closed, roomVars, clock, row,
                      shutdown>>

-----------------------------------------------------------------------------
(* Resuming after a re-entry: resume_interview (main.py), speak_initial,   *)
(* resume_after_reconnect and _respeak_question.                           *)

\* An empty log means not even the initial question was heard: ask it, under
\* the current turn number.  Otherwise say the resume notice first.
FirstWords(t, resumed) ==
    \/ /\ log = <<>> /\ phase = ES!RUNNING
       /\ AcquireLock(t, [task EXCEPT ![t] = Coroutine("ask?", turnSeq, "INITIAL", resumed)],
                      "ask?", "ask1")
       /\ UNCHANGED guardOn
    \/ /\ log # <<>> /\ phase < ES!CLOSING
       /\ AcquireLock(t, [task EXCEPT ![t] = Coroutine("notice?", 0, "none", resumed)],
                      "notice?", "notice")
       /\ UNCHANGED guardOn
    \/ /\ IF log = <<>> THEN phase # ES!RUNNING ELSE phase >= ES!CLOSING
       /\ task' = Finished(t)
       /\ GuardAfter(t)
       /\ UNCHANGED speechQ

ResumeStarts(t) ==
    /\ task[t].pc = "resume"
    /\ FirstWords(t, TRUE)
    /\ UNCHANGED <<phase, cause, log, floor, restored, turnSeq, closed, roomVars, clock,
                   row, shutdown>>

NoticeGranted(t) ==
    /\ Granted(t, "notice?")
    /\ IF phase >= ES!CLOSING THEN GiveUp(t) ELSE Replay(t, "notice")

\* The notice is over, played or not.  The anchor is read from the log now: an
\* unanswered question is repeated (the lock is taken anew, behind whoever is
\* already in line; seq keeps the place of the question in the log), an answer
\* gets the next question from a new run.
NoticeOver(t) ==
    /\ task[t].pc = "notice"
    /\ IF IsQuestion(Last(log))
       THEN IF Len(speechQ) = 1 /\ phase >= ES!CLOSING
            THEN GiveUp(t)
            ELSE /\ speechQ' = Append(Tail(speechQ), t)
                 /\ task' = [task EXCEPT ![t].pc = IF Len(speechQ) = 1 THEN "respeak1"
                                                   ELSE "respeak?",
                                         ![t].seq = Len(log),
                                         ![t].intact = present]
                 /\ UNCHANGED <<phase, cause, log, floor, restored, turnSeq, closed,
                                roomVars, timeVars, row, shutdown>>
       ELSE /\ ReleaseLock
            /\ turnSeq' = turnSeq + 1
            /\ \E u \in (IdleSlots \cup {t}) \ {Main} :
                  task' = [Finished(t) EXCEPT
                              ![u] = Coroutine("run", turnSeq + 1, "none", TRUE)]
            /\ GuardAfter(t)
            /\ UNCHANGED <<phase, cause, log, floor, restored, closed, roomVars, clock,
                           row, shutdown>>

RespeakGranted(t) ==
    /\ Granted(t, "respeak?")
    /\ IF phase >= ES!CLOSING THEN GiveUp(t) ELSE Replay(t, "respeak1")

RespeakPlayed(t) ==
    /\ task[t].pc \in {"respeak1", "respeak2"}
    /\ GiveUp(t)

RespeakFailed(t) ==
    \/ /\ task[t].pc = "respeak1"
       /\ IF phase >= ES!CLOSING THEN GiveUp(t) ELSE Replay(t, "respeak2")
    \/ task[t].pc = "respeak2" /\ ShutdownOnSilence(t)

-----------------------------------------------------------------------------
(* The entrypoint once the session runs (main.py).                         *)

\* A restored session that is already over closes at once; no monitor, no guard.
HeadingToClose ==
    /\ task[Main].pc = "heading"
    /\ BeginClosing(IF ResumeMode(log) = "CLOSE_FINAL_ANSWERED" THEN "FINAL_QUESTION"
                    ELSE "HARD_TIMEOUT",
                    Finished(Main))
    /\ UNCHANGED <<log, floor, restored, turnSeq, closed, speechQ, roomVars, timeVars,
                   row, shutdown>>

\* try_advance(WAITING_FINAL_ANSWER) of a session restored at its final question.
RestorePhase ==
    phase' = IF /\ ResumeMode(log) = "WAITING_FINAL_ANSWER"
                /\ ES!CanAdvance(ES!WAITING_FINAL_ANSWER)
             THEN ES!WAITING_FINAL_ANSWER ELSE phase

\* The monitor is armed and the phase restored; then the first utterance, unless
\* the candidate left while the job was being set up.
MainStarts ==
    /\ task[Main].pc = "start"
    /\ RestorePhase
    /\ \/ FirstWords(Main, log # <<>>) /\ UNCHANGED <<turnSeq, roomVars>>
       \/ /\ departures < MaxDepartures
          /\ OnDisconnected
          /\ task' = Finished(Main) /\ guardOn' = TRUE
          /\ UNCHANGED speechQ
    /\ UNCHANGED <<cause, log, floor, restored, closed, clock, row, shutdown>>

\* The presence monitor has been armed.
Armed == guardOn \/ (Entered /\ task[Main].pc # "idle")

\* participant_disconnected
CandidateLeaves ==
    /\ ~closed /\ Armed /\ present /\ departures < MaxDepartures
    /\ OnDisconnected
    /\ task' = [t \in Tasks |-> [task[t] EXCEPT !.intact = FALSE]]
    /\ UNCHANGED <<phase, cause, log, floor, restored, closed, speechQ, timeVars, row,
                   shutdown>>

\* on_participant_connected: close the window, start resume_interview.
CandidateReturns ==
    /\ ~closed /\ Armed /\ ~present /\ SlotToSpare
    /\ present' = TRUE
    /\ window' = FALSE
    /\ \E u \in IdleSlots :
          task' = [task EXCEPT ![u] = Coroutine("resume", 0, "none", TRUE)]
    /\ UNCHANGED <<phase, cause, log, floor, restored, turnSeq, closed, speechQ,
                   departures, speech, timeVars, row, shutdown>>

\* _watch
WindowExpires ==
    /\ ~closed /\ window
    /\ window' = FALSE
    /\ BeginClosing(IF clock = 2 THEN "HARD_TIMEOUT" ELSE "RECONNECT_TIMEOUT", task)
    /\ UNCHANGED <<log, floor, restored, turnSeq, closed, speechQ, present, departures,
                   speech, timeVars, row, shutdown>>

\* The interview clock never stops, not even while the candidate is away.
TimePasses_On ==
    /\ ~closed
    /\ clock' = clock + 1
    /\ UNCHANGED <<phase, cause, log, floor, restored, turnSeq, closed, task, speechQ,
                   roomVars, guardOn, row, shutdown>>
TimePasses ==
    /\ ~closed /\ clock < 2
    /\ clock' = clock + 1
    /\ UNCHANGED <<phase, cause, log, floor, restored, turnSeq, closed, task, speechQ,
                   roomVars, guardOn, row, shutdown>>

\* _guard_hard_limit
GuardFires ==
    /\ ~closed /\ guardOn /\ clock = 2 /\ phase < ES!CLOSING
    /\ BeginClosing("HARD_TIMEOUT", task)
    /\ UNCHANGED <<log, floor, restored, turnSeq, closed, speechQ, roomVars, timeVars,
                   row, shutdown>>

\* The end signal of the server reaches begin_closing.
EndSignal ==
    /\ ~closed /\ phase < ES!CLOSING
    /\ BeginClosing("USER_REQUEST", task)
    /\ UNCHANGED <<log, floor, restored, turnSeq, closed, speechQ, roomVars, timeVars,
                   row, shutdown>>

-----------------------------------------------------------------------------
(* _closing_task and EndSequence.run.                                      *)

SkipsSpeech == cause \in {"RECONNECT_TIMEOUT", "RECOVERED_CLOSING"} \/ ~present

\* The phase moves to CLEANING and the end sequence begins.
ToCleaning ==
    /\ ES!Advance(ES!CLEANING)
    /\ task' = [task EXCEPT ![Closer].pc = "cleanup", ![Closer].intact = FALSE]

\* The termination marker has been written or given up; then the closing
\* statement, unless nobody is there to hear it: presence is looked at now,
\* before waiting for the lock.
MarkerDone ==
    /\ task[Closer].pc = "marker" /\ Entered
    /\ IF SkipsSpeech
       THEN ToCleaning /\ UNCHANGED speechQ
       ELSE AcquireLock(Closer, task, "closing?", "closing1") /\ UNCHANGED <<phase,
                                                                             cause>>
    /\ UNCHANGED <<log, floor, restored, turnSeq, closed, roomVars, timeVars, row,
                   shutdown>>

ClosingGranted == Granted(Closer, "closing?") /\ Replay(Closer, "closing1")

ClosingPlayed ==
    /\ task[Closer].pc \in {"closing1", "closing2"}
    /\ ReleaseLock
    /\ log' = Append(log, NewClosing(task[Closer].intact))
    /\ ToCleaning
    /\ UNCHANGED <<floor, restored, turnSeq, closed, roomVars, timeVars, row, shutdown>>

ClosingFailed ==
    \/ task[Closer].pc = "closing1" /\ Replay(Closer, "closing2")
    \/ /\ task[Closer].pc = "closing2"
       /\ ReleaseLock
       /\ ToCleaning
       /\ UNCHANGED <<log, floor, restored, turnSeq, closed, roomVars, timeVars, row,
                      shutdown>>

\* The log is read once, for its one row in the database: a failure, a timeout
\* or another owner leaves no row, and a reconnect timeout does not ask for one.
Cleanup ==
    /\ task[Closer].pc = "cleanup"
    /\ row' \in IF cause = "RECONNECT_TIMEOUT" THEN {0} ELSE {0, Len(log)}
    /\ task' = [task EXCEPT ![Closer].pc = "room"]
    /\ UNCHANGED <<phase, cause, log, floor, restored, turnSeq, closed, speechQ, roomVars,
                   timeVars, shutdown>>

\* The room is deleted or given up: the job ends either way.
RoomDone ==
    /\ task[Closer].pc = "room"
    /\ task' = Finished(Closer)
    /\ shutdown' = TRUE
    /\ UNCHANGED <<phase, cause, log, floor, restored, turnSeq, closed, speechQ, roomVars,
                   timeVars, row>>

\* The job's shutdown callback: aclose cancels every coroutine.
Aclose ==
    /\ shutdown /\ ~closed
    /\ closed' = TRUE
    /\ turnSeq' = turnSeq + 1
    /\ task' = [t \in Tasks |-> Idle]
    /\ speechQ' = <<>>
    /\ window' = FALSE
    /\ speech' = Silent
    /\ UNCHANGED <<phase, cause, log, floor, restored, present, departures, timeVars, row,
                   shutdown>>

\* Nothing is left of the job.
JobOver == closed /\ UNCHANGED vars

-----------------------------------------------------------------------------
\* A new job, or one restored from the Redis copy (not from a closing, which
\* needs no session); a restored one may find any part of its time spent, and
\* one already over may find the room empty.
Init ==
    /\ phase = ES!RUNNING /\ cause = ES!NoCause
    /\ log \in InitialLogs /\ floor = NumberFloor(log) /\ restored = Len(log)
    /\ clock \in 0..2
    /\ LET over == ResumeMode(log) = "CLOSE_FINAL_ANSWERED" \/ clock = 2
       IN  /\ task = [[t \in Tasks |-> Idle] EXCEPT
                         ![Main] = Coroutine(IF over THEN "heading" ELSE "start",
                                             0, "none", FALSE)]
           /\ present \in IF over THEN BOOLEAN ELSE {TRUE}
    /\ turnSeq = 0 /\ speechQ = <<>> /\ closed = FALSE /\ shutdown = FALSE
    /\ departures = 0 /\ window = FALSE /\ speech = Silent
    /\ guardOn = FALSE
    /\ row = 0

RunStep(t) ==
    \/ RunStarts(t) \/ RunDecided(t) \/ RunGenerated(t)
    \/ AskGranted(t) \/ AskPlayed(t) \/ AskFailed(t)
ResumeStep(t) ==
    \/ ResumeStarts(t) \/ NoticeGranted(t) \/ NoticeOver(t)
    \/ RespeakGranted(t) \/ RespeakPlayed(t) \/ RespeakFailed(t)
CloserStep ==
    \/ MarkerDone \/ ClosingGranted \/ ClosingPlayed \/ ClosingFailed
    \/ Cleanup \/ RoomDone
EntryStep == HeadingToClose \/ MainStarts
Candidate ==
    \/ SpeechStarts \/ AnswerTurn \/ FinalAnswerTurn \/ SpeechDropped
    \/ CandidateLeaves \/ CandidateReturns
Timer == TimePasses \/ WindowExpires \/ GuardFires

Next ==
    \/ \E t \in Slots \cup {Main} : RunStep(t) \/ ResumeStep(t)
    \/ CloserStep \/ EntryStep \/ Candidate \/ Timer
    \/ EndSignal \/ Aclose \/ JobOver

\* The event loop runs every ready coroutine, and playouts and calls return:
\* they are bounded by timeouts or by the length of the audio.
LoopFairness ==
    /\ \A t \in Slots \cup {Main} : WF_vars(RunStep(t)) /\ WF_vars(ResumeStep(t))
    /\ WF_vars(CloserStep) /\ WF_vars(EntryStep) /\ WF_vars(Aclose)

\* Time passes and timers fire.  The candidate and the server owe nothing.
TimerFairness == WF_vars(TimePasses) /\ WF_vars(WindowExpires) /\ WF_vars(GuardFires)

Spec     == Init /\ [][Next]_vars
LoopSpec == Spec /\ LoopFairness

-----------------------------------------------------------------------------
\* The values the variables of the job range over.
TypeOK ==
    /\ ES!TypeOK
    /\ log \in Seq(Utterance) /\ floor \in Nat /\ restored \in Nat
    /\ turnSeq \in Nat /\ closed \in BOOLEAN
    /\ task \in [Tasks -> Task] /\ speechQ \in Seq(Tasks)
    /\ present \in BOOLEAN /\ departures \in Nat /\ window \in BOOLEAN
    /\ speech \in Nat \cup {Silent, Untimed}
    /\ clock \in 0..2 /\ guardOn \in BOOLEAN
    /\ row \in Nat /\ shutdown \in BOOLEAN
-----------------------------------------------------------------------------
(* Safety. *)

\* At most one voice at a time: whoever plays holds the speech lock, that is,
\* is at the head of the line, and nobody stands in line twice.
OneVoice ==
    /\ \A t \in Tasks : task[t].pc \in PlayingPCs => speechQ # <<>> /\ Head(speechQ) = t
    /\ \A i, j \in DOMAIN speechQ : speechQ[i] = speechQ[j] => i = j

\* The absence of the candidate never goes unnoticed: until the interview is
\* being closed, a reconnect window is open exactly while the room is empty.
AbsenceHasWindow ==
    Armed /\ ~closed /\ phase < ES!CLOSING => (window <=> ~present)

\* What a job adds to the log is in order, whatever the job was rebuilt from, though
\* numbers and branches are read when a playout ends and others may speak while it plays:
\* no new question takes a number that was seen before, not even in a copy that has
\* numbers twice, and a log that began in order stays in order as a whole.
LogIsWellKept ==
    /\ WellKeptFrom(log, restored)
    /\ WellKept(SubSeq(log, 1, restored)) => WellKept(log)

\* Every branch hangs from a root question of the log and has no more
\* follow-ups than MAX_FOLLOWUPS_PER_BRANCH (branches that were already in a
\* restored log aside).
BranchesAreSound ==
    \A i \in DOMAIN log : log[i].type = "FOLLOW_UP" /\ log[i].num > floor =>
        /\ \E r \in 1..i-1 : log[r].type \in RootTypes /\ log[r].num = log[i].parent
        /\ Cardinality({k \in 1..i : /\ log[k].type = "FOLLOW_UP"
                                     /\ log[k].parent = log[i].parent}) <= MaxFollowups

\* The closing statement of the job is the last word, and is said once.
ClosingIsLast ==
    \A i \in DOMAIN log : i > restored /\ log[i].type = "CLOSING" => i = Len(log)

\* The pipeline waits for the last answer only while the question the candidate
\* heard last is the final one and has no answer; and after a copy in order it is that
\* question which the hook finds by number, so that the answer is taken.
WaitingForTheFinalAnswer ==
    phase = ES!WAITING_FINAL_ANSWER =>
        /\ log # <<>> /\ Last(log).type = "FINAL"
        /\ WellKept(SubSeq(log, 1, restored)) =>
              QuestionFor(log, LastQuestionNumber(log, floor)) = Len(log)

\* No dead air: as long as the interview runs with the candidate in the room,
\* an answer (or an empty log) has somebody working on what is said next: a
\* run of the current turn, or an entry or re-entry that will look at the log.
Working(t) ==
    \/ task[t].pc \in {"start", "heading", "resume", "notice?", "notice"}
    \/ task[t].pc \in RunPCs \cup {"ask?", "ask1", "ask2"} /\ task[t].seq = turnSeq
NoDeadAir ==
    /\ phase = ES!RUNNING /\ present /\ ~shutdown
    /\ log = <<>> \/ IsAnswer(Last(log))
    => \E t \in Tasks : Working(t)

\* What the transcript says was heard was heard: a candidate who answers stays
\* in the room for the question that follows, or that question is not recorded.
\* A question about to be committed has had its listener since it began.
\* (Questions born of a re-entry are another matter: one that outlived a second
\* departure is committed if the candidate is back when it ends.)
AskedIsHeard ==
    \A t \in Tasks : /\ task[t].pc \in {"ask1", "ask2"} /\ ~task[t].resumed
                      /\ Committable(t)
                      => task[t].intact

\* A session that ends because the candidate did not come back leaves no row;
\* any other row has all the candidate said and the closing statement.  No answer a
\* departure cut short is among them, if the hook knows when a speech began.
RowHasEveryAnswer ==
    row # 0 => /\ cause # "RECONNECT_TIMEOUT"
               /\ \A i \in DOMAIN log : i > row => IsQuestion(log[i])
               /\ UntimedSpeech \/ \A i \in DOMAIN log :
                      IsAnswer(log[i]) /\ i > restored => log[i].intact

\* The end of the interview is the state machine of end_state.py, whoever among
\* the turn, the timers, the server and the entrypoint pushes it.
EndStateSpec == ES!Spec

-----------------------------------------------------------------------------
(* Liveness. *)

\* The job ends, whatever the candidate does, if time passes and timers fire.
JobEnds == TimerFairness => <>closed

\* An answer is followed up without any timer's help: by a word of the
\* interviewer, the end of the interview or of the job, or the candidate leaving
\* or speaking again first.
AnswerFollowedUp ==
    \A n \in 1..MaxLog :
        (phase = ES!RUNNING /\ present /\ Len(log) = n /\ IsAnswer(log[n]))
            ~> (phase # ES!RUNNING \/ ~present \/ Len(log) > n \/ shutdown)

-----------------------------------------------------------------------------
(* What the comments of the code say, and the code does not do. *)

\* end_sequence.py: new commits are already shut out when the log is finalised,
\* so the row written to the database is the whole log.
RowIsWholeLog == row # 0 => row = Len(log)
=============================================================================
