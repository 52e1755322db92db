---------------------------- MODULE Interview_proofs ----------------------------
(***************************************************************************)
(* What an interview says, hears and records, for every number of          *)
(* coroutines, every log a job may start from and every bound: the safety  *)
(* of TurnPipeline beyond the speech lock.                                 *)
(***************************************************************************)
EXTENDS TurnPipeline_proofs

-----------------------------------------------------------------------------
(* The kinds of steps.  The invariants below read little of what a step    *)
(* does, and many steps do the same as far as they can tell.               *)

Asking == RunPCs \cup {"ask?", "ask1", "ask2"}
Voiced == {"ask1", "ask2"}

\* A run, or a question, of the present turn.
Current(t) == task[t].pc \in Asking /\ task[t].seq = turnSeq

\* Only t moves, and nothing that was said, nor who is there, changes.
Alone(t)  == \A u \in Tasks \ {t} : task'[u] = task[u]
SameState == UNCHANGED <<log, floor, restored, closed, present, window, row>>

\* t goes on with its question.
Proceeds(t) ==
    /\ task[t].pc \in Asking /\ task'[t].pc \in Asking \ {"run"}
    /\ task'[t].seq = task[t].seq /\ task'[t].resumed = task[t].resumed
    /\ \/ task'[t].type = task[t].type
       \/ task[t].pc \in RunPCs /\ task'[t].type = "TOPIC"
       \/ task[t].pc = "run" /\ task'[t].type \in Decisions
    /\ task'[t].pc \in RunPCs => task[t].pc \in RunPCs
    /\ task'[t].pc \in Voiced => task'[t].intact = present

\* t begins the interview with the initial question.
Opens(t) ==
    /\ task[t].pc \notin Asking /\ task'[t].pc \in {"ask?", "ask1"}
    /\ log = <<>> /\ phase = ES!RUNNING
    /\ task'[t].seq = turnSeq /\ task'[t].type = "INITIAL"
    /\ task'[t].pc = "ask1" => task'[t].intact = present

\* If t was the one to say what comes next, it still is, or nobody has to.
Excused(t) ==
    Working(t) => \/ Working(t)'
                  \/ phase # ES!RUNNING
                  \/ shutdown'
                  \/ task[t].pc = "notice" /\ ~IsAnswer(Last(log))

\* A step of one coroutine.
Steps(t) ==
    /\ Alone(t) /\ SameState /\ UNCHANGED <<phase, cause, turnSeq>>
    /\ shutdown => shutdown'
    /\ task[t].pc \notin {"start", "heading"} /\ task'[t].pc \notin {"start", "heading"}
    /\ task'[t].pc \in Asking => Proceeds(t) \/ (Opens(t) /\ task'[t].resumed)
    /\ task'[t].pc \in Voiced => phase = ES!RUNNING
    /\ task'[t].pc \in {"notice?", "notice"} => task[t].pc = "notice?" \/ log # <<>>
    /\ Excused(t)

\* The steps of a re-entry that ends with a run of its own.
Renews(t) ==
    /\ task[t].pc = "notice" /\ ~IsQuestion(Last(log))
    /\ SameState /\ UNCHANGED <<phase, cause, shutdown>>
    /\ turnSeq' = turnSeq + 1
    /\ \E u \in Slots :
          /\ task[u].pc \in {"idle", "notice"}
          /\ task'[u] = Coroutine("run", turnSeq + 1, "none", TRUE)
          /\ \A w \in Tasks \ {u} : task'[w] = IF w = t THEN Idle ELSE task[w]

\* Some coroutines end, and Closer may begin.
Thins == \A u \in Tasks \ {Closer} : task'[u] = task[u] \/ task'[u] = Idle

\* begin_closing was won, perhaps by the final answer.
Closes ==
    /\ phase < ES!CLOSING /\ phase' = ES!CLOSING
    /\ Thins /\ task'[Closer].pc = "marker"
    /\ UNCHANGED <<floor, restored, turnSeq, closed, present, row>>
    /\ log' # log =>
          /\ phase = ES!WAITING_FINAL_ANSWER
          /\ UntimedSpeech \/ speech = departures
          /\ LastQuestion(log) # 0 /\ log' = Append(log, NewAnswer(log, speech = departures))

\* begin_closing was lost.
Late ==
    /\ phase >= ES!CLOSING
    /\ Thins /\ task'[Closer] = task[Closer]
    /\ UNCHANGED <<phase, cause, log, floor, restored, turnSeq, closed, present, row>>

\* Nothing the invariants read has changed.
Quiet == SameState /\ UNCHANGED <<phase, cause, turnSeq, task, shutdown>>

\* The phases, as the numbers they are.
LEMMA Phases ==
    /\ ES!RUNNING = 0 /\ ES!WAITING_FINAL_ANSWER = 1 /\ ES!CLOSING = 2 /\ ES!CLEANING = 3
    /\ ES!CLOSED = 4 /\ ES!EndPhase = 0..4
BY DEF ES!RUNNING, ES!WAITING_FINAL_ANSWER, ES!CLOSING, ES!CLEANING, ES!CLOSED, ES!EndPhase

\* The types the proofs below need.
LEMMA JobTypes ==
    ASSUME IInv
    PROVE  /\ task \in [Tasks -> Task] /\ turnSeq \in Nat /\ log \in Seq(Utterance)
           /\ floor \in Nat /\ phase \in 0..4 /\ present \in BOOLEAN
           /\ \A t \in Tasks : Role(t, task[t], phase)
           /\ speechQ \in Seq(Tasks)
BY Phases DEF IInv, Data, Good, ES!TypeOK

\* Who is a task, and who is not Closer.
LEMMA Members ==
    /\ Main \in Tasks /\ Closer \in Tasks /\ Slots \subseteq Tasks
    /\ Main # Closer /\ Closer \notin Slots /\ Main \notin Slots
    /\ Tasks = Slots \cup {Main, Closer}
    /\ Idle.pc = "idle" /\ "idle" \notin Asking
BY PipelineAssumption DEF Tasks, Idle, Asking, RunPCs

\* An ordinary coroutine that ends is a step of its own, if nobody waits for it.
LEMMA QuitIsStep ==
    ASSUME IInv, NEW t \in Slots \cup {Main}, task' = Finished(t),
           SameState, UNCHANGED <<phase, cause, turnSeq>>, shutdown => shutdown',
           task[t].pc \notin {"start", "heading"}, Excused(t)
    PROVE  Steps(t)
<1>1. task'[t] = Idle /\ Alone(t)
  BY Members, JobTypes DEF Finished, Alone
<1> QED
  BY <1>1 DEF Steps, Idle, Asking, Voiced, RunPCs

\* So is one that plays once more, or for the first time.
LEMMA ReplayIsStep ==
    ASSUME IInv, NEW t \in Slots \cup {Main}, NEW play, Replay(t, play),
           \/ play \in Voiced /\ task[t].pc \in {"ask?", "ask1"} /\ ~IsStale(t)
           \/ play \in {"respeak1", "respeak2"} /\ task[t].pc \in {"respeak?", "respeak1"}
           \/ play = "notice" /\ task[t].pc = "notice?"
    PROVE  Steps(t)
<1>1. /\ t \in Tasks /\ task[t] \in Task /\ task \in [Tasks -> Task]
      /\ task' = [task EXCEPT ![t].pc = play, ![t].intact = present]
  BY Members, JobTypes DEF Replay
<1>2. /\ task'[t].pc = play /\ task'[t].intact = present /\ task'[t].seq = task[t].seq
      /\ task'[t].type = task[t].type /\ task'[t].resumed = task[t].resumed
      /\ Alone(t)
  BY <1>1 DEF Task, Alone
<1>3. SameState /\ UNCHANGED <<phase, cause, turnSeq, shutdown>>
  BY DEF Replay, SameState, roomVars
<1>4. CASE play \in Voiced /\ task[t].pc \in {"ask?", "ask1"} /\ ~IsStale(t)
  <2>1. Proceeds(t)
    BY <1>2, <1>4 DEF Proceeds, Asking, Voiced, RunPCs
  <2>2. Working(t)'
    BY <1>2, <1>3, <1>4 DEF Working, Voiced, IsStale
  <2>3. phase = ES!RUNNING
    BY <1>4 DEF IsStale
  <2>4. Excused(t)
    BY <2>2 DEF Excused
  <2> QED BY <1>2, <1>3, <1>4, <2>1, <2>3, <2>4 DEF Steps, Voiced
<1>5. CASE \/ play \in {"respeak1", "respeak2"} /\ task[t].pc \in {"respeak?", "respeak1"}
           \/ play = "notice" /\ task[t].pc = "notice?"
  <2>1. Excused(t)
    BY <1>2, <1>3, <1>5 DEF Excused, Working, RunPCs
  <2> QED BY <1>2, <1>3, <1>5, <2>1 DEF Steps, Asking, Voiced, RunPCs
<1> QED
  BY <1>4, <1>5

\* begin_closing, won or lost.
LEMMA BeginClosingIsKind ==
    ASSUME IInv, NEW T \in [Tasks -> Task], NEW c, BeginClosing(c, T),
           \A u \in Tasks : T[u] = task[u] \/ (u # Closer /\ T[u] = Idle),
           UNCHANGED <<log, floor, restored, turnSeq, closed, present, row>>
    PROVE  Closes \/ Late
<1>1. CASE ES!CanAdvance(ES!CLOSING)
  <2>1. phase < ES!CLOSING /\ phase' = ES!CLOSING
    BY <1>1 DEF BeginClosing, ES!CanAdvance
  <2>2. task' = [T EXCEPT ![Closer] = Coroutine("marker", 0, "none", FALSE)]
    BY <1>1 DEF BeginClosing
  <2>3. task'[Closer].pc = "marker" /\ \A u \in Tasks \ {Closer} : task'[u] = T[u]
    BY <2>2, Members DEF Coroutine
  <2> QED BY <2>1, <2>3 DEF Closes, Thins
<1>2. CASE ~ES!CanAdvance(ES!CLOSING)
  <2>1. phase >= ES!CLOSING /\ task' = T /\ UNCHANGED <<phase, cause>>
    BY <1>2, JobTypes, Phases DEF BeginClosing, ES!CanAdvance
  <2> QED BY <2>1, Members DEF Late, Thins
<1> QED BY <1>1, <1>2

\* The steps of a run.
LEMMA RunIsKind ==
    ASSUME IInv, NEW t \in Slots \cup {Main}, RunStep(t)
    PROVE  Steps(t) \/ AskPlayed(t) \/ Closes \/ Late
<1>1. t \in Tasks /\ t # Closer /\ task[t] \in Task /\ task \in [Tasks -> Task]
  BY Members, JobTypes
<1>2. CASE RunStarts(t)
  <2>1. PICK d \in Decisions : task' = [task EXCEPT ![t].pc = "decide", ![t].type = d]
    BY <1>2 DEF RunStarts
  <2>2. /\ task'[t].pc = "decide" /\ task'[t].type = d /\ task'[t].seq = task[t].seq
        /\ task'[t].resumed = task[t].resumed /\ Alone(t) /\ task[t].pc = "run"
    BY <1>1, <1>2, <2>1 DEF Task, Alone, RunStarts
  <2>3. SameState /\ UNCHANGED <<phase, cause, turnSeq, shutdown>>
    BY <1>2 DEF RunStarts, SameState, roomVars
  <2>4. Proceeds(t)
    BY <2>2 DEF Proceeds, Asking, Voiced, RunPCs
  <2>5. Excused(t)
    BY <2>2, <2>3 DEF Excused, Working, RunPCs
  <2> QED BY <2>2, <2>3, <2>4, <2>5 DEF Steps, Voiced
<1>3. ASSUME task[t].pc \in {"decide", "generate"}, IsStale(t), Return(t) PROVE Steps(t)
  <2>1. /\ task' = Finished(t) /\ SameState /\ UNCHANGED <<phase, cause, turnSeq,
                                                           shutdown>>
    BY <1>3 DEF Return, SameState, roomVars
  <2>2. Excused(t)
    BY <1>3 DEF Excused, Working, IsStale
  <2> QED BY <1>3, <2>1, <2>2, QuitIsStep
<1>4. ASSUME NEW type, task[t].pc \in {"decide", "generate"}, ~IsStale(t), Ask(t, type),
             type = task[t].type \/ type = "TOPIC"
      PROVE  Steps(t)
  <2>1. /\ speechQ = <<>> => task' = [[task EXCEPT ![t].type = type]
                                        EXCEPT ![t].pc = "ask1", ![t].intact = present]
        /\ speechQ # <<>> => task' = [[task EXCEPT ![t].type = type] EXCEPT ![t].pc = "ask?"]
    BY <1>4 DEF Ask, AcquireLock
  <2>2. /\ task'[t].pc \in {"ask?", "ask1"} /\ task'[t].type = type
        /\ task'[t].seq = task[t].seq /\ task'[t].resumed = task[t].resumed
        /\ task'[t].pc = "ask1" => task'[t].intact = present
    <3>1. CASE speechQ = <<>>
      BY <1>1, <2>1, <3>1 DEF Task
    <3>2. CASE speechQ # <<>>
      BY <1>1, <2>1, <3>2 DEF Task
    <3> QED BY <3>1, <3>2
  <2>3. Alone(t)
    BY <1>1, <2>1 DEF Alone
  <2>4. SameState /\ UNCHANGED <<phase, cause, turnSeq, shutdown>>
    BY <1>4 DEF Ask, SameState, roomVars
  <2>5. Proceeds(t)
    BY <1>4, <2>2 DEF Proceeds, Asking, Voiced, RunPCs
  <2>6. Excused(t)
    BY <1>4, <2>2, <2>4 DEF Excused, Working, IsStale
  <2>7. phase = ES!RUNNING
    BY <1>4 DEF IsStale
  <2> QED BY <1>4, <2>2, <2>3, <2>4, <2>5, <2>6, <2>7 DEF Steps
<1>5. CASE RunDecided(t)
  <2>1. CASE /\ BeginClosing("LLM_END", Finished(t))
             /\ UNCHANGED <<log, floor, restored, turnSeq, closed, speechQ, roomVars,
                            timeVars, row, shutdown>>
    <3>1. /\ Finished(t) \in [Tasks -> Task]
          /\ \A u \in Tasks : Finished(t)[u] = task[u] \/ (u # Closer /\ Finished(t)[u] = Idle)
      BY <1>1, Ordinary DEF Finished
    <3> QED BY <2>1, <3>1, BeginClosingIsKind DEF roomVars
  <2>2. CASE /\ ~IsStale(t) /\ task[t].type \in {"TOPIC", "FOLLOW_UP"}
             /\ task' = [task EXCEPT ![t].pc = "generate"]
             /\ UNCHANGED <<phase, cause, log, floor, restored, turnSeq, closed, speechQ,
                            roomVars, timeVars, row, shutdown>>
    <3>1. /\ task'[t].pc = "generate" /\ task'[t].type = task[t].type
          /\ task'[t].seq = task[t].seq /\ task'[t].resumed = task[t].resumed
          /\ Alone(t) /\ task[t].pc = "decide"
      BY <1>1, <1>5, <2>2 DEF Task, Alone, RunDecided
    <3>2. SameState /\ UNCHANGED <<phase, cause, turnSeq, shutdown>>
      BY <2>2 DEF SameState, roomVars
    <3>3. Proceeds(t)
      BY <3>1 DEF Proceeds, Asking, Voiced, RunPCs
    <3>4. Excused(t)
      BY <3>1, <3>2 DEF Excused, Working, RunPCs
    <3> QED BY <3>1, <3>2, <3>3, <3>4 DEF Steps, Voiced
  <2> QED BY <1>3, <1>4, <1>5, <2>1, <2>2 DEF RunDecided
<1>6. CASE RunGenerated(t)
  BY <1>3, <1>4, <1>6 DEF RunGenerated
<1>7. ASSUME GiveUp(t), IsStale(t), task[t].pc \in {"ask?", "ask1"} PROVE Steps(t)
  <2>1. /\ task' = Finished(t) /\ SameState /\ UNCHANGED <<phase, cause, turnSeq,
                                                           shutdown>>
    BY <1>7 DEF GiveUp, SameState, roomVars
  <2>2. Excused(t)
    BY <1>7 DEF Excused, Working, IsStale
  <2> QED BY <1>7, <2>1, <2>2, QuitIsStep
<1>8. CASE AskGranted(t)
  BY <1>7, <1>8, ReplayIsStep DEF AskGranted, Granted, Voiced
<1>9. CASE AskFailed(t)
  <2>1. CASE task[t].pc = "ask1" /\ IF IsStale(t) THEN GiveUp(t) ELSE Replay(t, "ask2")
    BY <1>7, <2>1, ReplayIsStep DEF Voiced
  <2>2. CASE task[t].pc = "ask2" /\ ShutdownOnSilence(t)
    <3>1. /\ task' = Finished(t) /\ SameState /\ UNCHANGED <<phase, cause, turnSeq>>
          /\ shutdown' = TRUE
      BY <2>2 DEF ShutdownOnSilence, SameState, roomVars
    <3>2. Excused(t)
      BY <3>1 DEF Excused
    <3> QED BY <2>2, <3>1, <3>2, QuitIsStep
  <2>3. CASE /\ BeginClosing("FINAL_QUESTION", Finished(t))
             /\ UNCHANGED <<log, floor, restored, turnSeq, closed, roomVars, clock, row,
                            shutdown>>
    <3>1. /\ Finished(t) \in [Tasks -> Task]
          /\ \A u \in Tasks : Finished(t)[u] = task[u] \/ (u # Closer /\ Finished(t)[u] = Idle)
      BY <1>1, Ordinary DEF Finished
    <3> QED BY <2>3, <3>1, BeginClosingIsKind DEF roomVars
  <2> QED BY <1>9, <2>1, <2>2, <2>3 DEF AskFailed
<1> QED
  BY <1>2, <1>5, <1>6, <1>8, <1>9 DEF RunStep

\* The first words, of a re-entry or of the entrypoint.
LEMMA FirstWordsAre ==
    ASSUME IInv, NEW t \in Slots \cup {Main}, NEW resumed \in BOOLEAN,
           task[t].pc \in {"start", "resume"}, FirstWords(t, resumed), UNCHANGED turnSeq
    PROVE  /\ Alone(t) /\ task'[t].pc \notin {"start", "heading"}
           /\ task'[t].pc \in Asking => Opens(t) /\ task'[t].resumed = resumed
           /\ task'[t].pc \in {"notice?", "notice"} => log # <<>>
           /\ Working(t)' \/ phase # ES!RUNNING
<1>1. t \in Tasks /\ task \in [Tasks -> Task] /\ turnSeq \in Nat
  BY Members, JobTypes
<1>2. ASSUME NEW r \in Task, NEW wait, NEW play, AcquireLock(t, [task EXCEPT ![t] = r], wait, play)
      PROVE  /\ Alone(t) /\ task'[t].seq = r.seq /\ task'[t].type = r.type
             /\ task'[t].resumed = r.resumed /\ task'[t].pc \in {wait, play}
             /\ task'[t].pc = wait \/ task'[t].intact = present
  <2>1. CASE speechQ = <<>>
    <3>1. task' = [[task EXCEPT ![t] = r] EXCEPT ![t].pc = play, ![t].intact = present]
      BY <1>2, <2>1 DEF AcquireLock
    <3> QED BY <1>1, <3>1 DEF Task, Alone
  <2>2. CASE speechQ # <<>>
    <3>1. task' = [[task EXCEPT ![t] = r] EXCEPT ![t].pc = wait]
      BY <1>2, <2>2 DEF AcquireLock
    <3> QED BY <1>1, <3>1 DEF Task, Alone
  <2> QED BY <2>1, <2>2
<1>3. CASE /\ log = <<>> /\ phase = ES!RUNNING
           /\ AcquireLock(t, [task EXCEPT ![t] = Coroutine("ask?", turnSeq, "INITIAL", resumed)],
                          "ask?", "ask1")
  <2> DEFINE r == Coroutine("ask?", turnSeq, "INITIAL", resumed)
  <2>1. r \in Task /\ r.seq = turnSeq /\ r.type = "INITIAL" /\ r.resumed = resumed
    BY <1>1, CoroutineType DEF Coroutine, QuestionTypes, RootTypes
  <2> HIDE DEF r
  <2>2. /\ Alone(t) /\ task'[t].seq = turnSeq /\ task'[t].type = "INITIAL"
        /\ task'[t].resumed = resumed /\ task'[t].pc \in {"ask?", "ask1"}
        /\ task'[t].pc = "ask?" \/ task'[t].intact = present
    BY <1>2, <1>3, <2>1 DEF r
  <2>3. Opens(t)
    BY <1>3, <2>2 DEF Opens, Asking, RunPCs
  <2>4. Working(t)'
    BY <2>2 DEF Working
  <2> QED BY <2>2, <2>3, <2>4
<1>4. CASE /\ log # <<>>
           /\ AcquireLock(t, [task EXCEPT ![t] = Coroutine("notice?", 0, "none", resumed)],
                          "notice?", "notice")
  <2> DEFINE r == Coroutine("notice?", 0, "none", resumed)
  <2>1. r \in Task
    BY CoroutineType
  <2> HIDE DEF r
  <2>2. Alone(t) /\ task'[t].pc \in {"notice?", "notice"}
    BY <1>2, <1>4, <2>1 DEF r
  <2>3. Working(t)'
    BY <2>2 DEF Working
  <2> QED BY <1>4, <2>2, <2>3 DEF Asking, RunPCs
<1>5. CASE /\ IF log = <<>> THEN phase # ES!RUNNING ELSE phase >= ES!CLOSING
           /\ task' = Finished(t)
  <2>1. Alone(t) /\ task'[t] = Idle /\ phase # ES!RUNNING
    BY <1>1, <1>5, Phases DEF Alone, Finished
  <2> QED BY <2>1, Members DEF Idle
<1> QED
  BY <1>3, <1>4, <1>5 DEF FirstWords

\* The steps of a re-entry.
LEMMA ResumeIsKind ==
    ASSUME IInv, NEW t \in Slots \cup {Main}, ResumeStep(t)
    PROVE  Steps(t) \/ Renews(t)
<1>1. t \in Tasks /\ t # Closer /\ task[t] \in Task /\ task \in [Tasks -> Task]
  BY Members, JobTypes
<1>2. CASE ResumeStarts(t)
  <2>1. UNCHANGED <<phase, cause, log, floor, restored, turnSeq, closed, roomVars, clock,
                    row, shutdown>>
    BY <1>2 DEF ResumeStarts
  <2>2. /\ Alone(t) /\ task'[t].pc \notin {"start", "heading"}
        /\ task'[t].pc \in Asking => Opens(t) /\ task'[t].resumed = TRUE
        /\ task'[t].pc \in {"notice?", "notice"} => log # <<>>
        /\ Working(t)' \/ phase # ES!RUNNING
    BY <1>2, <2>1, FirstWordsAre DEF ResumeStarts
  <2>3. task'[t].pc \in Voiced => phase = ES!RUNNING
    BY <2>2 DEF Opens, Voiced, Asking
  <2> QED BY <1>2, <2>1, <2>2, <2>3 DEF Steps, Excused, SameState, roomVars, ResumeStarts
<1>3. ASSUME GiveUp(t), \/ phase >= ES!CLOSING
                        \/ task[t].pc \in {"respeak?", "respeak1", "respeak2"},
             task[t].pc \in {"notice?", "notice", "respeak?", "respeak1", "respeak2"}
      PROVE  Steps(t)
  <2>1. /\ task' = Finished(t) /\ SameState /\ UNCHANGED <<phase, cause, turnSeq,
                                                           shutdown>>
    BY <1>3 DEF GiveUp, SameState, roomVars
  <2>2. Excused(t)
    BY <1>3, Phases DEF Excused, Working, RunPCs
  <2> QED BY <1>3, <2>1, <2>2, QuitIsStep
<1>4. CASE NoticeGranted(t)
  BY <1>3, <1>4, ReplayIsStep DEF NoticeGranted, Granted
<1>5. CASE RespeakGranted(t)
  BY <1>3, <1>5, ReplayIsStep DEF RespeakGranted, Granted
<1>6. CASE RespeakPlayed(t)
  BY <1>3, <1>6 DEF RespeakPlayed
<1>7. CASE RespeakFailed(t)
  <2>1. CASE task[t].pc = "respeak2" /\ ShutdownOnSilence(t)
    <3>1. /\ task' = Finished(t) /\ SameState /\ UNCHANGED <<phase, cause, turnSeq>>
          /\ shutdown' = TRUE
      BY <2>1 DEF ShutdownOnSilence, SameState, roomVars
    <3>2. Excused(t)
      BY <3>1 DEF Excused
    <3> QED BY <2>1, <3>1, <3>2, QuitIsStep
  <2> QED BY <1>3, <1>7, <2>1, ReplayIsStep DEF RespeakFailed
<1>8. CASE NoticeOver(t)
  <2>1. CASE IsQuestion(Last(log)) /\ phase >= ES!CLOSING /\ GiveUp(t)
    BY <1>3, <1>8, <2>1 DEF NoticeOver
  <2>2. CASE /\ IsQuestion(Last(log))
             /\ task' = [task EXCEPT ![t].pc = IF Len(speechQ) = 1 THEN "respeak1"
                                               ELSE "respeak?",
                                     ![t].seq = Len(log), ![t].intact = present]
             /\ UNCHANGED <<phase, cause, log, floor, restored, turnSeq, closed, roomVars,
                            timeVars, row, shutdown>>
    <3>1. Alone(t) /\ task'[t].pc \in {"respeak1", "respeak?"} /\ task[t].pc = "notice"
      BY <1>1, <1>8, <2>2 DEF Task, Alone, NoticeOver
    <3>2. SameState /\ UNCHANGED <<phase, cause, turnSeq, shutdown>>
      BY <2>2 DEF SameState, roomVars
    <3>3. Excused(t)
      BY <2>2, <3>1 DEF Excused, IsQuestion, IsAnswer, QuestionTypes, RootTypes
    <3> QED BY <3>1, <3>2, <3>3 DEF Steps, Asking, Voiced, RunPCs
  <2>3. CASE /\ ~IsQuestion(Last(log)) /\ turnSeq' = turnSeq + 1
             /\ \E u \in (IdleSlots \cup {t}) \ {Main} :
                  task' = [Finished(t) EXCEPT ![u] = Coroutine("run", turnSeq + 1, "none", TRUE)]
             /\ UNCHANGED <<phase, cause, log, floor, restored, closed, roomVars, clock,
                            row, shutdown>>
    <3>1. PICK u \in (IdleSlots \cup {t}) \ {Main} :
             task' = [Finished(t) EXCEPT ![u] = Coroutine("run", turnSeq + 1, "none", TRUE)]
      BY <2>3
    <3>2. u \in Slots /\ task[u].pc \in {"idle", "notice"} /\ task[t].pc = "notice"
      BY <1>8, <3>1 DEF IdleSlots, NoticeOver
    <3>3. /\ task'[u] = Coroutine("run", turnSeq + 1, "none", TRUE)
          /\ \A w \in Tasks \ {u} : task'[w] = IF w = t THEN Idle ELSE task[w]
      BY <1>1, <3>1, <3>2, Members DEF Finished
    <3>4. SameState /\ UNCHANGED <<phase, cause, shutdown>>
      BY <2>3 DEF SameState, roomVars
    <3> QED BY <2>3, <3>2, <3>3, <3>4 DEF Renews
  <2> QED BY <1>8, <2>1, <2>2, <2>3 DEF NoticeOver
<1> QED
  BY <1>2, <1>4, <1>5, <1>6, <1>7, <1>8 DEF ResumeStep

\* The entrypoint's first step: words, or a candidate who has left.
Enters ==
    /\ task[Main].pc = "start" /\ Alone(Main)
    /\ RestorePhase /\ UNCHANGED <<cause, log, floor, restored, closed, row>>
    /\ \/ /\ UNCHANGED <<turnSeq, present, window, shutdown>>
          /\ task'[Main].pc \notin {"start", "heading"}
          /\ task'[Main].pc \in Asking => Opens(Main)
          /\ task'[Main].pc \in {"notice?", "notice"} => log # <<>>
          /\ Working(Main)' \/ phase # ES!RUNNING
       \/ /\ turnSeq' = turnSeq + 1 /\ present' = FALSE /\ window' = TRUE
          /\ task'[Main] = Idle

\* The candidate leaves: the turn in flight is void.
Departs ==
    /\ Armed /\ present' = FALSE /\ window' = TRUE /\ turnSeq' = turnSeq + 1
    /\ UNCHANGED <<phase, cause, log, floor, restored, closed, row>>
    /\ \A u \in Tasks : task'[u] = [task[u] EXCEPT !.intact = FALSE]

\* The candidate is back: somebody resumes.
Arrives ==
    /\ Armed /\ present' = TRUE /\ window' = FALSE
    /\ UNCHANGED <<phase, cause, log, floor, restored, turnSeq, closed, row, shutdown>>
    /\ \E u \in Slots : /\ task[u].pc = "idle" /\ Alone(u)
                        /\ task'[u] = Coroutine("resume", 0, "none", TRUE)

\* The candidate has answered: a run of a new turn.
Answers ==
    /\ phase = ES!RUNNING /\ present /\ Entered /\ LastQuestion(log) # 0
    /\ UntimedSpeech \/ speech = departures
    /\ log' = Append(log, NewAnswer(log, speech = departures))
    /\ turnSeq' = turnSeq + 1
    /\ UNCHANGED <<phase, cause, floor, restored, closed, present, window, row, shutdown>>
    /\ \E u \in Slots : /\ task[u].pc = "idle" /\ Alone(u)
                        /\ task'[u] = Coroutine("run", turnSeq + 1, "none", FALSE)

\* The closing task and the end sequence, from the marker to the end of the job.
Concluding == {"marker", "closing?", "closing1", "closing2"}
Winds ==
    LET from == task[Closer].pc
        to   == task'[Closer].pc
    IN  /\ Alone(Closer) /\ phase >= ES!CLOSING
        /\ UNCHANGED <<cause, floor, restored, turnSeq, closed, present, window>>
        /\ \/ from \in Concluding /\ to \in Concluding /\ UNCHANGED <<phase, log, row>>
           \/ /\ from \in Concluding /\ to = "cleanup" /\ phase' = ES!CLEANING /\ row' = row
              /\ \/ log' = log
                 \/ /\ from \in {"closing1", "closing2"}
                    /\ log' = Append(log, NewClosing(task[Closer].intact))
           \/ /\ from = "cleanup" /\ to = "room" /\ UNCHANGED <<phase, log>>
              /\ row' \in IF cause = "RECONNECT_TIMEOUT" THEN {0} ELSE {0, Len(log)}
           \/ from = "room" /\ to = "idle" /\ UNCHANGED <<phase, log, row>>

\* The job is closed and every coroutine cancelled.
Cancels ==
    /\ closed' = TRUE /\ shutdown' = shutdown /\ shutdown = TRUE
    /\ \A t \in Tasks : task'[t] = Idle
    /\ turnSeq' = turnSeq + 1
    /\ UNCHANGED <<phase, cause, log, floor, restored, present, row>>

\* The entrypoint, once the session runs.
LEMMA EntryIsKind ==
    ASSUME IInv
    PROVE  /\ HeadingToClose => Closes \/ Late
           /\ MainStarts => Enters
<1>1. task \in [Tasks -> Task] /\ Main \in Tasks /\ Main # Closer
  BY Members, JobTypes
<1>2. ASSUME HeadingToClose PROVE Closes \/ Late
  <2>1. /\ Finished(Main) \in [Tasks -> Task]
        /\ \A u \in Tasks : \/ Finished(Main)[u] = task[u]
                            \/ u # Closer /\ Finished(Main)[u] = Idle
    BY <1>1, Ordinary DEF Finished
  <2>2. UNCHANGED <<log, floor, restored, turnSeq, closed, present, row>>
    BY <1>2 DEF HeadingToClose, roomVars
  <2> QED BY <1>2, <2>1, <2>2, BeginClosingIsKind DEF HeadingToClose
<1>3. ASSUME MainStarts PROVE Enters
  <2>1. CASE FirstWords(Main, log # <<>>) /\ UNCHANGED <<turnSeq, roomVars>>
    <3>1. (log # <<>>) \in BOOLEAN /\ task[Main].pc = "start" /\ UNCHANGED turnSeq
      BY <1>3, <2>1 DEF MainStarts
    <3> DEFINE resumed == log # <<>>
    <3>2. resumed \in BOOLEAN /\ FirstWords(Main, resumed)
      BY <2>1, <3>1
    <3> HIDE DEF resumed
    <3>3. /\ Alone(Main) /\ task'[Main].pc \notin {"start", "heading"}
          /\ task'[Main].pc \in Asking => Opens(Main)
          /\ task'[Main].pc \in {"notice?", "notice"} => log # <<>>
          /\ Working(Main)' \/ phase # ES!RUNNING
      BY <3>1, <3>2, FirstWordsAre
    <3> QED BY <1>3, <2>1, <3>3 DEF MainStarts, Enters, roomVars
  <2>2. CASE OnDisconnected /\ task' = Finished(Main)
    <3>1. Alone(Main) /\ task'[Main] = Idle
      BY <1>1, <2>2 DEF Alone, Finished
    <3>2. turnSeq' = turnSeq + 1 /\ present' = FALSE /\ window' = TRUE
      BY Zenon, <2>2 DEF OnDisconnected
    <3> QED BY <1>3, <3>1, <3>2 DEF MainStarts, Enters
  <2> QED BY <1>3, <2>1, <2>2 DEF MainStarts
<1> QED BY <1>2, <1>3

\* Until the entrypoint speaks, nothing else runs.
BeforeEntry ==
    ~Entered => /\ ~guardOn /\ speech = Silent
                /\ \A t \in Slots : task[t].pc = "idle"

\* What the candidate, the timers and the server do.
LEMMA OutsideIsKind ==
    ASSUME IInv, BeforeEntry, Candidate \/ Timer \/ EndSignal
    PROVE  Quiet \/ Closes \/ Late \/ Departs \/ Arrives \/ Answers
<1>1. task \in [Tasks -> Task] /\ \A u \in Tasks : task[u] = task[u] \/ (u # Closer /\ task[u] = Idle)
  BY JobTypes
<1>2. CASE SpeechStarts \/ SpeechDropped \/ TimePasses
  BY <1>2 DEF SpeechStarts, SpeechDropped, TimePasses, Quiet, SameState, roomVars
<1>3. CASE WindowExpires \/ GuardFires \/ EndSignal
  <2>1. UNCHANGED <<log, floor, restored, turnSeq, closed, present, row>>
    BY <1>3 DEF WindowExpires, GuardFires, EndSignal, roomVars
  <2> QED BY <1>1, <1>3, <2>1, BeginClosingIsKind DEF WindowExpires, GuardFires, EndSignal
<1>4. CASE FinalAnswerTurn
  <2>1. phase = ES!WAITING_FINAL_ANSWER /\ ES!CanAdvance(ES!CLOSING)
    BY <1>4, Phases DEF FinalAnswerTurn, ES!CanAdvance
  <2>2. phase' = ES!CLOSING /\ task' = [task EXCEPT ![Closer] = Coroutine("marker", 0, "none", FALSE)]
    BY <1>4, <2>1 DEF FinalAnswerTurn, BeginClosing
  <2>3. task'[Closer].pc = "marker" /\ \A u \in Tasks \ {Closer} : task'[u] = task[u]
    BY <1>1, <2>2, Members DEF Coroutine
  <2>4. /\ LastQuestion(log) # 0 /\ log' = Append(log, NewAnswer(log, speech = departures))
        /\ UNCHANGED <<floor, restored, turnSeq, closed, present, row>>
    BY <1>4 DEF FinalAnswerTurn, AnswerAccepted
  <2>4a. UntimedSpeech \/ speech = departures
    BY <1>4 DEF FinalAnswerTurn, AnswerAccepted, IInv, Data
  <2>5. phase < ES!CLOSING
    BY <2>1, Phases
  <2>6. Thins
    BY <2>3 DEF Thins
  <2> QED BY Zenon, <2>1, <2>2, <2>3, <2>4, <2>4a, <2>5, <2>6 DEF Closes
<1>5. CASE AnswerTurn
  <2>1. phase = ES!RUNNING /\ present /\ LastQuestion(log) # 0
    BY <1>5, JobTypes, Phases DEF AnswerTurn, AnswerAccepted
  <2>1a. UntimedSpeech \/ speech = departures
    BY <1>5 DEF AnswerTurn, AnswerAccepted, IInv, Data
  <2>2. PICK u \in IdleSlots : task' = [task EXCEPT ![u] = Coroutine("run", turnSeq + 1, "none", FALSE)]
    BY <1>5 DEF AnswerTurn
  <2>3. /\ u \in Slots /\ task[u].pc = "idle" /\ Alone(u)
        /\ task'[u] = Coroutine("run", turnSeq + 1, "none", FALSE)
    BY <1>1, <2>2, Members DEF IdleSlots, Alone
  <2>4. Entered
    BY <1>5 DEF AnswerTurn, BeforeEntry
  <2>5. /\ log' = Append(log, NewAnswer(log, speech = departures)) /\ turnSeq' = turnSeq + 1
        /\ UNCHANGED <<phase, cause, floor, restored, closed, present, window, row,
                       shutdown>>
    BY <1>5 DEF AnswerTurn
  <2> QED BY Zenon, <2>1, <2>1a, <2>3, <2>4, <2>5 DEF Answers
<1>6. CASE CandidateLeaves
  <2>1. \A u \in Tasks : task'[u] = [task[u] EXCEPT !.intact = FALSE]
    BY <1>6 DEF CandidateLeaves
  <2>2. present' = FALSE /\ window' = TRUE /\ turnSeq' = turnSeq + 1
    BY Zenon, <1>6 DEF CandidateLeaves, OnDisconnected
  <2>3. Armed /\ UNCHANGED <<phase, cause, log, floor, restored, closed, row>>
    BY <1>6 DEF CandidateLeaves
  <2> QED BY Zenon, <2>1, <2>2, <2>3 DEF Departs
<1>7. CASE CandidateReturns
  <2>1. PICK u \in IdleSlots : task' = [task EXCEPT ![u] = Coroutine("resume", 0, "none", TRUE)]
    BY <1>7 DEF CandidateReturns
  <2>2. /\ u \in Slots /\ task[u].pc = "idle" /\ Alone(u)
        /\ task'[u] = Coroutine("resume", 0, "none", TRUE)
    BY <1>1, <2>1, Members DEF IdleSlots, Alone
  <2>3. present' = TRUE /\ window' = FALSE
    BY Zenon, <1>7 DEF CandidateReturns
  <2>4. Armed /\ UNCHANGED <<phase, cause, log, floor, restored, turnSeq, closed, row,
                             shutdown>>
    BY <1>7 DEF CandidateReturns
  <2> QED BY Zenon, <2>2, <2>3, <2>4 DEF Arrives
<1> QED
  BY <1>2, <1>3, <1>4, <1>5, <1>6, <1>7 DEF Candidate, Timer

\* What the closing task does.
LEMMA CloserIsKind ==
    ASSUME IInv, CloserStep
    PROVE  Winds
<1>1. /\ task \in [Tasks -> Task] /\ Closer \in Tasks /\ task[Closer] \in Task
      /\ Role(Closer, task[Closer], phase)
  BY Members, JobTypes
<1>2. ASSUME NEW play, Replay(Closer, play)
      PROVE  task'[Closer].pc = play /\ Alone(Closer)
  BY <1>1, <1>2 DEF Replay, Task, Alone
<1>3. ASSUME ToCleaning
      PROVE  /\ task'[Closer].pc = "cleanup" /\ Alone(Closer) /\ cause' = cause
             /\ phase' = ES!CLEANING
  BY <1>1, <1>3 DEF ToCleaning, Task, Alone, ES!Advance
<1>4. CASE MarkerDone
  <2>1. task[Closer].pc = "marker" /\ phase >= ES!CLOSING
    BY <1>1, <1>4 DEF MarkerDone, Role, CloserPCs
  <2>2. CASE AcquireLock(Closer, task, "closing?", "closing1") /\ UNCHANGED <<phase,
                                                                              cause>>
    <3>1. task'[Closer].pc \in {"closing?", "closing1"} /\ Alone(Closer)
      <4>1. CASE speechQ = <<>>
        <5>1. task' = [task EXCEPT ![Closer].pc = "closing1", ![Closer].intact = present]
          BY <2>2, <4>1 DEF AcquireLock
        <5> QED BY <1>1, <5>1 DEF Task, Alone
      <4>2. CASE speechQ # <<>>
        <5>1. task' = [task EXCEPT ![Closer].pc = "closing?"]
          BY <2>2, <4>2 DEF AcquireLock
        <5> QED BY <1>1, <5>1 DEF Task, Alone
      <4> QED BY <4>1, <4>2
    <3> QED BY <1>4, <2>1, <2>2, <3>1 DEF MarkerDone, Winds, Concluding, roomVars
  <2> QED BY <1>3, <1>4, <2>1, <2>2 DEF MarkerDone, Winds, Concluding, roomVars
<1>5. CASE ClosingGranted
  <2>1. task[Closer].pc = "closing?" /\ phase >= ES!CLOSING
    BY <1>1, <1>5 DEF ClosingGranted, Granted, Role, CloserPCs
  <2> QED BY <1>2, <1>5, <2>1 DEF ClosingGranted, Replay, Winds, Concluding, roomVars
<1>6. CASE ClosingPlayed \/ ClosingFailed
  <2>1. task[Closer].pc \in {"closing1", "closing2"} /\ phase >= ES!CLOSING
    BY <1>1, <1>6 DEF ClosingPlayed, ClosingFailed, Role, CloserPCs
  <2>2. CASE Replay(Closer, "closing2")
    BY <1>2, <2>1, <2>2 DEF Replay, Winds, Concluding, roomVars
  <2>3. CASE /\ ToCleaning /\ log' \in {log, Append(log, NewClosing(task[Closer].intact))}
             /\ UNCHANGED <<floor, restored, turnSeq, closed, roomVars, timeVars, row,
                            shutdown>>
    BY <1>3, <2>1, <2>3 DEF Winds, Concluding, roomVars
  <2> QED BY <1>6, <2>2, <2>3 DEF ClosingPlayed, ClosingFailed
<1>7. CASE Cleanup \/ RoomDone
  <2>1. task[Closer].pc \in {"cleanup", "room"} /\ phase >= ES!CLOSING
    BY <1>1, <1>7 DEF Cleanup, RoomDone, Role, CloserPCs, EndPCs
  <2>2. /\ Cleanup => task'[Closer].pc = "room"
        /\ RoomDone => task'[Closer].pc = "idle"
        /\ Alone(Closer)
    BY <1>1, <1>7 DEF Cleanup, RoomDone, Finished, Idle, Task, Alone
  <2> QED BY <1>7, <2>1, <2>2 DEF Cleanup, RoomDone, Winds, Concluding, roomVars
<1> QED
  BY <1>4, <1>5, <1>6, <1>7 DEF CloserStep

\* aclose.
LEMMA AcloseIsKind ==
    ASSUME IInv, Aclose
    PROVE  Cancels
<1>1. \A t \in Tasks : task'[t] = Idle
  BY DEF Aclose
<1>2. shutdown = TRUE /\ closed' = TRUE
  BY Zenon DEF Aclose, IInv, Data
<1> QED
  BY <1>1, <1>2 DEF Aclose, Cancels

\* A step of one of these kinds.
Kind ==
    \/ \E t \in Slots \cup {Main} : Steps(t) \/ AskPlayed(t) \/ Renews(t)
    \/ Closes \/ Late \/ Enters \/ Departs \/ Arrives \/ Answers
    \/ Winds \/ Cancels \/ Quiet

\* The list of kinds is complete.
LEMMA EveryStepIsKind ==
    ASSUME IInv, BeforeEntry, [Next]_vars
    PROVE  Kind
<1>1. CASE UNCHANGED vars
  BY <1>1 DEF vars, roomVars, Kind, Quiet, SameState
<1>2. CASE Next
  BY <1>1, <1>2, RunIsKind, ResumeIsKind, EntryIsKind, OutsideIsKind, CloserIsKind, AcloseIsKind
     DEF Next, EntryStep, JobOver, Kind
<1> QED BY <1>1, <1>2

\* Nobody becomes the entrypoint again.
LEMMA EnteredStays ==
    ASSUME IInv, Kind, Entered
    PROVE  Entered'
<1>1. /\ Main \in Tasks /\ Main # Closer /\ Closer \notin Slots /\ Main \notin Slots
      /\ Idle.pc = "idle"
  BY Members
<1>2. SUFFICES ASSUME task'[Main] # task[Main] PROVE Entered'
  BY DEF Entered
<1>3. ASSUME NEW t \in Slots \cup {Main}, Steps(t) PROVE Entered'
  BY <1>1, <1>2, <1>3 DEF Steps, Alone, Entered
<1>4. ASSUME NEW t \in Slots \cup {Main}, AskPlayed(t) PROVE Entered'
  BY <1>1, <1>2, <1>4, JobTypes DEF AskPlayed, Finished, Entered
<1>5. ASSUME NEW t \in Slots \cup {Main}, Renews(t) PROVE Entered'
  BY <1>1, <1>2, <1>5 DEF Renews, Entered
<1>6. CASE Closes \/ Late
  BY <1>1, <1>2, <1>6 DEF Closes, Late, Thins, Entered
<1>7. CASE Enters
  BY <1>7 DEF Enters, Entered
<1>8. CASE Departs
  BY <1>1, <1>8, JobTypes DEF Departs, Entered, Task
<1>9. CASE Arrives \/ Answers
  BY <1>1, <1>2, <1>9 DEF Arrives, Answers, Alone
<1>10. CASE Winds
  BY <1>1, <1>2, <1>10 DEF Winds, Alone
<1>11. CASE Cancels
  BY <1>1, <1>11 DEF Cancels, Entered
<1>12. CASE Quiet
  BY <1>2, <1>12 DEF Quiet
<1> QED
  BY <1>3, <1>4, <1>5, <1>6, <1>7, <1>8, <1>9, <1>10, <1>11, <1>12 DEF Kind

\* Nothing runs before the entrypoint speaks.
LEMMA BeforeEntryStays == IInv /\ BeforeEntry /\ [Next]_vars => BeforeEntry'
<1> SUFFICES ASSUME IInv, BeforeEntry, [Next]_vars, ~Entered' PROVE BeforeEntry'
  BY DEF BeforeEntry
<1>1. ~Entered
  BY EveryStepIsKind, EnteredStays
<1>2. /\ ~guardOn /\ speech = Silent /\ \A t \in Slots : task[t].pc = "idle"
      /\ task[Main].pc \in {"start", "heading"} /\ task \in [Tasks -> Task]
  BY <1>1, JobTypes DEF BeforeEntry, Entered
<1>3. task'[Main].pc \in {"start", "heading"}
  BY DEF Entered
<1>4. ASSUME NEW t \in Slots \cup {Main} PROVE ~RunStep(t) /\ ~ResumeStep(t)
  <2>1. task[t].pc \in {"idle", "start", "heading"}
    BY <1>2, <1>4
  <2> QED
    BY <2>1 DEF RunStep, ResumeStep, RunStarts, RunDecided, RunGenerated, AskGranted, AskPlayed,
       AskFailed, ResumeStarts, NoticeGranted, NoticeOver, RespeakGranted, RespeakPlayed,
       RespeakFailed, Granted
<1>5. CASE EntryStep
  <2>1. CASE HeadingToClose
    <3>1. task'[Main] = Idle
      BY <1>2, <2>1, Members DEF HeadingToClose, BeginClosing, Finished
    <3> QED BY <1>3, <3>1, Members
  <2>2. CASE MainStarts
    BY <1>3, <2>2, EntryIsKind, Members DEF Enters, Opens
  <2> QED BY <1>5, <2>1, <2>2 DEF EntryStep
<1>6. CASE CloserStep
  <2>1. Winds
    BY <1>6, CloserIsKind
  <2>2. guardOn' = guardOn /\ speech' = speech
    BY <1>6 DEF CloserStep, MarkerDone, ClosingGranted, Replay, ClosingPlayed, ClosingFailed,
       Cleanup, RoomDone, roomVars, timeVars
  <2> QED BY <1>2, <2>1, <2>2, Members DEF Winds, Alone, BeforeEntry
<1>7. CASE Candidate
  BY <1>1, <1>2, <1>7 DEF Candidate, SpeechStarts, AnswerTurn, FinalAnswerTurn, SpeechDropped,
     CandidateLeaves, CandidateReturns, Armed
<1>8. CASE Timer \/ EndSignal
  <2>1. guardOn' = guardOn /\ speech' = speech
    BY <1>8 DEF Timer, EndSignal, TimePasses, WindowExpires, GuardFires, roomVars, timeVars
  <2>2. Quiet \/ Closes \/ Late
    <3>1. Departs \/ Arrives \/ Answers => FALSE
      BY <1>1, <1>2 DEF Departs, Arrives, Answers, Armed
    <3> QED BY <1>8, <3>1, OutsideIsKind
  <2>3. \A t \in Slots : task'[t].pc = "idle"
    BY <1>2, <2>2, Members DEF Quiet, Closes, Late, Thins
  <2> QED BY <1>2, <2>1, <2>3 DEF BeforeEntry
<1>9. CASE Aclose
  BY <1>3, <1>9, AcloseIsKind, Members DEF Cancels
<1>10. CASE UNCHANGED vars
  BY <1>2, <1>10 DEF vars, roomVars, timeVars, BeforeEntry
<1> QED
  BY <1>4, <1>5, <1>6, <1>7, <1>8, <1>9, <1>10 DEF Next, JobOver

-----------------------------------------------------------------------------
(* The reconnect window.                                                   *)

\* Also before anybody may leave, but for an entrypoint that is about to close.
Watched ==
    /\ IInv
    /\ BeforeEntry
    /\ phase < ES!CLOSING /\ ~closed /\ task[Main].pc # "heading" => (window <=> ~present)

\* The phase of the interview never moves back.
LEMMA PhaseGrows ==
    ASSUME IInv, [Next]_vars
    PROVE  phase' \in 0..4 /\ phase <= phase'
<1>1. IInv'
  BY NextKeeps
<1>2. phase \in 0..4 /\ phase' \in 0..4
  BY <1>1, Phases DEF IInv, Data, ES!TypeOK
<1>3. CASE Next
  BY <1>2, <1>3, StepRefines, Phases
     DEF ES!Next, ES!Advance, ES!AdvanceToClosing, ES!CanAdvance, ES!vars
<1> QED
  BY <1>2, <1>3 DEF vars

\* The watch of the window goes on at every step.
LEMMA NextWatched == Watched /\ [Next]_vars => Watched'
<1> SUFFICES ASSUME Watched, [Next]_vars PROVE Watched'
  OBVIOUS
<1>1. IInv' /\ BeforeEntry' /\ Kind
  BY NextKeeps, BeforeEntryStays, EveryStepIsKind DEF Watched
<1>2. SUFFICES ASSUME phase' < ES!CLOSING, ~closed', task'[Main].pc # "heading"
               PROVE  window' <=> ~present'
  BY <1>1 DEF Watched
<1>3. phase < ES!CLOSING /\ ~(phase >= ES!CLOSING) /\ phase' # ES!CLOSING
  BY <1>2, PhaseGrows, JobTypes, Phases DEF Watched
<1>4. task \in [Tasks -> Task] /\ Main \in Tasks /\ Main # Closer /\ Main \notin Slots
  BY JobTypes, Members DEF Watched
<1>5. ASSUME UNCHANGED <<closed, window, present>>, task[Main].pc # "heading"
      PROVE  window' <=> ~present'
  BY Zenon, <1>2, <1>3, <1>5 DEF Watched
<1>6. ASSUME NEW t \in Slots \cup {Main}, Steps(t) \/ AskPlayed(t) \/ Renews(t)
      PROVE  window' <=> ~present'
  <2>1. UNCHANGED <<closed, window, present>>
    BY <1>6 DEF Steps, AskPlayed, Renews, SameState, roomVars
  <2>2. task[Main].pc # "heading"
    <3>1. CASE Steps(t)
      BY <1>2, <1>4, <3>1 DEF Steps, Alone
    <3>2. CASE AskPlayed(t)
      BY <1>2, <1>4, <3>2 DEF AskPlayed, Finished
    <3>3. CASE Renews(t)
      BY <1>2, <1>4, <3>3 DEF Renews
    <3> QED BY <1>6, <3>1, <3>2, <3>3
  <2> QED BY <1>5, <2>1, <2>2
<1>7. CASE Quiet \/ Answers
  <2>1. UNCHANGED <<closed, window, present>>
    BY <1>7 DEF Quiet, SameState, Answers
  <2>2. task[Main].pc # "heading"
    BY <1>2, <1>4, <1>7 DEF Quiet, Answers, Alone
  <2> QED BY <1>5, <2>1, <2>2
<1>8. CASE Enters
  <2>1. CASE UNCHANGED <<present, window>>
    BY <1>5, <1>8, <2>1 DEF Enters
  <2>2. CASE present' = FALSE /\ window' = TRUE
    BY Zenon, <2>2
  <2> QED BY <1>8, <2>1, <2>2 DEF Enters
<1>9. CASE Departs \/ Arrives
  BY Zenon, <1>9 DEF Departs, Arrives
<1>10. CASE Closes \/ Late \/ Winds
  BY <1>3, <1>10 DEF Closes, Late, Winds
<1>11. CASE Cancels
  BY Zenon, <1>2, <1>11 DEF Cancels
<1> QED
  BY <1>1, <1>6, <1>7, <1>8, <1>9, <1>10, <1>11 DEF Kind

\* The absence of the candidate never goes unnoticed (reconnect.py): until the interview
\* is being closed, a window is open exactly while the room is empty, however often the
\* candidate leaves and returns, and whatever else goes on.
THEOREM AbsenceIsWatched == Spec => []AbsenceHasWindow
<1>1. Init => Watched
  <2> SUFFICES ASSUME Init PROVE Watched
    OBVIOUS
  <2>1. IInv
    BY InitEstablishes
  <2>2. /\ task[Main].pc \in {"heading", "start"}
        /\ \A t \in Slots : task[t].pc = "idle"
        /\ task[Main].pc = "start" => present = TRUE
    BY Members DEF Init, Coroutine
  <2>3. BeforeEntry
    BY <2>2 DEF Init, BeforeEntry
  <2>4. task[Main].pc # "heading" => present = TRUE /\ window = FALSE
    BY <2>2 DEF Init
  <2>5. task[Main].pc # "heading" => (window <=> ~present)
    BY Zenon, <2>4
  <2> QED BY Zenon, <2>1, <2>3, <2>5 DEF Watched
<1>2. Watched => AbsenceHasWindow
  BY Zenon DEF Watched, BeforeEntry, AbsenceHasWindow, Armed, Entered
<1> QED
  BY <1>1, <1>2, NextWatched, PTL DEF Spec

-----------------------------------------------------------------------------
(* The turns: who may still put a question, and to whom.                   *)

\* Runs and questions are of turns up to the present one.
NotAhead == \A t \in Tasks : task[t].pc \in Asking => task[t].seq <= turnSeq

\* Two may ask in the same turn only if both ask the initial question.
Single == \A t, u \in Tasks : Current(t) /\ Current(u) /\ t # u => task[t].type = "INITIAL"

\* Before anything is said, nobody asks anything else; after it, notices are given.
Opening ==
    /\ \A t \in Tasks : Current(t) /\ log = <<>> => task[t].type = "INITIAL"
    /\ \A t \in Tasks : task[t].pc \in RunPCs => task[t].type # "INITIAL"
    /\ \A t \in Tasks : task[t].pc \in {"notice?", "notice"} => log # <<>>

\* Who asks as the follow-up of an answer asks a candidate who has not left since.
Heard ==
    /\ task[Main].pc = "start" => present
    /\ \A t \in Tasks : Current(t) /\ ~task[t].resumed =>
          present /\ (task[t].pc \in Voiced => task[t].intact)

\* While the last answer is awaited nobody asks.
Awaiting ==
    phase = ES!WAITING_FINAL_ANSWER =>
        /\ log # <<>> /\ Last(log).type = "FINAL"
        /\ \A t \in Tasks : ~Current(t)

Turns == IInv /\ BeforeEntry /\ NotAhead /\ Single /\ Opening /\ Heard /\ Awaiting

\* Closer asks nothing, ever.
LEMMA CloserIsSilent ==
    ASSUME IInv
    PROVE  /\ task[Closer].pc \notin Asking \cup {"start", "notice?", "notice"}
           /\ Concluding \cap Asking = {}
BY JobTypes, Members DEF Role, CloserPCs, EndPCs, Asking, RunPCs, Concluding

\* Coroutines that end, or do what is no business of the turns.
LEMMA FewerTurns ==
    ASSUME Turns, UNCHANGED <<turnSeq, present>>, log' = <<>> => log = <<>>,
           \A u \in Tasks : \/ task'[u] = task[u]
                            \/ task'[u].pc \notin Asking \cup {"start", "notice?", "notice"}
    PROVE  /\ NotAhead' /\ Single' /\ Opening' /\ Heard'
           /\ \A u \in Tasks : Current(u)' => Current(u)
<1>1. \A u \in Tasks : Current(u)' => Current(u) /\ task'[u] = task[u]
  BY DEF Current
<1>2. NotAhead'
  BY DEF Turns, NotAhead
<1>3. Single'
  BY <1>1 DEF Turns, Single
<1>4. Opening'
  BY <1>1 DEF Turns, Opening, Asking
<1>5. Heard'
  BY <1>1, Members DEF Turns, Heard
<1> QED BY <1>1, <1>2, <1>3, <1>4, <1>5

\* A coroutine goes on with its question, or begins the interview.
LEMMA StepsKeepTurns ==
    ASSUME Turns, NEW t \in Slots \cup {Main}, Steps(t)
    PROVE  NotAhead' /\ Single' /\ Opening' /\ Heard' /\ Awaiting'
<1>1. /\ t \in Tasks
      /\ task'[t].pc \in Asking => Proceeds(t) \/ (Opens(t) /\ task'[t].resumed)
      /\ \A u \in Tasks \ {t} : task'[u] = task[u]
      /\ UNCHANGED <<phase, turnSeq, log, present>>
  BY Members DEF Steps, Alone, SameState
<1>2. \A u \in Tasks \ {t} : Current(u)' <=> Current(u)
  BY <1>1 DEF Current
<1>3. /\ Proceeds(t) /\ Current(t)' => Current(t)
      /\ Current(t)' => Proceeds(t) \/ (Opens(t) /\ task'[t].resumed)
  BY <1>1 DEF Current, Proceeds
<1>4. task[t].type = "INITIAL" /\ Current(t) /\ Proceeds(t) => task'[t].type = "INITIAL"
  BY <1>1 DEF Turns, Opening, Proceeds, RunPCs
<1>5. Opens(t) => task'[t].type = "INITIAL" /\ log = <<>> /\ phase = ES!RUNNING
                  /\ task'[t].seq = turnSeq /\ task'[t].pc \in {"ask?", "ask1"}
  BY DEF Opens
<1>6. turnSeq \in Nat
  BY JobTypes DEF Turns
<1>7. NotAhead'
  BY <1>1, <1>5, <1>6 DEF Turns, NotAhead, Proceeds
<1>8. Single'
  <2>1. SUFFICES ASSUME NEW u \in Tasks, NEW w \in Tasks, Current(u)', Current(w)', u # w
                 PROVE  task'[u].type = "INITIAL"
    BY DEF Single
  <2>2. CASE u # t /\ w # t
    BY <1>1, <1>2, <2>1, <2>2 DEF Turns, Single
  <2>3. CASE u = t
    BY <1>1, <1>2, <1>3, <1>4, <1>5, <2>1, <2>3 DEF Turns, Single
  <2>4. CASE w = t
    BY <1>1, <1>2, <1>3, <1>5, <2>1, <2>4 DEF Turns, Single, Opening
  <2> QED BY <2>2, <2>3, <2>4
<1>9. Opening'
  <2>1. \A u \in Tasks : Current(u)' /\ log' = <<>> => task'[u].type = "INITIAL"
    BY <1>1, <1>2, <1>3, <1>4, <1>5 DEF Turns, Opening
  <2>2. task'[t].pc \in RunPCs => task'[t].type # "INITIAL"
    <3>1. SUFFICES ASSUME task'[t].pc \in RunPCs PROVE task'[t].type # "INITIAL"
      OBVIOUS
    <3>2. Proceeds(t)
      BY <1>1, <1>5, <3>1 DEF Asking, RunPCs
    <3>3. "INITIAL" \notin Decisions
      BY DEF Decisions
    <3> QED BY <1>1, <3>1, <3>2, <3>3 DEF Turns, Opening, Proceeds
  <2>3. task'[t].pc \in {"notice?", "notice"} => log # <<>>
    BY <1>1 DEF Steps, Turns, Opening
  <2> QED BY <1>1, <2>1, <2>2, <2>3 DEF Turns, Opening
<1>10. Heard'
  <2>1. ASSUME Current(t)', ~task'[t].resumed
        PROVE  present /\ (task'[t].pc \in Voiced => task'[t].intact)
    <3>1. Proceeds(t) /\ Current(t)
      BY <1>3, <2>1
    <3>2. task'[t].resumed = task[t].resumed /\ (task'[t].pc \in Voiced => task'[t].intact = present)
      BY <3>1 DEF Proceeds
    <3>3. present
      BY <1>1, <2>1, <3>1, <3>2 DEF Turns, Heard
    <3> QED BY <3>2, <3>3
  <2>2. task'[Main].pc = "start" => present
    BY <1>1, Members DEF Turns, Heard, Steps
  <2> QED BY <1>1, <1>2, <2>1, <2>2 DEF Turns, Heard
<1>11. Awaiting'
  BY <1>1, <1>2, <1>3, <1>5, Phases DEF Turns, Awaiting
<1> QED
  BY <1>7, <1>8, <1>9, <1>10, <1>11

\* What a question that was played does to the log and the phase.
LEMMA PlayedFacts ==
    ASSUME IInv, NEW t \in Slots \cup {Main}, AskPlayed(t)
    PROVE  LET q == NewQuestion(log, floor, task[t].type, task[t].intact)
           IN  /\ q \in Utterance /\ q.type = task[t].type /\ IsQuestion(q) /\ q.num > floor
               /\ task[t].pc \in Voiced /\ Alone(t) /\ task'[t] = Idle /\ t \in Tasks
               /\ UNCHANGED <<cause, floor, restored, turnSeq, closed, present, window,
                              row, shutdown>>
               /\ \/ log' = log /\ phase' = phase /\ ~(Committable(t) /\ QuestionAccepted(log, q))
                  \/ /\ Committable(t) /\ QuestionAccepted(log, q) /\ log' = Append(log, q)
                     /\ \/ phase' = phase
                        \/ /\ task[t].type = "FINAL"
                           /\ phase < ES!WAITING_FINAL_ANSWER
                           /\ phase' = ES!WAITING_FINAL_ANSWER
<1> DEFINE q       == NewQuestion(log, floor, task[t].type, task[t].intact)
           commits == Committable(t) /\ QuestionAccepted(log, q)
<1>1. /\ t \in Tasks /\ task[t] \in Task /\ task \in [Tasks -> Task]
      /\ task[t].pc \in Voiced /\ task[t].type \in QuestionTypes
  BY Members, JobTypes DEF AskPlayed, Voiced, Role, AskPCs
<1>2. q \in Utterance /\ q.type = task[t].type /\ q.num > floor
  BY <1>1, JobTypes, NewQuestionType DEF Task
<1>3. Alone(t) /\ task'[t] = Idle
  BY <1>1 DEF AskPlayed, Finished, Alone
<1>4. /\ log' = IF commits THEN Append(log, q) ELSE log
      /\ phase' = IF q.type = "FINAL" THEN PhaseAfterFinal(commits) ELSE phase
      /\ UNCHANGED <<cause, floor, restored, turnSeq, closed, present, window, row,
                     shutdown>>
  BY DEF AskPlayed, roomVars
<1> HIDE DEF q
<1>5. CASE ~commits
  <2>1. log' = log /\ phase' = phase
    BY <1>4, <1>5 DEF PhaseAfterFinal
  <2> QED BY <1>1, <1>2, <1>3, <1>4, <1>5, <2>1 DEF q, IsQuestion
<1>6. CASE commits
  <2>1. log' = Append(log, q)
    BY <1>4, <1>6
  <2>2. \/ phase' = phase
        \/ /\ task[t].type = "FINAL" /\ phase < ES!WAITING_FINAL_ANSWER
           /\ phase' = ES!WAITING_FINAL_ANSWER
    BY <1>2, <1>4, <1>6 DEF PhaseAfterFinal, ES!CanAdvance
  <2> QED BY <1>1, <1>2, <1>3, <1>4, <1>6, <2>1, <2>2 DEF q, IsQuestion
<1> QED BY <1>5, <1>6

\* A question that was played to its end.
LEMMA PlayedKeepsTurns ==
    ASSUME Turns, NEW t \in Slots \cup {Main}, AskPlayed(t)
    PROVE  NotAhead' /\ Single' /\ Opening' /\ Heard' /\ Awaiting'
<1> DEFINE q == NewQuestion(log, floor, task[t].type, task[t].intact)
<1>1. /\ q \in Utterance /\ q.type = task[t].type
      /\ task[t].pc \in Voiced /\ Alone(t) /\ task'[t] = Idle
      /\ UNCHANGED <<turnSeq, present>> /\ t \in Tasks
      /\ \/ log' = log /\ phase' = phase
         \/ /\ Committable(t) /\ log' = Append(log, q)
            /\ \/ phase' = phase
               \/ task[t].type = "FINAL" /\ phase' = ES!WAITING_FINAL_ANSWER
  BY PlayedFacts DEF Turns
<1> HIDE DEF q
<1>2. log' # log => log' = Append(log, q) /\ log' # <<>> /\ Last(log') = q
  <2>1. log \in Seq(Utterance) /\ q \in Utterance
    BY <1>1, JobTypes DEF Turns
  <2>2. Append(log, q) # <<>> /\ Last(Append(log, q)) = q
    BY <2>1, Appended
  <2> QED BY <1>1, <2>2
<1>3. /\ NotAhead' /\ Single' /\ Opening' /\ Heard'
      /\ \A u \in Tasks : Current(u)' => Current(u)
  BY <1>1, <1>2, FewerTurns, Members DEF Turns, Alone, Idle, Asking, RunPCs
<1>4. Committable(t) => Current(t)
  BY <1>1 DEF Committable, Current, Asking, Voiced
<1>5. ~Current(t)'
  BY <1>1, Members DEF Current
<1>6. Awaiting'
  <2>1. SUFFICES ASSUME phase' = ES!WAITING_FINAL_ANSWER
                 PROVE  /\ log' # <<>> /\ Last(log').type = "FINAL"
                        /\ \A u \in Tasks : ~Current(u)'
    BY DEF Awaiting
  <2>2. CASE phase' = phase
    <3>1. log' = log
      BY <1>1, <1>4, <2>1, <2>2 DEF Turns, Awaiting
    <3> QED BY <1>3, <2>1, <2>2, <3>1 DEF Turns, Awaiting
  <2>3. CASE phase' # phase
    <3>1. Committable(t) /\ log' = Append(log, q) /\ task[t].type = "FINAL"
      BY <1>1, <2>3
    <3>2. log' # <<>> /\ Last(log').type = "FINAL"
      BY <1>1, <3>1, Appended, JobTypes DEF Turns
    <3>3. \A u \in Tasks : ~Current(u)'
      BY <1>1, <1>3, <1>4, <1>5, <3>1 DEF Turns, Single
    <3> QED BY <3>2, <3>3
  <2> QED BY <2>2, <2>3
<1> QED
  BY <1>3, <1>6

\* A new turn begins: whoever asked in an older one is not current any more.
LEMMA OldTurns ==
    ASSUME Turns, turnSeq' = turnSeq + 1, NEW u \in Tasks,
           task'[u].pc \notin Asking \/ (task'[u].pc = task[u].pc /\ task'[u].seq = task[u].seq)
    PROVE  ~Current(u)' /\ (task'[u].pc \in Asking => task'[u].seq <= turnSeq')
<1>1. /\ turnSeq \in Nat
      /\ task[u].pc \in Asking => task[u].seq <= turnSeq /\ task[u].seq \in Nat
  BY JobTypes DEF Turns, NotAhead, Task
<1> QED
  BY <1>1 DEF Current

\* An answer, or a re-entry that finds one, starts the run of a new turn.
LEMMA NewTurn ==
    ASSUME Turns, NEW u \in Slots, turnSeq' = turnSeq + 1,
           NEW resumed \in BOOLEAN, task'[u] = Coroutine("run", turnSeq + 1, "none", resumed),
           \A w \in Tasks \ {u} : task'[w] = task[w] \/ task'[w] = Idle,
           log' # <<>>, resumed \/ present', phase' # ES!WAITING_FINAL_ANSWER,
           task[Main].pc = "start" => present'
    PROVE  NotAhead' /\ Single' /\ Opening' /\ Heard' /\ Awaiting'
<1>1. turnSeq \in Nat /\ u \in Tasks /\ u # Main
  BY JobTypes, Members DEF Turns
<1>2. /\ task'[u].pc = "run" /\ task'[u].seq = turnSeq' /\ task'[u].type = "none"
      /\ task'[u].resumed = resumed
  BY DEF Coroutine
<1>3. \A w \in Tasks \ {u} : ~Current(w)' /\ (task'[w].pc \in Asking => task'[w].seq <= turnSeq')
  BY OldTurns, Members
<1>4. NotAhead'
  BY <1>1, <1>2, <1>3 DEF NotAhead
<1>5. Single'
  BY <1>3 DEF Single
<1>6. Opening'
  BY <1>2, <1>3 DEF Opening, Turns, Idle, RunPCs
<1>7. Heard'
  BY <1>1, <1>2, <1>3, Members DEF Heard, Voiced, Idle
<1> QED
  BY <1>4, <1>5, <1>6, <1>7 DEF Awaiting

\* A re-entry that ends with a run, and the answer of the candidate.
LEMMA RunsKeepTurns ==
    ASSUME Turns, (\E t \in Slots \cup {Main} : Renews(t)) \/ Answers
    PROVE  NotAhead' /\ Single' /\ Opening' /\ Heard' /\ Awaiting'
<1>1. CASE \E t \in Slots \cup {Main} : Renews(t)
  <2>1. PICK t \in Slots \cup {Main} : Renews(t)
    BY <1>1
  <2>2. PICK u \in Slots :
           /\ task'[u] = Coroutine("run", turnSeq + 1, "none", TRUE)
           /\ \A w \in Tasks \ {u} : task'[w] = IF w = t THEN Idle ELSE task[w]
    BY <2>1 DEF Renews
  <2>3. log' # <<>> /\ turnSeq' = turnSeq + 1 /\ present' = present
    BY <2>1, Members DEF Renews, Turns, Opening, SameState
  <2>4. phase' # ES!WAITING_FINAL_ANSWER
    BY <2>1 DEF Renews, Turns, Awaiting, IsQuestion, QuestionTypes
  <2>5. task[Main].pc = "start" => present'
    BY <2>3 DEF Turns, Heard
  <2> QED BY <2>2, <2>3, <2>4, <2>5, NewTurn
<1>2. CASE Answers
  <2>1. PICK u \in Slots : /\ Alone(u)
                           /\ task'[u] = Coroutine("run", turnSeq + 1, "none", FALSE)
    BY <1>2 DEF Answers
  <2>2. /\ turnSeq' = turnSeq + 1 /\ present' /\ log' = Append(log, NewAnswer(log, speech = departures))
        /\ phase' = ES!RUNNING /\ LastQuestion(log) # 0
    BY Zenon, <1>2 DEF Answers
  <2>3. NewAnswer(log, speech = departures) \in Utterance
    BY <2>2, JobTypes, NewAnswerType DEF Turns
  <2>4. log' # <<>>
    BY <2>2, <2>3, Appended, JobTypes DEF Turns
  <2>5. \A w \in Tasks \ {u} : task'[w] = task[w] \/ task'[w] = Idle
    BY <2>1 DEF Alone
  <2>6. FALSE \in BOOLEAN /\ (FALSE \/ present') /\ (task[Main].pc = "start" => present')
    BY Zenon, <2>2
  <2>7. phase' # ES!WAITING_FINAL_ANSWER
    BY <2>2, Phases
  <2> QED BY <2>1, <2>2, <2>4, <2>5, <2>6, <2>7, NewTurn
<1> QED BY <1>1, <1>2

\* The entrypoint's first step.
LEMMA EntersKeepsTurns ==
    ASSUME Turns, Enters
    PROVE  NotAhead' /\ Single' /\ Opening' /\ Heard' /\ Awaiting'
<1>1. /\ Main \in Tasks /\ Alone(Main) /\ log' = log /\ turnSeq \in Nat
      /\ \A u \in Tasks \ {Main} : task[u].pc \notin Asking \cup {"start", "notice?", "notice"}
  BY Members, JobTypes, CloserIsSilent
     DEF Enters, Turns, BeforeEntry, Entered, Asking, RunPCs
<1>2. \A u \in Tasks \ {Main} : task'[u] = task[u] /\ ~Current(u)'
  BY <1>1 DEF Alone, Current
<1>3. phase' = ES!WAITING_FINAL_ANSWER => log # <<>> /\ Last(log).type = "FINAL"
  <2>1. CASE phase' = phase
    BY <2>1 DEF Turns, Awaiting
  <2>2. CASE phase' # phase
    BY <2>2 DEF Enters, RestorePhase, ResumeMode, IsAnswer
  <2> QED BY <2>1, <2>2
<1>4. CASE /\ UNCHANGED <<turnSeq, present, window>>
           /\ task'[Main].pc \notin {"start", "heading"}
           /\ task'[Main].pc \in Asking => Opens(Main)
           /\ task'[Main].pc \in {"notice?", "notice"} => log # <<>>
  <2>1. /\ task'[Main].pc \in Asking =>
              /\ task'[Main].pc \in {"ask?", "ask1"} /\ log = <<>>
              /\ task'[Main].seq = turnSeq /\ task'[Main].type = "INITIAL"
              /\ (task'[Main].pc = "ask1" => task'[Main].intact = present)
        /\ present
    BY <1>4 DEF Opens, Enters, Turns, Heard
  <2>2. NotAhead'
    <3>1. /\ \A u \in Tasks \ {Main} : task'[u].pc \notin Asking
          /\ task'[Main].pc \in Asking => task'[Main].seq = turnSeq
          /\ turnSeq' = turnSeq
      BY <1>1, <1>2, <1>4, <2>1
    <3> QED BY <1>1, <3>1 DEF NotAhead
  <2>2a. Single'
    BY <1>1, <1>2 DEF Single
  <2>3. Opening'
    BY <1>1, <1>2, <1>4, <2>1 DEF Opening, Asking, RunPCs, Current
  <2>4. Heard'
    BY <1>1, <1>2, <1>4, <2>1 DEF Heard, Current, Voiced
  <2>5. Awaiting'
    BY <1>1, <1>2, <1>3, <2>1 DEF Awaiting, Current
  <2> QED BY <2>2, <2>2a, <2>3, <2>4, <2>5
<1>5. CASE turnSeq' = turnSeq + 1 /\ task'[Main] = Idle
  <2>1. \A u \in Tasks : ~Current(u)' /\ task'[u].pc \notin Asking \cup {"start", "notice?", "notice"}
    BY <1>1, <1>2, <1>5, Members DEF Current, Idle
  <2> QED BY <1>1, <1>3, <2>1, Members DEF NotAhead, Single, Opening, Heard, Awaiting, Asking
<1> QED BY <1>4, <1>5 DEF Enters

\* The candidate leaves or returns.
LEMMA PresenceKeepsTurns ==
    ASSUME Turns, Departs \/ Arrives
    PROVE  NotAhead' /\ Single' /\ Opening' /\ Heard' /\ Awaiting'
<1>1. task[Main].pc # "start" /\ log' = log /\ phase' = phase
  BY DEF Turns, BeforeEntry, Armed, Entered, Departs, Arrives
<1>2. CASE Departs
  <2>1. \A u \in Tasks : task'[u].pc = task[u].pc /\ task'[u].seq = task[u].seq
                         /\ task'[u].type = task[u].type
    <3>1. \A u \in Tasks : task[u] \in Task
      BY JobTypes DEF Turns
    <3>2. \A u \in Tasks : task'[u] = [task[u] EXCEPT !.intact = FALSE]
      BY <1>2 DEF Departs
    <3> QED BY <3>1, <3>2 DEF Task
  <2>2. \A u \in Tasks : ~Current(u)' /\ (task'[u].pc \in Asking => task'[u].seq <= turnSeq')
    BY <1>2, <2>1, OldTurns DEF Departs
  <2> QED
    BY <1>1, <2>1, <2>2, Members DEF NotAhead, Single, Opening, Heard, Awaiting, Turns
<1>3. CASE Arrives
  <2>1. PICK u \in Slots : Alone(u) /\ task'[u] = Coroutine("resume", 0, "none", TRUE)
    BY <1>3 DEF Arrives
  <2>2. \A w \in Tasks : task'[w] = task[w] \/ task'[w].pc = "resume"
    BY <2>1 DEF Alone, Coroutine
  <2>3. \A w \in Tasks : Current(w)' => Current(w) /\ task'[w] = task[w]
    BY <1>3, <2>2 DEF Current, Arrives, Asking, RunPCs
  <2>4. present' = TRUE /\ turnSeq' = turnSeq
    BY Zenon, <1>3 DEF Arrives
  <2>5. NotAhead' /\ Single' /\ Opening'
    BY <1>1, <2>2, <2>3, <2>4 DEF NotAhead, Single, Opening, Turns, Asking, RunPCs
  <2>6. Heard' /\ Awaiting'
    BY <1>1, <2>3, <2>4 DEF Heard, Awaiting, Turns
  <2> QED BY <2>5, <2>6
<1> QED BY <1>2, <1>3

\* The steps that only end coroutines.
LEMMA EndsKeepTurns ==
    ASSUME Turns, Closes \/ Late \/ Winds \/ Cancels \/ Quiet
    PROVE  NotAhead' /\ Single' /\ Opening' /\ Heard' /\ Awaiting'
<1>1. CASE Cancels
  <2>1. \A u \in Tasks : ~Current(u)' /\ task'[u].pc = "idle"
    BY <1>1, Members DEF Cancels, Current
  <2> QED
    BY <1>1, <2>1, Members DEF Cancels, NotAhead, Single, Opening, Heard, Awaiting, Turns, Asking, RunPCs
<1>2. CASE Quiet
  BY <1>2, FewerTurns DEF Quiet, SameState, Awaiting, Turns
<1>3. CASE Closes \/ Late \/ Winds
  <2>1. \A u \in Tasks : \/ task'[u] = task[u]
                         \/ task'[u].pc \notin Asking \cup {"start", "notice?", "notice"}
    <3>1. CASE Closes \/ Late
      BY <3>1, Members DEF Closes, Late, Thins, Idle, Asking, RunPCs
    <3>2. CASE Winds
      BY <3>2 DEF Winds, Alone, Concluding, Asking, RunPCs
    <3> QED BY <1>3, <3>1, <3>2
  <2>2. phase' # ES!WAITING_FINAL_ANSWER
    BY <1>3, Phases, JobTypes DEF Closes, Late, Winds, Turns
  <2>3. log' = <<>> => log = <<>>
    <3>1. \A u \in Utterance : Append(log, u) # <<>>
      BY Appended, JobTypes DEF Turns
    <3>2. CASE Closes
      <4>1. CASE log' # log
        <5>1. NewAnswer(log, speech = departures) \in Utterance
          BY <3>2, <4>1, JobTypes, NewAnswerType DEF Closes, Turns
        <5> QED BY <3>1, <3>2, <4>1, <5>1 DEF Closes
      <4> QED BY <4>1
    <3>3. CASE Winds
      <4>1. NewClosing(task[Closer].intact) \in Utterance
        BY JobTypes, Members, NewClosingType DEF Turns, Task
      <4> QED BY <3>1, <3>3, <4>1 DEF Winds
    <3> QED BY <1>3, <3>2, <3>3 DEF Late
  <2>4. UNCHANGED <<turnSeq, present>>
    BY <1>3 DEF Closes, Late, Winds
  <2> QED BY <2>1, <2>2, <2>3, <2>4, FewerTurns DEF Awaiting
<1> QED BY <1>1, <1>2, <1>3

\* Every step keeps the invariant of the turns.
LEMMA NextTurns == Turns /\ [Next]_vars => Turns'
<1> SUFFICES ASSUME Turns, [Next]_vars PROVE Turns'
  OBVIOUS
<1>1. IInv' /\ BeforeEntry' /\ Kind
  BY NextKeeps, BeforeEntryStays, EveryStepIsKind DEF Turns
<1>2. NotAhead' /\ Single' /\ Opening' /\ Heard' /\ Awaiting'
  BY <1>1, StepsKeepTurns, PlayedKeepsTurns, RunsKeepTurns, EntersKeepsTurns, PresenceKeepsTurns,
     EndsKeepTurns DEF Kind
<1> QED
  BY <1>1, <1>2 DEF Turns

\* The invariant of the turns holds at the beginning.
LEMMA InitTurns == Init => Turns
<1> SUFFICES ASSUME Init PROVE Turns
  OBVIOUS
<1>1. IInv
  BY InitEstablishes
<1>2. /\ task[Main].pc \in {"heading", "start"}
      /\ task[Main].pc = "start" => present
      /\ \A t \in Tasks : task[t].pc \in {"idle", "heading", "start"}
      /\ \A t \in Slots : task[t].pc = "idle"
  BY Members DEF Init, Coroutine
<1>3. BeforeEntry
  BY <1>2 DEF Init, BeforeEntry
<1>4. NotAhead /\ Single /\ Opening /\ Heard
  BY <1>2 DEF NotAhead, Single, Opening, Heard, Current, Asking, RunPCs
<1>5. Awaiting
  BY Phases DEF Init, Awaiting
<1> QED
  BY <1>1, <1>3, <1>4, <1>5 DEF Turns

\* The invariant of the turns holds in every state.
LEMMA TurnsAlways == Spec => []Turns
BY InitTurns, NextTurns, PTL DEF Spec

\* What the transcript says was heard was heard (_speak_and_commit): a question that
\* follows an answer is committed only if the candidate stayed from its beginning on,
\* whoever leaves and returns while it plays.
THEOREM WhatIsAskedIsHeard == Spec => []AskedIsHeard
<1>1. Turns => AskedIsHeard
  BY DEF Turns, Heard, AskedIsHeard, Committable, Current, Asking, Voiced
<1> QED
  BY <1>1, TurnsAlways, PTL

-----------------------------------------------------------------------------
(* The end: what is said last, and what the row has of it.                 *)

\* This job has said the closing statement.
Said == \E i \in DOMAIN log : i > restored /\ log[i].type = "CLOSING"

\* After the closing statement nobody puts a question: the lock was Closer's.
LastWord ==
    /\ Said => phase >= ES!CLEANING /\ \A t \in Tasks : task[t].pc \notin Voiced
    /\ ClosingIsLast

\* What may still be said once the row is written is a question that was playing.
Row ==
    row # 0 => /\ phase >= ES!CLEANING /\ task[Closer].pc \in {"room", "idle"}
               /\ cause # "RECONNECT_TIMEOUT"
               /\ \A i \in DOMAIN log : i > row => IsQuestion(log[i])

\* No answer was cut short by a departure, if the hook knows when a speech began.
Uncut ==
    UntimedSpeech \/ \A i \in DOMAIN log : IsAnswer(log[i]) /\ i > restored => log[i].intact

Places ==
    /\ task[Closer].pc \in Concluding => phase = ES!CLOSING
    /\ task[Closer].pc \in EndPCs => phase >= ES!CLEANING

Ending == IInv /\ BeforeEntry /\ Places /\ LastWord /\ Row /\ Uncut

\* Steps that say nothing and leave the row and the closing task alone.
LEMMA EndingFrame ==
    ASSUME Ending, UNCHANGED <<log, restored, row, cause>>,
           phase' \in 0..4, phase <= phase', phase' = phase \/ phase < ES!CLOSING,
           task'[Closer].pc = task[Closer].pc \/ task'[Closer].pc = "idle",
           \A u \in Tasks : task'[u].pc \in Voiced =>
               task[u].pc \in Voiced \/ phase = ES!RUNNING
    PROVE  Places' /\ LastWord' /\ Row' /\ Uncut'
<1>1. phase \in 0..4
  BY JobTypes DEF Ending
<1>2. Places'
  BY <1>1, Phases DEF Ending, Places, Concluding, EndPCs
<1>3. LastWord'
  BY <1>1, Phases DEF Ending, LastWord, Said, ClosingIsLast
<1>4. Row'
  BY <1>1, Phases DEF Ending, Row
<1>5. Uncut'
  BY Zenon DEF Ending, Uncut
<1> QED BY <1>2, <1>3, <1>4, <1>5

\* An utterance that is no answer, or was not cut short.
LEMMA UncutAppended ==
    ASSUME Ending, NEW u \in Utterance, log' = Append(log, u), restored' = restored,
           UntimedSpeech \/ (IsAnswer(u) => u.intact)
    PROVE  Uncut'
<1>1. /\ DOMAIN log' = 1 .. Len(log) + 1 /\ DOMAIN log = 1 .. Len(log) /\ Len(log) \in Nat
      /\ \A i \in DOMAIN log : log'[i] = log[i]
      /\ log'[Len(log) + 1] = u
  BY Appended, JobTypes DEF Ending
<1>2. SUFFICES ASSUME ~UntimedSpeech, NEW i \in DOMAIN log', IsAnswer(log'[i]), i > restored
               PROVE  log'[i].intact
  BY DEF Uncut
<1>3. CASE i \in DOMAIN log
  BY <1>1, <1>2, <1>3 DEF Ending, Uncut
<1>4. CASE i = Len(log) + 1
  BY <1>1, <1>2, <1>4
<1> QED BY <1>1, <1>3, <1>4

\* An utterance that is no closing, while none has been said.
LEMMA NotYetSaid ==
    ASSUME Ending, NEW u \in Utterance, log' = Append(log, u), restored' = restored,
           u.type # "CLOSING", ~Said
    PROVE  LastWord'
<1>1. /\ DOMAIN log' = 1 .. Len(log) + 1 /\ DOMAIN log = 1 .. Len(log) /\ Len(log) \in Nat
      /\ \A i \in DOMAIN log : log'[i] = log[i]
      /\ log'[Len(log) + 1] = u
  BY Appended, JobTypes DEF Ending
<1>2. \A i \in DOMAIN log' : i > restored' => log'[i].type # "CLOSING"
  BY <1>1 DEF Said
<1> QED
  BY <1>2 DEF LastWord, Said, ClosingIsLast

\* A question that was played to its end, also when the row has been written.
LEMMA PlayedKeepsEnding ==
    ASSUME Ending, NEW t \in Slots \cup {Main}, AskPlayed(t)
    PROVE  Places' /\ LastWord' /\ Row' /\ Uncut'
<1> DEFINE q == NewQuestion(log, floor, task[t].type, task[t].intact)
<1>1. /\ q \in Utterance /\ IsQuestion(q) /\ task[t].pc \in Voiced /\ t \in Tasks
      /\ Alone(t) /\ task'[t] = Idle /\ UNCHANGED <<cause, restored, row>>
      /\ log' = log \/ log' = Append(log, q)
      /\ phase' = phase \/ (phase < ES!WAITING_FINAL_ANSWER /\ phase' = ES!WAITING_FINAL_ANSWER)
  BY PlayedFacts DEF Ending
<1> HIDE DEF q
<1>2. /\ t # Closer /\ task'[Closer] = task[Closer] /\ phase \in 0..4
      /\ \A u \in Tasks : task'[u].pc \in Voiced => task[u].pc \in Voiced
  BY <1>1, Members, JobTypes DEF Ending, Alone, Voiced
<1>3. phase' \in 0..4 /\ phase <= phase' /\ (phase' = phase \/ phase < ES!CLOSING)
  BY <1>1, <1>2, Phases
<1>4. CASE log' = log
  BY <1>1, <1>2, <1>3, <1>4, EndingFrame
<1>5. CASE log' = Append(log, q)
  <2>1. ~Said /\ q.type # "CLOSING"
    BY <1>1 DEF Ending, LastWord, IsQuestion, QuestionTypes, RootTypes
  <2>2. LastWord'
    BY <1>1, <1>5, <2>1, NotYetSaid
  <2>3. Places'
    BY <1>2, <1>3, Phases DEF Ending, Places
  <2>4. Row'
    <3>1. SUFFICES ASSUME row # 0 PROVE Row'
      BY <1>1 DEF Row
    <3>2. \A i \in DOMAIN log' : i > row => IsQuestion(log'[i])
      <4>1. /\ DOMAIN log' = 1 .. Len(log) + 1 /\ DOMAIN log = 1 .. Len(log) /\ Len(log) \in Nat
            /\ \A i \in DOMAIN log : log'[i] = log[i]
            /\ log'[Len(log) + 1] = q
        BY <1>1, <1>5, Appended, JobTypes DEF Ending
      <4> QED BY <1>1, <3>1, <4>1 DEF Ending, Row
    <3> QED BY <1>1, <1>2, <1>3, <3>1, <3>2, Phases DEF Ending, Row
  <2>5. ~IsAnswer(q)
    BY <1>1 DEF IsAnswer, IsQuestion, QuestionTypes, RootTypes
  <2>6. Uncut'
    BY <1>1, <1>5, <2>5, UncutAppended
  <2> QED BY <2>2, <2>3, <2>4, <2>6
<1> QED BY <1>1, <1>4, <1>5

\* An answer comes before the end begins, or is what begins it.
LEMMA AnswerKeepsEnding ==
    ASSUME Ending, Answers \/ Closes
    PROVE  Places' /\ LastWord' /\ Row' /\ Uncut'
<1>1. /\ phase < ES!CLOSING /\ phase' \in 0..4 /\ phase' <= ES!CLOSING /\ row' = row
      /\ phase \in 0..4
  <2>1. phase \in 0..4
    BY JobTypes DEF Ending
  <2>2. CASE Closes
    BY <2>1, <2>2, Phases DEF Closes
  <2>3. CASE Answers
    <3>1. phase = ES!RUNNING /\ phase' = phase /\ row' = row
      BY Zenon, <2>3 DEF Answers
    <3> QED BY <3>1, Phases
  <2> QED BY <2>1, <2>2, <2>3
<1>2. ~Said /\ row = 0
  BY <1>1, Phases DEF Ending, LastWord, Row
<1>3. \/ task'[Closer].pc = "marker" /\ phase' = ES!CLOSING
      \/ task'[Closer] = task[Closer]
  <2>1. CASE Closes
    BY <2>1 DEF Closes
  <2>2. CASE Answers
    BY <2>2, Members DEF Answers, Alone
  <2> QED BY <2>1, <2>2
<1>4. Places'
  BY <1>1, <1>3, Phases DEF Ending, Places, EndPCs
<1>5. LastWord' /\ Uncut'
  <2>0. restored' = restored
    BY Zenon DEF Answers, Closes
  <2>1. CASE log' = log
    <3>1. LastWord'
      BY <1>2, <2>0, <2>1 DEF LastWord, Said, ClosingIsLast
    <3>2. Uncut'
      BY Zenon, <2>0, <2>1 DEF Ending, Uncut
    <3> QED BY <3>1, <3>2
  <2>2. CASE log' # log
    <3> DEFINE b == speech = departures
               a == NewAnswer(log, b)
    <3>0. b \in BOOLEAN
      BY Zenon
    <3>1. LastQuestion(log) # 0 /\ log' = Append(log, a) /\ (UntimedSpeech \/ b)
      BY Zenon, <2>2 DEF Answers, Closes
    <3> HIDE DEF b
    <3>2. a \in Utterance /\ IsAnswer(a) /\ (UntimedSpeech \/ a.intact)
      <4>1. a \in Utterance /\ IsAnswer(a)
        BY <3>0, <3>1, JobTypes, NewAnswerType DEF Ending
      <4>2. a.intact = b
        BY Zenon DEF NewAnswer
      <4> QED BY <3>1, <4>1, <4>2
    <3> HIDE DEF a
    <3>3. LastWord'
      BY <1>2, <2>0, <3>1, <3>2, NotYetSaid DEF IsAnswer
    <3>4. Uncut'
      BY <2>0, <3>1, <3>2, UncutAppended
    <3> QED BY <3>3, <3>4
  <2> QED BY <2>1, <2>2
<1> QED
  BY <1>1, <1>2, <1>4, <1>5 DEF Row

\* The closing task, step by step.
LEMMA WindsKeepsEnding ==
    ASSUME Ending, Winds
    PROVE  Places' /\ LastWord' /\ Row' /\ Uncut'
<1>1. phase \in 0..4 /\ log \in Seq(Utterance) /\ Len(log) \in Nat /\ DOMAIN log = 1 .. Len(log)
  BY JobTypes DEF Ending
<1>2. \A u \in Tasks : task'[u].pc \in Voiced => task[u].pc \in Voiced
  BY CloserIsSilent DEF Ending, Winds, Alone, Voiced, Concluding
<1>2a. restored' = restored
  BY DEF Winds
<1>2b. ASSUME log' = log PROVE Uncut'
  BY Zenon, <1>2a, <1>2b DEF Ending, Uncut
<1>3. CASE /\ task[Closer].pc \in Concluding /\ task'[Closer].pc \in Concluding
           /\ UNCHANGED <<phase, log, row>>
  <2>1. row = 0
    BY <1>3 DEF Ending, Row, Concluding
  <2> QED BY <1>2, <1>2a, <1>2b, <1>3, <2>1 DEF Ending, Places, LastWord, Said, ClosingIsLast,
             Row, Concluding, EndPCs
<1>4. CASE /\ task[Closer].pc \in Concluding /\ task'[Closer].pc = "cleanup"
           /\ phase' = ES!CLEANING /\ row' = row
           /\ \/ log' = log
              \/ /\ task[Closer].pc \in {"closing1", "closing2"}
                 /\ log' = Append(log, NewClosing(task[Closer].intact))
  <2>1. row = 0 /\ phase = ES!CLOSING
    BY <1>4 DEF Ending, Places, Row, Concluding
  <2>2. ~Said
    BY <2>1, Phases DEF Ending, LastWord
  <2>3. LastWord'
    <3>1. CASE log' = log
      BY <1>2a, <2>2, <3>1 DEF LastWord, Said, ClosingIsLast
    <3>2. CASE /\ task[Closer].pc \in {"closing1", "closing2"}
               /\ log' = Append(log, NewClosing(task[Closer].intact))
      <4>1. \A u \in Tasks : task[u].pc \notin Voiced
        <5>1. SUFFICES ASSUME NEW u \in Tasks, task[u].pc \in Voiced PROVE FALSE
          OBVIOUS
        <5>2. Head(speechQ) = u /\ Head(speechQ) = Closer
          BY <3>2, <5>1, IInvImplies, Members DEF Ending, OneVoice, PlayingPCs, Voiced
        <5> QED BY <3>2, <5>1, <5>2 DEF Voiced
      <4>2. NewClosing(task[Closer].intact) \in Utterance
        BY JobTypes, Members, NewClosingType DEF Ending, Task
      <4>3. /\ DOMAIN log' = 1 .. Len(log) + 1 /\ Len(log') = Len(log) + 1
            /\ \A i \in DOMAIN log : log'[i] = log[i]
        BY <1>1, <3>2, <4>2, Appended
      <4>4. ClosingIsLast'
        BY <1>1, <1>2a, <2>2, <4>3 DEF ClosingIsLast, Said
      <4> QED BY <1>2, <1>4, <4>1, <4>4, Phases DEF LastWord
    <3> QED BY <1>4, <3>1, <3>2
  <2>4. Uncut'
    <3>1. CASE /\ task[Closer].pc \in {"closing1", "closing2"}
               /\ log' = Append(log, NewClosing(task[Closer].intact))
      <4> DEFINE c == NewClosing(task[Closer].intact)
      <4>1. c \in Utterance /\ ~IsAnswer(c)
        <5>1. c \in Utterance
          BY JobTypes, Members, NewClosingType DEF Ending, Task
        <5>2. c.type = "CLOSING"
          BY DEF NewClosing
        <5> QED BY <5>1, <5>2 DEF IsAnswer
      <4> HIDE DEF c
      <4> QED BY <1>2a, <3>1, <4>1, UncutAppended DEF c
    <3> QED BY <1>2b, <1>4, <3>1
  <2> QED BY <1>4, <2>1, <2>3, <2>4, Phases DEF Places, Row, Concluding, EndPCs
<1>5. CASE /\ task[Closer].pc = "cleanup" /\ task'[Closer].pc = "room"
           /\ UNCHANGED <<phase, log>>
           /\ row' \in IF cause = "RECONNECT_TIMEOUT" THEN {0} ELSE {0, Len(log)}
  <2>1. phase >= ES!CLEANING
    BY <1>5 DEF Ending, Places, EndPCs
  <2>2. Places' /\ LastWord'
    BY <1>2, <1>2a, <1>5, <2>1 DEF Ending, Places, LastWord, Said, ClosingIsLast, EndPCs,
       Concluding
  <2>3. Row'
    BY <1>1, <1>5, <2>1 DEF Row, Winds
  <2> QED BY <1>2b, <1>5, <2>2, <2>3
<1>6. CASE task[Closer].pc = "room" /\ task'[Closer].pc = "idle" /\ UNCHANGED <<phase,
                                                                                log, row>>
  BY <1>1, <1>2, <1>6, EndingFrame DEF Winds
<1> QED
  BY <1>3, <1>4, <1>5, <1>6 DEF Winds

\* Every step keeps the invariant of the end.
LEMMA NextEnding == Ending /\ [Next]_vars => Ending'
<1> SUFFICES ASSUME Ending, [Next]_vars PROVE Ending'
  OBVIOUS
<1>1. IInv' /\ BeforeEntry' /\ Kind
  BY NextKeeps, BeforeEntryStays, EveryStepIsKind DEF Ending
<1>2. phase \in 0..4 /\ phase' \in 0..4 /\ phase <= phase'
  BY PhaseGrows, JobTypes DEF Ending
<1>2a. SUFFICES Places' /\ LastWord' /\ Row' /\ Uncut'
  BY <1>1 DEF Ending
<1>3. ASSUME NEW t \in Slots \cup {Main}, Steps(t)
      PROVE  Places' /\ LastWord' /\ Row' /\ Uncut'
  <2>1. /\ UNCHANGED <<log, restored, row, cause, phase>> /\ task'[Closer] = task[Closer]
        /\ \A u \in Tasks : task'[u].pc \in Voiced => task[u].pc \in Voiced \/ phase = ES!RUNNING
    BY <1>3, Members DEF Steps, SameState, Alone
  <2> QED BY <1>2, <2>1, EndingFrame
<1>4. ASSUME NEW t \in Slots \cup {Main}, Renews(t)
      PROVE  Places' /\ LastWord' /\ Row' /\ Uncut'
  <2>1. /\ UNCHANGED <<log, restored, row, cause, phase>> /\ task'[Closer] = task[Closer]
        /\ \A u \in Tasks : task'[u].pc \in Voiced => task[u].pc \in Voiced
    BY <1>4, Members DEF Renews, SameState, Coroutine, Voiced
  <2> QED BY <1>2, <2>1, EndingFrame
<1>5. CASE Late \/ Departs \/ Arrives
  <2>1. UNCHANGED <<log, restored, row, cause, phase>>
    BY <1>5 DEF Late, Departs, Arrives
  <2>2. /\ task'[Closer].pc = task[Closer].pc
        /\ \A u \in Tasks : task'[u].pc \in Voiced => task[u].pc \in Voiced
    <3>1. CASE Late
      BY <3>1, Members DEF Late, Thins, Voiced
    <3>2. CASE Departs
      <4>1. \A u \in Tasks : task'[u].pc = task[u].pc
        <5>1. task \in [Tasks -> Task]
          BY JobTypes DEF Ending
        <5> QED BY <3>2, <5>1 DEF Departs, Task
      <4> QED BY <4>1, Members
    <3>3. CASE Arrives
      <4>1. PICK u \in Slots : Alone(u) /\ task'[u] = Coroutine("resume", 0, "none", TRUE)
        BY <3>3 DEF Arrives
      <4> QED BY <4>1, Members DEF Alone, Voiced, Coroutine
    <3> QED BY <1>5, <3>1, <3>2, <3>3
  <2> QED BY <1>2, <2>1, <2>2, EndingFrame
<1>6. CASE Cancels
  <2>1. \A u \in Tasks : task'[u].pc = "idle"
    BY <1>6, Members DEF Cancels
  <2> QED BY <1>2, <1>6, <2>1, EndingFrame, Members DEF Cancels, Voiced
<1>7. CASE Enters
  <2>1. /\ UNCHANGED <<log, restored, row, cause>> /\ task'[Closer] = task[Closer]
        /\ phase' = phase \/ phase < ES!CLOSING
    BY <1>2, <1>7, Members, Phases DEF Enters, Alone, RestorePhase, ES!CanAdvance
  <2>2. \A u \in Tasks : task'[u].pc \in Voiced => task[u].pc \in Voiced \/ phase = ES!RUNNING
    BY <1>7, Members DEF Enters, Alone, Opens, Voiced, Asking
  <2> QED BY <1>2, <2>1, <2>2, EndingFrame
<1>8. CASE Quiet
  BY <1>2, <1>8, EndingFrame DEF Quiet, SameState
<1> QED
  BY <1>1, <1>3, <1>4, <1>5, <1>6, <1>7, <1>8, PlayedKeepsEnding, AnswerKeepsEnding,
     WindsKeepsEnding DEF Kind

\* The invariant of the end holds in every state.
LEMMA EndingAlways == Spec => []Ending
<1>1. Init => Ending
  <2> SUFFICES ASSUME Init PROVE Ending
    OBVIOUS
  <2>1. IInv /\ BeforeEntry
    BY InitTurns DEF Turns
  <2>2. task[Closer].pc = "idle" /\ row = 0
    BY Members DEF Init
  <2>3. ~Said
    <3>1. log \in Seq(Utterance) /\ restored = Len(log)
      BY PipelineAssumption DEF Init
    <3> QED BY <3>1 DEF Said
  <2>4. Uncut
    <3>1. log \in Seq(Utterance) /\ restored = Len(log)
      BY PipelineAssumption DEF Init
    <3> QED BY <3>1 DEF Uncut
  <2> QED BY <2>1, <2>2, <2>3, <2>4 DEF Ending, Places, LastWord, Row, Said, ClosingIsLast,
             Concluding, EndPCs
<1> QED
  BY <1>1, NextEnding, PTL DEF Spec

\* The closing statement is the last word, and is said once (_closing_task): a question
\* that was in line or playing when the interview began to close is over before it, or
\* is not said.
THEOREM NothingAfterTheClosing == Spec => []ClosingIsLast
<1>1. Ending => ClosingIsLast
  BY DEF Ending, LastWord
<1> QED
  BY <1>1, EndingAlways, PTL

\* The row has all the candidate said, and the closing statement (end_sequence.py),
\* though questions may still be appended after it was written; no answer that a departure
\* cut short is in it, if the framework says when a speech began (on_user_turn_completed);
\* and a session that ends because the candidate did not come back has none.
THEOREM RowMissesNoAnswer == Spec => []RowHasEveryAnswer
<1>1. Ending => RowHasEveryAnswer
  BY DEF Ending, Row, Uncut, RowHasEveryAnswer
<1> QED
  BY <1>1, EndingAlways, PTL

-----------------------------------------------------------------------------
(* The numbers of the log.                                                 *)

\* How a log grows: by a question of the present turn, an answer, or the closing.
LEMMA LogGrows ==
    ASSUME IInv, Kind
    PROVE  /\ floor' = floor /\ restored' = restored
           /\ \/ log' = log
              \/ \E t \in Slots \cup {Main} :
                    LET q == NewQuestion(log, floor, task[t].type, task[t].intact)
                    IN  /\ AskPlayed(t) /\ Committable(t) /\ QuestionAccepted(log, q)
                        /\ log' = Append(log, q) /\ q \in Utterance /\ IsQuestion(q)
                        /\ q.type = task[t].type
              \/ /\ LastQuestion(log) # 0
                 /\ \E b \in BOOLEAN : log' = Append(log, NewAnswer(log, b))
              \/ \E b \in BOOLEAN : log' = Append(log, NewClosing(b))
<1>1. ASSUME NEW t \in Slots \cup {Main}, AskPlayed(t)
      PROVE  /\ floor' = floor /\ restored' = restored
             /\ \/ log' = log
                \/ LET q == NewQuestion(log, floor, task[t].type, task[t].intact)
                   IN  /\ AskPlayed(t) /\ Committable(t) /\ QuestionAccepted(log, q)
                       /\ log' = Append(log, q) /\ q \in Utterance /\ IsQuestion(q)
                       /\ q.type = task[t].type
  BY <1>1, PlayedFacts
<1>2. ASSUME NEW t \in Slots \cup {Main}, Steps(t) \/ Renews(t)
      PROVE  floor' = floor /\ restored' = restored /\ log' = log
  BY <1>2 DEF Steps, Renews, SameState
<1>3. CASE Late \/ Enters \/ Departs \/ Arrives \/ Cancels \/ Quiet
  BY <1>3 DEF Late, Enters, Departs, Arrives, Cancels, Quiet, SameState
<1>4. ASSUME Closes \/ Answers, log' # log
      PROVE  /\ LastQuestion(log) # 0
             /\ \E b \in BOOLEAN : log' = Append(log, NewAnswer(log, b))
  <2>1. LastQuestion(log) # 0 /\ log' = Append(log, NewAnswer(log, speech = departures))
    BY Zenon, <1>4 DEF Closes, Answers
  <2>2. (speech = departures) \in BOOLEAN
    BY Zenon
  <2> QED BY Zenon, <2>1, <2>2
<1>5. Closes \/ Answers => floor' = floor /\ restored' = restored
  BY Zenon DEF Closes, Answers
<1>6. CASE Winds
  <2>1. task[Closer].intact \in BOOLEAN
    BY JobTypes, Members DEF Task
  <2> QED BY <1>6, <2>1 DEF Winds
<1> QED
  BY <1>1, <1>2, <1>3, <1>4, <1>5, <1>6 DEF Kind

\* What the job was rebuilt from.
Copy == SubSeq(log, 1, restored)

\* The log goes on in order, and as a whole if the copy was in order; and the floor was
\* seen in it.
LogKept ==
    /\ Ongoing(log, floor, restored)
    /\ WellKept(Copy) => Ongoing(log, floor, 0)
    /\ floor = 0 \/ \E i \in DOMAIN log : log[i].num = floor

\* Every step keeps the log in order, from any place on.
LEMMA LogGoesOn ==
    ASSUME IInv, Kind, NEW r, Ongoing(log, floor, r)
    PROVE  Ongoing(log', floor, r)
<1>1. log \in Seq(Utterance) /\ floor \in Nat
  BY JobTypes
<1>2. CASE log' = log
  BY <1>2
<1>3. ASSUME NEW t \in Slots \cup {Main},
             QuestionAccepted(log, NewQuestion(log, floor, task[t].type, task[t].intact)),
             NewQuestion(log, floor, task[t].type, task[t].intact) \in Utterance,
             IsQuestion(NewQuestion(log, floor, task[t].type, task[t].intact)),
             log' = Append(log, NewQuestion(log, floor, task[t].type, task[t].intact))
      PROVE  Ongoing(log', floor, r)
  BY <1>1, <1>3, QuestionKeepsWell
<1>4. ASSUME NEW b \in BOOLEAN, LastQuestion(log) # 0, log' = Append(log, NewAnswer(log, b))
      PROVE  Ongoing(log', floor, r)
  BY <1>1, <1>4, AnswerKeepsWell
<1>5. ASSUME NEW b \in BOOLEAN, log' = Append(log, NewClosing(b))
      PROVE  Ongoing(log', floor, r)
  BY <1>1, <1>5, ClosingKeepsWell
<1> QED
  BY <1>1, <1>2, <1>3, <1>4, <1>5, LogGrows

\* Every step leaves what the log began with.
LEMMA CopyStays ==
    ASSUME IInv, Kind, restored =< Len(log)
    PROVE  Copy' = Copy /\ \A i \in DOMAIN log : i \in DOMAIN log' /\ log'[i] = log[i]
<1>1. /\ log \in Seq(Utterance) /\ log' \in Seq(Utterance) /\ restored \in Nat
      /\ restored' = restored /\ Len(log) =< Len(log')
      /\ \A i \in DOMAIN log : i \in DOMAIN log' /\ log'[i] = log[i]
  <2>1. log \in Seq(Utterance) /\ restored \in Nat /\ restored' = restored
    BY JobTypes, LogGrows DEF IInv, Data
  <2>2. log' = log \/ \E u \in Utterance : log' = Append(log, u)
    <3>1. ASSUME NEW b \in BOOLEAN, LastQuestion(log) # 0
          PROVE  NewAnswer(log, b) \in Utterance
      BY <2>1, <3>1, NewAnswerType
    <3>2. \A b \in BOOLEAN : NewClosing(b) \in Utterance
      BY NewClosingType
    <3> QED BY <3>1, <3>2, LogGrows
  <2> QED BY <2>1, <2>2, Appended
<1>2. \A i \in 1..restored : log'[i] = log[i]
  BY <1>1
<1> QED
  BY <1>1, <1>2 DEF Copy

\* Every step keeps the log in order, and as a whole if it was.
LEMMA LogStaysKept ==
    ASSUME IInv, Kind, LogKept
    PROVE  LogKept'
<1>1. floor' = floor /\ restored' = restored /\ Copy' = Copy
  BY LogGrows, CopyStays DEF LogKept, Ongoing
<1>2. Ongoing(log', floor, restored)
  BY LogGoesOn DEF LogKept
<1>3. WellKept(Copy) => Ongoing(log', floor, 0)
  BY LogGoesOn DEF LogKept
<1>4. floor = 0 \/ \E i \in DOMAIN log' : log'[i].num = floor
  BY CopyStays DEF LogKept, Ongoing
<1> QED
  BY <1>1, <1>2, <1>3, <1>4 DEF LogKept

\* A job may go on from whatever log it was rebuilt from.
LEMMA InitKept == Init => LogKept
<1> SUFFICES ASSUME Init PROVE LogKept
  OBVIOUS
<1>1. log \in Seq(Utterance) /\ floor = NumberFloor(log) /\ restored = Len(log)
  BY PipelineAssumption DEF Init
<1>2. AllValid(log)
  BY RestoredLogsAssumption DEF Init, AllValid
<1>3. Copy = log
  BY <1>1 DEF Copy
<1> QED
  BY <1>1, <1>2, <1>3, RestoredIsOngoing, NumberFloorBounds DEF LogKept

\* The invariant of the turns, and of the log.
KeptTurns == Turns /\ LogKept

\* Every step keeps the turns in order and the log numbered.
LEMMA NextKept == KeptTurns /\ [Next]_vars => KeptTurns'
<1> SUFFICES ASSUME KeptTurns, [Next]_vars PROVE KeptTurns'
  OBVIOUS
<1>1. Turns' /\ Kind
  BY NextTurns, EveryStepIsKind DEF KeptTurns, Turns
<1> QED
  BY <1>1, LogStaysKept DEF KeptTurns, Turns

\* So they are in every state.
LEMMA KeptAlways == Spec => []KeptTurns
<1>1. Init => KeptTurns
  BY InitTurns, InitKept DEF KeptTurns
<1> QED
  BY <1>1, NextKept, PTL DEF Spec

\* What a job says is in order (append_question, conversation_log.py): no number is given
\* out that was seen before and no branch comes back, though both are read when the playout
\* ends and others may speak while it plays.  It is so after every copy, also one that has
\* numbers twice because a job that could not read it began again at number 1; and a copy
\* in order, with whatever holes, makes a log that is in order as a whole.
THEOREM TheLogIsWellKept == Spec => []LogIsWellKept
<1>1. KeptTurns => LogIsWellKept
  BY DEF KeptTurns, LogKept, Copy, Ongoing, WellKept, LogIsWellKept
<1> QED
  BY <1>1, KeptAlways, PTL

\* In a log in order the question with the last number is the last utterance, if that is a
\* question.
LEMMA LastIsFound ==
    ASSUME NEW l \in Seq(Utterance), l # <<>>, WellKept(l), IsQuestion(Last(l)), NEW least \in Nat,
           least = 0 \/ \E i \in DOMAIN l : l[i].num = least
    PROVE  QuestionFor(l, LastQuestionNumber(l, least)) = Len(l)
<1> DEFINE n == Len(l)
           I == {i \in 1..Len(l) : IsQuestion(l[i]) /\ l[i].num = l[n].num}
<1>1. n \in DOMAIN l /\ IsQuestion(l[n]) /\ \A i \in DOMAIN l : i \in Nat /\ i <= n
  BY DEF Last
<1>2. \A i \in DOMAIN l : l[i].num \in Nat
  <2>1. \A i \in DOMAIN l : l[i] \in Utterance
    OBVIOUS
  <2> QED BY <2>1 DEF Utterance
<1>3. \A i \in DOMAIN l : i # n => l[i].num < l[n].num
  BY <1>1, WellKeptIs
<1>4. LastQuestion(l) = n
  BY <1>1, LastQuestionIsLast
<1>5. least <= l[n].num
  BY <1>1, <1>2, <1>3
<1>6. LastQuestionNumber(l, least) = l[n].num
  BY <1>1, <1>2, <1>4, <1>5 DEF LastQuestionNumber
<1>7. I = {n}
  BY <1>1, <1>2, <1>3
<1>8. QuestionFor(l, l[n].num) = Min(I)
  BY <1>7 DEF QuestionFor, SelectInSeq
<1>9. Min(I) = n
  BY <1>1, <1>7 DEF Min
<1> QED
  BY <1>6, <1>8, <1>9

\* The pipeline waits for the last answer only while the question the candidate heard
\* last is the final one and has no answer (_speak_final_question), in whatever order
\* departures, failed playouts and the end come.  After a copy in order it is that question
\* which the hook finds by number (on_user_turn_completed), so that its answer is taken.
THEOREM OnlyTheFinalIsAwaited == Spec => []WaitingForTheFinalAnswer
<1>1. ASSUME KeptTurns, phase = ES!WAITING_FINAL_ANSWER
      PROVE  /\ log # <<>> /\ Last(log).type = "FINAL"
             /\ WellKept(Copy) => QuestionFor(log, LastQuestionNumber(log, floor)) = Len(log)
  <2>1. log # <<>> /\ Last(log).type = "FINAL"
    BY <1>1 DEF KeptTurns, Turns, Awaiting
  <2>2. log \in Seq(Utterance) /\ floor \in Nat
    BY <1>1, JobTypes DEF KeptTurns, Turns
  <2>3. IsQuestion(Last(log))
    BY <2>1 DEF IsQuestion, QuestionTypes
  <2>4. WellKept(Copy) => WellKept(log)
    BY <1>1 DEF KeptTurns, LogKept, Ongoing, WellKept
  <2>5. floor = 0 \/ \E i \in DOMAIN log : log[i].num = floor
    BY <1>1 DEF KeptTurns, LogKept
  <2> QED BY <2>1, <2>2, <2>3, <2>4, <2>5, LastIsFound
<1>2. KeptTurns => WaitingForTheFinalAnswer
  BY <1>1 DEF WaitingForTheFinalAnswer, Copy
<1> QED
  BY <1>2, KeptAlways, PTL

\* What the worker and the next job read is what this job has written, of which Redis may
\* have lost any part.
Transcript(places) == Kept(log, places)

\* The next job may be rebuilt from it: every utterance passes the checks, which is what
\* RestoredLogsAssumption asks for, and a log that began in order is in order still.  And
\* the worker groups it, whether or not it has numbers twice, so that every utterance is in
\* the pair of its number and every pair in the one topic of its branch (group_utterances,
\* group_topics).
THEOREM TranscriptsAreSound ==
    Spec => [](\A places \in SUBSET DOMAIN log :
                  /\ \A i \in DOMAIN Transcript(places) : ValidUtterance(Transcript(places)[i])
                  /\ WellKept(Copy) => WellKept(Transcript(places))
                  /\ SoundTopics(Transcript(places), GroupUtterances(Transcript(places))))
<1>1. ASSUME KeptTurns, NEW places \in SUBSET DOMAIN log
      PROVE  /\ \A i \in DOMAIN Transcript(places) : ValidUtterance(Transcript(places)[i])
             /\ WellKept(Copy) => WellKept(Transcript(places))
             /\ SoundTopics(Transcript(places), GroupUtterances(Transcript(places)))
  <2>1. log \in Seq(Utterance) /\ AllValid(log) /\ (WellKept(Copy) => WellKept(log))
    BY <1>1, JobTypes DEF KeptTurns, LogKept, Turns, Ongoing, WellKept, WellKeptFrom, AllValid
  <2>2. /\ Transcript(places) \in Seq(Utterance) /\ AllValid(Transcript(places))
        /\ WellKept(log) => WellKept(Transcript(places))
    BY <2>1, HolesKeepWell DEF Transcript
  <2>3. \A i \in DOMAIN Transcript(places) : ValidUtterance(Transcript(places)[i])
    BY <2>2 DEF AllValid
  <2> QED BY ONLY <2>1, <2>2, <2>3, TopicsAreSound
<1>2. KeptTurns => \A places \in SUBSET DOMAIN log :
                  /\ \A i \in DOMAIN Transcript(places) : ValidUtterance(Transcript(places)[i])
                  /\ WellKept(Copy) => WellKept(Transcript(places))
                  /\ SoundTopics(Transcript(places), GroupUtterances(Transcript(places)))
  BY <1>1
<1> QED
  BY <1>2, KeptAlways, PTL

-----------------------------------------------------------------------------
(* The branches: follow-ups and the roots they hang from.                  *)

\* A follow-up may be put: the branch is there and is not full.
MayFollowUp(l) ==
    LastQuestion(l) # 0 /\ HasValidCurrentRoot(l) /\ FollowUpCount(l) < MaxFollowups

Branching ==
    \A t \in Tasks : Current(t) /\ task[t].type = "FOLLOW_UP" => MayFollowUp(log)

Branched == KeptTurns /\ Branching /\ BranchesAreSound

\* question_for finds a question with the number.
LEMMA QuestionForFinds ==
    ASSUME NEW l \in Seq(Utterance), NEW n, QuestionFor(l, n) # 0
    PROVE  LET r == QuestionFor(l, n)
           IN  r \in DOMAIN l /\ IsQuestion(l[r]) /\ l[r].num = n
<1> DEFINE I == {i \in 1 .. Len(l) : IsQuestion(l[i]) /\ l[i].num = n}
<1>1. QuestionFor(l, n) = IF I # {} THEN Min(I) ELSE 0
  BY DEF QuestionFor, SelectInSeq
<1>2. I # {} /\ I \subseteq Nat /\ Len(l) \in Nat /\ DOMAIN l = 1 .. Len(l)
  BY <1>1
<1> HIDE DEF I
<1>3. Min(I) \in I
  BY <1>2, LeastElement DEF Min
<1> QED
  BY <1>1, <1>2, <1>3 DEF I

\* The follow-ups of a branch, up to a place in the log, are finitely many.
LEMMA FollowUpsAreFinite ==
    ASSUME NEW l \in Seq(Utterance), NEW p
    PROVE  IsFiniteSet({i \in DOMAIN l : l[i].parent = p /\ l[i].type = "FOLLOW_UP"})
<1> DEFINE S == {i \in DOMAIN l : l[i].parent = p /\ l[i].type = "FOLLOW_UP"}
<1>1. 1 \in Int /\ Len(l) \in Int /\ DOMAIN l = 1 .. Len(l)
  OBVIOUS
<1>2. IsFiniteSet(DOMAIN l)
  BY <1>1, FS_Interval
<1>3. S \in SUBSET DOMAIN l
  OBVIOUS
<1> HIDE DEF S
<1>4. IsFiniteSet(S)
  BY <1>2, <1>3, FS_Subset
<1> QED BY <1>4 DEF S

\* An answer or the closing changes nothing of the branch.
LEMMA BranchAppended ==
    ASSUME NEW l \in Seq(Utterance), NEW u \in Utterance, ~IsQuestion(u), MayFollowUp(l)
    PROVE  MayFollowUp(Append(l, u))
<1> DEFINE L == Append(l, u)
<1>1. /\ L \in Seq(Utterance) /\ Len(L) = Len(l) + 1 /\ Len(l) \in Nat
      /\ DOMAIN L = 1 .. Len(l) + 1 /\ DOMAIN l = 1 .. Len(l)
      /\ \A i \in DOMAIN l : L[i] = l[i]
      /\ L[Len(l) + 1] = u
  BY Appended
<1>2. LastQuestion(L) = LastQuestion(l)
  BY LastQuestionAppended
<1> HIDE DEF L
<1>3. LastQuestion(l) \in DOMAIN l
  BY <1>1, LastQuestionIsLast DEF MayFollowUp
<1>4. CurrentRoot(L) = CurrentRoot(l)
  BY <1>1, <1>2, <1>3 DEF CurrentRoot
<1>5. QuestionFor(L, CurrentRoot(l)) = QuestionFor(l, CurrentRoot(l))
  <2> DEFINE n    == CurrentRoot(l)
             I(s) == {i \in 1 .. Len(s) : IsQuestion(s[i]) /\ s[i].num = n}
  <2>1. /\ QuestionFor(L, n) = IF I(L) # {} THEN Min(I(L)) ELSE 0
        /\ QuestionFor(l, n) = IF I(l) # {} THEN Min(I(l)) ELSE 0
    BY DEF QuestionFor, SelectInSeq
  <2> HIDE DEF n
  <2>2. I(L) = I(l)
    BY <1>1
  <2> HIDE DEF I
  <2> QED BY <2>1, <2>2 DEF n
<1>6. HasValidCurrentRoot(L)
  <2>1. QuestionFor(l, CurrentRoot(l)) # 0
        /\ l[QuestionFor(l, CurrentRoot(l))].type \in RootTypes
    BY DEF MayFollowUp, HasValidCurrentRoot
  <2>2. QuestionFor(l, CurrentRoot(l)) \in DOMAIN l
    BY <2>1, QuestionForFinds
  <2> QED BY <1>1, <1>4, <1>5, <2>1, <2>2 DEF HasValidCurrentRoot
<1>7. FollowUpCount(L) = FollowUpCount(l)
  <2>1. u.type # "FOLLOW_UP"
    BY DEF IsQuestion, QuestionTypes
  <2>2. {i \in DOMAIN L : L[i].parent = CurrentRoot(l) /\ L[i].type = "FOLLOW_UP"}
          = {i \in DOMAIN l : l[i].parent = CurrentRoot(l) /\ l[i].type = "FOLLOW_UP"}
    BY <1>1, <2>1
  <2> QED BY <1>4, <2>2 DEF FollowUpCount
<1> QED
  BY <1>2, <1>6, <1>7 DEF MayFollowUp, L

\* A run decides on a follow-up only when one may be put.
LEMMA DecisionsAreSound ==
    ASSUME log \in Seq(Utterance), "FOLLOW_UP" \in Decisions
    PROVE  MayFollowUp(log)
<1>1. HasValidCurrentRoot(log) /\ HasTopicOrFollowUp(log) /\ ~(FollowUpCount(log) >= MaxFollowups)
  BY DEF Decisions
<1>2. LastQuestion(log) # 0
  <2>1. PICK i \in DOMAIN log : IsQuestion(log[i])
    BY <1>1 DEF HasTopicOrFollowUp, IsQuestion, QuestionTypes, RootTypes
  <2> QED BY <2>1, LastQuestionIsLast
<1>3. FollowUpCount(log) \in Nat
  BY FollowUpsAreFinite, FS_CardinalityType DEF FollowUpCount
<1> QED
  BY <1>1, <1>2, <1>3, PipelineAssumption DEF MayFollowUp

\* Who asks a follow-up now asked it before, or a follow-up may be put.
LEMMA FollowUpsGoOn ==
    ASSUME Turns, Kind, NEW u \in Tasks, Current(u)', task'[u].type = "FOLLOW_UP"
    PROVE  \/ Current(u) /\ task[u].type = "FOLLOW_UP" /\ task'[u] = task[u]
           \/ Current(u) /\ task[u].type = "FOLLOW_UP" /\ log' = log
           \/ MayFollowUp(log) /\ log' = log
<1>1. log \in Seq(Utterance) /\ turnSeq \in Nat /\ task \in [Tasks -> Task]
  BY JobTypes DEF Turns
<1>2. ASSUME task'[u] = task[u], turnSeq' = turnSeq
      PROVE  Current(u) /\ task[u].type = "FOLLOW_UP"
  BY <1>2 DEF Current
<1>3. task'[u].pc \in Asking /\ task'[u] # Idle
  BY Members DEF Current
<1>4. ASSUME NEW t \in Slots \cup {Main}, Steps(t)
      PROVE  \/ Current(u) /\ task[u].type = "FOLLOW_UP"
             \/ MayFollowUp(log)
  <2>1. CASE u # t
    BY <1>2, <1>4, <2>1 DEF Steps, Alone
  <2>2. CASE u = t
    <3>1. Proceeds(t)
      BY <1>3, <1>4, <2>2 DEF Steps, Opens
    <3>2. Current(u)
      BY <1>4, <2>2, <3>1 DEF Current, Proceeds, Steps
    <3>3. task[t].type = "FOLLOW_UP" \/ "FOLLOW_UP" \in Decisions
      BY <2>2, <3>1 DEF Proceeds
    <3> QED BY <1>1, <2>2, <3>2, <3>3, DecisionsAreSound
  <2> QED BY <2>1, <2>2
<1>5. ASSUME NEW t \in Slots \cup {Main}, AskPlayed(t)
      PROVE  Current(u) /\ task[u].type = "FOLLOW_UP" /\ task'[u] = task[u]
  <2>1. Alone(t) /\ task'[t] = Idle /\ turnSeq' = turnSeq
    BY <1>5, PlayedFacts DEF Turns
  <2> QED BY <1>2, <1>3, <2>1 DEF Alone
<1>6. ASSUME turnSeq' = turnSeq + 1, task'[u] = task[u] \/ task'[u].pc = task[u].pc,
             task'[u].seq = task[u].seq
      PROVE  FALSE
  BY <1>6, OldTurns DEF Turns
<1>7. ASSUME NEW t \in Slots \cup {Main}, Renews(t)
      PROVE  FALSE
  <2>1. PICK w \in Slots :
           /\ task'[w] = Coroutine("run", turnSeq + 1, "none", TRUE)
           /\ \A v \in Tasks \ {w} : task'[v] = IF v = t THEN Idle ELSE task[v]
    BY <1>7 DEF Renews
  <2>2. u # w
    BY <2>1 DEF Coroutine
  <2>3. task'[u] = task[u]
    BY <1>3, <2>1, <2>2
  <2> QED BY <1>6, <1>7, <2>3 DEF Renews
<1>8. CASE Answers
  <2>1. PICK w \in Slots : /\ Alone(w) /\ turnSeq' = turnSeq + 1
                           /\ task'[w] = Coroutine("run", turnSeq + 1, "none", FALSE)
    BY <1>8 DEF Answers
  <2>2. u # w
    BY <2>1 DEF Coroutine
  <2>3. task'[u] = task[u]
    BY <2>1, <2>2 DEF Alone
  <2> QED BY <1>6, <2>1, <2>3
<1>9. CASE Arrives
  <2>1. PICK w \in Slots : Alone(w) /\ task'[w] = Coroutine("resume", 0, "none", TRUE)
    BY <1>9 DEF Arrives
  <2>2. u # w
    BY <1>3, <2>1 DEF Coroutine, Asking, RunPCs
  <2>3. task'[u] = task[u]
    BY <2>1, <2>2 DEF Alone
  <2>4. turnSeq' = turnSeq
    BY Zenon, <1>9 DEF Arrives
  <2> QED BY <1>2, <2>3, <2>4
<1>10. CASE Departs
  <2>1. task'[u].pc = task[u].pc /\ task'[u].seq = task[u].seq
    <3>1. task[u] \in Task /\ task'[u] = [task[u] EXCEPT !.intact = FALSE]
      BY <1>1, <1>10 DEF Departs
    <3> QED BY <3>1 DEF Task
  <2> QED BY <1>6, <1>10, <2>1 DEF Departs
<1>11. CASE Enters
  <2>1. u # Main
    BY <1>3, <1>11 DEF Enters, Opens
  <2>2. task'[u] = task[u] /\ task[u].pc \notin Asking
    BY <1>11, <2>1, Members, CloserIsSilent
       DEF Enters, Alone, Turns, BeforeEntry, Entered, Asking, RunPCs
  <2> QED BY <1>3, <2>2
<1>12. CASE Closes \/ Late \/ Winds \/ Cancels \/ Quiet
  <2>1. task'[u] = task[u] /\ turnSeq' = turnSeq
    <3>1. CASE Closes \/ Late
      <4>1. u # Closer
        <5>1. task'[Closer].pc = "marker" \/ task'[Closer] = task[Closer]
          BY <3>1 DEF Closes, Late
        <5> QED BY <1>3, <5>1, CloserIsSilent DEF Turns, Asking, RunPCs
      <4> QED BY <1>3, <3>1, <4>1 DEF Closes, Late, Thins
    <3>2. CASE Winds
      <4>1. u # Closer
        BY <1>3, <3>2 DEF Winds, Concluding, Asking, RunPCs
      <4> QED BY <3>2, <4>1 DEF Winds, Alone
    <3>3. CASE Cancels
      BY <1>3, <3>3 DEF Cancels
    <3>4. CASE Quiet
      BY <3>4 DEF Quiet
    <3> QED BY <1>12, <3>1, <3>2, <3>3, <3>4
  <2> QED BY <1>2, <2>1
<1>13. ASSUME NEW t \in Slots \cup {Main}, Steps(t)
       PROVE  log' = log
  BY <1>13 DEF Steps, SameState
<1> QED
  BY <1>4, <1>5, <1>7, <1>8, <1>9, <1>10, <1>11, <1>12, <1>13 DEF Kind

\* Follow-ups go on only as long as they may be put.
LEMMA BranchingStays ==
    ASSUME Turns, Branching, Kind
    PROVE  Branching'
<1>1. SUFFICES ASSUME NEW u \in Tasks, Current(u)', task'[u].type = "FOLLOW_UP"
               PROVE  MayFollowUp(log')
  BY DEF Branching
<1>2. log \in Seq(Utterance)
  BY JobTypes DEF Turns
<1>3. MayFollowUp(log)
  BY <1>1, FollowUpsGoOn DEF Branching
<1>4. CASE log' = log
  BY <1>3, <1>4
<1>5. CASE log' # log
  <2>1. Current(u) /\ task[u].type = "FOLLOW_UP" /\ task'[u] = task[u]
    BY <1>1, <1>5, FollowUpsGoOn
  <2>2. ASSUME NEW t \in Slots \cup {Main}, AskPlayed(t), Committable(t) PROVE FALSE
    <3>1. task[t].pc \in Voiced /\ task'[t] = Idle /\ t \in Tasks
      BY <2>2, PlayedFacts DEF Turns
    <3>2. u # t
      BY <1>1, <3>1, Members DEF Current
    <3>3. Current(t)
      BY <2>2, <3>1 DEF Committable, Current, Asking, Voiced
    <3> QED BY <2>1, <3>1, <3>2, <3>3 DEF Turns, Single
  <2>3. ASSUME NEW b \in BOOLEAN, LastQuestion(log) # 0, log' = Append(log, NewAnswer(log, b))
        PROVE  MayFollowUp(log')
    <3>1. NewAnswer(log, b) \in Utterance /\ ~IsQuestion(NewAnswer(log, b))
      BY <1>2, <2>3, NewAnswerType DEF IsAnswer, IsQuestion, QuestionTypes, RootTypes
    <3> QED BY <1>2, <1>3, <2>3, <3>1, BranchAppended
  <2>4. ASSUME NEW b \in BOOLEAN, log' = Append(log, NewClosing(b))
        PROVE  MayFollowUp(log')
    <3>1. NewClosing(b) \in Utterance /\ ~IsQuestion(NewClosing(b))
      BY <2>4, NewClosingType DEF IsQuestion, QuestionTypes, RootTypes
    <3> QED BY <1>2, <1>3, <2>4, <3>1, BranchAppended
  <2> QED BY <1>5, <2>2, <2>3, <2>4, LogGrows DEF Turns
<1> QED BY <1>4, <1>5

\* BranchesAreSound, of any log.
Sound(l, f) ==
    \A i \in DOMAIN l : l[i].type = "FOLLOW_UP" /\ l[i].num > f =>
        /\ \E r \in 1..i-1 : l[r].type \in RootTypes /\ l[r].num = l[i].parent
        /\ Cardinality({k \in 1..i : /\ l[k].type = "FOLLOW_UP"
                                     /\ l[k].parent = l[i].parent}) <= MaxFollowups

\* The branches stay sound when a follow-up is put only where one may be put.
LEMMA SoundAppended ==
    ASSUME NEW l \in Seq(Utterance), NEW f \in Nat, NEW u \in Utterance, Sound(l, f),
           u.type = "FOLLOW_UP" => MayFollowUp(l) /\ u.parent = CurrentRoot(l)
    PROVE  Sound(Append(l, u), f)
<1> DEFINE L       == Append(l, u)
           Upto(i) == {k \in 1..i : L[k].type = "FOLLOW_UP" /\ L[k].parent = L[i].parent}
<1>1. /\ L \in Seq(Utterance) /\ Len(l) \in Nat
      /\ DOMAIN L = 1 .. Len(l) + 1 /\ DOMAIN l = 1 .. Len(l)
      /\ \A i \in DOMAIN l : L[i] = l[i]
      /\ L[Len(l) + 1] = u
  BY Appended
<1> HIDE DEF L
<1>2. SUFFICES ASSUME NEW i \in DOMAIN L, L[i].type = "FOLLOW_UP", L[i].num > f
               PROVE  /\ \E r \in 1..i-1 : L[r].type \in RootTypes /\ L[r].num = L[i].parent
                      /\ Cardinality(Upto(i)) <= MaxFollowups
  BY DEF Sound, L
<1>3. CASE i \in DOMAIN l
  <2>1. /\ \E r \in 1..i-1 : l[r].type \in RootTypes /\ l[r].num = l[i].parent
        /\ Cardinality({k \in 1..i : /\ l[k].type = "FOLLOW_UP"
                                     /\ l[k].parent = l[i].parent}) <= MaxFollowups
    BY <1>1, <1>2, <1>3 DEF Sound
  <2>2. Upto(i) = {k \in 1..i : l[k].type = "FOLLOW_UP" /\ l[k].parent = l[i].parent}
    <3>1. \A k \in 1..i : k \in DOMAIN l /\ L[k] = l[k]
      BY <1>1, <1>3
    <3> QED BY <1>1, <1>3, <3>1
  <2>3. \E r \in 1..i-1 : L[r].type \in RootTypes /\ L[r].num = L[i].parent
    BY <1>1, <1>3, <2>1
  <2> HIDE DEF Upto
  <2> QED BY <2>1, <2>2, <2>3
<1>4. CASE i = Len(l) + 1
  <2>1. L[i] = u /\ MayFollowUp(l) /\ u.parent = CurrentRoot(l)
    BY <1>1, <1>2, <1>4
  <2>2. \E r \in 1..i-1 : L[r].type \in RootTypes /\ L[r].num = L[i].parent
    <3> DEFINE r == QuestionFor(l, CurrentRoot(l))
    <3>1. r # 0 /\ l[r].type \in RootTypes
      BY <2>1 DEF MayFollowUp, HasValidCurrentRoot
    <3>2. r \in DOMAIN l /\ l[r].num = CurrentRoot(l)
      BY <3>1, QuestionForFinds
    <3> HIDE DEF r
    <3> QED BY <1>1, <1>4, <2>1, <3>1, <3>2
  <2>3. Cardinality(Upto(i)) <= MaxFollowups
    <3> DEFINE S == {k \in DOMAIN l : l[k].parent = CurrentRoot(l) /\ l[k].type = "FOLLOW_UP"}
    <3>1. Upto(i) = S \cup {Len(l) + 1}
      BY <1>1, <1>2, <1>4, <2>1
    <3>2. IsFiniteSet(S) /\ Len(l) + 1 \notin S
      <4>1. Len(l) + 1 \notin S
        BY <1>1
      <4>2. IsFiniteSet(S)
        BY Zenon, FollowUpsAreFinite
      <4> QED BY <4>1, <4>2
    <3>3. Cardinality(S) < MaxFollowups
      BY <2>1 DEF MayFollowUp, FollowUpCount
    <3> HIDE DEF S, Upto
    <3>4. Cardinality(Upto(i)) = Cardinality(S) + 1 /\ Cardinality(S) \in Nat
      BY <3>1, <3>2, FS_AddElement, FS_CardinalityType
    <3> QED BY <3>3, <3>4, PipelineAssumption
  <2> HIDE DEF Upto
  <2> QED BY <2>2, <2>3
<1> HIDE DEF Upto
<1> QED BY <1>1, <1>3, <1>4

\* Every step keeps the branches sound.
LEMMA SoundStays ==
    ASSUME KeptTurns, Branching, Kind, Sound(log, floor)
    PROVE  Sound(log, floor)'
<1>1. log \in Seq(Utterance) /\ floor \in Nat /\ floor' = floor /\ IInv
  BY JobTypes, LogGrows DEF KeptTurns, Turns
<1>2. CASE log' = log
  BY <1>1, <1>2
<1>3. ASSUME NEW t \in Slots \cup {Main},
             AskPlayed(t), Committable(t),
             NewQuestion(log, floor, task[t].type, task[t].intact) \in Utterance,
             NewQuestion(log, floor, task[t].type, task[t].intact).type = task[t].type,
             log' = Append(log, NewQuestion(log, floor, task[t].type, task[t].intact))
      PROVE  Sound(log', floor)
  <2> DEFINE q == NewQuestion(log, floor, task[t].type, task[t].intact)
  <2>1. Current(t) /\ t \in Tasks
    BY <1>1, <1>3, PlayedFacts DEF Committable, Current, Asking, Voiced
  <2>2. q.type = "FOLLOW_UP" => MayFollowUp(log) /\ q.parent = CurrentRoot(log)
    BY <1>3, <2>1 DEF Branching, NewQuestion
  <2>3. q \in Utterance /\ log' = Append(log, q)
    BY <1>3
  <2> HIDE DEF q
  <2> QED BY <1>1, <2>2, <2>3, SoundAppended
<1>4. ASSUME NEW b \in BOOLEAN, LastQuestion(log) # 0, log' = Append(log, NewAnswer(log, b))
      PROVE  Sound(log', floor)
  <2>1. NewAnswer(log, b) \in Utterance /\ NewAnswer(log, b).type # "FOLLOW_UP"
    BY <1>1, <1>4, NewAnswerType DEF IsAnswer
  <2> QED BY <1>1, <1>4, <2>1, SoundAppended
<1>5. ASSUME NEW b \in BOOLEAN, log' = Append(log, NewClosing(b))
      PROVE  Sound(log', floor)
  <2>1. NewClosing(b) \in Utterance /\ NewClosing(b).type # "FOLLOW_UP"
    BY <1>5, NewClosingType
  <2> QED BY <1>1, <1>5, <2>1, SoundAppended
<1>6. Sound(log', floor)
  BY <1>1, <1>2, <1>3, <1>4, <1>5, LogGrows
<1> QED
  BY <1>1, <1>6

\* Every step keeps the branches sound, with all they rest on.
LEMMA NextBranched == Branched /\ [Next]_vars => Branched'
<1> SUFFICES ASSUME Branched, [Next]_vars PROVE Branched'
  OBVIOUS
<1>1. KeptTurns' /\ Kind
  BY NextKept, EveryStepIsKind DEF Branched, KeptTurns, Turns
<1>2. Branching'
  BY <1>1, BranchingStays DEF Branched, KeptTurns
<1>3. Sound(log, floor)
  BY DEF Branched, BranchesAreSound, Sound
<1>4. Sound(log, floor)'
  BY <1>1, <1>3, SoundStays DEF Branched
<1>5. BranchesAreSound'
  BY <1>4 DEF BranchesAreSound, Sound
<1> QED
  BY <1>1, <1>2, <1>5 DEF Branched

\* The branches of a new or restored job are sound: those it finds are not judged.
LEMMA InitBranched == Init => Branched
<1> SUFFICES ASSUME Init PROVE Branched
  OBVIOUS
<1>1. KeptTurns
  BY InitTurns, InitKept DEF KeptTurns
<1>2. \A t \in Tasks : ~Current(t)
  BY Members DEF Init, Coroutine, Current, Asking, RunPCs
<1>3. log \in Seq(Utterance) /\ floor = NumberFloor(log)
  BY PipelineAssumption DEF Init
<1>4. \A i \in DOMAIN log : log[i].num <= floor /\ log[i].num \in Nat /\ floor \in Nat
  <2>1. \A i \in DOMAIN log : log[i] \in Utterance
    BY <1>3
  <2> QED BY <1>3, <2>1, NumberFloorBounds DEF Utterance
<1>5. BranchesAreSound
  BY <1>4 DEF BranchesAreSound
<1> QED
  BY <1>1, <1>2, <1>5 DEF Branched, Branching

\* So they are in every state.
LEMMA BranchedAlways == Spec => []Branched
BY InitBranched, NextBranched, PTL DEF Spec

\* Every branch hangs from a root question of the log and is no longer than
\* MAX_FOLLOWUPS_PER_BRANCH (_decide, append_question), though the decision is made from
\* the log two calls, a lock and a playout before the follow-up is committed.
THEOREM FollowUpsAreBounded == Spec => []BranchesAreSound
<1>1. Branched => BranchesAreSound
  BY DEF Branched
<1> QED
  BY <1>1, BranchedAlways, PTL

-----------------------------------------------------------------------------
(* Who says what comes next.                                               *)

\* A follow-up that may be put is not refused.
LEMMA FollowUpsAreAccepted ==
    ASSUME IInv, Ongoing(log, floor, restored), MayFollowUp(log), NEW intact \in BOOLEAN
    PROVE  QuestionAccepted(log, NewQuestion(log, floor, "FOLLOW_UP", intact))
<1> DEFINE r == QuestionFor(log, CurrentRoot(log))
           n == LastQuestionNumber(log, floor)
<1>1. log \in Seq(Utterance) /\ floor \in Nat
  BY JobTypes
<1>2. r # 0
  BY DEF MayFollowUp, HasValidCurrentRoot
<1>3. r \in DOMAIN log /\ IsQuestion(log[r]) /\ log[r].num = CurrentRoot(log)
  BY <1>1, <1>2, QuestionForFinds
<1>4. log[r].num > 0 /\ log[r].num <= n /\ n \in Nat /\ log[r].num \in Nat
  <2>1. log[r].type # "CLOSING" /\ log[r].num \in Nat
    BY <1>1, <1>3, NumbersType DEF IsQuestion, QuestionTypes, RootTypes
  <2>2. (log[r].num = 0 <=> log[r].type = "CLOSING") /\ log[r].num <= n
    BY <1>3 DEF Ongoing, WellKeptFrom, ValidUtterance
  <2>3. n \in Nat
    BY <1>1, LastQuestionNumberType
  <2> QED BY ONLY <2>1, <2>2, <2>3
<1> HIDE DEF r, n
<1>5. CurrentRoot(log) # 0 /\ CurrentRoot(log) < n + 1
  BY <1>3, <1>4
<1> QED
  BY <1>5 DEF QuestionAccepted, NewQuestion, MayFollowUp, n

\* A question that was played is committed, or nobody has waited for it.
LEMMA PlayedIsNoDeadAir ==
    ASSUME Branched, NEW t \in Slots \cup {Main}, AskPlayed(t), NoDeadAir
    PROVE  NoDeadAir'
<1> DEFINE q == NewQuestion(log, floor, task[t].type, task[t].intact)
<1>1. IInv /\ log \in Seq(Utterance) /\ task[t].intact \in BOOLEAN
  BY JobTypes, Members DEF Branched, KeptTurns, Turns, Task
<1>2. /\ q \in Utterance /\ IsQuestion(q) /\ q.type = task[t].type
      /\ task[t].pc \in Voiced /\ Alone(t) /\ t \in Tasks
      /\ UNCHANGED <<turnSeq, present, shutdown>>
      /\ \/ log' = log /\ phase' = phase /\ ~(Committable(t) /\ QuestionAccepted(log, q))
         \/ log' = Append(log, q)
  BY <1>1, PlayedFacts
<1>3. Current(t) => QuestionAccepted(log, q)
  <2>1. CASE task[t].type = "FOLLOW_UP"
    BY <1>1, <1>2, <2>1, FollowUpsAreAccepted DEF Branched, Branching, KeptTurns, LogKept
  <2>2. CASE task[t].type # "FOLLOW_UP"
    BY <1>2, <2>2 DEF QuestionAccepted
  <2> QED BY <2>1, <2>2
<1> HIDE DEF q
<1>4. CASE log' = Append(log, q)
  <2>1. log' # <<>> /\ Last(log') = q
    BY <1>1, <1>2, <1>4, Appended
  <2>2. ~IsAnswer(q)
    BY <1>2 DEF IsAnswer, IsQuestion, QuestionTypes, RootTypes
  <2> QED BY <2>1, <2>2 DEF NoDeadAir
<1>5. CASE log' = log /\ phase' = phase /\ ~(Committable(t) /\ QuestionAccepted(log, q))
  <2>1. present => ~Working(t)
    BY <1>2, <1>3, <1>5 DEF Committable, Working, Current, Voiced, Asking, RunPCs
  <2>2. \A u \in Tasks \ {t} : Working(u) => Working(u)'
    BY <1>2 DEF Alone, Working
  <2> QED BY <1>2, <1>5, <2>1, <2>2 DEF NoDeadAir
<1> QED BY <1>2, <1>4, <1>5

\* Every step leaves somebody to say what comes next.
LEMMA NextIsNoDeadAir ==
    Branched /\ NoDeadAir /\ [Next]_vars => NoDeadAir'
<1> SUFFICES ASSUME Branched, NoDeadAir, [Next]_vars,
                    phase' = ES!RUNNING, present', ~shutdown',
                    log' = <<>> \/ IsAnswer(Last(log'))
             PROVE  NoDeadAir'
  BY DEF NoDeadAir
<1>1. SUFFICES ASSUME ~\E t \in Slots \cup {Main} : AskPlayed(t)
               PROVE  \E t \in Tasks : Working(t)'
  BY PlayedIsNoDeadAir DEF NoDeadAir
<1>2. IInv /\ Kind
  BY EveryStepIsKind DEF Branched, KeptTurns, Turns
<1>3. phase = ES!RUNNING
  BY <1>2, PhaseGrows, JobTypes, Phases
<1>4. ASSUME NEW t \in Slots \cup {Main}, Steps(t)
      PROVE  \E u \in Tasks : Working(u)'
  <2>1. /\ t \in Tasks /\ Excused(t) /\ Alone(t)
        /\ UNCHANGED <<log, present, turnSeq>> /\ (shutdown => shutdown')
    BY <1>4, Members DEF Steps, SameState
  <2>2. PICK u \in Tasks : Working(u)
    BY <1>3, <2>1 DEF NoDeadAir
  <2>3. CASE u # t
    BY <2>1, <2>2, <2>3 DEF Alone, Working
  <2>4. CASE u = t
    <3>1. ~(task[t].pc = "notice" /\ ~IsAnswer(Last(log)))
      BY <2>1 DEF Branched, KeptTurns, Turns, Opening
    <3> QED BY <1>3, <2>1, <2>2, <2>4, <3>1 DEF Excused
  <2> QED BY <2>3, <2>4
<1>5. ASSUME NEW t \in Slots \cup {Main}, Renews(t)
      PROVE  \E u \in Tasks : Working(u)'
  BY <1>5, Members DEF Renews, Working, Coroutine, RunPCs
<1>6. CASE Answers \/ Arrives
  <2>1. CASE Answers
    <3>1. PICK u \in Slots : turnSeq' = turnSeq + 1
                             /\ task'[u] = Coroutine("run", turnSeq + 1, "none", FALSE)
      BY <2>1 DEF Answers
    <3> QED BY <3>1, Members DEF Working, Coroutine, RunPCs
  <2>2. CASE Arrives
    <3>1. PICK u \in Slots : task'[u] = Coroutine("resume", 0, "none", TRUE)
      BY <2>2 DEF Arrives
    <3> QED BY <3>1, Members DEF Working, Coroutine
  <2> QED BY <1>6, <2>1, <2>2
<1>7. CASE Enters
  <2>1. CASE Working(Main)' \/ phase # ES!RUNNING
    BY <1>3, <2>1, Members
  <2>2. CASE present' = FALSE
    BY Zenon, <2>2
  <2> QED BY <1>7, <2>1, <2>2 DEF Enters
<1>8. CASE Departs \/ Cancels
  <2>1. CASE Departs
    BY Zenon, <2>1 DEF Departs
  <2>2. CASE Cancels
    BY Zenon, <2>2 DEF Cancels
  <2> QED BY <1>8, <2>1, <2>2
<1>9. CASE Closes \/ Late \/ Winds
  BY <1>3, <1>9, Phases DEF Closes, Late, Winds
<1>10. CASE Quiet
  BY <1>3, <1>10 DEF Quiet, SameState, NoDeadAir, Working
<1> QED
  BY <1>1, <1>2, <1>4, <1>5, <1>6, <1>7, <1>8, <1>9, <1>10 DEF Kind

\* No dead air: as long as the interview runs and the candidate is there, somebody works on
\* what follows an answer, whatever departures, returns, failed playouts and refused
\* commits came between.
THEOREM SomebodySpeaksNext == Spec => []NoDeadAir
<1>1. Init => Branched /\ NoDeadAir
  <2>1. Init => \E t \in Tasks : Working(t)
    BY Members DEF Init, Coroutine, Working
  <2> QED BY <2>1, InitBranched DEF NoDeadAir
<1>2. (Branched /\ NoDeadAir) /\ [Next]_vars => (Branched /\ NoDeadAir)'
  BY NextBranched, NextIsNoDeadAir
<1> QED
  BY <1>1, <1>2, PTL DEF Spec
=============================================================================
