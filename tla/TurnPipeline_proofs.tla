-------------------------- MODULE TurnPipeline_proofs --------------------------
(***************************************************************************)
(* Safety of TurnPipeline for every number of coroutines, every initial    *)
(* log and every bound.                                                    *)
(***************************************************************************)
EXTENDS TurnPipeline, Data_proofs, SequenceTheorems

-----------------------------------------------------------------------------
(* The line at the speech lock, as a relation between what the coroutines  *)
(* do (T) and the queue of the lock (Q): whoever plays or waits is in line *)
(* once, and whoever plays is at its head.                                 *)

InLine(T, t)  == T[t].pc \in WaitingPCs \cup PlayingPCs
Playing(T, t) == T[t].pc \in PlayingPCs

Line(T, Q) ==
    /\ \A i \in DOMAIN Q : InLine(T, Q[i])
    /\ \A i, j \in DOMAIN Q : Q[i] = Q[j] => i = j
    /\ \A t \in Tasks : InLine(T, t) => \E i \in DOMAIN Q : Q[i] = t
    /\ \A t \in Tasks : Playing(T, t) => Q # <<>> /\ Head(Q) = t

\* T and U agree on who, other than t, is in line and plays.
SameOthers(T, U, t) ==
    \A u \in Tasks \ {t} : /\ InLine(U, u) <=> InLine(T, u)
                           /\ Playing(U, u) <=> Playing(T, u)

\* Joining the line: at its end, and playing only when it was empty.
LEMMA LineJoin ==
    ASSUME NEW T, NEW U, NEW Q \in Seq(Tasks), NEW t \in Tasks,
           Line(T, Q), SameOthers(T, U, t),
           ~InLine(T, t), InLine(U, t), Playing(U, t) => Q = <<>>
    PROVE  Line(U, Append(Q, t)) /\ Append(Q, t) \in Seq(Tasks)
<1> DEFINE R == Append(Q, t)
<1>1. /\ R \in Seq(Tasks) /\ Len(R) = Len(Q) + 1 /\ Len(Q) \in Nat
      /\ R[Len(R)] = t
      /\ \A i \in 1..Len(Q) : R[i] = Q[i]
      /\ DOMAIN R = 1..Len(R) /\ DOMAIN Q = 1..Len(Q)
      /\ \A i \in 1..Len(Q) : Q[i] \in Tasks
      /\ R # <<>> /\ Head(R) = R[1]
  <2>1. /\ R \in Seq(Tasks) /\ Len(R) = Len(Q) + 1 /\ Len(Q) \in Nat
        /\ R[Len(R)] = t /\ \A i \in 1..Len(Q) : R[i] = Q[i]
    OBVIOUS
  <2>2. /\ DOMAIN R = 1..Len(R) /\ DOMAIN Q = 1..Len(Q)
        /\ \A i \in 1..Len(Q) : Q[i] \in Tasks
    OBVIOUS
  <2> HIDE DEF R
  <2>3. Len(R) # 0
    BY <2>1
  <2>4. R # <<>> /\ Head(R) = R[1]
    BY <2>1, <2>3
  <2> QED BY <2>1, <2>2, <2>4
<1> HIDE DEF R
<1>2. \A i \in DOMAIN Q : Q[i] # t
  BY DEF Line
<1>3. \A i \in DOMAIN R : InLine(U, R[i])
  BY <1>1, <1>2 DEF Line, SameOthers
<1>4. \A i, j \in DOMAIN R : R[i] = R[j] => i = j
  BY <1>1, <1>2 DEF Line
<1>5. \A u \in Tasks : InLine(U, u) => \E i \in DOMAIN R : R[i] = u
  <2>1. SUFFICES ASSUME NEW u \in Tasks, InLine(U, u) PROVE \E i \in DOMAIN R : R[i] = u
    OBVIOUS
  <2>2. CASE u = t
    BY <2>2, <1>1
  <2>3. CASE u # t
    <3>1. PICK i \in DOMAIN Q : Q[i] = u
      BY <2>1, <2>3 DEF Line, SameOthers
    <3> QED BY <3>1, <1>1
  <2> QED BY <2>2, <2>3
<1>6. \A u \in Tasks : Playing(U, u) => R # <<>> /\ Head(R) = u
  <2>1. SUFFICES ASSUME NEW u \in Tasks, Playing(U, u) PROVE Head(R) = u
    BY <1>1
  <2>2. CASE u = t
    <3>1. Len(Q) = 0
      BY <2>1, <2>2
    <3> QED BY <3>1, <2>2, <1>1
  <2>3. CASE u # t
    <3>1. Playing(T, u)
      BY <2>1, <2>3 DEF SameOthers
    <3>2. Q # <<>> /\ Head(Q) = u
      BY <3>1 DEF Line
    <3>3. Len(Q) >= 1 /\ Q[1] = u
      BY <3>2
    <3> QED BY <3>3, <1>1
  <2> QED BY <2>2, <2>3
<1> QED
  BY <1>1, <1>3, <1>4, <1>5, <1>6 DEF Line, R

\* Leaving the line from its head.
LEMMA LineLeave ==
    ASSUME NEW T, NEW U, NEW Q \in Seq(Tasks), NEW t \in Tasks,
           Line(T, Q), SameOthers(T, U, t),
           Q # <<>>, Head(Q) = t, ~InLine(U, t)
    PROVE  Line(U, Tail(Q)) /\ Tail(Q) \in Seq(Tasks)
<1> DEFINE R == Tail(Q)
<1>1. Q # <<>> /\ Head(Q) = t
  OBVIOUS
<1>2. /\ R \in Seq(Tasks) /\ Len(R) = Len(Q) - 1 /\ Len(Q) \in Nat /\ Len(Q) >= 1
      /\ \A i \in 1..Len(R) : R[i] = Q[i + 1]
      /\ DOMAIN R = 1..Len(R) /\ DOMAIN Q = 1..Len(Q)
      /\ \A i \in 1..Len(Q) : Q[i] \in Tasks
      /\ Q[1] = t
  <2>1. Len(Q) \in Nat /\ Len(Q) # 0 /\ DOMAIN Q = 1..Len(Q)
        /\ \A i \in 1..Len(Q) : Q[i] \in Tasks
    BY <1>1
  <2>2. R \in Seq(Tasks) /\ Len(R) = Len(Q) - 1
    BY <1>1
  <2>3. \A i \in 1..Len(R) : R[i] = Q[i + 1]
    BY <1>1, <2>2
  <2>4. Q[1] = t
    BY <1>1
  <2>5. DOMAIN R = 1..Len(R)
    BY <2>2
  <2> HIDE DEF R
  <2> QED BY <2>1, <2>2, <2>3, <2>4, <2>5
<1> HIDE DEF R
<1>3. \A i \in 1..Len(R) : i + 1 \in DOMAIN Q /\ i + 1 # 1 /\ R[i] = Q[i + 1]
  BY <1>2
<1>4. \A i \in DOMAIN R : InLine(U, R[i])
  <2>1. SUFFICES ASSUME NEW i \in DOMAIN R PROVE InLine(U, R[i])
    OBVIOUS
  <2>2. i + 1 \in DOMAIN Q /\ i + 1 # 1 /\ R[i] = Q[i + 1] /\ 1 \in DOMAIN Q
    BY <1>2, <1>3
  <2>3. Q[i + 1] # t /\ InLine(T, Q[i + 1]) /\ Q[i + 1] \in Tasks
    BY <1>2, <2>2 DEF Line
  <2> QED BY <2>2, <2>3 DEF SameOthers
<1>5. \A i, j \in DOMAIN R : R[i] = R[j] => i = j
  <2>1. SUFFICES ASSUME NEW i \in DOMAIN R, NEW j \in DOMAIN R, R[i] = R[j] PROVE i = j
    OBVIOUS
  <2>2. /\ i + 1 \in DOMAIN Q /\ j + 1 \in DOMAIN Q
        /\ Q[i + 1] = Q[j + 1] /\ i \in Nat /\ j \in Nat
    BY <1>2, <1>3, <2>1
  <2>3. i + 1 = j + 1
    BY <2>2 DEF Line
  <2> QED BY <2>2, <2>3
<1>6. \A u \in Tasks : InLine(U, u) => \E i \in DOMAIN R : R[i] = u
  <2>1. SUFFICES ASSUME NEW u \in Tasks, InLine(U, u) PROVE \E i \in DOMAIN R : R[i] = u
    OBVIOUS
  <2>2. u # t /\ InLine(T, u)
    BY <2>1 DEF SameOthers
  <2>3. PICK i \in DOMAIN Q : Q[i] = u
    BY <2>2 DEF Line
  <2>4. i # 1
    BY <2>2, <2>3, <1>2
  <2>5. i - 1 \in DOMAIN R /\ R[i - 1] = u
    BY <2>3, <2>4, <1>2
  <2> QED BY <2>5
<1>7. \A u \in Tasks : ~Playing(U, u)
  <2>1. SUFFICES ASSUME NEW u \in Tasks, Playing(U, u) PROVE FALSE
    OBVIOUS
  <2>2. u # t
    BY <2>1 DEF Playing, InLine
  <2>3. Playing(T, u)
    BY <2>1, <2>2 DEF SameOthers
  <2>4. Head(Q) = u
    BY <2>3 DEF Line
  <2> QED BY <2>2, <2>4, <1>1
<1> QED
  BY <1>2, <1>4, <1>5, <1>6, <1>7 DEF Line, R

\* Staying in line, the head of the line perhaps beginning to play.
LEMMA LineStay ==
    ASSUME NEW T, NEW U, NEW Q \in Seq(Tasks), Line(T, Q),
           \A u \in Tasks : InLine(U, u) <=> InLine(T, u),
           \A u \in Tasks : Playing(U, u) => Playing(T, u) \/ (Q # <<>> /\ Head(Q) = u)
    PROVE  Line(U, Q)
<1>1. \A i \in DOMAIN Q : Q[i] \in Tasks
  OBVIOUS
<1> QED
  BY <1>1 DEF Line

-----------------------------------------------------------------------------
(* The inductive invariant.                                                *)

AskPCs    == {"generate", "ask?", "ask1", "ask2"}
CloserPCs == {"marker", "closing?", "closing1", "closing2"} \cup EndPCs

\* What one coroutine may be while the interview is in phase ph: whoever is
\* about to ask knows what kind of question, and the steps of the closing are
\* taken by Closer alone, once the interview is closing.
Role(t, r, ph) ==
    /\ r.pc \in AskPCs => r.type \in QuestionTypes
    /\ r.pc \in CloserPCs => t = Closer /\ ph >= ES!CLOSING
    /\ t = Closer => r.pc \in CloserPCs \cup {"idle"}

Good(T, Q, ph) ==
    /\ T \in [Tasks -> Task] /\ Q \in Seq(Tasks)
    /\ \A t \in Tasks : Role(t, T[t], ph)
    /\ Line(T, Q)

\* The variables other than task and speechQ.
Data ==
    /\ ES!TypeOK
    /\ log \in Seq(Utterance) /\ floor \in Nat /\ restored \in Nat
    /\ turnSeq \in Nat /\ closed \in BOOLEAN
    /\ present \in BOOLEAN /\ departures \in Nat /\ window \in BOOLEAN
    /\ speech \in Nat \cup {Silent, Untimed} /\ (speech = Untimed => UntimedSpeech)
    /\ clock \in 0..2 /\ guardOn \in BOOLEAN
    /\ row \in Nat /\ shutdown \in BOOLEAN

IInv == Data /\ Good(task, speechQ, phase)

\* The inductive invariant is as strong as the two properties wanted of it.
LEMMA IInvImplies == IInv => TypeOK /\ OneVoice
BY DEF IInv, Data, Good, Line, Playing, TypeOK, OneVoice

-----------------------------------------------------------------------------
(* Good is kept by each way in which a coroutine moves.                    *)

\* U is T with t changed, and what t has become is allowed in phase ph2.
Moves(T, U, t, ph, ph2) ==
    /\ U \in [Tasks -> Task] /\ ph \in ES!EndPhase /\ ph2 \in ES!EndPhase /\ ph <= ph2
    /\ \A u \in Tasks \ {t} : U[u] = T[u]
    /\ Role(t, U[t], ph2)

\* A move keeps every role, and everybody else's place in line.
LEMMA MovesKeepRoles ==
    ASSUME NEW T, NEW U, NEW Q, NEW t \in Tasks, NEW ph, NEW ph2,
           Good(T, Q, ph), Moves(T, U, t, ph, ph2)
    PROVE  /\ \A u \in Tasks : Role(u, U[u], ph2)
           /\ SameOthers(T, U, t)
<1>1. ph \in 0..4 /\ ph2 \in 0..4 /\ ph <= ph2
  BY DEF Moves, ES!EndPhase, ES!RUNNING, ES!CLOSED
<1>2. \A u \in Tasks \ {t} : Role(u, U[u], ph2)
  BY <1>1 DEF Moves, Good, Role, ES!CLOSING
<1>3. Role(t, U[t], ph2)
  BY DEF Moves
<1> QED
  BY <1>2, <1>3 DEF Moves, SameOthers, InLine, Playing

\* Joining the line.
LEMMA GoodJoin ==
    ASSUME NEW T, NEW U, NEW Q, NEW t \in Tasks, NEW ph, NEW ph2,
           Good(T, Q, ph), Moves(T, U, t, ph, ph2),
           ~InLine(T, t), InLine(U, t), Playing(U, t) => Q = <<>>
    PROVE  Good(U, Append(Q, t), ph2)
<1>1. Line(T, Q) /\ Q \in Seq(Tasks)
  BY DEF Good
<1>2. SameOthers(T, U, t) /\ \A u \in Tasks : Role(u, U[u], ph2)
  BY MovesKeepRoles
<1>3. Line(U, Append(Q, t)) /\ Append(Q, t) \in Seq(Tasks)
  BY <1>1, <1>2, LineJoin
<1> QED
  BY <1>2, <1>3 DEF Good, Moves

\* Leaving the line from its head.
LEMMA GoodLeave ==
    ASSUME NEW T, NEW U, NEW Q, NEW t \in Tasks, NEW ph, NEW ph2,
           Good(T, Q, ph), Moves(T, U, t, ph, ph2),
           Q # <<>>, Head(Q) = t, ~InLine(U, t)
    PROVE  Good(U, Tail(Q), ph2)
<1>1. Line(T, Q) /\ Q \in Seq(Tasks)
  BY DEF Good
<1>2. SameOthers(T, U, t) /\ \A u \in Tasks : Role(u, U[u], ph2)
  BY MovesKeepRoles
<1>3. Line(U, Tail(Q)) /\ Tail(Q) \in Seq(Tasks)
  BY <1>1, <1>2, LineLeave
<1> QED
  BY <1>2, <1>3 DEF Good, Moves

\* A move out of line, or at the head of the line.
LEMMA GoodStay ==
    ASSUME NEW T, NEW U, NEW Q, NEW t \in Tasks, NEW ph, NEW ph2,
           Good(T, Q, ph), Moves(T, U, t, ph, ph2),
           InLine(U, t) <=> InLine(T, t),
           Playing(U, t) => Q # <<>> /\ Head(Q) = t
    PROVE  Good(U, Q, ph2)
<1>1. Line(T, Q) /\ Q \in Seq(Tasks)
  BY DEF Good
<1>2. SameOthers(T, U, t) /\ \A u \in Tasks : Role(u, U[u], ph2)
  BY MovesKeepRoles
<1>3. Line(U, Q)
  BY <1>1, <1>2, LineStay DEF SameOthers
<1> QED
  BY <1>1, <1>2, <1>3 DEF Good, Moves

\* begin_closing: Closer was idle, and is not in line.
LEMMA GoodBeginClosing ==
    ASSUME NEW T, NEW Q, NEW c \in ES!EndCause,
           ES!TypeOK, Good(T, Q, phase), BeginClosing(c, T)
    PROVE  Good(task', Q, phase') /\ (ES!TypeOK)'
<1>0. phase \in ES!EndPhase
  BY DEF ES!TypeOK
<1>1. CASE ~ES!CanAdvance(ES!CLOSING)
  BY <1>1 DEF BeginClosing, ES!TypeOK
<1>2. CASE ES!CanAdvance(ES!CLOSING)
  <2>1. /\ phase \in 0..4 /\ phase < 2 /\ phase' = 2
        /\ task' = [T EXCEPT ![Closer] = Coroutine("marker", 0, "none", FALSE)]
    BY <1>0, <1>2 DEF BeginClosing, ES!CanAdvance, ES!CLOSING, ES!EndPhase, ES!RUNNING, ES!CLOSED
  <2>2. Closer \in Tasks /\ T \in [Tasks -> Task] /\ T[Closer].pc = "idle"
    BY <2>1 DEF Good, Role, Tasks, ES!CLOSING
  <2>3. Coroutine("marker", 0, "none", FALSE) \in Task
    BY DEF Coroutine, Task, OtherPCs
  <2>4. /\ task' \in [Tasks -> Task] /\ task'[Closer].pc = "marker"
        /\ \A u \in Tasks \ {Closer} : task'[u] = T[u]
    BY <2>1, <2>2, <2>3 DEF Coroutine
  <2>5. Role(Closer, task'[Closer], 2)
    BY <2>4 DEF Role, CloserPCs, AskPCs, EndPCs, ES!CLOSING
  <2>6. Moves(T, task', Closer, phase, 2)
    <3>1. phase \in ES!EndPhase /\ 2 \in ES!EndPhase /\ phase <= 2
      BY <2>1 DEF ES!EndPhase, ES!RUNNING, ES!CLOSED
    <3> QED BY <3>1, <2>4, <2>5 DEF Moves
  <2>7. ~InLine(T, Closer) /\ ~InLine(task', Closer) /\ ~Playing(task', Closer)
    BY <2>2, <2>4 DEF InLine, Playing, WaitingPCs, PlayingPCs
  <2>8. Good(task', Q, 2)
    BY <2>2, <2>6, <2>7, GoodStay
  <2>9. phase' \in ES!EndPhase /\ cause' \in ES!EndCause
    BY <1>2, <2>1 DEF BeginClosing, ES!EndPhase, ES!RUNNING, ES!CLOSED
  <2> QED BY <2>1, <2>8, <2>9 DEF ES!TypeOK
<1> QED BY <1>1, <1>2

-----------------------------------------------------------------------------
(* Each helper of the actions keeps the inductive invariant.               *)

\* Who is not Closer is an ordinary coroutine, and may be idle in any phase.
LEMMA Ordinary ==
    ASSUME NEW t \in Slots \cup {Main}
    PROVE  /\ t \in Tasks /\ t # Closer /\ Idle \in Task
           /\ \A ph : Role(t, Idle, ph)
BY PipelineAssumption DEF Tasks, Idle, Task, OtherPCs, Role, AskPCs, CloserPCs, EndPCs

\* A coroutine that is granted the lock is at the head of the line.
LEMMA GrantedIsHead ==
    ASSUME IInv, NEW t \in Tasks, NEW wait \in WaitingPCs, Granted(t, wait)
    PROVE  InLine(task, t) /\ speechQ # <<>> /\ Head(speechQ) = t
<1>1. InLine(task, t)
  BY DEF Granted, InLine
<1>2. PICK i \in DOMAIN speechQ : speechQ[i] = t
  BY <1>1 DEF IInv, Good, Line
<1>3. speechQ # <<>>
  BY <1>2 DEF IInv, Good
<1> QED BY <1>1, <1>3 DEF Granted

\* Whoever plays is at the head of the line.
LEMMA PlayingIsHead ==
    ASSUME IInv, NEW t \in Tasks, task[t].pc \in PlayingPCs
    PROVE  InLine(task, t) /\ speechQ # <<>> /\ Head(speechQ) = t
BY DEF IInv, Good, Line, Playing, InLine

\* An ordinary coroutine that ends with the lock in hand.
LEMMA FinishAtHead ==
    ASSUME IInv, NEW t \in Slots \cup {Main},
           speechQ # <<>>, Head(speechQ) = t
    PROVE  Good(Finished(t), Tail(speechQ), phase)
<1>1. /\ t \in Tasks /\ t # Closer /\ Idle \in Task /\ Role(t, Idle, phase)
  BY Ordinary
<1>2. /\ Finished(t) \in [Tasks -> Task] /\ Finished(t)[t] = Idle
      /\ \A u \in Tasks \ {t} : Finished(t)[u] = task[u]
  BY <1>1 DEF Finished, IInv, Good
<1>3. Moves(task, Finished(t), t, phase, phase)
  BY <1>1, <1>2 DEF Moves, IInv, Data, ES!TypeOK, ES!EndPhase, ES!RUNNING, ES!CLOSED
<1>4. ~InLine(Finished(t), t)
  BY <1>2 DEF InLine, Idle, WaitingPCs, PlayingPCs
<1> QED
  BY <1>1, <1>3, <1>4, GoodLeave DEF IInv

\* An ordinary coroutine that ends without the lock.
LEMMA FinishOutOfLine ==
    ASSUME IInv, NEW t \in Slots \cup {Main}, ~InLine(task, t)
    PROVE  Good(Finished(t), speechQ, phase)
<1>1. /\ t \in Tasks /\ t # Closer /\ Idle \in Task /\ Role(t, Idle, phase)
  BY Ordinary
<1>2. /\ Finished(t) \in [Tasks -> Task] /\ Finished(t)[t] = Idle
      /\ \A u \in Tasks \ {t} : Finished(t)[u] = task[u]
  BY <1>1 DEF Finished, IInv, Good
<1>3. Moves(task, Finished(t), t, phase, phase)
  BY <1>1, <1>2 DEF Moves, IInv, Data, ES!TypeOK, ES!EndPhase, ES!RUNNING, ES!CLOSED
<1>4. ~InLine(Finished(t), t) /\ ~Playing(Finished(t), t)
  BY <1>2 DEF InLine, Playing, Idle, WaitingPCs, PlayingPCs
<1> QED
  BY <1>1, <1>3, <1>4, GoodStay DEF IInv

\* guardOn stays a Boolean.
LEMMA GuardAfterType ==
    ASSUME guardOn \in BOOLEAN, NEW t, GuardAfter(t)
    PROVE  guardOn' \in BOOLEAN
BY Zenon DEF GuardAfter

\* Giving up the lock and shutting the job down keeps the invariant (_speak_and_commit).
LEMMA GiveUpKeeps ==
    ASSUME IInv, NEW t \in Slots \cup {Main},
           speechQ # <<>>, Head(speechQ) = t, GiveUp(t) \/ ShutdownOnSilence(t)
    PROVE  IInv'
<1>1. ReleaseLock /\ task' = Finished(t) /\ phase' = phase /\ GuardAfter(t)
  BY DEF GiveUp, ShutdownOnSilence
<1>2. Good(task', speechQ', phase')
  BY <1>1, FinishAtHead DEF ReleaseLock
<1>3. guardOn' \in BOOLEAN
  BY <1>1, GuardAfterType DEF IInv, Data
<1>4. Data'
  BY <1>3 DEF GiveUp, ShutdownOnSilence, IInv, Data, ES!TypeOK, roomVars
<1> QED
  BY <1>2, <1>4 DEF IInv

\* A run that returns without a word keeps the invariant (_run).
LEMMA ReturnKeeps ==
    ASSUME IInv, NEW t \in Slots \cup {Main}, ~InLine(task, t), Return(t)
    PROVE  IInv'
<1>1. task' = Finished(t) /\ phase' = phase /\ speechQ' = speechQ /\ GuardAfter(t)
  BY DEF Return
<1>2. Good(task', speechQ', phase')
  BY <1>1, FinishOutOfLine
<1>3. guardOn' \in BOOLEAN
  BY <1>1, GuardAfterType DEF IInv, Data
<1>4. Data'
  BY <1>3 DEF Return, IInv, Data, ES!TypeOK, roomVars
<1> QED
  BY <1>2, <1>4 DEF IInv

\* A coroutine at the head of the line begins to play, or plays again.
LEMMA ReplayKeeps ==
    ASSUME IInv, NEW t \in Tasks, NEW play \in PlayingPCs,
           InLine(task, t), speechQ # <<>>, Head(speechQ) = t,
           play \in {"ask1", "ask2"} => task[t].pc \in {"ask?", "ask1"},
           play \in CloserPCs <=> task[t].pc \in CloserPCs,
           Replay(t, play)
    PROVE  IInv'
<1>1. /\ task' = [task EXCEPT ![t].pc = play, ![t].intact = present]
      /\ phase' = phase /\ speechQ' = speechQ
  BY DEF Replay
<1>2. /\ task \in [Tasks -> Task] /\ present \in BOOLEAN /\ phase \in ES!EndPhase
      /\ Role(t, task[t], phase)
  BY DEF IInv, Data, Good, ES!TypeOK
<1>3. /\ task' \in [Tasks -> Task] /\ task'[t].pc = play /\ task'[t].type = task[t].type
      /\ \A u \in Tasks \ {t} : task'[u] = task[u]
  <2>1. /\ task'[t].pc = play /\ task'[t].type = task[t].type /\ task'[t] \in Task
    BY <1>1, <1>2 DEF Task
  <2>2. task' \in [Tasks -> Task] /\ \A u \in Tasks \ {t} : task'[u] = task[u]
    BY <1>1, <1>2, <2>1
  <2> QED BY <2>1, <2>2
<1>4. Role(t, task'[t], phase)
  <2>1. play \in AskPCs => task'[t].type \in QuestionTypes
    <3>1. play \in AskPCs => play \in {"ask1", "ask2"}
      BY DEF AskPCs, PlayingPCs
    <3>2. task[t].pc \in {"ask?", "ask1"} => task[t].pc \in AskPCs
      BY DEF AskPCs
    <3> QED BY <1>2, <1>3, <3>1, <3>2 DEF Role
  <2>2. play \in CloserPCs => t = Closer /\ phase >= ES!CLOSING
    BY <1>2 DEF Role
  <2>3. t = Closer => play \in CloserPCs
    <3>1. task[t].pc # "idle"
      BY DEF InLine, WaitingPCs, PlayingPCs
    <3> QED BY <1>2, <3>1 DEF Role
  <2> QED BY <1>3, <2>1, <2>2, <2>3 DEF Role
<1>5. Moves(task, task', t, phase, phase)
  BY <1>2, <1>3, <1>4 DEF Moves, ES!EndPhase, ES!RUNNING, ES!CLOSED
<1>6. InLine(task', t)
  BY <1>3 DEF InLine
<1>7. Good(task', speechQ', phase')
  BY <1>1, <1>5, <1>6, GoodStay DEF IInv
<1>8. Data'
  BY DEF Replay, IInv, Data, ES!TypeOK, roomVars, timeVars
<1> QED
  BY <1>7, <1>8 DEF IInv

\* An ordinary coroutine out of line becomes r.
LEMMA BecomesKeeps ==
    ASSUME IInv, NEW t \in Slots \cup {Main}, NEW r \in Task,
           ~InLine(task, t), r.pc \notin WaitingPCs \cup PlayingPCs \cup CloserPCs,
           r.pc \in AskPCs => r.type \in QuestionTypes
    PROVE  Good([task EXCEPT ![t] = r], speechQ, phase)
<1> DEFINE U == [task EXCEPT ![t] = r]
<1>1. t \in Tasks /\ t # Closer /\ phase \in ES!EndPhase /\ task \in [Tasks -> Task]
  BY Ordinary DEF IInv, Data, Good, ES!TypeOK
<1>2. U \in [Tasks -> Task] /\ U[t] = r /\ \A u \in Tasks \ {t} : U[u] = task[u]
  BY <1>1
<1> HIDE DEF U
<1>3. Role(t, U[t], phase)
  BY <1>1, <1>2 DEF Role
<1>4. Moves(task, U, t, phase, phase)
  BY <1>1, <1>2, <1>3 DEF Moves, ES!EndPhase, ES!RUNNING, ES!CLOSED
<1>5. ~InLine(U, t) /\ ~Playing(U, t)
  BY <1>2 DEF InLine, Playing
<1>6. Good(U, speechQ, phase)
  BY <1>1, <1>4, <1>5, GoodStay DEF IInv
<1> QED BY <1>6 DEF U

\* A coroutine out of line asks for the lock, as r.
LEMMA AcquireKeeps ==
    ASSUME IInv, NEW t \in Tasks, NEW r \in Task, NEW T, T = [task EXCEPT ![t] = r],
           NEW wait \in WaitingPCs, NEW play \in PlayingPCs, ~InLine(task, t),
           wait \in AskPCs \/ play \in AskPCs => r.type \in QuestionTypes,
           wait \in CloserPCs <=> t = Closer, play \in CloserPCs <=> t = Closer,
           t = Closer => phase >= ES!CLOSING,
           AcquireLock(t, T, wait, play)
    PROVE  Good(task', speechQ', phase)
<1>1. /\ task \in [Tasks -> Task] /\ present \in BOOLEAN /\ phase \in ES!EndPhase
      /\ speechQ' = Append(speechQ, t)
  BY DEF IInv, Data, Good, ES!TypeOK, AcquireLock
<1>2. T \in [Tasks -> Task] /\ T[t] = r /\ \A u \in Tasks \ {t} : T[u] = task[u]
  BY <1>1
<1>3. /\ task' \in [Tasks -> Task] /\ task'[t].type = r.type
      /\ \A u \in Tasks \ {t} : task'[u] = task[u]
      /\ task'[t].pc = IF speechQ = <<>> THEN play ELSE wait
  <2>1. CASE speechQ = <<>>
    <3>1. task' = [T EXCEPT ![t].pc = play, ![t].intact = present]
      BY <2>1 DEF AcquireLock
    <3>2. task'[t] \in Task /\ task'[t].pc = play /\ task'[t].type = r.type
      BY <1>1, <1>2, <3>1 DEF Task
    <3> QED BY <1>2, <2>1, <3>1, <3>2
  <2>2. CASE speechQ # <<>>
    <3>1. task' = [T EXCEPT ![t].pc = wait]
      BY <2>2 DEF AcquireLock
    <3>2. task'[t] \in Task /\ task'[t].pc = wait /\ task'[t].type = r.type
      BY <1>1, <1>2, <3>1 DEF Task
    <3> QED BY <1>2, <2>2, <3>1, <3>2
  <2> QED BY <2>1, <2>2
<1>4. Role(t, task'[t], phase)
  BY <1>3 DEF Role
<1>5. Moves(task, task', t, phase, phase)
  BY <1>1, <1>3, <1>4 DEF Moves, ES!EndPhase, ES!RUNNING, ES!CLOSED
<1>6. InLine(task', t) /\ (Playing(task', t) => speechQ = <<>>)
  BY <1>3 DEF InLine, Playing, WaitingPCs, PlayingPCs
<1>7. Good(task', Append(speechQ, t), phase)
  BY <1>5, <1>6, GoodJoin DEF IInv
<1> QED BY <1>1, <1>7

-----------------------------------------------------------------------------
(* The turns of the candidate and the run of a question.                   *)

\* A run that starts, stale or not, keeps the invariant (_run).
LEMMA RunStartsKeeps ==
    ASSUME IInv, NEW t \in Slots \cup {Main}, RunStarts(t)
    PROVE  IInv'
<1>1. PICK d \in Decisions : task' = [task EXCEPT ![t].pc = "decide", ![t].type = d]
  BY DEF RunStarts
<1>2. d \in QuestionTypes \cup {"END"}
  BY DEF Decisions, QuestionTypes, RootTypes
<1>3. t \in Tasks /\ task \in [Tasks -> Task] /\ task[t].pc = "run"
  BY Ordinary DEF RunStarts, IInv, Good
<1> DEFINE r == [task[t] EXCEPT !.pc = "decide", !.type = d]
<1>4. r \in Task /\ r.pc = "decide"
  BY <1>2, <1>3 DEF Task, RunPCs
<1>5. task' = [task EXCEPT ![t] = r]
  BY <1>1, <1>3
<1> HIDE DEF r
<1>6. ~InLine(task, t) /\ r.pc \notin WaitingPCs \cup PlayingPCs \cup CloserPCs \cup AskPCs
  BY <1>3, <1>4 DEF InLine, WaitingPCs, PlayingPCs, CloserPCs, EndPCs, AskPCs
<1>7. Good(task', speechQ, phase)
  BY <1>4, <1>5, <1>6, BecomesKeeps
<1>8. UNCHANGED <<phase, cause, log, floor, restored, turnSeq, closed, speechQ, roomVars,
                  timeVars, row, shutdown>>
  BY DEF RunStarts
<1> QED
  BY <1>7, <1>8 DEF IInv, Data, ES!TypeOK, roomVars, timeVars

\* A run that joins the line for the lock with a question keeps the invariant.
LEMMA AskKeeps ==
    ASSUME IInv, NEW t \in Slots \cup {Main}, NEW type \in QuestionTypes,
           ~InLine(task, t), Ask(t, type)
    PROVE  IInv'
<1> DEFINE r == [task[t] EXCEPT !.type = type]
           T == [task EXCEPT ![t].type = type]
<1>1. t \in Tasks /\ t # Closer /\ task \in [Tasks -> Task]
  BY Ordinary DEF IInv, Good
<1>2. r \in Task /\ r.type = type /\ T = [task EXCEPT ![t] = r]
  BY <1>1 DEF Task
<1>3. AcquireLock(t, T, "ask?", "ask1")
  BY DEF Ask
<1> HIDE DEF r, T
<1>4. /\ "ask?" \in WaitingPCs /\ "ask1" \in PlayingPCs
      /\ "ask?" \notin CloserPCs /\ "ask1" \notin CloserPCs
  BY DEF WaitingPCs, PlayingPCs, CloserPCs, EndPCs
<1>5. Good(task', speechQ', phase)
  BY <1>1, <1>2, <1>3, <1>4, AcquireKeeps
<1> QED
  BY <1>5 DEF Ask, IInv, Data, ES!TypeOK, roomVars, timeVars

\* A decision, whatever it is, keeps the invariant (_decide).
LEMMA RunDecidedKeeps ==
    ASSUME IInv, NEW t \in Slots \cup {Main}, RunDecided(t)
    PROVE  IInv'
<1>1. /\ t \in Tasks /\ task \in [Tasks -> Task] /\ task[t].pc = "decide" /\ ~InLine(task, t)
  BY Ordinary DEF RunDecided, IInv, Good, InLine, WaitingPCs, PlayingPCs
<1>2. CASE Return(t)
  BY <1>1, <1>2, ReturnKeeps
<1>3. CASE /\ BeginClosing("LLM_END", Finished(t))
           /\ UNCHANGED <<log, floor, restored, turnSeq, closed, speechQ, roomVars,
                          timeVars, row, shutdown>>
  <2>1. Good(Finished(t), speechQ, phase)
    BY <1>1, FinishOutOfLine
  <2>2. Good(task', speechQ, phase') /\ (ES!TypeOK)'
    BY <1>3, <2>1, GoodBeginClosing DEF IInv, Data, ES!EndCause
  <2> QED
    BY <1>3, <2>2 DEF IInv, Data, roomVars, timeVars
<1>4. CASE Ask(t, "FINAL")
  BY <1>1, <1>4, AskKeeps DEF QuestionTypes
<1>5. CASE /\ task[t].type \in {"TOPIC", "FOLLOW_UP"}
           /\ task' = [task EXCEPT ![t].pc = "generate"]
           /\ UNCHANGED <<phase, cause, log, floor, restored, turnSeq, closed, speechQ,
                          roomVars, timeVars, row, shutdown>>
  <2> DEFINE r == [task[t] EXCEPT !.pc = "generate"]
  <2>1. r \in Task /\ r.pc = "generate" /\ r.type \in QuestionTypes
    BY <1>1, <1>5 DEF Task, RunPCs, QuestionTypes, RootTypes
  <2>2. task' = [task EXCEPT ![t] = r]
    BY <1>1, <1>5
  <2> HIDE DEF r
  <2>3. r.pc \notin WaitingPCs \cup PlayingPCs \cup CloserPCs
    BY <2>1 DEF WaitingPCs, PlayingPCs, CloserPCs, EndPCs
  <2>4. Good(task', speechQ, phase)
    BY <1>1, <2>1, <2>2, <2>3, BecomesKeeps
  <2> QED
    BY <1>5, <2>4 DEF IInv, Data, ES!TypeOK, roomVars, timeVars
<1> QED
  BY <1>2, <1>3, <1>4, <1>5 DEF RunDecided

\* A generated question, or its failure, keeps the invariant (_generate).
LEMMA RunGeneratedKeeps ==
    ASSUME IInv, NEW t \in Slots \cup {Main}, RunGenerated(t)
    PROVE  IInv'
<1>1. /\ t \in Tasks /\ task[t].pc = "generate" /\ ~InLine(task, t)
  BY Ordinary DEF RunGenerated, InLine, WaitingPCs, PlayingPCs
<1>2. task[t].type \in QuestionTypes
  BY <1>1 DEF IInv, Good, Role, AskPCs
<1>3. CASE Return(t)
  BY <1>1, <1>3, ReturnKeeps
<1>4. CASE \E type \in {task[t].type, "TOPIC"} : Ask(t, type)
  <2>1. PICK type \in {task[t].type, "TOPIC"} : Ask(t, type)
    BY <1>4
  <2>2. type \in QuestionTypes
    BY <1>2 DEF QuestionTypes, RootTypes
  <2> QED BY <1>1, <2>1, <2>2, AskKeeps
<1> QED
  BY <1>3, <1>4 DEF RunGenerated

\* A question whose turn for the lock has come keeps the invariant.
LEMMA AskGrantedKeeps ==
    ASSUME IInv, NEW t \in Slots \cup {Main}, AskGranted(t)
    PROVE  IInv'
<1>1. t \in Tasks /\ task[t].pc = "ask?"
  BY Ordinary DEF AskGranted, Granted
<1>2. InLine(task, t) /\ speechQ # <<>> /\ Head(speechQ) = t
  BY <1>1, GrantedIsHead DEF AskGranted, WaitingPCs
<1>3. CASE GiveUp(t)
  BY <1>2, <1>3, GiveUpKeeps
<1>4. CASE Replay(t, "ask1")
  <2>1. "ask1" \in PlayingPCs /\ "ask1" \notin CloserPCs /\ "ask?" \notin CloserPCs
    BY DEF PlayingPCs, CloserPCs, EndPCs
  <2> QED BY <1>1, <1>2, <1>4, <2>1, ReplayKeeps
<1> QED
  BY <1>3, <1>4 DEF AskGranted

\* A question played to its end, committed or not, keeps the invariant.
LEMMA AskPlayedKeeps ==
    ASSUME IInv, NEW t \in Slots \cup {Main}, AskPlayed(t)
    PROVE  IInv'
<1> DEFINE q == NewQuestion(log, floor, task[t].type, task[t].intact)
<1>1. /\ t \in Tasks /\ task[t].pc \in PlayingPCs /\ task[t].pc \in AskPCs
  BY Ordinary DEF AskPlayed, PlayingPCs, AskPCs
<1>2. task[t] \in Task /\ task[t].type \in QuestionTypes
  BY <1>1 DEF IInv, Good, Role
<1>3. q \in Utterance
  BY <1>2, NewQuestionType DEF Task, IInv, Data
<1>4. /\ ReleaseLock /\ task' = Finished(t) /\ GuardAfter(t)
      /\ log' \in {log, Append(log, q)}
      /\ \E c \in BOOLEAN : phase' \in {phase, PhaseAfterFinal(c)}
      /\ UNCHANGED <<cause, floor, restored, turnSeq, closed, roomVars, clock, row,
                     shutdown>>
  BY DEF AskPlayed
<1> HIDE DEF q
<1>5. log' \in Seq(Utterance)
  BY <1>3, <1>4 DEF IInv, Data
<1>6. phase' \in ES!EndPhase /\ phase <= phase'
  BY <1>4 DEF PhaseAfterFinal, IInv, Data, ES!TypeOK, ES!EndPhase, ES!CanAdvance,
              ES!RUNNING, ES!WAITING_FINAL_ANSWER, ES!CLOSED
<1>7. Good(task', speechQ', phase)
  <2>1. speechQ # <<>> /\ Head(speechQ) = t
    BY <1>1, PlayingIsHead
  <2> QED BY <1>4, <2>1, FinishAtHead DEF ReleaseLock
<1>8. Good(task', speechQ', phase')
  <2>1. \A u : Role(u, task'[u], phase) => Role(u, task'[u], phase')
    BY <1>6 DEF Role, ES!EndPhase, ES!RUNNING, ES!CLOSED, ES!CLOSING, IInv, Data, ES!TypeOK
  <2> QED BY <1>7, <2>1 DEF Good
<1>9. guardOn' \in BOOLEAN
  BY <1>4, GuardAfterType DEF IInv, Data
<1> QED
  BY <1>4, <1>5, <1>6, <1>8, <1>9 DEF IInv, Data, ES!TypeOK, roomVars

\* A playout that fails, replayed or given up, keeps the invariant (_try_say).
LEMMA AskFailedKeeps ==
    ASSUME IInv, NEW t \in Slots \cup {Main}, AskFailed(t)
    PROVE  IInv'
<1>1. t \in Tasks /\ task[t].pc \in {"ask1", "ask2"} /\ task[t].pc \in PlayingPCs
  BY Ordinary DEF AskFailed, PlayingPCs
<1>2. InLine(task, t) /\ speechQ # <<>> /\ Head(speechQ) = t
  BY <1>1, PlayingIsHead
<1>3. CASE GiveUp(t) \/ ShutdownOnSilence(t)
  BY <1>2, <1>3, GiveUpKeeps
<1>4. CASE task[t].pc = "ask1" /\ Replay(t, "ask2")
  <2>1. "ask2" \in PlayingPCs /\ "ask2" \notin CloserPCs /\ "ask1" \notin CloserPCs
    BY DEF PlayingPCs, CloserPCs, EndPCs
  <2> QED BY <1>1, <1>2, <1>4, <2>1, ReplayKeeps
<1>5. CASE /\ ReleaseLock /\ GuardAfter(t) /\ BeginClosing("FINAL_QUESTION", Finished(t))
           /\ UNCHANGED <<log, floor, restored, turnSeq, closed, roomVars, clock, row,
                          shutdown>>
  <2>1. Good(Finished(t), speechQ', phase)
    BY <1>2, <1>5, FinishAtHead DEF ReleaseLock
  <2>2. Good(task', speechQ', phase') /\ (ES!TypeOK)'
    BY <1>5, <2>1, GoodBeginClosing DEF IInv, Data, ES!EndCause
  <2>3. guardOn' \in BOOLEAN
    BY <1>5, GuardAfterType DEF IInv, Data
  <2> QED
    BY <1>5, <2>2, <2>3 DEF IInv, Data, roomVars
<1> QED
  BY <1>3, <1>4, <1>5 DEF AskFailed

-----------------------------------------------------------------------------
(* Re-entries and the entrypoint.                                          *)

\* A fresh coroutine record, for whatever place it is made for.
LEMMA CoroutineType ==
    ASSUME NEW pc \in {"run", "resume", "ask?", "notice?"}, NEW seq \in Nat,
           NEW type \in QuestionTypes \cup {"none"}, NEW resumed \in BOOLEAN
    PROVE  /\ Coroutine(pc, seq, type, resumed) \in Task
           /\ Coroutine(pc, seq, type, resumed).pc = pc
           /\ Coroutine(pc, seq, type, resumed).type = type
BY DEF Coroutine, Task, RunPCs, WaitingPCs, OtherPCs

\* The first words keep the place in line, and touch only guardOn besides.
LEMMA FirstWordsKeep ==
    ASSUME IInv, NEW t \in Slots \cup {Main}, NEW resumed \in BOOLEAN,
           ~InLine(task, t), FirstWords(t, resumed)
    PROVE  Good(task', speechQ', phase) /\ guardOn' \in BOOLEAN
<1>1. /\ t \in Tasks /\ t # Closer /\ turnSeq \in Nat /\ guardOn \in BOOLEAN
  BY Ordinary DEF IInv, Data
<1>2. CASE /\ AcquireLock(t, [task EXCEPT ![t] = Coroutine("ask?", turnSeq, "INITIAL", resumed)],
                          "ask?", "ask1")
           /\ UNCHANGED guardOn
  <2> DEFINE r == Coroutine("ask?", turnSeq, "INITIAL", resumed)
  <2>1. r \in Task /\ r.type \in QuestionTypes
    BY <1>1, CoroutineType DEF QuestionTypes, RootTypes
  <2> HIDE DEF r
  <2>2. /\ "ask?" \in WaitingPCs /\ "ask1" \in PlayingPCs
        /\ "ask?" \notin CloserPCs /\ "ask1" \notin CloserPCs
    BY DEF WaitingPCs, PlayingPCs, CloserPCs, EndPCs
  <2>3. AcquireLock(t, [task EXCEPT ![t] = r], "ask?", "ask1")
    BY <1>2 DEF r
  <2>4. Good(task', speechQ', phase)
    BY <1>1, <2>1, <2>2, <2>3, AcquireKeeps
  <2> QED BY <1>1, <1>2, <2>4
<1>3. CASE /\ AcquireLock(t, [task EXCEPT ![t] = Coroutine("notice?", 0, "none", resumed)],
                          "notice?", "notice")
           /\ UNCHANGED guardOn
  <2> DEFINE r == Coroutine("notice?", 0, "none", resumed)
  <2>1. r \in Task
    BY CoroutineType
  <2> HIDE DEF r
  <2>2. /\ "notice?" \in WaitingPCs /\ "notice" \in PlayingPCs
        /\ "notice?" \notin CloserPCs \cup AskPCs /\ "notice" \notin CloserPCs \cup AskPCs
    BY DEF WaitingPCs, PlayingPCs, CloserPCs, EndPCs, AskPCs
  <2>3. AcquireLock(t, [task EXCEPT ![t] = r], "notice?", "notice")
    BY <1>3 DEF r
  <2>4. Good(task', speechQ', phase)
    BY <1>1, <2>1, <2>2, <2>3, AcquireKeeps
  <2> QED BY <1>1, <1>3, <2>4
<1>4. CASE task' = Finished(t) /\ GuardAfter(t) /\ UNCHANGED speechQ
  BY <1>1, <1>4, FinishOutOfLine, GuardAfterType
<1> QED
  BY <1>2, <1>3, <1>4 DEF FirstWords

\* A re-entry that starts keeps the invariant (resume_after_reconnect).
LEMMA ResumeStartsKeeps ==
    ASSUME IInv, NEW t \in Slots \cup {Main}, ResumeStarts(t)
    PROVE  IInv'
<1>1. ~InLine(task, t)
  BY DEF ResumeStarts, InLine, WaitingPCs, PlayingPCs
<1>2. Good(task', speechQ', phase) /\ guardOn' \in BOOLEAN
  BY <1>1, FirstWordsKeep DEF ResumeStarts
<1> QED
  BY <1>2 DEF ResumeStarts, IInv, Data, ES!TypeOK, roomVars

\* The notice whose turn for the lock has come keeps the invariant.
LEMMA NoticeGrantedKeeps ==
    ASSUME IInv, NEW t \in Slots \cup {Main}, NoticeGranted(t)
    PROVE  IInv'
<1>1. t \in Tasks /\ task[t].pc = "notice?"
  BY Ordinary DEF NoticeGranted, Granted
<1>2. InLine(task, t) /\ speechQ # <<>> /\ Head(speechQ) = t
  BY <1>1, GrantedIsHead DEF NoticeGranted, WaitingPCs
<1>3. CASE GiveUp(t)
  BY <1>2, <1>3, GiveUpKeeps
<1>4. CASE Replay(t, "notice")
  <2>1. /\ "notice" \in PlayingPCs /\ "notice" \notin {"ask1", "ask2"}
        /\ "notice" \notin CloserPCs /\ "notice?" \notin CloserPCs
    BY DEF PlayingPCs, CloserPCs, EndPCs
  <2> QED BY <1>1, <1>2, <1>4, <2>1, ReplayKeeps
<1> QED
  BY <1>3, <1>4 DEF NoticeGranted

\* What a re-entry does after its notice keeps the invariant.
LEMMA NoticeOverKeeps ==
    ASSUME IInv, NEW t \in Slots \cup {Main}, NoticeOver(t)
    PROVE  IInv'
<1>1. t \in Tasks /\ t # Closer /\ task[t].pc = "notice" /\ task[t].pc \in PlayingPCs
  BY Ordinary DEF NoticeOver, PlayingPCs
<1>2. InLine(task, t) /\ speechQ # <<>> /\ Head(speechQ) = t
  BY <1>1, PlayingIsHead
<1>3. /\ task \in [Tasks -> Task] /\ speechQ \in Seq(Tasks) /\ phase \in ES!EndPhase
      /\ present \in BOOLEAN /\ turnSeq \in Nat /\ Len(log) \in Nat
  BY DEF IInv, Data, Good, ES!TypeOK
<1>4. CASE GiveUp(t)
  BY <1>2, <1>4, GiveUpKeeps
<1>5. CASE /\ speechQ' = Append(Tail(speechQ), t)
           /\ task' = [task EXCEPT ![t].pc = IF Len(speechQ) = 1 THEN "respeak1" ELSE "respeak?",
                                   ![t].seq = Len(log), ![t].intact = present]
           /\ UNCHANGED <<phase, cause, log, floor, restored, turnSeq, closed, roomVars,
                          timeVars, row, shutdown>>
  <2> DEFINE pc2 == IF Len(speechQ) = 1 THEN "respeak1" ELSE "respeak?"
             V   == Finished(t)
  <2>1. Good(V, Tail(speechQ), phase)
    BY <1>2, FinishAtHead
  <2>2. /\ V \in [Tasks -> Task] /\ V[t] = Idle /\ \A u \in Tasks \ {t} : V[u] = task[u]
    BY <1>1, <1>3, Ordinary DEF Finished
  <2>3. /\ pc2 \in {"respeak1", "respeak?"} /\ (pc2 = "respeak1" => Len(speechQ) = 1)
        /\ task' = [task EXCEPT ![t].pc = pc2, ![t].seq = Len(log), ![t].intact = present]
    BY <1>5
  <2> HIDE DEF V, pc2
  <2>3a. /\ pc2 \in WaitingPCs \cup PlayingPCs /\ (pc2 \in PlayingPCs => Len(speechQ) = 1)
         /\ pc2 \notin AskPCs \cup CloserPCs
    BY <2>3 DEF WaitingPCs, PlayingPCs, AskPCs, CloserPCs, EndPCs
  <2>4. task'[t].pc = pc2 /\ task'[t] \in Task /\ task' \in [Tasks -> Task]
        /\ \A u \in Tasks \ {t} : task'[u] = task[u]
    <3>1. /\ task[t] \in Task
          /\ task'[t] = [task[t] EXCEPT !.pc = pc2, !.seq = Len(log), !.intact = present]
      BY <1>1, <1>3, <2>3
    <3>2. pc2 \in RunPCs \cup WaitingPCs \cup PlayingPCs \cup EndPCs \cup OtherPCs
      BY <2>3a
    <3>3. [task[t] EXCEPT !.pc = pc2] \in Task
      BY <3>1, <3>2 DEF Task
    <3>4. [task[t] EXCEPT !.pc = pc2, !.seq = Len(log)] \in Task
      BY <1>3, <3>3 DEF Task
    <3>5. [task[t] EXCEPT !.pc = pc2, !.seq = Len(log), !.intact = present] \in Task
      BY <1>3, <3>4 DEF Task
    <3>6. task'[t].pc = pc2
      BY <3>1 DEF Task
    <3> QED BY <1>1, <1>3, <2>3, <3>1, <3>5, <3>6
  <2>5. Role(t, task'[t], phase)
    BY <1>1, <2>3a, <2>4 DEF Role
  <2>6. Moves(V, task', t, phase, phase)
    BY <1>3, <2>2, <2>4, <2>5 DEF Moves, ES!EndPhase, ES!RUNNING, ES!CLOSED
  <2>7. ~InLine(V, t) /\ InLine(task', t)
    BY <2>2, <2>3a, <2>4 DEF InLine, Idle, WaitingPCs, PlayingPCs
  <2>8. Playing(task', t) => Tail(speechQ) = <<>>
    <3>1. Playing(task', t) => Len(speechQ) = 1
      BY <2>3a, <2>4 DEF Playing
    <3>2. Len(speechQ) = 1 => Tail(speechQ) = <<>>
      <4>1. Len(Tail(speechQ)) = Len(speechQ) - 1 /\ Tail(speechQ) \in Seq(Tasks)
        BY <1>2, <1>3, HeadTailProperties
      <4>2. Tail(speechQ) # <<>> => Len(Tail(speechQ)) \in Nat \ {0}
        BY <4>1, EmptySeq
      <4> QED BY <1>3, <4>1, <4>2
    <3> QED BY <3>1, <3>2
  <2>9. Good(task', Append(Tail(speechQ), t), phase)
    BY <1>1, <2>1, <2>6, <2>7, <2>8, GoodJoin
  <2> QED
    BY <1>5, <2>9 DEF IInv, Data, ES!TypeOK, roomVars, timeVars
<1>6. CASE /\ ReleaseLock /\ turnSeq' = turnSeq + 1 /\ GuardAfter(t)
           /\ \E u \in (IdleSlots \cup {t}) \ {Main} :
                 task' = [Finished(t) EXCEPT ![u] = Coroutine("run", turnSeq + 1, "none", TRUE)]
           /\ UNCHANGED <<phase, cause, log, floor, restored, closed, roomVars, clock,
                          row, shutdown>>
  <2> DEFINE r == Coroutine("run", turnSeq + 1, "none", TRUE)
  <2>1. Good(Finished(t), speechQ', phase)
    BY <1>2, <1>6, FinishAtHead DEF ReleaseLock
  <2>2. PICK u \in (IdleSlots \cup {t}) \ {Main} : task' = [Finished(t) EXCEPT ![u] = r]
    BY <1>6
  <2>3. turnSeq + 1 \in Nat /\ r \in Task /\ r.pc = "run"
    <3>1. turnSeq + 1 \in Nat
      BY <1>3
    <3> QED BY <3>1 DEF Coroutine, Task, RunPCs
  <2> HIDE DEF r
  <2>4. u \in Slots \cup {Main} /\ u \in Tasks /\ u # Closer
    BY PipelineAssumption, <1>1, <2>2 DEF IdleSlots, Tasks
  <2>5. ~InLine(Finished(t), u)
    BY <1>1, <1>3, <2>2 DEF Finished, IdleSlots, InLine, WaitingPCs, PlayingPCs, Idle
  <2>6. Finished(t) \in [Tasks -> Task]
    BY <2>1 DEF Good
  <2>7. /\ task' \in [Tasks -> Task] /\ task'[u] = r
        /\ \A w \in Tasks \ {u} : task'[w] = Finished(t)[w]
    BY <2>2, <2>3, <2>4, <2>6
  <2>8. Role(u, task'[u], phase)
    BY <2>3, <2>4, <2>7 DEF Role, AskPCs, CloserPCs, EndPCs
  <2>9. Moves(Finished(t), task', u, phase, phase)
    BY <1>3, <2>7, <2>8 DEF Moves, ES!EndPhase, ES!RUNNING, ES!CLOSED
  <2>10. ~InLine(task', u) /\ ~Playing(task', u)
    BY <2>3, <2>7 DEF InLine, Playing, WaitingPCs, PlayingPCs
  <2>11. Good(task', speechQ', phase)
    BY <2>1, <2>4, <2>5, <2>9, <2>10, GoodStay
  <2>12. guardOn' \in BOOLEAN /\ turnSeq' \in Nat
    BY <1>3, <1>6, GuardAfterType DEF IInv, Data
  <2> QED
    BY <1>6, <2>11, <2>12 DEF IInv, Data, ES!TypeOK, roomVars
<1> QED
  BY <1>4, <1>5, <1>6 DEF NoticeOver

\* The three steps of a repeated question keep the invariant (_respeak_question).
LEMMA RespeakKeeps ==
    ASSUME IInv, NEW t \in Slots \cup {Main},
           RespeakGranted(t) \/ RespeakPlayed(t) \/ RespeakFailed(t)
    PROVE  IInv'
<1>1. t \in Tasks
  BY Ordinary
<1>2. InLine(task, t) /\ speechQ # <<>> /\ Head(speechQ) = t
  <2>1. CASE RespeakGranted(t)
    BY <1>1, <2>1, GrantedIsHead DEF RespeakGranted, WaitingPCs
  <2>2. CASE task[t].pc \in {"respeak1", "respeak2"}
    BY <1>1, <2>2, PlayingIsHead DEF PlayingPCs
  <2> QED BY <2>1, <2>2 DEF RespeakPlayed, RespeakFailed
<1>3. CASE GiveUp(t) \/ ShutdownOnSilence(t)
  BY <1>2, <1>3, GiveUpKeeps
<1>4. ASSUME NEW play \in {"respeak1", "respeak2"}, Replay(t, play),
             task[t].pc \in {"respeak?", "respeak1"}
      PROVE  IInv'
  <2>1. /\ play \in PlayingPCs /\ play \notin {"ask1", "ask2"}
        /\ play \notin CloserPCs /\ task[t].pc \notin CloserPCs
    BY <1>4 DEF PlayingPCs, CloserPCs, EndPCs
  <2> QED BY <1>1, <1>2, <1>4, <2>1, ReplayKeeps
<1> QED
  BY <1>3, <1>4 DEF RespeakGranted, RespeakPlayed, RespeakFailed, Granted

\* A restored interview that is closed at once keeps the invariant (entrypoint).
LEMMA HeadingToCloseKeeps ==
    ASSUME IInv, HeadingToClose
    PROVE  IInv'
<1> DEFINE c == IF ResumeMode(log) = "CLOSE_FINAL_ANSWERED" THEN "FINAL_QUESTION"
                ELSE "HARD_TIMEOUT"
<1>1. ~InLine(task, Main)
  BY DEF HeadingToClose, InLine, WaitingPCs, PlayingPCs
<1>2. Good(Finished(Main), speechQ, phase)
  BY <1>1, FinishOutOfLine
<1>3. c \in ES!EndCause /\ BeginClosing(c, Finished(Main))
  BY DEF HeadingToClose, ES!EndCause
<1> HIDE DEF c
<1>4. Good(task', speechQ, phase') /\ (ES!TypeOK)'
  BY <1>2, <1>3, GoodBeginClosing DEF IInv, Data
<1> QED
  BY <1>4 DEF HeadingToClose, IInv, Data, roomVars, timeVars

\* The first words of the entrypoint keep the invariant (entrypoint).
LEMMA MainStartsKeeps ==
    ASSUME IInv, MainStarts
    PROVE  IInv'
<1>1. ~InLine(task, Main)
  BY DEF MainStarts, InLine, WaitingPCs, PlayingPCs
<1>2. phase \in ES!EndPhase /\ phase' \in ES!EndPhase /\ phase <= phase'
  BY DEF MainStarts, RestorePhase, IInv, Data, ES!TypeOK, ES!EndPhase, ES!CanAdvance,
         ES!RUNNING, ES!WAITING_FINAL_ANSWER, ES!CLOSED
<1>3. /\ Good(task', speechQ', phase)
      /\ guardOn' \in BOOLEAN /\ turnSeq' \in Nat
      /\ present' \in BOOLEAN /\ departures' \in Nat /\ window' \in BOOLEAN
      /\ speech' = speech
  <2>1. CASE FirstWords(Main, log # <<>>) /\ UNCHANGED <<turnSeq, roomVars>>
    <3>1. (log # <<>>) \in BOOLEAN
      OBVIOUS
    <3>2. Good(task', speechQ', phase) /\ guardOn' \in BOOLEAN
      BY <1>1, <2>1, <3>1, FirstWordsKeep
    <3> QED BY <2>1, <3>2 DEF IInv, Data, roomVars
  <2>2. CASE OnDisconnected /\ task' = Finished(Main) /\ guardOn' = TRUE /\ UNCHANGED speechQ
    <3>1. Good(task', speechQ', phase)
      BY <1>1, <2>2, FinishOutOfLine
    <3>2. guardOn' \in BOOLEAN /\ present' \in BOOLEAN /\ window' \in BOOLEAN
      BY <2>2, Zenon DEF OnDisconnected
    <3>3. turnSeq' \in Nat /\ departures' \in Nat /\ speech' = speech
      BY <2>2 DEF OnDisconnected, IInv, Data
    <3> QED BY <3>1, <3>2, <3>3
  <2>3. \/ FirstWords(Main, log # <<>>) /\ UNCHANGED <<turnSeq, roomVars>>
        \/ OnDisconnected /\ task' = Finished(Main) /\ guardOn' = TRUE /\ UNCHANGED speechQ
    BY DEF MainStarts
  <2> QED BY <2>1, <2>2, <2>3
<1>4. Good(task', speechQ', phase')
  <2>1. \A u : Role(u, task'[u], phase) => Role(u, task'[u], phase')
    BY <1>2 DEF Role, ES!EndPhase, ES!RUNNING, ES!CLOSED, ES!CLOSING
  <2> QED BY <1>3, <2>1 DEF Good
<1> QED
  BY <1>2, <1>3, <1>4 DEF MainStarts, IInv, Data, ES!TypeOK

-----------------------------------------------------------------------------
(* The candidate, the timers and the closing.                              *)

\* Whatever the candidate does keeps the invariant.
LEMMA CandidateKeeps ==
    ASSUME IInv, Candidate
    PROVE  IInv'
<1>1. CASE SpeechStarts
  <2>1. speech' \in Nat \cup {Silent, Untimed} /\ (speech' = Untimed => UntimedSpeech)
    BY <1>1 DEF SpeechStarts, IInv, Data, Untimed
  <2> QED BY <1>1, <2>1 DEF SpeechStarts, IInv, Data, ES!TypeOK, timeVars
<1>2. CASE SpeechDropped
  BY <1>2 DEF SpeechDropped, IInv, Data, ES!TypeOK, timeVars, Silent, Untimed
<1>3. CASE AnswerTurn
  <2>1. log' \in Seq(Utterance)
    <3>1. (speech = departures) \in BOOLEAN /\ LastQuestion(log) # 0 /\ log \in Seq(Utterance)
      BY <1>3 DEF AnswerTurn, AnswerAccepted, IInv, Data
    <3>2. NewAnswer(log, speech = departures) \in Utterance
      BY <3>1, NewAnswerType
    <3> QED BY <1>3, <3>1, <3>2 DEF AnswerTurn
  <2> DEFINE r == Coroutine("run", turnSeq + 1, "none", FALSE)
  <2>2. PICK u \in IdleSlots : task' = [task EXCEPT ![u] = r]
    BY <1>3 DEF AnswerTurn
  <2>3. r \in Task /\ r.pc = "run"
    BY DEF Coroutine, Task, RunPCs, IInv, Data
  <2> HIDE DEF r
  <2>4. u \in Slots \cup {Main} /\ ~InLine(task, u)
    BY DEF IdleSlots, InLine, WaitingPCs, PlayingPCs
  <2>5. r.pc \notin WaitingPCs \cup PlayingPCs \cup CloserPCs \cup AskPCs
    BY <2>3 DEF WaitingPCs, PlayingPCs, CloserPCs, EndPCs, AskPCs
  <2>6. Good(task', speechQ, phase)
    BY <2>2, <2>3, <2>4, <2>5, BecomesKeeps
  <2> QED
    BY <1>3, <2>1, <2>6 DEF AnswerTurn, IInv, Data, ES!TypeOK, timeVars, Silent, Untimed
<1>4. CASE FinalAnswerTurn
  <2>1. log' \in Seq(Utterance)
    <3>1. (speech = departures) \in BOOLEAN /\ LastQuestion(log) # 0 /\ log \in Seq(Utterance)
      BY <1>4 DEF FinalAnswerTurn, AnswerAccepted, IInv, Data
    <3>2. NewAnswer(log, speech = departures) \in Utterance
      BY <3>1, NewAnswerType
    <3> QED BY <1>4, <3>1, <3>2 DEF FinalAnswerTurn
  <2>2. Good(task', speechQ, phase') /\ (ES!TypeOK)'
    BY <1>4, GoodBeginClosing DEF FinalAnswerTurn, IInv, Data, ES!EndCause
  <2> QED
    BY <1>4, <2>1, <2>2 DEF FinalAnswerTurn, IInv, Data, timeVars, Silent, Untimed
<1>5. CASE CandidateLeaves
  <2>1. /\ task' \in [Tasks -> Task]
        /\ \A u \in Tasks : task'[u].pc = task[u].pc /\ task'[u].type = task[u].type
    BY <1>5 DEF CandidateLeaves, IInv, Good, Task
  <2>2. Line(task', speechQ)
    BY <2>1, LineStay DEF IInv, Good, InLine, Playing
  <2>3. Good(task', speechQ, phase)
    BY <2>1, <2>2 DEF IInv, Good, Role
  <2>4. present' \in BOOLEAN /\ window' \in BOOLEAN
    BY <1>5, Zenon DEF CandidateLeaves, OnDisconnected
  <2>5. turnSeq' \in Nat /\ departures' \in Nat /\ speech' = speech
    BY <1>5 DEF CandidateLeaves, OnDisconnected, IInv, Data
  <2>6. UNCHANGED <<phase, cause, log, floor, restored, closed, speechQ, timeVars, row,
                    shutdown>>
    BY <1>5 DEF CandidateLeaves
  <2> QED
    BY <2>3, <2>4, <2>5, <2>6 DEF IInv, Data, ES!TypeOK, timeVars
<1>6. CASE CandidateReturns
  <2> DEFINE r == Coroutine("resume", 0, "none", TRUE)
  <2>1. PICK u \in IdleSlots : task' = [task EXCEPT ![u] = r]
    BY <1>6 DEF CandidateReturns
  <2>2. r \in Task /\ r.pc = "resume"
    BY DEF Coroutine, Task, OtherPCs
  <2> HIDE DEF r
  <2>3. u \in Slots \cup {Main} /\ ~InLine(task, u)
    BY DEF IdleSlots, InLine, WaitingPCs, PlayingPCs
  <2>4. r.pc \notin WaitingPCs \cup PlayingPCs \cup CloserPCs \cup AskPCs
    BY <2>2 DEF WaitingPCs, PlayingPCs, CloserPCs, EndPCs, AskPCs
  <2>5. Good(task', speechQ, phase)
    BY <2>1, <2>2, <2>3, <2>4, BecomesKeeps
  <2> QED
    BY <1>6, <2>5 DEF CandidateReturns, IInv, Data, ES!TypeOK, timeVars
<1> QED
  BY <1>1, <1>2, <1>3, <1>4, <1>5, <1>6 DEF Candidate

\* The timers and the end signal: they close the interview, or let time pass.
LEMMA TimerKeeps ==
    ASSUME IInv, Timer \/ EndSignal
    PROVE  IInv'
<1>1. CASE TimePasses
  BY <1>1 DEF TimePasses, IInv, Data, ES!TypeOK, roomVars
<1>2. ASSUME NEW c \in ES!EndCause, BeginClosing(c, task), window' \in BOOLEAN,
             UNCHANGED <<log, floor, restored, turnSeq, closed, speechQ, present,
                         departures, speech, timeVars, row, shutdown>>
      PROVE  IInv'
  <2>1. Good(task', speechQ, phase') /\ (ES!TypeOK)'
    BY <1>2, GoodBeginClosing DEF IInv, Data
  <2> QED
    BY <1>2, <2>1 DEF IInv, Data, timeVars
<1>3. CASE WindowExpires
  <2>1. window' \in BOOLEAN
    BY <1>3, Zenon DEF WindowExpires
  <2> QED BY <1>2, <1>3, <2>1 DEF WindowExpires, ES!EndCause
<1>4. CASE GuardFires \/ EndSignal
  <2>1. window' \in BOOLEAN
    BY <1>4 DEF GuardFires, EndSignal, roomVars, IInv, Data
  <2> QED BY <1>2, <1>4, <2>1 DEF GuardFires, EndSignal, roomVars, ES!EndCause
<1> QED
  BY <1>1, <1>3, <1>4 DEF Timer

\* Closer moves out of line, or leaves the line from its head, when the phase
\* moves to CLEANING.
LEMMA ToCleaningKeeps ==
    ASSUME IInv, ToCleaning
    PROVE  /\ (ES!TypeOK)' /\ Moves(task, task', Closer, phase, phase')
           /\ ~InLine(task', Closer) /\ ~Playing(task', Closer)
<1>1. /\ task \in [Tasks -> Task] /\ Closer \in Tasks
      /\ phase \in ES!EndPhase /\ cause' = cause /\ phase' = 3 /\ phase < 3
      /\ task' = [task EXCEPT ![Closer].pc = "cleanup", ![Closer].intact = FALSE]
  BY DEF ToCleaning, ES!Advance, ES!CanAdvance, ES!CLEANING, IInv, Data, Good, ES!TypeOK, Tasks
<1>2. task'[Closer].pc = "cleanup" /\ task'[Closer] \in Task
  BY <1>1 DEF Task, EndPCs
<1>3. task' \in [Tasks -> Task] /\ \A u \in Tasks \ {Closer} : task'[u] = task[u]
  BY <1>1, <1>2
<1>4. Role(Closer, task'[Closer], 3)
  BY <1>2 DEF Role, AskPCs, CloserPCs, EndPCs, ES!CLOSING
<1>5. phase \in ES!EndPhase /\ 3 \in ES!EndPhase /\ phase <= 3
  BY <1>1 DEF ES!EndPhase, ES!RUNNING, ES!CLOSED
<1>6. Moves(task, task', Closer, phase, 3)
  BY <1>3, <1>4, <1>5 DEF Moves
<1>7. ~InLine(task', Closer) /\ ~Playing(task', Closer)
  BY <1>2 DEF InLine, Playing, WaitingPCs, PlayingPCs
<1>8. (ES!TypeOK)'
  BY <1>1, <1>5 DEF IInv, Data, ES!TypeOK
<1> QED
  BY <1>1, <1>6, <1>7, <1>8

\* Every step of the closing task and the end sequence keeps the invariant.
LEMMA CloserKeeps ==
    ASSUME IInv, CloserStep
    PROVE  IInv'
<1>1. /\ Closer \in Tasks /\ task \in [Tasks -> Task] /\ phase \in ES!EndPhase
      /\ Role(Closer, task[Closer], phase)
  BY DEF IInv, Data, Good, ES!TypeOK, Tasks
<1>2. CASE MarkerDone
  <2>1. ~InLine(task, Closer) /\ phase >= ES!CLOSING
    BY <1>1, <1>2 DEF MarkerDone, InLine, WaitingPCs, PlayingPCs, Role, CloserPCs
  <2>2. CASE ToCleaning /\ UNCHANGED speechQ
    <3>1. (ES!TypeOK)' /\ Good(task', speechQ, phase')
      BY <1>1, <2>1, <2>2, ToCleaningKeeps, GoodStay DEF IInv
    <3> QED
      BY <1>2, <2>2, <3>1 DEF MarkerDone, IInv, Data, roomVars, timeVars
  <2>3. CASE AcquireLock(Closer, task, "closing?", "closing1") /\ UNCHANGED <<phase,
                                                                              cause>>
    <3>1. task = [task EXCEPT ![Closer] = task[Closer]] /\ task[Closer] \in Task
      BY <1>1
    <3>2. /\ "closing?" \in WaitingPCs /\ "closing1" \in PlayingPCs
          /\ "closing?" \in CloserPCs /\ "closing1" \in CloserPCs
          /\ "closing?" \notin AskPCs /\ "closing1" \notin AskPCs
      BY DEF WaitingPCs, PlayingPCs, CloserPCs, AskPCs
    <3> DEFINE r == task[Closer]
    <3>3. r \in Task /\ task = [task EXCEPT ![Closer] = r]
      BY <3>1
    <3> HIDE DEF r
    <3>4. Good(task', speechQ', phase)
      BY <1>1, <2>1, <2>3, <3>2, <3>3, AcquireKeeps
    <3> QED
      BY <1>2, <2>3, <3>4 DEF MarkerDone, IInv, Data, ES!TypeOK, roomVars, timeVars
  <2> QED BY <1>2, <2>2, <2>3 DEF MarkerDone
<1>3. ASSUME NEW play \in {"closing1", "closing2"}, Replay(Closer, play),
             InLine(task, Closer), speechQ # <<>>, Head(speechQ) = Closer,
             task[Closer].pc \in {"closing?", "closing1"}
      PROVE  IInv'
  <2>1. /\ play \in PlayingPCs /\ play \notin {"ask1", "ask2"}
        /\ play \in CloserPCs /\ task[Closer].pc \in CloserPCs
    BY <1>3 DEF PlayingPCs, CloserPCs
  <2> QED BY <1>1, <1>3, <2>1, ReplayKeeps
<1>4. CASE ClosingGranted
  <2>1. InLine(task, Closer) /\ speechQ # <<>> /\ Head(speechQ) = Closer
    BY <1>1, <1>4, GrantedIsHead DEF ClosingGranted, WaitingPCs
  <2> QED BY <1>3, <1>4, <2>1 DEF ClosingGranted, Granted
<1>5. CASE ClosingPlayed \/ ClosingFailed
  <2>1. InLine(task, Closer) /\ speechQ # <<>> /\ Head(speechQ) = Closer
    BY <1>1, <1>5, PlayingIsHead DEF ClosingPlayed, ClosingFailed, PlayingPCs
  <2>2. CASE task[Closer].pc = "closing1" /\ Replay(Closer, "closing2")
    BY <1>3, <2>1, <2>2
  <2>3. CASE /\ ReleaseLock /\ ToCleaning /\ log' \in {log, Append(log, NewClosing(task[Closer].intact))}
             /\ UNCHANGED <<floor, restored, turnSeq, closed, roomVars, timeVars, row,
                            shutdown>>
    <3>1. Good(task', Tail(speechQ), phase') /\ (ES!TypeOK)'
      BY <1>1, <2>1, <2>3, ToCleaningKeeps, GoodLeave DEF IInv
    <3>2. log' \in Seq(Utterance)
      <4>1. task[Closer].intact \in BOOLEAN
        BY <1>1 DEF Task
      <4>2. NewClosing(task[Closer].intact) \in Utterance
        BY <4>1, NewClosingType
      <4> QED BY <2>3, <4>2 DEF IInv, Data
    <3> QED
      BY <2>3, <3>1, <3>2 DEF ReleaseLock, IInv, Data, roomVars, timeVars
  <2> QED BY <1>5, <2>2, <2>3 DEF ClosingPlayed, ClosingFailed
<1>6. CASE Cleanup
  <2> DEFINE U == [task EXCEPT ![Closer].pc = "room"]
  <2>1. U[Closer].pc = "room" /\ U[Closer] \in Task
    BY <1>1 DEF Task, EndPCs
  <2>2. U \in [Tasks -> Task] /\ \A u \in Tasks \ {Closer} : U[u] = task[u]
    BY <1>1, <2>1
  <2> HIDE DEF U
  <2>3. task[Closer].pc = "cleanup" /\ task' = U /\ phase' = phase /\ speechQ' = speechQ
    BY <1>6 DEF Cleanup, U
  <2>4. Role(Closer, U[Closer], phase)
    BY <1>1, <2>1, <2>3 DEF Role, AskPCs, CloserPCs, EndPCs
  <2>5. Moves(task, U, Closer, phase, phase)
    BY <1>1, <2>2, <2>4 DEF Moves, ES!EndPhase, ES!RUNNING, ES!CLOSED
  <2>6. ~InLine(U, Closer) /\ ~Playing(U, Closer) /\ ~InLine(task, Closer)
    BY <2>1, <2>3 DEF InLine, Playing, WaitingPCs, PlayingPCs
  <2>7. Good(U, speechQ, phase)
    BY <1>1, <2>5, <2>6, GoodStay DEF IInv
  <2>8. row' \in Nat
    BY <1>6 DEF Cleanup, IInv, Data
  <2> QED
    BY <1>6, <2>3, <2>7, <2>8 DEF Cleanup, IInv, Data, ES!TypeOK, roomVars, timeVars
<1>7. CASE RoomDone
  <2> DEFINE U == Finished(Closer)
  <2>1. Idle \in Task /\ Role(Closer, Idle, phase)
    BY DEF Idle, Task, OtherPCs, Role, AskPCs, CloserPCs, EndPCs
  <2>2. U[Closer] = Idle /\ U \in [Tasks -> Task] /\ \A u \in Tasks \ {Closer} : U[u] = task[u]
    BY <1>1, <2>1 DEF Finished
  <2> HIDE DEF U
  <2>3. task[Closer].pc = "room" /\ task' = U /\ phase' = phase /\ speechQ' = speechQ
    BY <1>7 DEF RoomDone, U
  <2>4. Moves(task, U, Closer, phase, phase)
    BY <1>1, <2>1, <2>2 DEF Moves, ES!EndPhase, ES!RUNNING, ES!CLOSED
  <2>5. ~InLine(U, Closer) /\ ~Playing(U, Closer) /\ ~InLine(task, Closer)
    BY <2>2, <2>3 DEF InLine, Playing, WaitingPCs, PlayingPCs, Idle
  <2>6. Good(U, speechQ, phase)
    BY <1>1, <2>4, <2>5, GoodStay DEF IInv
  <2> QED
    BY <1>7, <2>3, <2>6 DEF RoomDone, IInv, Data, ES!TypeOK, roomVars, timeVars
<1> QED
  BY <1>2, <1>4, <1>5, <1>6, <1>7 DEF CloserStep

\* aclose empties the line and every coroutine.
LEMMA AcloseKeeps ==
    ASSUME IInv, Aclose
    PROVE  IInv'
<1>1. task' = [t \in Tasks |-> Idle] /\ speechQ' = <<>> /\ phase' = phase
  BY DEF Aclose
<1>2. Idle \in Task /\ Idle.pc = "idle"
  BY DEF Idle, Task, OtherPCs
<1>3. /\ task' \in [Tasks -> Task] /\ speechQ' \in Seq(Tasks)
      /\ \A t \in Tasks : task'[t].pc = "idle"
  BY <1>1, <1>2
<1>4. \A t \in Tasks : Role(t, task'[t], phase')
  BY <1>3 DEF Role, AskPCs, CloserPCs, EndPCs
<1>5. Line(task', speechQ')
  BY <1>1, <1>3 DEF Line, InLine, Playing, WaitingPCs, PlayingPCs
<1>6. closed' \in BOOLEAN /\ window' \in BOOLEAN
  BY Zenon DEF Aclose
<1> QED
  BY <1>3, <1>4, <1>5, <1>6 DEF Good, Aclose, IInv, Data, ES!TypeOK, timeVars, Silent,
     Untimed

-----------------------------------------------------------------------------
(* The theorems.                                                           *)

\* The invariant holds in every initial state.
LEMMA InitEstablishes == Init => IInv
<1> SUFFICES ASSUME Init PROVE IInv
  OBVIOUS
<1>1. PICK pc \in {"heading", "start"} :
         /\ task = [[t \in Tasks |-> Idle] EXCEPT ![Main] = Coroutine(pc, 0, "none", FALSE)]
         /\ present \in BOOLEAN
  BY DEF Init
<1>2. Idle \in Task /\ Coroutine(pc, 0, "none", FALSE) \in Task
  BY DEF Idle, Coroutine, Task, OtherPCs
<1>3. task \in [Tasks -> Task] /\ \A t \in Tasks : task[t].pc \in {"idle", "heading", "start"}
  BY <1>1, <1>2 DEF Idle, Coroutine
<1>4. task[Closer].pc = "idle"
  BY <1>1, PipelineAssumption DEF Tasks, Idle
<1>5. \A t \in Tasks : Role(t, task[t], phase)
  BY <1>3, <1>4 DEF Role, AskPCs, CloserPCs, EndPCs
<1>6. speechQ = <<>> /\ speechQ \in Seq(Tasks)
  BY DEF Init
<1>7. Line(task, speechQ)
  BY <1>3, <1>6 DEF Line, InLine, Playing, WaitingPCs, PlayingPCs
<1>8. log \in Seq(Utterance) /\ floor \in Nat /\ restored \in Nat
  BY PipelineAssumption, NumberFloorBounds DEF Init
<1>9. ES!TypeOK
  BY DEF Init, ES!TypeOK, ES!EndPhase, ES!RUNNING, ES!CLOSED
<1>10. closed \in BOOLEAN /\ window \in BOOLEAN /\ guardOn \in BOOLEAN /\ shutdown \in BOOLEAN
  BY Zenon DEF Init
<1>11. Data
  BY <1>1, <1>8, <1>9, <1>10 DEF Init, Data, Silent, Untimed
<1> QED
  BY <1>3, <1>5, <1>6, <1>7, <1>11 DEF IInv, Good

\* Every step keeps the invariant: one lemma for each action.
LEMMA NextKeeps == IInv /\ [Next]_vars => IInv'
<1> SUFFICES ASSUME IInv, [Next]_vars PROVE IInv'
  OBVIOUS
<1>1. ASSUME NEW t \in Slots \cup {Main}, RunStep(t) PROVE IInv'
  BY <1>1, RunStartsKeeps, RunDecidedKeeps, RunGeneratedKeeps, AskGrantedKeeps,
     AskPlayedKeeps, AskFailedKeeps DEF RunStep
<1>2. ASSUME NEW t \in Slots \cup {Main}, ResumeStep(t) PROVE IInv'
  BY <1>2, ResumeStartsKeeps, NoticeGrantedKeeps, NoticeOverKeeps, RespeakKeeps
     DEF ResumeStep
<1>3. CASE CloserStep
  BY <1>3, CloserKeeps
<1>4. CASE EntryStep
  BY <1>4, HeadingToCloseKeeps, MainStartsKeeps DEF EntryStep
<1>5. CASE Candidate
  BY <1>5, CandidateKeeps
<1>6. CASE Timer \/ EndSignal
  BY <1>6, TimerKeeps
<1>7. CASE Aclose
  BY <1>7, AcloseKeeps
<1>8. CASE UNCHANGED vars
  BY <1>8 DEF vars, roomVars, timeVars, IInv, Data, ES!TypeOK
<1> QED
  BY <1>1, <1>2, <1>3, <1>4, <1>5, <1>6, <1>7, <1>8 DEF Next, JobOver

\* The invariant holds in every state of every behavior.
LEMMA Invariance == Spec => []IInv
BY InitEstablishes, NextKeeps, PTL DEF Spec

\* Every variable of the job keeps its type, in every interleaving.
THEOREM TypeCorrect == Spec => []TypeOK
BY Invariance, IInvImplies, PTL

\* At most one voice at a time: whoever plays is at the head of the line at the
\* speech lock, and nobody stands in that line twice.
THEOREM OneVoiceAtATime == Spec => []OneVoice
BY Invariance, IInvImplies, PTL

-----------------------------------------------------------------------------
(* The end of the interview implements EndState.                           *)

\* Whatever wins or loses begin_closing moves the end as end_state.py allows.
LEMMA BeginClosingRefines ==
    ASSUME NEW c \in ES!EndCause, NEW T, BeginClosing(c, T)
    PROVE  [ES!Next]_(ES!vars)
BY DEF BeginClosing, ES!Next, ES!AdvanceToClosing, ES!vars

\* A step that moves the phase to WAITING_FINAL_ANSWER, or leaves it alone.
LEMMA WaitingRefines ==
    ASSUME cause' = cause,
           \/ phase' = phase
           \/ phase' = ES!WAITING_FINAL_ANSWER /\ ES!CanAdvance(ES!WAITING_FINAL_ANSWER)
    PROVE  [ES!Next]_(ES!vars)
BY DEF ES!Next, ES!Advance, ES!vars, ES!EndPhase, ES!RUNNING, ES!WAITING_FINAL_ANSWER,
       ES!CLOSING, ES!CLOSED

\* Every step of the pipeline is a step of end_state.py's machine or leaves it alone.
LEMMA StepRefines ==
    ASSUME Next
    PROVE  [ES!Next]_(ES!vars)
<1>1. ASSUME UNCHANGED <<phase, cause>> PROVE [ES!Next]_(ES!vars)
  BY <1>1 DEF ES!vars
<1>2. ASSUME NEW t, RunStep(t) PROVE [ES!Next]_(ES!vars)
  <2>1. CASE AskPlayed(t)
    BY <2>1, WaitingRefines DEF AskPlayed, PhaseAfterFinal
  <2>2. CASE RunDecided(t)
    BY <1>1, <2>2, BeginClosingRefines DEF RunDecided, Return, Ask, ES!EndCause
  <2>3. CASE AskFailed(t)
    BY <1>1, <2>3, BeginClosingRefines DEF AskFailed, GiveUp, Replay, ShutdownOnSilence, ES!EndCause
  <2>4. CASE RunStarts(t) \/ RunGenerated(t) \/ AskGranted(t)
    BY <1>1, <2>4 DEF RunStarts, RunGenerated, AskGranted, Return, Ask, GiveUp, Replay
  <2> QED BY <1>2, <2>1, <2>2, <2>3, <2>4 DEF RunStep
<1>3. ASSUME NEW t, ResumeStep(t) PROVE [ES!Next]_(ES!vars)
  BY <1>1, <1>3 DEF ResumeStep, ResumeStarts, NoticeGranted, NoticeOver, RespeakGranted,
     RespeakPlayed, RespeakFailed, GiveUp, Replay, ShutdownOnSilence
<1>4. CASE CloserStep
  <2>1. CASE ToCleaning
    BY <2>1 DEF ToCleaning, ES!Next, ES!Advance, ES!EndPhase, ES!RUNNING, ES!CLEANING, ES!CLOSED
  <2> QED
    BY <1>1, <1>4, <2>1 DEF CloserStep, MarkerDone, ClosingGranted, ClosingPlayed, ClosingFailed,
       Cleanup, RoomDone, Replay
<1>5. CASE EntryStep
  <2>1. CASE HeadingToClose
    BY <2>1, BeginClosingRefines DEF HeadingToClose, ES!EndCause
  <2>2. CASE MainStarts
    BY <2>2, WaitingRefines DEF MainStarts, RestorePhase
  <2> QED BY <1>5, <2>1, <2>2 DEF EntryStep
<1>6. CASE Candidate
  <2>1. CASE FinalAnswerTurn
    BY <2>1, BeginClosingRefines DEF FinalAnswerTurn, ES!EndCause
  <2>2. CASE ~FinalAnswerTurn
    BY <1>1, <1>6, <2>2 DEF Candidate, SpeechStarts, AnswerTurn, SpeechDropped, CandidateLeaves,
       CandidateReturns
  <2> QED BY <2>1, <2>2
<1>7. CASE Timer \/ EndSignal
  <2>1. CASE TimePasses
    BY <1>1, <2>1 DEF TimePasses
  <2>2. CASE WindowExpires \/ GuardFires \/ EndSignal
    BY <2>2, BeginClosingRefines DEF WindowExpires, GuardFires, EndSignal, ES!EndCause
  <2> QED BY <1>7, <2>1, <2>2 DEF Timer
<1>8. CASE Aclose \/ JobOver
  BY <1>1, <1>8 DEF Aclose, JobOver, vars
<1> QED
  BY <1>2, <1>3, <1>4, <1>5, <1>6, <1>7, <1>8 DEF Next

\* Whoever pushes the interview to its end, and whatever they race with, the end
\* is the state machine of end_state.py: it never moves back, CLOSING comes before
\* CLEANING, and its cause is fixed by the one who wins CLOSING.
THEOREM EndRefinesEndState == Spec => EndStateSpec
<1>1. Init => ES!Init
  BY DEF Init, ES!Init
<1>2. [Next]_vars => [ES!Next]_(ES!vars)
  <2>1. UNCHANGED vars => UNCHANGED ES!vars
    BY DEF vars, ES!vars
  <2> QED BY StepRefines, <2>1
<1> QED
  BY <1>1, <1>2, PTL DEF Spec, EndStateSpec, ES!Spec
=============================================================================
