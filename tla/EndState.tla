------------------------------ MODULE EndState ------------------------------
(***************************************************************************)
(* The end-of-interview state machine of agent/src/interview/end_state.py: *)
(* one object shared by the turn pipeline, the time guard, the reconnect   *)
(* window and the end-signal handler.  It only moves forward, and the      *)
(* cause of the end is fixed by whoever wins the move to CLOSING.          *)
(*                                                                         *)
(* This is also the abstract specification of how an interview ends:       *)
(* TurnPipeline implements it with its own phase and cause.                *)
(***************************************************************************)
EXTENDS Naturals

VARIABLES phase,  \* EndState._phase
          cause   \* EndState._cause

vars == <<phase, cause>>

\* EndPhase, an IntEnum: the order of the values is the direction of travel.
RUNNING              == 0
WAITING_FINAL_ANSWER == 1
CLOSING              == 2
CLEANING             == 3
CLOSED               == 4
EndPhase == RUNNING..CLOSED

\* EndCause, one per way into CLOSING.
EndCause == {"FINAL_QUESTION", "LLM_END", "HARD_TIMEOUT", "USER_REQUEST",
             "RECONNECT_TIMEOUT", "RECOVERED_CLOSING"}
NoCause == "no cause"

-----------------------------------------------------------------------------
\* try_advance answers TRUE, and moves, exactly when the target lies ahead; it
\* raises (no move) when CLEANING or CLOSED is asked for before CLOSING.
CanAdvance(to) == /\ phase < to
                  /\ to > CLOSING => phase >= CLOSING

\* try_advance(to) for every target but CLOSING, won by the caller.
Advance(to) == /\ to # CLOSING
               /\ CanAdvance(to)
               /\ phase' = to
               /\ UNCHANGED cause

\* try_advance(CLOSING, c), won by the caller: the cause is fixed here only.
AdvanceToClosing(c) == /\ CanAdvance(CLOSING)
                       /\ phase' = CLOSING
                       /\ cause' = c

Init == phase = RUNNING /\ cause = NoCause

Next == \/ \E to \in EndPhase : Advance(to)
        \/ \E c \in EndCause : AdvanceToClosing(c)

Spec == Init /\ [][Next]_vars

-----------------------------------------------------------------------------
TypeOK == /\ phase \in EndPhase
          /\ cause \in EndCause \cup {NoCause}

\* A cause exists exactly once the machine has reached CLOSING.
CauseIffClosing == cause # NoCause <=> phase >= CLOSING
=============================================================================
