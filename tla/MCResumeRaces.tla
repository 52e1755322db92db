----------------------------- MODULE MCResumeRaces -----------------------------
(***************************************************************************)
(* ResumeWorker with slow handlers, and a note of whether one has been     *)
(* overtaken: until then, what is promised of handlers that are faster     *)
(* than the claim must hold, compare-and-sets that are lost included.      *)
(***************************************************************************)
EXTENDS MCResumeWorker

VARIABLE overtaken   \* a request was claimed while its handler still ran (history)

Overtakes ==
    \E c, d \in Consumers : /\ handling[c] = NoMessage /\ handling'[c] # NoMessage
                            /\ handling'[c] = handling[d]

RacesInit == Init /\ overtaken = FALSE
RacesNext == Next /\ overtaken' = (overtaken \/ Overtakes)
RacesSpec == RacesInit /\ [][RacesNext]_<<vars, overtaken>>

\* As long as no handler was overtaken, an analysis under way has an unacknowledged request,
\* though of two handlers that compare and set the loser acknowledges its own, and the
\* winner may die (_advance and what returns on its refusal, analysis/pipeline.py).
WorkHasRequestUnlessOvertaken == ~overtaken => WorkHasRequest
=============================================================================
