---------------------------- MODULE SessionRecord ----------------------------
(***************************************************************************)
(* What an interview session leaves behind, as its readers may rely on it  *)
(* (interview-end.md, chapters 3 to 5): Spring judges a lost or finished   *)
(* session by the row and the marker, the report worker reads the row a    *)
(* request points to, and the job that restores a session reads the copy.  *)
(*                                                                         *)
(* This is the abstract specification that SessionRecovery implements with *)
(* jobs that crash, writes that fail and commits that are not seen.        *)
(***************************************************************************)
EXTENDS Naturals, Sequences

CONSTANTS Utterance, NoRow

VARIABLES copy,      \* Redis interview:{id}:transcript, what a restore starts from
          marker,    \* Redis interview:{id}:termination exists
          row,       \* interview_transcript, written once
          requests   \* entries of the report request stream

vars == <<copy, marker, row, requests>>

Init ==
    /\ copy = <<>>
    /\ marker = FALSE
    /\ row = NoRow
    /\ requests = 0

\* The copy grows while there is no row, and only then is the session marked as ending.
Copy(u) ==
    /\ row = NoRow
    /\ copy' = Append(copy, u)
    /\ UNCHANGED <<marker, row, requests>>

Mark ==
    /\ row = NoRow
    /\ marker' = TRUE
    /\ UNCHANGED <<copy, row, requests>>

\* The row is written once and never changes.
Store ==
    /\ row = NoRow
    /\ row' \in Seq(Utterance)
    /\ UNCHANGED <<copy, marker, requests>>

\* The copy is given up, and the report asked for, only when the row is there.
Purge ==
    /\ row # NoRow
    /\ copy' = <<>>
    /\ UNCHANGED <<marker, row, requests>>

Request ==
    /\ row # NoRow
    /\ requests' = requests + 1
    /\ UNCHANGED <<copy, marker, row>>

Next ==
    \/ \E u \in Utterance : Copy(u)
    \/ Mark
    \/ Store
    \/ Purge
    \/ Request

Spec == Init /\ [][Next]_vars
=============================================================================
