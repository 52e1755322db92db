-------------------------- MODULE MCSessionRecovery --------------------------
(***************************************************************************)
(* SessionRecovery on a small instance.                                    *)
(***************************************************************************)
EXTENDS SessionRecovery, TLC
=============================================================================
