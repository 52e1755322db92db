---------------------------- MODULE MCReportWorker ----------------------------
(***************************************************************************)
(* ReportWorker on small instances.  Two text handlers serve up to two     *)
(* duplicate requests, one audio handler serves one request: a slow        *)
(* handler, its reclaimer and a duplicate can all be under way at once.    *)
(***************************************************************************)
EXTENDS ReportWorker, TLC

AllConsumers   == TextConsumers \cup AudioConsumers
AllRequests    == TextRequests \cup AudioRequests

Interchangeable ==
    Permutations(TextConsumers) \cup Permutations(TextRequests) \cup Permutations(Evaluations)
=============================================================================
