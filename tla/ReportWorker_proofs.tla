------------------------- MODULE ReportWorker_proofs -------------------------
(***************************************************************************)
(* Theorems about ReportWorker, for any number of requests and handlers,   *)
(* any evaluations, with or without slow handlers and audio.               *)
(*                                                                         *)
(* The tag summary is right because of a lock: the invariant says that a   *)
(* handler about to commit holds it and that the tags it read under it are *)
(* still those of the row.                                                 *)
(***************************************************************************)
EXTENDS ReportWorker, TLAPS

\* What a handler knows at a place p, with locals r, when l holds the row lock and
\* the row has these tags.
Coherent(c, p, r, l, tags) ==
    /\ p = "announce" => r.news \in {"PROCESSING"} \cup Terminal
    /\ p = "download" => c \in AudioConsumers
    /\ p \in {"begin", "commit"} /\ c \in TextConsumers => r.evaluation \in Evaluations
    /\ p = "commit" => l = c /\ r.tags = tags

\* The tags are those of the halves saved, the overall score counts the delivery score.
GoodReport(r) ==
    /\ r \in Report
    /\ r.tags = {e \in Evaluations : r.text = e} \cup (IF r.audio THEN {"voice"} ELSE {})
    /\ r.status = "COMPLETED" => r.overall.delivery = r.audio

\* The variables no handler's place depends on.
Surroundings ==
    /\ GroupTypeOK
    /\ session \in Sessions /\ requireAudio \in AudioSettings
    /\ lock \in Consumers \cup {Nobody}
    /\ overdue \in BOOLEAN /\ owed \in BOOLEAN
    /\ events \in Seq({"PROCESSING"} \cup Terminal)

IInv ==
    /\ Surroundings
    /\ GoodReport(report)
    /\ pc \in [Consumers -> PCs] /\ run \in [Consumers -> Run]
    /\ \A c \in Consumers : Coherent(c, pc[c], run[c], lock, report.tags)

\* The inductive invariant is as strong as what is wanted of it.
LEMMA IInvImplies == IInv => TypeOK /\ TagsOfBothHalves /\ OverallCountsDelivery
BY DEF IInv, Surroundings, GoodReport, TypeOK, TagsOfBothHalves, OverallCountsDelivery

-----------------------------------------------------------------------------
(* The row.                                                                *)

\* A change of status alone, to anything but COMPLETED, leaves the report good.
LEMMA StatusGood ==
    ASSUME NEW r, GoodReport(r), NEW s \in Status \ {"COMPLETED"}
    PROVE  /\ GoodReport([r EXCEPT !.status = s])
           /\ [r EXCEPT !.status = s].tags = r.tags
BY DEF GoodReport, Report, Status, Terminal

\* Completing a report that has its text half leaves it good, with the same tags.
LEMMA CompletedGood ==
    ASSUME NEW r, GoodReport(r), r.text # Absent
    PROVE  GoodReport(Completed(r)) /\ Completed(r).tags = r.tags
<1>1. [text |-> r.text, delivery |-> r.audio] \in Overall
  BY DEF GoodReport, Report, Overall
<1> QED
  BY <1>1 DEF GoodReport, Report, Completed, Status, Terminal

\* The verdict of try_complete leaves the report good, with the same tags.
LEMMA JudgedGood ==
    ASSUME NEW r, GoodReport(r)
    PROVE  GoodReport(Judged(r)) /\ Judged(r).tags = r.tags
BY CompletedGood DEF Judged, Completable

\* Saving the text half under the lock keeps the voice tags and puts its own.
LEMMA WithTextGood ==
    ASSUME GoodReport(report), NEW c, run[c].tags = report.tags,
           run[c].evaluation \in Evaluations
    PROVE  GoodReport(WithText(c))
<1> DEFINE e == run[c].evaluation
<1>1. run[c].tags \cap {"voice"} = IF report.audio THEN {"voice"} ELSE {}
  BY ReportAssumption DEF GoodReport
<1>2. {f \in Evaluations : e = f} = {e}
  OBVIOUS
<1>3. WithText(c).tags = {e} \cup (IF report.audio THEN {"voice"} ELSE {})
  BY <1>1 DEF WithText, GoodReport, Report
<1>4. /\ WithText(c).text = e /\ WithText(c).audio = report.audio
      /\ WithText(c).status = report.status /\ WithText(c).overall = report.overall
  BY DEF WithText, GoodReport, Report
<1>5. WithText(c) \in Report
  BY <1>3, <1>4 DEF WithText, GoodReport, Report
<1> QED
  BY <1>2, <1>3, <1>4, <1>5 DEF GoodReport

\* Saving the audio half under the lock keeps the text tags; it is not saved on a
\* completed report.
LEMMA WithAudioGood ==
    ASSUME GoodReport(report), NEW c, run[c].tags = report.tags, AudioSavable(report)
    PROVE  GoodReport(WithAudio(c))
<1>1. WithAudio(c).tags = {f \in Evaluations : report.text = f} \cup {"voice"}
  BY DEF WithAudio, GoodReport, Report
<1>2. /\ WithAudio(c).text = report.text /\ WithAudio(c).audio = TRUE
      /\ WithAudio(c).status = report.status /\ report.status # "COMPLETED"
  BY DEF WithAudio, GoodReport, Report, AudioSavable
<1>3. WithAudio(c) \in Report
  BY <1>1, <1>2 DEF WithAudio, GoodReport, Report
<1> QED
  BY <1>1, <1>2, <1>3 DEF GoodReport

-----------------------------------------------------------------------------
(* One handler moves.                                                      *)

\* A call may be tried at least once.
LEMMA RetryLimit == RetryMaxAttempts \in Nat /\ RetryMaxAttempts > 0
<1>1. RetryMaxAttempts \in Nat \ {0}
  BY ReportAssumption
<1> QED
  BY <1>1

\* The locals a handler may be left with.
LEMMA RunTypes ==
    ASSUME NEW r \in Run
    PROVE  /\ \A s \in {"PROCESSING", Absent} \cup Terminal : [r EXCEPT !.news = s] \in Run
           /\ [r EXCEPT !.tries = 0] \in Run
           /\ \A e \in Evaluations : [r EXCEPT !.tries = 0, !.evaluation = e] \in Run
           /\ r.tries + 1 < RetryMaxAttempts => [r EXCEPT !.tries = @ + 1] \in Run
           /\ \A t \in SUBSET (Evaluations \cup {"voice"}) : [r EXCEPT !.tags = t] \in Run
<1>1. ASSUME NEW s \in {"PROCESSING", Absent} \cup Terminal PROVE [r EXCEPT !.news = s] \in Run
  BY DEF Run
<1>2. [r EXCEPT !.tries = 0] \in Run
  <2>1. 0 \in 0 .. RetryMaxAttempts
    BY RetryLimit
  <2> QED BY <2>1 DEF Run
<1>3. ASSUME NEW e \in Evaluations PROVE [r EXCEPT !.tries = 0, !.evaluation = e] \in Run
  BY <1>2 DEF Run
<1>4. ASSUME r.tries + 1 < RetryMaxAttempts PROVE [r EXCEPT !.tries = @ + 1] \in Run
  <2>1. r.tries + 1 \in 0 .. RetryMaxAttempts
    <3>1. r.tries \in 0 .. RetryMaxAttempts
      BY DEF Run
    <3> QED BY <1>4, <3>1, RetryLimit
  <2> QED BY <2>1 DEF Run
<1>5. ASSUME NEW t \in SUBSET (Evaluations \cup {"voice"}) PROVE [r EXCEPT !.tags = t] \in Run
  BY DEF Run
<1> QED
  BY <1>1, <1>2, <1>3, <1>4, <1>5

\* The locals of a delivery that begins.
LEMMA BegunTypes ==
    ASSUME NEW n \in 0 .. GiveUpAt
    PROVE  Begun(n) \in Run
<1>1. 0 \in 0 .. RetryMaxAttempts
  BY RetryLimit
<1> QED
  BY <1>1 DEF Begun, Run

\* Handler c moves to p with locals r; the others find the lock and the tags as they
\* left them.
LEMMA Moves ==
    ASSUME IInv, NEW c \in Consumers, NEW p \in PCs, NEW r \in Run,
           pc' = [pc EXCEPT ![c] = p], run' = [run EXCEPT ![c] = r],
           Surroundings', GoodReport(report'),
           Coherent(c, p, r, lock', report'.tags),
           \A d \in Consumers \ {c} :
               pc[d] = "commit" => lock' = lock /\ report'.tags = report.tags
    PROVE  IInv'
<1>1. pc' \in [Consumers -> PCs] /\ run' \in [Consumers -> Run]
  BY DEF IInv
<1>2. ASSUME NEW d \in Consumers
      PROVE  Coherent(d, pc'[d], run'[d], lock', report'.tags)
  <2>1. CASE d = c
    BY <2>1 DEF IInv
  <2>2. CASE d # c
    <3>1. pc'[d] = pc[d] /\ run'[d] = run[d]
      BY <2>2 DEF IInv
    <3>2. Coherent(d, pc[d], run[d], lock, report.tags)
      BY DEF IInv
    <3> QED BY <2>2, <3>1, <3>2 DEF Coherent
  <2> QED BY <2>1, <2>2
<1> QED
  BY <1>1, <1>2 DEF IInv

\* What the others need of a step of c.
LeavesOthers(c) ==
    \A d \in Consumers \ {c} : pc[d] = "commit" => lock' = lock /\ report'.tags = report.tags

\* Handler c goes to a place where its locals say nothing.
LEMMA Goes ==
    ASSUME IInv, NEW c \in Consumers, NEW p \in PCs \ {"announce", "download", "begin", "commit"},
           Goto(c, p), UNCHANGED run,
           Surroundings', GoodReport(report'), LeavesOthers(c)
    PROVE  IInv'
<1>1. run[c] \in Run /\ run' = [run EXCEPT ![c] = run[c]]
  BY DEF IInv
<1>2. Coherent(c, p, run[c], lock', report'.tags)
  BY DEF Coherent
<1> QED
  BY <1>1, <1>2, Moves DEF Goto, LeavesOthers

\* Handler c is about to announce a status.
LEMMA Tells ==
    ASSUME IInv, NEW c \in Consumers, NEW s \in {"PROCESSING"} \cup Terminal, Tell(c, s),
           Surroundings', GoodReport(report'), LeavesOthers(c)
    PROVE  IInv'
<1> DEFINE r == [run[c] EXCEPT !.news = s]
<1>1. run[c] \in Run
  BY DEF IInv
<1>2. r \in Run /\ r.news = s
  BY <1>1, RunTypes DEF Run
<1>3. Coherent(c, "announce", r, lock', report'.tags)
  BY <1>2 DEF Coherent
<1>4. run' = [run EXCEPT ![c] = r] /\ pc' = [pc EXCEPT ![c] = "announce"]
  BY DEF Tell, Goto
<1>5. "announce" \in PCs
  BY DEF PCs
<1> HIDE DEF r
<1> QED
  BY <1>2, <1>3, <1>4, <1>5, Moves DEF LeavesOthers

\* Handler c is done.
LEMMA Finishes ==
    ASSUME IInv, NEW c \in Consumers, Finish(c),
           Surroundings', GoodReport(report'), LeavesOthers(c)
    PROVE  IInv'
<1>1. 0 \in 0 .. GiveUpAt
  BY GroupAssumption
<1>2. Begun(0) \in Run
  BY <1>1, BegunTypes
<1>3. Coherent(c, "idle", Begun(0), lock', report'.tags) /\ "idle" \in PCs
  BY DEF Coherent, PCs
<1> QED
  BY <1>2, <1>3, Moves DEF Finish, Goto, LeavesOthers

\* A step that leaves the stream and the grace loop alone.
LEMMA SurroundingsStay ==
    ASSUME IInv, UNCHANGED <<groupVars, fixed, owed, events>>, overdue' \in BOOLEAN,
           lock' \in Consumers \cup {Nobody}
    PROVE  Surroundings'
<1>1. owed' \in BOOLEAN /\ requireAudio' \in AudioSettings
  BY Zenon DEF IInv, Surroundings, fixed
<1> QED
  BY <1>1 DEF IInv, Surroundings, fixed, groupVars, GroupTypeOK

\* A request that comes back, or is acknowledged, leaves the stream well-typed.
LEMMA RequestOver ==
    ASSUME IInv, NEW c \in Consumers, Abandon(c) \/ Acknowledge(c),
           UNCHANGED <<fixed, overdue, owed, events>>, lock' \in Consumers \cup {Nobody}
    PROVE  Surroundings'
<1>1. owed' \in BOOLEAN /\ requireAudio' \in AudioSettings /\ overdue' \in BOOLEAN
  BY Zenon DEF IInv, Surroundings, fixed
<1>2. GroupTypeOK'
  BY DEF IInv, Surroundings, GroupTypeOK, Abandon, Acknowledge
<1> QED
  BY <1>1, <1>2 DEF IInv, Surroundings, fixed

-----------------------------------------------------------------------------
(* The actions.                                                            *)

\* A delivery, first or repeated, keeps the invariant.
LEMMA ReceiveKeeps ==
    ASSUME IInv, NEW c \in Consumers, NEW m \in Messages, Receive(c, m)
    PROVE  IInv'
<1>1. DeliveryCount(m) \in 0 .. GiveUpAt
  <2>1. deliveries[m] \in 0 .. GiveUpAt /\ GiveUpAt \in Nat
    BY GroupAssumption DEF IInv, Surroundings, GroupTypeOK
  <2> QED BY <2>1 DEF DeliveryCount, Counted
<1>2. GroupTypeOK'
  <2>1. pel' \in [Messages -> {"new", "pending", "acked"}]
    BY DEF Receive, Deliver, IInv, Surroundings, GroupTypeOK
  <2>2. deliveries' \in [Messages -> 0 .. GiveUpAt]
    BY <1>1 DEF Receive, Deliver, IInv, Surroundings, GroupTypeOK
  <2>3. handling' \in [Consumers -> Messages \cup {NoMessage}]
    BY DEF Receive, Deliver, IInv, Surroundings, GroupTypeOK
  <2> QED BY <2>1, <2>2, <2>3 DEF GroupTypeOK
<1>3. owed' \in BOOLEAN /\ requireAudio' \in AudioSettings /\ overdue' \in BOOLEAN
  BY Zenon DEF Receive, IInv, Surroundings, fixed, rowVars
<1>4. Surroundings'
  BY <1>2, <1>3 DEF Receive, IInv, Surroundings, fixed, rowVars
<1>5. Begun(DeliveryCount(m)) \in Run
  BY <1>1, BegunTypes
<1>6. Coherent(c, "read", Begun(DeliveryCount(m)), lock', report'.tags) /\ "read" \in PCs
  BY DEF Coherent, PCs
<1>7. GoodReport(report')
  BY DEF Receive, rowVars, IInv
<1> QED
  BY <1>4, <1>5, <1>6, <1>7, Moves DEF Receive, Goto, rowVars

\* Reading the row and choosing a branch keeps the invariant, in either pipeline.
LEMMA ReadsKeep ==
    ASSUME IInv, NEW c \in Consumers, ReadForText(c) \/ ReadForAudio(c)
    PROVE  IInv'
<1>1. Surroundings' /\ GoodReport(report') /\ LeavesOthers(c) /\ UNCHANGED run
  <2>1. UNCHANGED <<groupVars, fixed, rowVars, run, owed, events>>
    BY DEF ReadForText, ReadForAudio
  <2>2. overdue' \in BOOLEAN
    BY Zenon, <2>1 DEF rowVars, IInv, Surroundings
  <2>3. lock' \in Consumers \cup {Nobody}
    BY <2>1 DEF rowVars, IInv, Surroundings
  <2> QED
    BY <2>1, <2>2, <2>3, SurroundingsStay DEF rowVars, IInv, LeavesOthers
<1>2. CASE ReadForText(c)
  <2>1. AfterTextRead(run[c].count) \in
          {"ack", "judge", "fail", "create", "enter", "evaluate"}
    BY DEF AfterTextRead
  <2> QED BY <1>1, <1>2, <2>1, Goes DEF ReadForText, PCs
<1>3. CASE ReadForAudio(c) /\ AfterAudioRead(run[c].count) # "download"
  <2>1. AfterAudioRead(run[c].count) \in {"ack", "judge", "not ready", "download"}
    BY DEF AfterAudioRead
  <2>2. AfterAudioRead(run[c].count) # "not ready"
    BY <1>3 DEF ReadForAudio
  <2>3. AfterAudioRead(run[c].count) \in {"ack", "judge"}
    BY <1>3, <2>1, <2>2
  <2> QED BY <1>1, <1>3, <2>3, Goes DEF ReadForAudio, PCs
<1>4. CASE ReadForAudio(c) /\ AfterAudioRead(run[c].count) = "download"
  <2>1. run[c] \in Run /\ run' = [run EXCEPT ![c] = run[c]]
    BY <1>1 DEF IInv
  <2>2. Coherent(c, "download", run[c], lock', report'.tags) /\ "download" \in PCs
    BY <1>4 DEF Coherent, ReadForAudio, PCs
  <2> QED BY <1>1, <1>4, <2>1, <2>2, Moves DEF ReadForAudio, Goto, LeavesOthers
<1> QED
  BY <1>2, <1>3, <1>4

\* The report is created once; the others are not disturbed.
LEMMA CreateKeeps ==
    ASSUME IInv, NEW c \in Consumers, CreateReport(c)
    PROVE  IInv'
<1>1. Surroundings' /\ GoodReport(report') /\ LeavesOthers(c)
  <2>1. UNCHANGED <<groupVars, fixed, owed, events, lock, overdue>>
    BY DEF CreateReport
  <2>2. overdue' \in BOOLEAN
    BY Zenon, <2>1 DEF IInv, Surroundings
  <2>3. lock' \in Consumers \cup {Nobody}
    BY <2>1 DEF IInv, Surroundings
  <2>4. "PENDING" \in Status \ {"COMPLETED"}
    BY DEF Status, Terminal
  <2>5. GoodReport(report)
    BY DEF IInv
  <2>6. /\ GoodReport([report EXCEPT !.status = "PENDING"])
        /\ [report EXCEPT !.status = "PENDING"].tags = report.tags
    BY <2>4, <2>5, StatusGood
  <2>7. report' = report \/ report' = [report EXCEPT !.status = "PENDING"]
    BY DEF CreateReport
  <2> QED
    BY <2>1, <2>2, <2>3, <2>5, <2>6, <2>7, SurroundingsStay DEF LeavesOthers
<1> QED
  BY <1>1, Goes DEF CreateReport, PCs

\* The first handler to enter PROCESSING goes on, another one yields.
LEMMA EnterKeeps ==
    ASSUME IInv, NEW c \in Consumers, EnterProcessing(c)
    PROVE  IInv'
<1>1. Surroundings' /\ GoodReport(report') /\ LeavesOthers(c)
  <2>1. UNCHANGED <<groupVars, fixed, owed, events, lock, overdue>>
    BY DEF EnterProcessing
  <2>2. overdue' \in BOOLEAN
    BY Zenon, <2>1 DEF IInv, Surroundings
  <2>3. lock' \in Consumers \cup {Nobody}
    BY <2>1 DEF IInv, Surroundings
  <2>4. "PROCESSING" \in Status \ {"COMPLETED"}
    BY DEF Status, Terminal
  <2>5. GoodReport(report)
    BY DEF IInv
  <2>6. /\ GoodReport([report EXCEPT !.status = "PROCESSING"])
        /\ [report EXCEPT !.status = "PROCESSING"].tags = report.tags
    BY <2>4, <2>5, StatusGood
  <2>7. report' = report \/ report' = [report EXCEPT !.status = "PROCESSING"]
    BY DEF EnterProcessing
  <2> QED
    BY <2>1, <2>2, <2>3, <2>5, <2>6, <2>7, SurroundingsStay DEF LeavesOthers
<1> QED
  BY <1>1, Goes, Tells DEF EnterProcessing, PCs

\* What is announced is a status.
LEMMA AnnounceKeeps ==
    ASSUME IInv, NEW c \in Consumers, Announce(c)
    PROVE  IInv'
<1>1. run[c] \in Run /\ run[c].news \in {"PROCESSING"} \cup Terminal
  BY DEF IInv, Coherent, Announce
<1>2. events' \in Seq({"PROCESSING"} \cup Terminal)
  BY <1>1 DEF Announce, IInv, Surroundings
<1>3. owed' \in BOOLEAN /\ requireAudio' \in AudioSettings /\ overdue' \in BOOLEAN
  BY Zenon DEF Announce, IInv, Surroundings, fixed, rowVars
<1>4. Surroundings'
  BY <1>2, <1>3 DEF Announce, IInv, Surroundings, fixed, rowVars, groupVars, GroupTypeOK
<1>5. GoodReport(report') /\ LeavesOthers(c)
  BY DEF Announce, IInv, rowVars, LeavesOthers
<1> DEFINE r == [run[c] EXCEPT !.news = Absent]
           p == IF run[c].news = "PROCESSING" THEN "evaluate" ELSE "ack"
<1>6. r \in Run
  BY <1>1, RunTypes
<1>7. p \in PCs
  BY DEF PCs
<1>8. Coherent(c, p, r, lock', report'.tags)
  BY DEF Coherent
<1>9. pc' = [pc EXCEPT ![c] = p] /\ run' = [run EXCEPT ![c] = r]
  BY DEF Announce, Goto
<1> HIDE DEF r, p
<1> QED
  BY <1>4, <1>5, <1>6, <1>7, <1>8, <1>9, Moves DEF LeavesOthers

\* A step that touches nothing but the locals of its handler.
LEMMA LocalStep ==
    ASSUME IInv, NEW c \in Consumers, UNCHANGED <<groupVars, fixed, rowVars, owed, events>>
    PROVE  Surroundings' /\ GoodReport(report') /\ LeavesOthers(c)
<1>1. UNCHANGED <<groupVars, fixed, owed, events, report, lock, overdue>>
  BY DEF rowVars
<1>2. overdue' \in BOOLEAN
  BY Zenon, <1>1 DEF IInv, Surroundings
<1>3. lock' \in Consumers \cup {Nobody}
  BY <1>1 DEF IInv, Surroundings
<1> QED
  BY <1>1, <1>2, <1>3, SurroundingsStay DEF IInv, LeavesOthers

\* A call that succeeds gives the text handler its evaluation.
LEMMA CallSucceedsKeeps ==
    ASSUME IInv, NEW c \in Consumers, CallSucceeds(c)
    PROVE  IInv'
<1>1. Surroundings' /\ GoodReport(report') /\ LeavesOthers(c)
  BY LocalStep DEF CallSucceeds
<1>2. run[c] \in Run /\ Coherent(c, pc[c], run[c], lock, report.tags)
  BY DEF IInv
<1>3. CASE pc[c] = "evaluate"
  <2> DEFINE r == [run[c] EXCEPT !.tries = 0]
  <2>1. r \in Run
    BY <1>2, RunTypes
  <2>2. Coherent(c, "summarise", r, lock', report'.tags) /\ "summarise" \in PCs
    BY DEF Coherent, PCs
  <2>3. pc' = [pc EXCEPT ![c] = "summarise"] /\ run' = [run EXCEPT ![c] = r]
    BY <1>3 DEF CallSucceeds, Goto
  <2> HIDE DEF r
  <2> QED BY <1>1, <2>1, <2>2, <2>3, Moves DEF LeavesOthers
<1>4. CASE pc[c] = "summarise"
  <2>1. PICK e \in Evaluations :
           run' = [run EXCEPT ![c].tries = 0, ![c].evaluation = e]
    BY <1>4 DEF CallSucceeds
  <2> DEFINE r == [run[c] EXCEPT !.tries = 0, !.evaluation = e]
  <2>2. r \in Run /\ r.evaluation = e
    BY <1>2, RunTypes DEF Run
  <2>3. Coherent(c, "begin", r, lock', report'.tags) /\ "begin" \in PCs
    BY <2>2 DEF Coherent, PCs
  <2>4. pc' = [pc EXCEPT ![c] = "begin"]
    BY <1>4 DEF CallSucceeds, Goto
  <2>5. run' = [run EXCEPT ![c] = r]
    BY <2>1 DEF IInv
  <2> HIDE DEF r
  <2> QED BY <1>1, <2>2, <2>3, <2>4, <2>5, Moves DEF LeavesOthers
<1>5. CASE pc[c] = "download"
  <2> DEFINE r == [run[c] EXCEPT !.tries = 0]
  <2>1. r \in Run
    BY <1>2, RunTypes
  <2>2. c \notin TextConsumers
    BY <1>2, <1>5, ReportAssumption DEF Coherent
  <2>3. Coherent(c, "begin", r, lock', report'.tags) /\ "begin" \in PCs
    BY <2>2 DEF Coherent, PCs
  <2>4. pc' = [pc EXCEPT ![c] = "begin"] /\ run' = [run EXCEPT ![c] = r]
    BY <1>5 DEF CallSucceeds, Goto
  <2> HIDE DEF r
  <2> QED BY <1>1, <2>1, <2>3, <2>4, Moves DEF LeavesOthers
<1> QED
  BY <1>3, <1>4, <1>5 DEF CallSucceeds, Calling

\* A call that fails is tried again, or the handler gives its request back.
LEMMA CallFailsKeeps ==
    ASSUME IInv, NEW c \in Consumers, CallFails(c)
    PROVE  IInv'
<1>1. run[c] \in Run /\ Coherent(c, pc[c], run[c], lock, report.tags) /\ pc[c] \in PCs
  BY DEF IInv
<1>2. UNCHANGED <<report, lock, overdue, fixed, owed, events>>
  BY DEF CallFails, rowVars
<1>3. overdue' \in BOOLEAN
  BY Zenon, <1>2 DEF IInv, Surroundings
<1>4. lock' \in Consumers \cup {Nobody}
  BY <1>2 DEF IInv, Surroundings
<1>5. GoodReport(report') /\ LeavesOthers(c)
  BY <1>2 DEF IInv, LeavesOthers
<1>6. CASE run[c].tries + 1 < RetryMaxAttempts
  <2>1. Surroundings'
    BY <1>2, <1>3, <1>4, <1>6, SurroundingsStay DEF CallFails
  <2> DEFINE r == [run[c] EXCEPT !.tries = @ + 1]
  <2>2. r \in Run
    BY <1>1, <1>6, RunTypes
  <2>3. Coherent(c, pc[c], r, lock', report'.tags)
    BY <1>1 DEF Coherent, CallFails, Calling
  <2>4. run' = [run EXCEPT ![c] = r]
    BY <1>6 DEF CallFails
  <2>5. pc' = [pc EXCEPT ![c] = pc[c]]
    BY <1>6 DEF CallFails, IInv
  <2> HIDE DEF r
  <2> QED BY <1>1, <1>5, <2>1, <2>2, <2>3, <2>4, <2>5, Moves DEF LeavesOthers
<1>7. CASE ~(run[c].tries + 1 < RetryMaxAttempts)
  <2>1. Abandon(c) /\ Finish(c)
    BY <1>7 DEF CallFails
  <2>2. Surroundings'
    BY <1>2, <1>4, <2>1, RequestOver
  <2> QED BY <1>5, <2>1, <2>2, Finishes
<1> QED
  BY <1>6, <1>7

\* Only the holder of the lock is at its commit.
LEMMA OneCommits ==
    ASSUME IInv, NEW c \in Consumers, lock = c \/ lock = Nobody
    PROVE  \A d \in Consumers \ {c} : pc[d] # "commit"
BY ReportAssumption DEF IInv, Coherent

\* A transaction that saves a half takes the lock and reads the tags.
LEMMA BeginSaveKeeps ==
    ASSUME IInv, NEW c \in Consumers, BeginSave(c)
    PROVE  IInv'
<1>1. /\ run[c] \in Run /\ Coherent(c, "begin", run[c], lock, report.tags)
      /\ GoodReport(report)
  BY DEF IInv, BeginSave
<1>2. report.tags \in SUBSET (Evaluations \cup {"voice"})
  BY <1>1 DEF GoodReport, Report
<1> DEFINE r == [run[c] EXCEPT !.tags = report.tags]
<1>3. r \in Run
  BY <1>1, <1>2, RunTypes
<1>4. r.tags = report.tags /\ r.evaluation = run[c].evaluation
  BY <1>1 DEF Run
<1>5. lock' = c /\ report' = report
  BY DEF BeginSave
<1>6. Coherent(c, "commit", r, lock', report'.tags) /\ "commit" \in PCs
  BY <1>1, <1>4, <1>5 DEF Coherent, PCs
<1>7. pc' = [pc EXCEPT ![c] = "commit"] /\ run' = [run EXCEPT ![c] = r]
  BY DEF BeginSave, Goto
<1>8. UNCHANGED <<groupVars, fixed, owed, events, overdue>>
  BY DEF BeginSave
<1>9. overdue' \in BOOLEAN
  BY Zenon, <1>8 DEF IInv, Surroundings
<1>10. Surroundings'
  BY <1>5, <1>8, <1>9, SurroundingsStay
<1>11. \A d \in Consumers \ {c} : pc[d] # "commit"
  BY OneCommits DEF BeginSave
<1>12. GoodReport(report')
  BY <1>1, <1>5
<1> HIDE DEF r
<1> QED
  BY <1>3, <1>6, <1>7, <1>10, <1>11, <1>12, Moves

\* A step that frees the lock or leaves it, from a handler that may have held it.
LEMMA CommitSurroundings ==
    ASSUME IInv, UNCHANGED <<groupVars, fixed, owed, events>>, lock' = Nobody,
           overdue' = FALSE \/ overdue' = overdue
    PROVE  Surroundings'
<1>1. overdue' \in BOOLEAN
  BY Zenon DEF IInv, Surroundings
<1> QED
  BY <1>1, SurroundingsStay

\* Saving the text half keeps the invariant.
LEMMA CommitTextKeeps ==
    ASSUME IInv, NEW c \in Consumers, CommitText(c)
    PROVE  IInv'
<1>1. /\ Coherent(c, "commit", run[c], lock, report.tags) /\ c \in TextConsumers
      /\ GoodReport(report)
  BY DEF IInv, CommitText
<1>2. lock = c /\ run[c].tags = report.tags /\ run[c].evaluation \in Evaluations
  BY <1>1 DEF Coherent
<1>3. GoodReport(WithText(c))
  BY <1>1, <1>2, WithTextGood
<1>4. GoodReport(report')
  BY <1>3, JudgedGood DEF CommitText
<1>5. Surroundings'
  BY CommitSurroundings DEF CommitText
<1>6. LeavesOthers(c)
  BY <1>2, OneCommits DEF LeavesOthers
<1>7. "COMPLETED" \in {"PROCESSING"} \cup Terminal /\ "ack" \in PCs \ {"announce", "download", "begin", "commit"}
  BY DEF Terminal, PCs
<1> QED
  BY <1>4, <1>5, <1>6, <1>7, Tells, Goes DEF CommitText

\* Saving the audio half keeps the invariant.
LEMMA CommitAudioKeeps ==
    ASSUME IInv, NEW c \in Consumers, CommitAudio(c)
    PROVE  IInv'
<1>1. Coherent(c, "commit", run[c], lock, report.tags) /\ GoodReport(report)
  BY DEF IInv, CommitAudio
<1>2. lock = c /\ run[c].tags = report.tags
  BY <1>1 DEF Coherent
<1>3. GoodReport(report')
  <2>1. CASE AudioSavable(report)
    <3>1. GoodReport(WithAudio(c))
      BY <1>1, <1>2, <2>1, WithAudioGood
    <3> QED BY <2>1, <3>1, JudgedGood DEF CommitAudio
  <2>2. CASE ~AudioSavable(report)
    BY <1>1, <2>2 DEF CommitAudio
  <2> QED BY <2>1, <2>2
<1>4. Surroundings'
  BY CommitSurroundings DEF CommitAudio
<1>5. LeavesOthers(c)
  BY <1>2, OneCommits DEF LeavesOthers
<1>6. "COMPLETED" \in {"PROCESSING"} \cup Terminal /\ "ack" \in PCs \ {"announce", "download", "begin", "commit"}
  BY DEF Terminal, PCs
<1> QED
  BY <1>3, <1>4, <1>5, <1>6, Tells, Goes DEF CommitAudio

\* The verdict alone changes no tags.
LEMMA JudgeKeeps ==
    ASSUME IInv, NEW c \in Consumers, Judge(c)
    PROVE  IInv'
<1>1. GoodReport(report)
  BY DEF IInv
<1>2. GoodReport(report') /\ report'.tags = report.tags
  BY <1>1, JudgedGood DEF Judge
<1>3. UNCHANGED <<groupVars, fixed, owed, events, lock, overdue>>
  BY DEF Judge
<1>4. overdue' \in BOOLEAN
  BY Zenon, <1>3 DEF IInv, Surroundings
<1>5. lock' \in Consumers \cup {Nobody}
  BY <1>3 DEF IInv, Surroundings
<1>6. Surroundings'
  BY <1>3, <1>4, <1>5, SurroundingsStay
<1>7. LeavesOthers(c)
  BY <1>2, <1>3 DEF LeavesOthers
<1>8. "COMPLETED" \in {"PROCESSING"} \cup Terminal /\ "ack" \in PCs \ {"announce", "download", "begin", "commit"}
  BY DEF Terminal, PCs
<1> QED
  BY <1>2, <1>6, <1>7, <1>8, Tells, Goes DEF Judge

\* Giving up changes the status alone.
LEMMA GiveUpKeeps ==
    ASSUME IInv, NEW c \in Consumers, GiveUp(c)
    PROVE  IInv'
<1>1. GoodReport(report)
  BY DEF IInv
<1>2. "FAILED" \in Status \ {"COMPLETED"}
  BY DEF Status, Terminal
<1>3. /\ GoodReport([report EXCEPT !.status = "FAILED"])
      /\ [report EXCEPT !.status = "FAILED"].tags = report.tags
  BY <1>1, <1>2, StatusGood
<1>4. report' = report \/ report' = [report EXCEPT !.status = "FAILED"]
  BY DEF GiveUp
<1>5. UNCHANGED <<groupVars, fixed, owed, events, lock, overdue>>
  BY DEF GiveUp
<1>6. overdue' \in BOOLEAN
  BY Zenon, <1>5 DEF IInv, Surroundings
<1>7. lock' \in Consumers \cup {Nobody}
  BY <1>5 DEF IInv, Surroundings
<1>8. Surroundings'
  BY <1>5, <1>6, <1>7, SurroundingsStay
<1>9. GoodReport(report') /\ LeavesOthers(c)
  BY <1>1, <1>3, <1>4, <1>5 DEF LeavesOthers
<1>10. "FAILED" \in {"PROCESSING"} \cup Terminal /\ "ack" \in PCs \ {"announce", "download", "begin", "commit"}
  BY DEF Terminal, PCs
<1> QED
  BY <1>8, <1>9, <1>10, Tells, Goes DEF GiveUp

\* A handler that ends, well or badly, takes at most its own lock with it.
LEMMA EndsKeep ==
    ASSUME IInv, NEW c \in Consumers, Ack(c) \/ ReportNotReady(c) \/ Dies(c)
    PROVE  IInv'
<1>1. lock' = lock \/ (lock = c /\ lock' = Nobody)
  BY DEF Ack, ReportNotReady, Dies, rowVars
<1>2. UNCHANGED <<fixed, report, overdue, owed, events>>
  BY DEF Ack, ReportNotReady, Dies, rowVars
<1>3. (Abandon(c) \/ Acknowledge(c)) /\ Finish(c)
  BY DEF Ack, ReportNotReady, Dies
<1>4. lock' \in Consumers \cup {Nobody}
  BY <1>1 DEF IInv, Surroundings
<1>5. Surroundings'
  BY <1>2, <1>3, <1>4, RequestOver
<1>6. GoodReport(report')
  BY <1>2 DEF IInv
<1>7. LeavesOthers(c)
  BY <1>1, <1>2, OneCommits DEF LeavesOthers
<1> QED
  BY <1>3, <1>5, <1>6, <1>7, Finishes

\* The grace loop touches no handler.
LEMMA GraceKeeps ==
    ASSUME IInv, Grace \/ GraceDies
    PROVE  IInv'
<1>1. GoodReport(report)
  BY DEF IInv
<1>2. GoodReport(report') /\ report'.tags = report.tags
  <2>1. CASE CompleteOverdue
    BY <1>1, <2>1, CompletedGood DEF CompleteOverdue, Overdue
  <2>2. CASE ~CompleteOverdue
    <3>1. report' = report
      BY <2>2 DEF Grace, GracePasses, PublishOverdue, GraceDies, rowVars
    <3> QED BY <1>1, <3>1
  <2> QED BY <2>1, <2>2
<1>3. UNCHANGED <<groupVars, session, lock, pc, run>>
  BY DEF Grace, GracePasses, CompleteOverdue, PublishOverdue, GraceDies, rowVars, fixed
<1>4. overdue' \in BOOLEAN /\ owed' \in BOOLEAN /\ requireAudio' \in AudioSettings
  BY Zenon DEF IInv, Surroundings, Grace, GracePasses, CompleteOverdue, PublishOverdue,
               GraceDies, rowVars, fixed
<1>5. events' \in Seq({"PROCESSING"} \cup Terminal)
  BY DEF IInv, Surroundings, Grace, GracePasses, CompleteOverdue, PublishOverdue,
         GraceDies, Terminal
<1>6. Surroundings'
  BY <1>3, <1>4, <1>5 DEF IInv, Surroundings, groupVars, GroupTypeOK
<1> QED
  BY <1>2, <1>3, <1>6 DEF IInv

-----------------------------------------------------------------------------
\* The invariant holds at the start.
LEMMA InitIInv == Init => IInv
<1> SUFFICES ASSUME Init PROVE IInv
  OBVIOUS
<1>1. GroupTypeOK
  BY GroupAssumption DEF Init, GroupInit, GroupTypeOK
<1>2. overdue \in BOOLEAN /\ owed \in BOOLEAN /\ requireAudio \in AudioSettings
  BY Zenon DEF Init
<1>3. events \in Seq({"PROCESSING"} \cup Terminal)
  BY DEF Init
<1>4. Surroundings
  BY <1>1, <1>2, <1>3 DEF Surroundings, Init
<1>5. GoodReport(report)
  BY ReportAssumption DEF Init, GoodReport, NoReport, Report, Status
<1>6. 0 \in 0 .. GiveUpAt
  BY GroupAssumption
<1>7. run \in [Consumers -> Run]
  BY <1>6, BegunTypes DEF Init
<1>8. pc \in [Consumers -> PCs]
  BY DEF Init, PCs
<1>9. \A c \in Consumers : Coherent(c, pc[c], run[c], lock, report.tags)
  BY DEF Init, Coherent
<1> QED
  BY <1>4, <1>5, <1>7, <1>8, <1>9 DEF IInv

\* The invariant survives every step: one case for each action of Next.
LEMMA NextIInv == IInv /\ [Next]_vars => IInv'
<1> SUFFICES ASSUME IInv, [Next]_vars PROVE IInv'
  OBVIOUS
<1>1. CASE \E c \in Consumers, m \in Messages : Receive(c, m)
  BY <1>1, ReceiveKeeps
<1>2. CASE \E c \in Consumers : Work(c) \/ Dies(c)
  BY <1>2, ReadsKeep, CreateKeeps, EnterKeeps, AnnounceKeeps, CallSucceedsKeeps,
     CallFailsKeeps, BeginSaveKeeps, CommitTextKeeps, CommitAudioKeeps, JudgeKeeps,
     GiveUpKeeps, EndsKeep DEF Work
<1>3. CASE Grace \/ GraceDies
  BY <1>3, GraceKeeps
<1>4. CASE UNCHANGED vars
  <2>1. UNCHANGED <<groupVars, session, report, lock, pc, run, events>>
    BY <1>4 DEF vars, fixed, rowVars
  <2>2. overdue' \in BOOLEAN /\ owed' \in BOOLEAN /\ requireAudio' \in AudioSettings
    BY Zenon, <1>4 DEF vars, fixed, rowVars, IInv, Surroundings
  <2>3. Surroundings'
    BY <2>1, <2>2 DEF IInv, Surroundings, groupVars, GroupTypeOK
  <2> QED BY <2>1, <2>3 DEF IInv
<1> QED
  BY <1>1, <1>2, <1>3, <1>4 DEF Next

\* The invariant holds in every reachable state.
LEMMA Invariance == Spec => []IInv
BY InitIInv, NextIInv, PTL DEF Spec

\* Every variable keeps its type, in particular the delivery count and the number of
\* tries their bounds.
THEOREM TypeCorrect == Spec => []TypeOK
BY Invariance, IInvImplies, PTL

\* The tag summary of a report is that of the halves saved, however many handlers of
\* either pipeline save at the same time, die or are overtaken.
THEOREM TagsSurvive == Spec => []TagsOfBothHalves
BY Invariance, IInvImplies, PTL

\* The overall score of a COMPLETED report counts the delivery score if there is one,
\* whoever completed it.
THEOREM ScoreIsWhole == Spec => []OverallCountsDelivery
BY Invariance, IInvImplies, PTL

-----------------------------------------------------------------------------
(* The status.                                                             *)

\* What a step does to the row.
LEMMA RowSteps ==
    ASSUME Next
    PROVE  \/ report' = report
           \/ report.status = "NONE" /\ report' = [report EXCEPT !.status = "PENDING"]
           \/ report.status = "PENDING" /\ report' = [report EXCEPT !.status = "PROCESSING"]
           \/ report.status \notin Terminal /\ report' = [report EXCEPT !.status = "FAILED"]
           \/ \E c \in Consumers : report' = Judged(WithText(c))
           \/ \E c \in Consumers : report' = Judged(WithAudio(c))
           \/ report' = Judged(report)
           \/ Overdue(report) /\ overdue' = overdue /\ report' = Completed(report)
<1>1. ASSUME NEW c \in Consumers, Work(c), report' # report
      PROVE  \/ CreateReport(c) \/ EnterProcessing(c) \/ CommitText(c) \/ CommitAudio(c)
             \/ Judge(c) \/ GiveUp(c)
  BY <1>1 DEF Work, ReadForText, Announce, CallSucceeds, CallFails, BeginSave, Ack,
     ReadForAudio, ReportNotReady, rowVars
<1>2. ASSUME NEW c \in Consumers, CreateReport(c) \/ EnterProcessing(c) \/ GiveUp(c)
      PROVE  \/ report' = report
             \/ report.status = "NONE" /\ report' = [report EXCEPT !.status = "PENDING"]
             \/ report.status = "PENDING" /\ report' = [report EXCEPT !.status = "PROCESSING"]
             \/ report.status \notin Terminal /\ report' = [report EXCEPT !.status = "FAILED"]
  BY <1>2 DEF CreateReport, EnterProcessing, GiveUp
<1>3. ASSUME NEW c \in Consumers, CommitText(c) \/ CommitAudio(c) \/ Judge(c)
      PROVE  \/ report' = report
             \/ report' = Judged(WithText(c))
             \/ report' = Judged(WithAudio(c))
             \/ report' = Judged(report)
  BY <1>3 DEF CommitText, CommitAudio, Judge
<1>4. ASSUME Grace \/ GraceDies
      PROVE  \/ report' = report
             \/ Overdue(report) /\ overdue' = overdue /\ report' = Completed(report)
  BY <1>4 DEF Grace, GracePasses, CompleteOverdue, PublishOverdue, GraceDies, rowVars
<1>5. ASSUME NEW c \in Consumers, Dies(c) \/ \E m \in Messages : Receive(c, m)
      PROVE  report' = report
  BY <1>5 DEF Dies, Receive, rowVars
<1> QED
  BY <1>1, <1>2, <1>3, <1>4, <1>5 DEF Next

\* COMPLETED and FAILED are final: no handler of either pipeline, nor the grace loop,
\* takes a report out of them, at whatever time it read the row.
THEOREM Finality == Spec => TerminalIsFinal
<1>1. TypeOK /\ [Next]_vars =>
        [report.status \in Terminal => report'.status = report.status]_vars
  <2> SUFFICES ASSUME TypeOK, Next, report.status \in Terminal
               PROVE  report'.status = report.status
    OBVIOUS
  <2>1. report \in Report
    BY DEF TypeOK
  <2>2. /\ report.status \notin {"NONE", "PENDING", "PROCESSING"}
        /\ report.status # "PROCESSING"
    BY DEF Terminal
  <2>3. ASSUME NEW c \in Consumers
        PROVE  /\ Judged(WithText(c)).status = report.status
               /\ Judged(WithAudio(c)).status = report.status
    <3>1. WithText(c).status = report.status /\ WithAudio(c).status = report.status
      BY <2>1 DEF WithText, WithAudio, Report
    <3> QED BY <2>2, <3>1 DEF Judged, Completable
  <2>4. Judged(report) = report /\ ~Overdue(report)
    BY <2>2 DEF Judged, Completable, Overdue
  <2> QED
    BY <2>2, <2>3, <2>4, RowSteps
<1> QED
  BY <1>1, TypeCorrect, PTL DEF TerminalIsFinal, Spec

\* A report is completed with its text half saved and, where audio is analysed, with
\* its audio half or after the grace period.
THEOREM NeverEarly == Spec => CompletedOnTime
<1>1. TypeOK /\ [Next]_vars =>
        [report.status # "COMPLETED" /\ report'.status = "COMPLETED"
           => /\ report'.text # Absent
              /\ requireAudio => report'.audio \/ overdue]_vars
  <2> SUFFICES ASSUME TypeOK, Next, report.status # "COMPLETED",
                      report'.status = "COMPLETED"
               PROVE  report'.text # Absent /\ (requireAudio => report'.audio \/ overdue)
    OBVIOUS
  <2>1. report \in Report
    BY DEF TypeOK
  <2>2. ASSUME NEW c \in Consumers, NEW r \in {WithText(c), WithAudio(c)},
               report' = Judged(r)
        PROVE  report'.text # Absent /\ (requireAudio => report'.audio)
    <3>1. r.status = report.status
      BY <2>1 DEF WithText, WithAudio, Report
    <3>2. Completable(r) /\ report' = Completed(r)
      BY <2>2, <3>1 DEF Judged
    <3>3. Completed(r).text = r.text /\ Completed(r).audio = r.audio
      BY <2>1 DEF Completed, WithText, WithAudio, Report
    <3> QED BY <3>2, <3>3 DEF Completable
  <2>3. CASE report' = Judged(report)
    <3>1. Completable(report) /\ report' = Completed(report)
      BY <2>3 DEF Judged
    <3>2. Completed(report).text = report.text /\ Completed(report).audio = report.audio
      BY <2>1 DEF Completed, Report
    <3> QED BY <3>1, <3>2 DEF Completable
  <2>4. CASE Overdue(report) /\ report' = Completed(report)
    BY <2>1, <2>4 DEF Overdue, Completed, Report
  <2>5. /\ [report EXCEPT !.status = "PENDING"].status # "COMPLETED"
        /\ [report EXCEPT !.status = "PROCESSING"].status # "COMPLETED"
        /\ [report EXCEPT !.status = "FAILED"].status # "COMPLETED"
    BY <2>1 DEF Report
  <2> QED
    BY <2>2, <2>3, <2>4, <2>5, RowSteps
<1> QED
  BY <1>1, TypeCorrect, PTL DEF CompletedOnTime, Spec

-----------------------------------------------------------------------------
(* The events.                                                             *)

\* Handler c is about to tell of an outcome.
Bears(c) == pc[c] = "announce" /\ run[c].news \in Terminal

\* No outcome has been told.
Untold == \A i \in DOMAIN events : events[i] \notin Terminal

\* Whoever is to tell of an outcome is alone, nobody has told before, and it is that of
\* the row.
EventInv ==
    /\ IInv
    /\ TerminalEventsTellTheTruth
    /\ \A c \in Consumers : Bears(c) =>
          /\ Untold
          /\ owed = FALSE
          /\ run[c].news = report.status
          /\ \A d \in Consumers : Bears(d) => d = c
    /\ owed = TRUE => Untold /\ report.status = "COMPLETED"

\* Without an outcome in the row nobody has told of one, or is to.
LEMMA OpenIsSilent ==
    ASSUME EventInv, report.status \notin Terminal
    PROVE  Untold /\ owed # TRUE /\ \A c \in Consumers : ~Bears(c)
BY DEF EventInv, TerminalEventsTellTheTruth, Bears, Untold, Terminal

\* A step that tells nothing, and after which nobody is to tell who was not before.
LEMMA QuietSteps ==
    ASSUME EventInv, IInv', events' = events, owed' = owed \/ owed' = FALSE,
           \A c \in Consumers : Bears(c)' => Bears(c) /\ run'[c].news = run[c].news,
           \/ report'.status = report.status
           \/ report.status \notin Terminal /\ report'.status \notin Terminal
    PROVE  EventInv'
<1>1. CASE report'.status = report.status
  BY <1>1 DEF EventInv, TerminalEventsTellTheTruth, Untold
<1>2. CASE report.status \notin Terminal
  <2>1. Untold /\ owed # TRUE /\ \A c \in Consumers : ~Bears(c)
    BY <1>2, OpenIsSilent
  <2>2. Untold' /\ owed' # TRUE /\ \A c \in Consumers : ~Bears(c)'
    BY <2>1 DEF Untold
  <2> QED BY <2>2 DEF EventInv, TerminalEventsTellTheTruth, Untold
<1> QED
  BY <1>1, <1>2

\* Handler c decides the outcome and is to tell of it.
LEMMA Concludes ==
    ASSUME EventInv, IInv', NEW c \in Consumers, NEW s \in Terminal, Tell(c, s),
           report.status \notin Terminal, report'.status = s, UNCHANGED <<events, owed>>
    PROVE  EventInv'
<1>1. Untold /\ owed # TRUE /\ \A d \in Consumers : ~Bears(d)
  BY OpenIsSilent
<1>2. owed \in BOOLEAN /\ pc \in [Consumers -> PCs] /\ run \in [Consumers -> Run]
  BY Zenon DEF EventInv, IInv, Surroundings
<1>3. owed' = FALSE /\ Untold'
  BY <1>1, <1>2 DEF Untold
<1>4. run'[c].news = s
  BY <1>2 DEF Tell, Run
<1>5. ASSUME NEW d \in Consumers, Bears(d)' PROVE d = c
  <2>1. ASSUME d # c PROVE pc'[d] = pc[d] /\ run'[d] = run[d]
    BY <1>2, <2>1 DEF Tell, Goto
  <2> QED BY <1>1, <1>5, <2>1 DEF Bears
<1> QED
  BY <1>3, <1>4, <1>5 DEF EventInv, TerminalEventsTellTheTruth, Untold

\* A step of handler c leaves the others where they are.
LEMMA OthersStay ==
    ASSUME IInv, NEW c \in Consumers, Work(c) \/ Dies(c) \/ \E m \in Messages : Receive(c, m)
    PROVE  \A d \in Consumers \ {c} : pc'[d] = pc[d] /\ run'[d] = run[d]
<1>1. pc \in [Consumers -> PCs] /\ run \in [Consumers -> Run]
  BY DEF IInv
<1> QED
  BY <1>1 DEF Work, Dies, Receive, ReadForText, CreateReport, EnterProcessing, Announce,
     CallSucceeds, CallFails, BeginSave, CommitText, CommitAudio, Judge, GiveUp, Ack,
     ReadForAudio, ReportNotReady, Goto, Finish, Tell

\* Handler c goes where it has nothing to tell, and the outcome stays open or as it is.
LEMMA GoesQuietly ==
    ASSUME EventInv, IInv', NEW c \in Consumers, UNCHANGED <<events, owed>>,
           Work(c) \/ Dies(c) \/ (\E m \in Messages : Receive(c, m)),
           ~Bears(c)',
           \/ report'.status = report.status
           \/ report.status \notin Terminal /\ report'.status \notin Terminal
    PROVE  EventInv'
<1>1. IInv
  BY DEF EventInv
<1>2. \A d \in Consumers \ {c} : pc'[d] = pc[d] /\ run'[d] = run[d]
  BY <1>1, OthersStay
<1>3. \A d \in Consumers : Bears(d)' => Bears(d) /\ run'[d].news = run[d].news
  BY <1>2 DEF Bears
<1>4. events' = events /\ owed' = owed
  OBVIOUS
<1> QED
  BY <1>3, <1>4, QuietSteps

\* The verdict changes the status of a PROCESSING report only.
LEMMA JudgedStatus ==
    ASSUME NEW r \in Report
    PROVE  /\ Completable(r) => Judged(r).status = "COMPLETED" /\ r.status = "PROCESSING"
           /\ ~Completable(r) => Judged(r) = r
BY DEF Judged, Completed, Completable, Report

\* Where a handler goes with nothing to tell.
LEMMA NothingToTell ==
    ASSUME IInv, NEW c \in Consumers, NEW p, Goto(c, p), p # "announce"
    PROVE  ~Bears(c)'
BY DEF IInv, Goto, Bears

\* The steps that may conclude the report: the one that does is to tell of it.
LEMMA VerdictsTell ==
    ASSUME EventInv, IInv', NEW c \in Consumers,
           CommitText(c) \/ CommitAudio(c) \/ Judge(c) \/ GiveUp(c)
    PROVE  EventInv'
<1>1. IInv /\ report \in Report
  BY DEF EventInv, IInv, GoodReport
<1>2. Work(c) /\ UNCHANGED <<events, owed>>
  BY DEF Work, CommitText, CommitAudio, Judge, GiveUp
<1>3. "COMPLETED" \in Terminal /\ "FAILED" \in Terminal /\ "PROCESSING" \notin Terminal
  BY DEF Terminal
<1>4. ASSUME NEW r \in Report, r.status = report.status, report' = Judged(r),
             IF Completable(r) THEN Tell(c, "COMPLETED") ELSE Goto(c, "ack") /\ UNCHANGED run
      PROVE  EventInv'
  <2>1. CASE Completable(r)
    BY <1>2, <1>3, <1>4, <2>1, JudgedStatus, Concludes
  <2>2. CASE ~Completable(r)
    <3>1. ~Bears(c)'
      BY <1>1, <1>4, <2>2, NothingToTell
    <3> QED BY <1>2, <1>4, <2>2, <3>1, JudgedStatus, GoesQuietly
  <2> QED BY <2>1, <2>2
<1>5. CASE CommitText(c)
  <2>1. Coherent(c, "commit", run[c], lock, report.tags) /\ c \in TextConsumers
    BY <1>1, <1>5 DEF IInv, CommitText
  <2>2. GoodReport(WithText(c))
    BY <1>1, <2>1, WithTextGood DEF Coherent, IInv
  <2>3. WithText(c) \in Report /\ WithText(c).status = report.status
    BY <1>1, <2>2 DEF GoodReport, WithText, Report
  <2> QED BY <1>4, <1>5, <2>3 DEF CommitText
<1>6. CASE CommitAudio(c) /\ AudioSavable(report)
  <2>1. Coherent(c, "commit", run[c], lock, report.tags)
    BY <1>1, <1>6 DEF IInv, CommitAudio
  <2>2. GoodReport(WithAudio(c))
    BY <1>1, <1>6, <2>1, WithAudioGood DEF Coherent, IInv
  <2>3. WithAudio(c) \in Report /\ WithAudio(c).status = report.status
    BY <1>1, <2>2 DEF GoodReport, WithAudio, Report
  <2> QED BY <1>4, <1>6, <2>3 DEF CommitAudio
<1>7. CASE CommitAudio(c) /\ ~AudioSavable(report)
  <2>1. Goto(c, "ack") /\ report' = report
    BY <1>7 DEF CommitAudio
  <2>2. ~Bears(c)'
    BY <1>1, <2>1, NothingToTell
  <2> QED BY <1>2, <2>1, <2>2, GoesQuietly
<1>8. CASE Judge(c)
  BY <1>1, <1>4, <1>8 DEF Judge
<1>9. CASE GiveUp(c)
  <2>1. CASE report.status \notin Terminal
    <3>1. report' = [report EXCEPT !.status = "FAILED"] /\ Tell(c, "FAILED")
      BY <1>9, <2>1 DEF GiveUp
    <3>2. report'.status = "FAILED"
      BY <1>1, <3>1 DEF Report
    <3> QED BY <1>2, <1>3, <2>1, <3>1, <3>2, Concludes
  <2>2. CASE report.status \in Terminal
    <3>1. Goto(c, "ack") /\ report' = report
      BY <1>9, <2>2 DEF GiveUp
    <3>2. ~Bears(c)'
      BY <1>1, <3>1, NothingToTell
    <3> QED BY <1>2, <3>1, <3>2, GoesQuietly
  <2> QED BY <2>1, <2>2
<1> QED
  BY <1>5, <1>6, <1>7, <1>8, <1>9

\* A handler tells what it has to tell, and has nothing to tell afterwards.
LEMMA AnnounceTells ==
    ASSUME EventInv, IInv', NEW c \in Consumers, Announce(c)
    PROVE  EventInv'
<1>1. /\ IInv /\ pc[c] = "announce" /\ events \in Seq({"PROCESSING"} \cup Terminal)
      /\ run[c].news \in {"PROCESSING"} \cup Terminal
  BY DEF EventInv, IInv, Surroundings, Coherent, Announce
<1>2. /\ report' = report /\ owed' = owed /\ events' = Append(events, run[c].news)
  BY DEF Announce, rowVars
<1>3. ~Bears(c)'
  <2>1. PICK p : Goto(c, p) /\ p # "announce"
    BY DEF Announce
  <2> QED BY <1>1, <2>1, NothingToTell
<1>4. \A d \in Consumers \ {c} : pc'[d] = pc[d] /\ run'[d] = run[d]
  BY <1>1, OthersStay DEF Work
<1>5. \A d \in Consumers : Bears(d)' => d # c /\ Bears(d) /\ run'[d].news = run[d].news
  BY <1>3, <1>4 DEF Bears
<1>6. /\ DOMAIN events = 1 .. Len(events) /\ Len(events) \in Nat
      /\ DOMAIN events' = 1 .. Len(events) + 1
      /\ events'[Len(events) + 1] = run[c].news
      /\ \A i \in 1 .. Len(events) : events'[i] = events[i]
  BY <1>1, <1>2
<1>7. CASE Bears(c)
  <2>1. /\ Untold /\ owed = FALSE /\ run[c].news = report.status
        /\ \A d \in Consumers : Bears(d) => d = c
    BY <1>7 DEF EventInv
  <2>2. \A d \in Consumers : ~Bears(d)'
    BY <1>5, <2>1
  <2>3. TerminalEventsTellTheTruth'
    BY <1>2, <1>6, <2>1 DEF Untold, TerminalEventsTellTheTruth
  <2> QED BY <1>2, <2>1, <2>2, <2>3 DEF EventInv
<1>8. CASE ~Bears(c)
  <2>1. run[c].news \notin Terminal
    BY <1>1, <1>8 DEF Bears
  <2>2. Untold => Untold'
    BY <1>6, <2>1 DEF Untold
  <2>3. TerminalEventsTellTheTruth'
    BY <1>2, <1>6, <2>1 DEF EventInv, TerminalEventsTellTheTruth
  <2> QED BY <1>2, <1>5, <2>2, <2>3 DEF EventInv
<1> QED
  BY <1>7, <1>8

\* The other steps of a handler tell nothing.
LEMMA OtherStepsTellNothing ==
    ASSUME EventInv, IInv', NEW c \in Consumers,
           \/ \E m \in Messages : Receive(c, m)
           \/ ReadForText(c) \/ ReadForAudio(c) \/ CreateReport(c) \/ EnterProcessing(c)
           \/ CallSucceeds(c) \/ CallFails(c) \/ BeginSave(c)
           \/ Ack(c) \/ ReportNotReady(c) \/ Dies(c)
    PROVE  EventInv'
<1>1. /\ IInv /\ report \in Report
      /\ pc \in [Consumers -> PCs] /\ run \in [Consumers -> Run]
  BY DEF EventInv, IInv, GoodReport
<1>2. Work(c) \/ Dies(c) \/ (\E m \in Messages : Receive(c, m))
  BY DEF Work
<1>3. UNCHANGED <<events, owed>>
  BY DEF Receive, ReadForText, ReadForAudio, CreateReport, EnterProcessing, CallSucceeds,
         CallFails, BeginSave, Ack, ReportNotReady, Dies
<1>4. \/ report'.status = report.status
      \/ report.status \notin Terminal /\ report'.status \notin Terminal
  BY <1>1 DEF Receive, ReadForText, ReadForAudio, CreateReport, EnterProcessing, CallSucceeds,
         CallFails, BeginSave, Ack, ReportNotReady, Dies, rowVars, Report, Terminal
<1>5. ~Bears(c)'
  <2>1. CASE \/ \E m \in Messages : Receive(c, m)
             \/ CreateReport(c) \/ CallSucceeds(c) \/ BeginSave(c)
             \/ Ack(c) \/ ReportNotReady(c) \/ Dies(c)
    BY <1>1, <2>1 DEF Receive, CreateReport, CallSucceeds, BeginSave, Ack, ReportNotReady,
                      Dies, Finish, Goto, Bears
  <2>2. CASE ReadForText(c) \/ ReadForAudio(c)
    BY <1>1, <2>2 DEF ReadForText, ReadForAudio, AfterTextRead, AfterAudioRead, Goto, Bears
  <2>3. CASE EnterProcessing(c)
    <3>1. CASE Tell(c, "PROCESSING")
      BY <1>1, <3>1 DEF Tell, Bears, Run, Terminal
    <3>2. CASE Goto(c, "ack")
      BY <1>1, <3>2, NothingToTell
    <3> QED BY <2>3, <3>1, <3>2 DEF EnterProcessing
  <2>4. CASE CallFails(c)
    BY <1>1, <2>4 DEF CallFails, Calling, Finish, Goto, Bears
  <2> QED BY <2>1, <2>2, <2>3, <2>4
<1> QED
  BY <1>2, <1>3, <1>4, <1>5, GoesQuietly

\* The grace loop concludes an open report, and tells of it once or never.
LEMMA GraceTells ==
    ASSUME EventInv, IInv', Grace \/ GraceDies
    PROVE  EventInv'
<1>1. /\ report \in Report /\ events \in Seq({"PROCESSING"} \cup Terminal)
      /\ "PROCESSING" \notin Terminal /\ "COMPLETED" \in Terminal
  BY DEF EventInv, IInv, GoodReport, Surroundings, Terminal
<1>2. UNCHANGED <<pc, run>> /\ \A c \in Consumers : Bears(c)' = Bears(c)
  BY DEF Grace, GracePasses, CompleteOverdue, PublishOverdue, GraceDies, Bears
<1>3. CASE GracePasses \/ GraceDies
  <2>1. report' = report /\ events' = events
    BY <1>3 DEF GracePasses, GraceDies, rowVars
  <2>2. owed' = owed \/ owed' = FALSE
    BY <1>3 DEF GracePasses, GraceDies
  <2> QED BY <1>2, <2>1, <2>2, QuietSteps
<1>4. CASE CompleteOverdue
  <2>1. report.status = "PROCESSING" /\ report' = Completed(report) /\ events' = events
    BY <1>4 DEF CompleteOverdue, Overdue
  <2>2. Untold /\ \A c \in Consumers : ~Bears(c)
    BY <1>1, <2>1, OpenIsSilent
  <2>3. Untold' /\ \A c \in Consumers : ~Bears(c)'
    BY <1>2, <2>1, <2>2 DEF Untold
  <2>4. report'.status = "COMPLETED"
    BY <1>1, <2>1 DEF Completed, Report
  <2> QED BY <2>3, <2>4 DEF EventInv, TerminalEventsTellTheTruth, Untold
<1>5. CASE PublishOverdue
  <2>1. owed = TRUE
    BY Zenon, <1>5 DEF PublishOverdue, EventInv, IInv, Surroundings
  <2>2. Untold /\ report.status = "COMPLETED" /\ \A c \in Consumers : ~Bears(c)
    BY <2>1 DEF EventInv
  <2>3. /\ events' = Append(events, "COMPLETED") /\ report' = report /\ owed' = FALSE
    BY <1>5 DEF PublishOverdue, rowVars
  <2>4. TerminalEventsTellTheTruth'
    BY <1>1, <2>2, <2>3 DEF Untold, TerminalEventsTellTheTruth
  <2> QED BY <1>2, <2>2, <2>3, <2>4 DEF EventInv
<1> QED
  BY <1>3, <1>4, <1>5 DEF Grace

\* The invariant of the events survives every step.
LEMMA NextEventInv == EventInv /\ [Next]_vars => EventInv'
<1> SUFFICES ASSUME EventInv, [Next]_vars PROVE EventInv'
  OBVIOUS
<1>1. IInv'
  BY NextIInv DEF EventInv
<1>2. CASE \E c \in Consumers, m \in Messages : Receive(c, m)
  BY <1>1, <1>2, OtherStepsTellNothing
<1>3. CASE \E c \in Consumers : Work(c) \/ Dies(c)
  BY <1>1, <1>3, OtherStepsTellNothing, AnnounceTells, VerdictsTell DEF Work
<1>4. CASE Grace \/ GraceDies
  BY <1>1, <1>4, GraceTells
<1>5. CASE UNCHANGED vars
  <2>1. UNCHANGED <<report, pc, run, owed, events>>
    BY <1>5 DEF vars, rowVars
  <2>2. \A c \in Consumers : Bears(c)' = Bears(c)
    BY <2>1 DEF Bears
  <2> QED BY <1>1, <2>1, <2>2, QuietSteps
<1> QED
  BY <1>2, <1>3, <1>4, <1>5 DEF Next

\* The backend is told of an outcome once at most, and of the one the row has, whoever
\* concluded the report and whoever died before telling.
THEOREM OutcomeIsToldOnce == Spec => []TerminalEventsTellTheTruth
<1>1. Init => EventInv
  <2> SUFFICES ASSUME Init PROVE EventInv
    OBVIOUS
  <2>1. IInv /\ owed # TRUE
    BY InitIInv DEF Init
  <2>2. events = <<>> /\ \A c \in Consumers : ~Bears(c)
    BY DEF Init, Bears
  <2>3. TerminalEventsTellTheTruth
    BY <2>2 DEF TerminalEventsTellTheTruth
  <2> QED BY <2>1, <2>2, <2>3 DEF EventInv
<1>2. EventInv => TerminalEventsTellTheTruth
  BY DEF EventInv
<1> QED
  BY <1>1, <1>2, NextEventInv, PTL DEF Spec

-----------------------------------------------------------------------------
(* Who works on an unfinished report.                                      *)

Unfinished == report.status \in {"PENDING", "PROCESSING"} /\ report.text = Absent

\* A handler at p, with locals r, has the text half of a report of status s before it and
\* does not yield.
InStep(p, r, s) ==
    \/ p = "read" /\ r.count > 1
    \/ p = "fail"
    \/ p = "enter" /\ s = "PENDING"
    \/ p = "announce" /\ r.news = "PROCESSING" /\ s = "PROCESSING"
    \/ p \in {"evaluate", "summarise", "begin", "commit"} /\ s = "PROCESSING"

\* Request m has been delivered, and is worked on or can be claimed.
Vouches(m) ==
    /\ m \in TextRequests /\ pel[m] = "pending"
    /\ \A c \in Consumers : handling[c] = m => InStep(pc[c], run[c], report.status)

\* What is in hand is pending, delivered, in one hand, and of the handler's stream.
Held ==
    /\ \A c \in Consumers : handling[c] # NoMessage =>
          pel[handling[c]] = "pending" /\ Subscribed(c, handling[c])
    /\ \A c, d \in Consumers : handling[c] = handling[d] /\ handling[c] # NoMessage => c = d
    /\ \A c \in Consumers : pc[c] # "idle" => handling[c] # NoMessage
    /\ \A m \in Messages : pel[m] = "pending" => deliveries[m] > 0

\* Only a session with pairs gets a report, and from the text half only.
HasSubject ==
    /\ report.status # "NONE" => HasPairs
    /\ \A c \in Consumers : pc[c] \in {"create", "fail"} => HasPairs
    /\ \A c \in Consumers : pc[c] \in {"create", "enter"} => c \in TextConsumers

WorkInv ==
    /\ IInv
    /\ Held
    /\ HasSubject
    /\ Unfinished => \E m \in Messages : Vouches(m)

\* The types the proofs below need.
LEMMA WorkTypes ==
    ASSUME IInv
    PROVE  /\ pc \in [Consumers -> PCs] /\ run \in [Consumers -> Run]
           /\ handling \in [Consumers -> Messages \cup {NoMessage}]
           /\ pel \in [Messages -> {"new", "pending", "acked"}]
           /\ deliveries \in [Messages -> 0 .. GiveUpAt]
           /\ GiveUpAt \in Nat /\ GiveUpAt > 1
           /\ TextRequests \subseteq Messages /\ NoMessage \notin Messages
           /\ report \in Report
BY GroupAssumption, ReportAssumption DEF IInv, Surroundings, GroupTypeOK, GoodReport

\* A delivery of m to c: what is in hand stays so, and m is in one hand.
LEMMA ReceiveHeld ==
    ASSUME IInv, Held, ~SlowHandlers, NEW c \in Consumers, NEW m \in Messages, Receive(c, m)
    PROVE  /\ Held'
           /\ \A d \in Consumers : handling[d] # m
<1>1. /\ pel' = [pel EXCEPT ![m] = "pending"] /\ handling' = [handling EXCEPT ![c] = m]
      /\ deliveries' = [deliveries EXCEPT ![m] = DeliveryCount(m)]
      /\ Subscribed(c, m)
  BY DEF Receive, Deliver
<1>2. Subscribed(c, m) /\ (pel[m] = "new" \/ Claimable(m))
  BY DEF Receive, Deliver
<1>3. ASSUME NEW d \in Consumers PROVE handling[d] # m
  BY <1>2, WorkTypes DEF Held, Claimable
<1>4. ASSUME NEW d \in Consumers, handling'[d] # NoMessage
      PROVE  pel'[handling'[d]] = "pending" /\ Subscribed(d, handling'[d])
  BY <1>1, <1>2, <1>3, <1>4, WorkTypes DEF Held
<1>5. ASSUME NEW d \in Consumers, NEW e \in Consumers, handling'[d] = handling'[e],
             handling'[d] # NoMessage
      PROVE  d = e
  BY <1>1, <1>3, <1>5, WorkTypes DEF Held
<1>6. ASSUME NEW d \in Consumers, pc'[d] # "idle" PROVE handling'[d] # NoMessage
  <2>1. CASE d = c
    BY <1>1, <2>1, WorkTypes
  <2>2. CASE d # c
    <3>1. pc'[d] = pc[d] /\ handling'[d] = handling[d]
      BY <1>1, <2>2, OthersStay, WorkTypes
    <3> QED BY <1>6, <3>1 DEF Held
  <2> QED BY <2>1, <2>2
<1>7. ASSUME NEW n \in Messages, pel'[n] = "pending" PROVE deliveries'[n] > 0
  <2>1. DeliveryCount(m) > 0
    BY WorkTypes DEF DeliveryCount, Counted
  <2> QED BY <1>1, <1>7, <2>1, WorkTypes DEF Held
<1> QED
  BY <1>3, <1>4, <1>5, <1>6, <1>7 DEF Held, Subscribed

\* What a handler does to its own request: it keeps it, gives it back or acknowledges it.
LEMMA OwnRequest ==
    ASSUME IInv, NEW c \in Consumers, Work(c) \/ Dies(c)
    PROVE  \/ UNCHANGED groupVars /\ pc[c] # "idle"
           \/ Finish(c) /\ Abandon(c)
           \/ Ack(c)
<1>1. CASE ReadForText(c) \/ ReadForAudio(c) \/ CreateReport(c) \/ EnterProcessing(c) \/ Announce(c)
  BY <1>1 DEF ReadForText, ReadForAudio, CreateReport, EnterProcessing, Announce
<1>2. CASE CallSucceeds(c) \/ BeginSave(c) \/ CommitText(c) \/ CommitAudio(c)
  BY <1>2 DEF CallSucceeds, Calling, BeginSave, CommitText, CommitAudio
<1>3. CASE Judge(c) \/ GiveUp(c) \/ ReportNotReady(c) \/ Dies(c) \/ Ack(c)
  BY <1>3 DEF Judge, GiveUp, ReportNotReady, Dies
<1>4. CASE CallFails(c)
  BY <1>4 DEF CallFails, Calling, groupVars
<1> QED
  BY <1>1, <1>2, <1>3, <1>4 DEF Work

\* The handlers' steps leave what is in hand in one hand.
LEMMA HandlersHeld ==
    ASSUME IInv, Held, NEW c \in Consumers, Work(c) \/ Dies(c)
    PROVE  Held'
<1>1. \A d \in Consumers \ {c} : pc'[d] = pc[d]
  BY OthersStay
<1>2. CASE UNCHANGED groupVars /\ pc[c] # "idle"
  <2>1. UNCHANGED <<pel, deliveries, handling>>
    BY <1>2 DEF groupVars
  <2>2. \A d \in Consumers : pc'[d] # "idle" => handling[d] # NoMessage
    BY <1>1, <1>2 DEF Held
  <2> QED BY <2>1, <2>2 DEF Held, Subscribed
<1>3. CASE (Finish(c) /\ Abandon(c)) \/ Ack(c)
  <2>1. /\ pc'[c] = "idle" /\ handling' = [handling EXCEPT ![c] = NoMessage]
        /\ deliveries' = deliveries
    BY <1>3, WorkTypes DEF Finish, Goto, Ack, Abandon, Acknowledge
  <2>2. \/ pel' = pel
        \/ pel' = [pel EXCEPT ![handling[c]] = "acked"] /\ pc[c] = "ack"
    BY <1>3 DEF Ack, Abandon, Acknowledge
  <2>3. ASSUME NEW d \in Consumers, handling'[d] # NoMessage
        PROVE  /\ d # c /\ handling'[d] = handling[d] /\ Subscribed(d, handling[d])
               /\ handling[d] # handling[c] /\ pel[handling[d]] = "pending"
    BY <2>1, <2>3, WorkTypes DEF Held
  <2>4. ASSUME NEW d \in Consumers, handling'[d] # NoMessage
        PROVE  pel'[handling'[d]] = "pending" /\ Subscribed(d, handling'[d])
    BY <2>2, <2>3, <2>4, WorkTypes
  <2>5. ASSUME NEW d \in Consumers, NEW e \in Consumers, handling'[d] = handling'[e],
               handling'[d] # NoMessage
        PROVE  d = e
    <3>1. handling[d] = handling[e] /\ handling[d] # NoMessage
      BY <2>3, <2>5
    <3> QED BY <3>1 DEF Held
  <2>6. ASSUME NEW d \in Consumers, pc'[d] # "idle" PROVE handling'[d] # NoMessage
    <3>1. d # c /\ pc'[d] = pc[d] /\ handling'[d] = handling[d]
      BY <1>1, <2>1, <2>6, WorkTypes
    <3> QED BY <2>6, <3>1 DEF Held
  <2>7. ASSUME NEW n \in Messages, pel'[n] = "pending" PROVE deliveries'[n] > 0
    <3>1. pel[n] = "pending"
      BY <2>2, <2>7, WorkTypes
    <3> QED BY <2>1, <3>1 DEF Held
  <2> QED BY <2>4, <2>5, <2>6, <2>7 DEF Held, Subscribed
<1> QED
  BY <1>2, <1>3, OwnRequest

\* A saved text half is never lost; a report that appears is the work of a handler that
\* creates it or gives it up.
LEMMA RowGrows ==
    ASSUME IInv, Next
    PROVE  /\ report'.text = Absent => report.text = Absent
           /\ report.status = "NONE" /\ report'.status # "NONE" =>
                 \E c \in Consumers : pc[c] \in {"create", "fail"}
<1>1. report \in Report
  BY WorkTypes
<1>2. CASE \E c \in Consumers : CommitText(c)
  <2>1. PICK c \in Consumers : CommitText(c)
    BY <1>2
  <2>2. Coherent(c, "commit", run[c], lock, report.tags) /\ c \in TextConsumers
    BY <2>1 DEF IInv, CommitText
  <2>3. WithText(c).text \in Evaluations /\ WithText(c).status = report.status
    BY <1>1, <2>2 DEF Coherent, WithText, Report
  <2>4. report'.text = WithText(c).text
    BY <1>1, <2>1, <2>3 DEF CommitText, Judged, Completed, WithText, Report
  <2>5. report.status = "NONE" => report'.status = "NONE"
    BY <1>1, <2>1, <2>3 DEF CommitText, Judged, Completable
  <2> QED BY <2>3, <2>4, <2>5, ReportAssumption
<1>3. CASE \E c \in Consumers : CommitAudio(c)
  <2>1. PICK c \in Consumers : CommitAudio(c)
    BY <1>3
  <2>2. WithAudio(c).text = report.text /\ WithAudio(c).status = report.status
    BY <1>1 DEF WithAudio, Report
  <2>3. report'.text = report.text
    BY <1>1, <2>1, <2>2 DEF CommitAudio, Judged, Completed, WithAudio, Report
  <2>4. report.status = "NONE" => report'.status = "NONE"
    BY <1>1, <2>1, <2>2 DEF CommitAudio, Judged, Completable
  <2> QED BY <2>3, <2>4
<1>4. CASE \E c \in Consumers : Judge(c) \/ GiveUp(c) \/ EnterProcessing(c) \/ CreateReport(c)
  <2>1. PICK c \in Consumers : Judge(c) \/ GiveUp(c) \/ EnterProcessing(c) \/ CreateReport(c)
    BY <1>4
  <2>2. report'.text = report.text
    BY <1>1, <2>1 DEF Judge, GiveUp, EnterProcessing, CreateReport, Judged, Completed, Report
  <2>3. CASE GiveUp(c) \/ CreateReport(c)
    BY <2>2, <2>3 DEF GiveUp, CreateReport
  <2>4. CASE Judge(c) \/ EnterProcessing(c)
    <3>1. report.status = "NONE" => report' = report
      BY <2>4 DEF Judge, EnterProcessing, Judged, Completable
    <3> QED BY <2>2, <3>1
  <2> QED BY <2>1, <2>3, <2>4
<1>5. CASE CompleteOverdue
  BY <1>1, <1>5 DEF CompleteOverdue, Overdue, Completed, Report
<1>6. CASE report' = report
  BY <1>6
<1> QED
  BY <1>2, <1>3, <1>4, <1>5, <1>6
  DEF Next, Work, Grace, Receive, ReadForText, Announce, CallSucceeds, CallFails, BeginSave,
      Ack, ReadForAudio, ReportNotReady, Dies, GracePasses, PublishOverdue, GraceDies, rowVars

\* Only a session with pairs gets a report.
LEMMA SubjectStays ==
    ASSUME IInv, HasSubject, Next
    PROVE  HasSubject'
<1>1. report'.status # "NONE" => HasPairs
  BY RowGrows DEF HasSubject
<1>2. session' = session
  BY DEF Next, Work, Grace, Receive, ReadForText, CreateReport, EnterProcessing, Announce,
         CallSucceeds, CallFails, BeginSave, CommitText, CommitAudio, Judge, GiveUp, Ack,
         ReadForAudio, ReportNotReady, Dies, GracePasses, CompleteOverdue, PublishOverdue,
         GraceDies, fixed
<1>3. ASSUME NEW c \in Consumers, pc'[c] \in {"create", "enter", "fail"}
      PROVE  /\ pc'[c] \in {"create", "fail"} => HasPairs
             /\ pc'[c] \in {"create", "enter"} => c \in TextConsumers
  <2>1. CASE pc'[c] = pc[c]
    BY <2>1 DEF HasSubject
  <2>2. CASE ReadForText(c)
    <3>1. pc'[c] = AfterTextRead(run[c].count) /\ c \in TextConsumers
      BY <2>2, WorkTypes DEF ReadForText, Goto
    <3>2. CASE HasPairs
      BY <3>1, <3>2
    <3>3. CASE ~HasPairs
      <4>1. report.status = "NONE"
        BY <3>3 DEF HasSubject
      <4>2. AfterTextRead(run[c].count) \in {"ack", "judge"}
        <5>1. report.status \notin Terminal
          BY <4>1 DEF Terminal
        <5>2. run[c].count \in Nat /\ GiveUpAt \in Nat
          BY WorkTypes DEF Run
        <5> QED BY <3>3, <4>1, <5>1, <5>2 DEF AfterTextRead
      <4> QED BY <3>1, <4>2
    <3> QED BY <3>2, <3>3
  <2>3. CASE CreateReport(c)
    BY <2>3, WorkTypes DEF CreateReport, Goto, HasSubject
  <2>4. CASE \/ \E m \in Messages : Receive(c, m)
             \/ ReadForAudio(c) \/ EnterProcessing(c) \/ Announce(c) \/ BeginSave(c)
             \/ CallSucceeds(c) \/ Ack(c) \/ ReportNotReady(c) \/ Dies(c)
    BY <1>3, <2>4, WorkTypes DEF Receive, ReadForAudio, AfterAudioRead, EnterProcessing, Announce,
       BeginSave, CallSucceeds, Ack, ReportNotReady, Dies, Finish, Goto, Tell
  <2>5. CASE CallFails(c)
    BY <1>3, <2>1, <2>5, WorkTypes DEF CallFails, Finish, Goto
  <2>6. CASE CommitText(c) \/ CommitAudio(c) \/ Judge(c) \/ GiveUp(c)
    BY <1>3, <2>6, WorkTypes DEF CommitText, CommitAudio, Judge, GiveUp, Goto, Tell
  <2>7. CASE Grace \/ GraceDies
    BY <2>1, <2>7 DEF Grace, GracePasses, CompleteOverdue, PublishOverdue, GraceDies
  <2>8. CASE \E d \in Consumers \ {c} :
                Work(d) \/ Dies(d) \/ \E m \in Messages : Receive(d, m)
    BY <2>1, <2>8, OthersStay
  <2> QED
    BY <2>2, <2>3, <2>4, <2>5, <2>6, <2>7, <2>8 DEF Next, Work
<1> QED
  BY <1>1, <1>2, <1>3 DEF HasSubject, HasPairs

\* A text handler that is in step and leaves the report unfinished in its status stays in
\* step, or gives its request back.
LEMMA StaysInStep ==
    ASSUME IInv, HasSubject, Unfinished, Unfinished', NEW c \in TextConsumers, c \in Consumers,
           Work(c) \/ Dies(c),
           InStep(pc[c], run[c], report.status), report'.status = report.status
    PROVE  /\ pel' = pel
           /\ handling'[c] = NoMessage \/ InStep(pc'[c], run'[c], report'.status)
<1>1. /\ pc \in [Consumers -> PCs] /\ run \in [Consumers -> Run]
      /\ handling \in [Consumers -> Messages \cup {NoMessage}]
      /\ report \in Report /\ GiveUpAt \in Nat /\ GiveUpAt > 1
      /\ report.status \notin Terminal
  BY WorkTypes DEF Unfinished, Terminal
<1>2. c \notin AudioConsumers
  BY ReportAssumption
<1>3. CASE ReadForText(c)
  <2>1. pel' = pel /\ pc'[c] = AfterTextRead(run[c].count)
    BY <1>1, <1>3 DEF ReadForText, Goto, groupVars
  <2>2. run[c].count > 1
    BY <1>3 DEF ReadForText, InStep
  <2>3. HasPairs /\ report.status \in {"PENDING", "PROCESSING"} /\ report.text = Absent
    BY DEF HasSubject, Unfinished
  <2>4. run[c].count # 1
    BY <1>1, <2>2 DEF Run
  <2>5. \/ AfterTextRead(run[c].count) = "fail"
        \/ AfterTextRead(run[c].count) = "enter" /\ report.status = "PENDING"
        \/ AfterTextRead(run[c].count) = "evaluate" /\ report.status = "PROCESSING"
    BY <1>1, <2>3, <2>4 DEF AfterTextRead
  <2> QED BY <2>1, <2>5 DEF InStep
<1>4. CASE Announce(c)
  <2>1. pel' = pel /\ pc'[c] = "evaluate" /\ report.status = "PROCESSING"
    BY <1>1, <1>4 DEF Announce, Goto, InStep, groupVars
  <2> QED BY <2>1 DEF InStep
<1>5. CASE CallSucceeds(c)
  <2>1. /\ pel' = pel /\ pc'[c] \in {"summarise", "begin"} /\ report.status = "PROCESSING"
    BY <1>1, <1>5 DEF CallSucceeds, Calling, Goto, InStep, groupVars
  <2> QED BY <2>1 DEF InStep
<1>6. CASE CallFails(c)
  <2>1. CASE Abandon(c)
    BY <1>1, <2>1 DEF Abandon
  <2>2. CASE UNCHANGED <<groupVars, pc>>
    <3>1. pel' = pel /\ pc'[c] = pc[c] /\ report.status = "PROCESSING" /\ pc[c] \in {"evaluate", "summarise"}
      BY <1>6, <2>2 DEF CallFails, Calling, InStep, groupVars
    <3> QED BY <3>1 DEF InStep
  <2> QED BY <1>6, <2>1, <2>2 DEF CallFails
<1>7. CASE BeginSave(c)
  <2>1. pel' = pel /\ pc'[c] = "commit" /\ report.status = "PROCESSING"
    BY <1>1, <1>7 DEF BeginSave, Goto, InStep, groupVars
  <2> QED BY <2>1 DEF InStep
<1>8. CASE CommitText(c)
  <2>1. run[c].evaluation \in Evaluations
    BY <1>8 DEF CommitText, IInv, Coherent
  <2>2. report'.text = run[c].evaluation
    BY <1>1, <1>8 DEF CommitText, WithText, Judged, Completed, Report
  <2> QED BY <2>1, <2>2, ReportAssumption DEF Unfinished
<1>9. CASE GiveUp(c)
  BY <1>1, <1>9 DEF GiveUp, Terminal, Report
<1>10. CASE EnterProcessing(c)
  BY <1>1, <1>10 DEF EnterProcessing, InStep, Report
<1>11. CASE Dies(c)
  BY <1>1, <1>11 DEF Dies, Abandon
<1>12. CASE CreateReport(c) \/ Judge(c) \/ Ack(c)
  BY <1>12 DEF CreateReport, Judge, Ack, InStep
<1>13. CASE CommitAudio(c) \/ ReadForAudio(c) \/ ReportNotReady(c)
  BY <1>2, <1>13 DEF CommitAudio, ReadForAudio, ReportNotReady
<1> QED
  BY <1>3, <1>4, <1>5, <1>6, <1>7, <1>8, <1>9, <1>10, <1>11, <1>12, <1>13 DEF Work

\* Who changes the status and leaves the report unfinished is in step with what it set.
LEMMA ComesIntoStep ==
    ASSUME IInv, HasSubject, NEW c \in Consumers, Work(c) \/ Dies(c),
           report'.status # report.status, Unfinished'
    PROVE  /\ UNCHANGED groupVars /\ pc[c] # "idle" /\ c \in TextConsumers
           /\ InStep(pc'[c], run'[c], report'.status)
<1>1. pc \in [Consumers -> PCs] /\ run \in [Consumers -> Run] /\ report \in Report
  BY WorkTypes
<1>2. report'.status \in {"PENDING", "PROCESSING"}
  BY DEF Unfinished
<1>3. CASE CreateReport(c)
  <2>1. pc'[c] = "enter" /\ report'.status = "PENDING"
    BY <1>1, <1>3 DEF CreateReport, Goto, Report
  <2> QED BY <1>3, <2>1 DEF CreateReport, HasSubject, InStep
<1>4. CASE EnterProcessing(c)
  <2>1. pc'[c] = "announce" /\ report'.status = "PROCESSING" /\ run'[c].news = "PROCESSING"
    BY <1>1, <1>4 DEF EnterProcessing, Tell, Goto, Report, Run
  <2> QED BY <1>4, <2>1 DEF EnterProcessing, HasSubject, InStep
<1>5. CASE CommitText(c)
  <2>1. WithText(c).status = report.status /\ WithText(c) = [WithText(c) EXCEPT !.status = @]
    BY <1>1 DEF WithText, Report
  <2>2. report'.status \in {report.status, "COMPLETED"}
    BY <1>1, <1>5, <2>1 DEF CommitText, Judged, Completed, WithText, Report
  <2> QED BY <1>2, <2>2
<1>6. CASE CommitAudio(c)
  <2>1. report'.status \in {report.status, "COMPLETED"}
    BY <1>1, <1>6 DEF CommitAudio, Judged, Completed, WithAudio, Report
  <2> QED BY <1>2, <2>1
<1>7. CASE Judge(c) \/ GiveUp(c)
  <2>1. report'.status \in {report.status, "COMPLETED", "FAILED"}
    BY <1>1, <1>7 DEF Judge, GiveUp, Judged, Completed, Report
  <2> QED BY <1>2, <2>1
<1>8. CASE \/ ReadForText(c) \/ Announce(c) \/ CallSucceeds(c) \/ CallFails(c) \/ BeginSave(c)
           \/ Ack(c) \/ ReadForAudio(c) \/ ReportNotReady(c) \/ Dies(c)
  BY <1>8 DEF ReadForText, Announce, CallSucceeds, CallFails, BeginSave, Ack, ReadForAudio,
              ReportNotReady, Dies, rowVars
<1> QED
  BY <1>3, <1>4, <1>5, <1>6, <1>7, <1>8 DEF Work

\* Somebody vouches for the report after a handler's step.
LEMMA HandlersVouch ==
    ASSUME WorkInv, NEW c \in Consumers, Work(c) \/ Dies(c), Unfinished'
    PROVE  \E m \in Messages : Vouches(m)'
<1>1. IInv /\ Held /\ HasSubject
  BY DEF WorkInv
<1>2. \A d \in Consumers \ {c} :
          pc'[d] = pc[d] /\ run'[d] = run[d] /\ handling'[d] = handling[d]
  <2>1. \A d \in Consumers \ {c} : handling'[d] = handling[d]
    BY <1>1, OwnRequest, WorkTypes DEF groupVars, Abandon, Ack, Acknowledge
  <2> QED BY <1>1, <2>1, OthersStay
<1>3. CASE report'.status = report.status
  <2>1. Unfinished
    BY <1>1, <1>3, RowGrows DEF Unfinished, Next
  <2>2. PICK m \in Messages : Vouches(m)
    BY <2>1 DEF WorkInv
  <2>3. CASE handling[c] = m
    <3>1. InStep(pc[c], run[c], report.status)
      BY <2>2, <2>3 DEF Vouches
    <3>2. c \in TextConsumers
      BY <1>1, <2>2, <2>3, WorkTypes DEF Held, Subscribed, Vouches
    <3>3. /\ pel' = pel
          /\ handling'[c] = NoMessage \/ InStep(pc'[c], run'[c], report'.status)
      BY <1>1, <1>3, <2>1, <3>1, <3>2, StaysInStep
    <3>4. ASSUME NEW d \in Consumers, handling'[d] = m
          PROVE  InStep(pc'[d], run'[d], report'.status)
      <4>1. CASE d = c
        BY <1>1, <3>3, <3>4, <4>1, WorkTypes
      <4>2. CASE d # c
        BY <1>2, <1>3, <2>2, <3>4, <4>2 DEF Vouches
      <4> QED BY <4>1, <4>2
    <3> QED BY <2>2, <3>3, <3>4 DEF Vouches
  <2>4. CASE handling[c] # m
    <3>1. handling'[c] # m /\ pel'[m] = pel[m]
      <4>1. CASE UNCHANGED groupVars
        BY <2>4, <4>1 DEF groupVars
      <4>2. CASE Abandon(c)
        BY <1>1, <4>2, WorkTypes DEF Abandon
      <4>3. CASE Ack(c)
        BY <1>1, <2>4, <4>3, WorkTypes DEF Ack, Acknowledge
      <4> QED BY <1>1, <4>1, <4>2, <4>3, OwnRequest
    <3>2. ASSUME NEW d \in Consumers, handling'[d] = m
          PROVE  InStep(pc'[d], run'[d], report'.status)
      BY <1>2, <1>3, <2>2, <3>1, <3>2 DEF Vouches
    <3> QED BY <2>2, <3>1, <3>2 DEF Vouches
  <2> QED BY <2>3, <2>4
<1>4. CASE report'.status # report.status
  <2>1. /\ UNCHANGED <<pel, handling>> /\ pc[c] # "idle" /\ c \in TextConsumers
        /\ InStep(pc'[c], run'[c], report'.status)
    BY <1>1, <1>4, ComesIntoStep DEF groupVars
  <2>2. /\ handling[c] # NoMessage /\ pel[handling[c]] = "pending"
        /\ handling[c] \in TextRequests
    BY <1>1, <2>1, WorkTypes DEF Held, Subscribed
  <2>3. PICK m \in Messages : m = handling[c]
    BY <1>1, <2>2, WorkTypes
  <2>4. ASSUME NEW d \in Consumers, handling'[d] = m PROVE d = c
    BY <1>1, <2>1, <2>2, <2>3, <2>4, WorkTypes DEF Held
  <2>5. Vouches(m)'
    BY <2>1, <2>2, <2>3, <2>4 DEF Vouches
  <2> QED BY <2>5
<1> QED
  BY <1>3, <1>4

\* And after a delivery: a request that comes back is delivered for the second time at least.
LEMMA ReceiveVouches ==
    ASSUME WorkInv, ~SlowHandlers, NEW c \in Consumers, NEW n \in Messages, Receive(c, n),
           Unfinished'
    PROVE  \E m \in Messages : Vouches(m)'
<1>1. IInv /\ Held /\ report' = report
  BY DEF WorkInv, Receive, rowVars
<1>2. Unfinished
  BY <1>1 DEF Unfinished
<1>3. PICK m \in Messages : Vouches(m)
  BY <1>2 DEF WorkInv
<1>4. /\ pel' = [pel EXCEPT ![n] = "pending"]
      /\ handling' = [handling EXCEPT ![c] = n]
  BY DEF Receive, Deliver
<1>5. pel'[m] = "pending" /\ m \in TextRequests
  BY <1>1, <1>3, <1>4, WorkTypes DEF Vouches
<1>6. ASSUME NEW d \in Consumers, handling'[d] = m
      PROVE  InStep(pc'[d], run'[d], report'.status)
  <2>1. CASE d = c
    <3>1. n = m /\ deliveries[n] > 0 /\ deliveries[n] \in 0 .. GiveUpAt
      BY <1>1, <1>3, <1>4, <1>6, <2>1, WorkTypes DEF Vouches, Held
    <3>2. DeliveryCount(n) > 1
      BY <1>1, <3>1, WorkTypes DEF DeliveryCount, Counted
    <3>3. pc'[c] = "read" /\ run'[c].count = DeliveryCount(n)
      BY <1>1, WorkTypes DEF Receive, Goto, Begun
    <3> QED BY <2>1, <3>2, <3>3 DEF InStep
  <2>2. CASE d # c
    <3>1. pc'[d] = pc[d] /\ run'[d] = run[d] /\ handling'[d] = handling[d]
      BY <1>1, <1>4, <2>2, OthersStay, WorkTypes
    <3> QED BY <1>1, <1>3, <1>6, <3>1 DEF Vouches
  <2> QED BY <2>1, <2>2
<1>7. Vouches(m)'
  BY <1>5, <1>6 DEF Vouches
<1> QED
  BY <1>7

\* It survives every step of handlers faster than the claim.
LEMMA NextWorkInv ==
    ASSUME ~SlowHandlers
    PROVE  WorkInv /\ [Next]_vars => WorkInv'
<1> SUFFICES ASSUME WorkInv, [Next]_vars PROVE WorkInv'
  OBVIOUS
<1>1. IInv /\ Held /\ HasSubject /\ IInv'
  BY NextIInv DEF WorkInv
<1>2. HasSubject'
  <2>1. CASE Next
    BY <1>1, <2>1, SubjectStays
  <2>2. CASE UNCHANGED vars
    BY <1>1, <2>2 DEF vars, rowVars, fixed, HasSubject, HasPairs
  <2> QED BY <2>1, <2>2
<1>3. CASE \E c \in Consumers, m \in Messages : Receive(c, m)
  BY <1>1, <1>2, <1>3, ReceiveHeld, ReceiveVouches DEF WorkInv
<1>4. CASE \E c \in Consumers : Work(c) \/ Dies(c)
  BY <1>1, <1>2, <1>4, HandlersHeld, HandlersVouch DEF WorkInv
<1>5. CASE Grace \/ GraceDies \/ UNCHANGED vars
  <2>1. UNCHANGED <<pel, deliveries, handling, pc, run>>
    BY <1>5 DEF Grace, GracePasses, CompleteOverdue, PublishOverdue, GraceDies, vars, groupVars
  <2>2. Held'
    BY <1>1, <2>1 DEF Held, Subscribed
  <2>3. report' = report \/ ~Unfinished'
    BY <1>1, <1>5, WorkTypes DEF Grace, GracePasses, CompleteOverdue, PublishOverdue, GraceDies,
       vars, rowVars, Completed, Report, Unfinished
  <2>4. CASE report' = report
    <3>1. ASSUME NEW m \in Messages, Vouches(m) PROVE Vouches(m)'
      BY <2>1, <2>4, <3>1 DEF Vouches
    <3>2. Unfinished' = Unfinished
      BY <2>4 DEF Unfinished
    <3> QED BY <1>1, <1>2, <2>2, <3>1, <3>2 DEF WorkInv
  <2> QED BY <1>1, <1>2, <2>2, <2>3, <2>4 DEF WorkInv
<1> QED
  BY <1>3, <1>4, <1>5 DEF Next

\* While the text half of a report is missing a request for it is unacknowledged, for any
\* number of duplicates, handlers and deaths, if no handler is slower than the claim.
THEOREM WorkIsNeverOrphaned ==
    ASSUME ~SlowHandlers
    PROVE  Spec => []WorkHasRequest
<1>1. Init => WorkInv
  <2> SUFFICES ASSUME Init PROVE WorkInv
    OBVIOUS
  <2>1. IInv
    BY InitIInv
  <2>2. Held /\ HasSubject /\ ~Unfinished
    BY <2>1, WorkTypes DEF Init, GroupInit, NoReport, Held, HasSubject, Unfinished
  <2> QED BY <2>1, <2>2 DEF WorkInv
<1>2. WorkInv => WorkHasRequest
  BY DEF WorkInv, Unfinished, Vouches, WorkHasRequest
<1>3. WorkInv /\ [Next]_vars => WorkInv'
  BY NextWorkInv
<1> QED
  BY <1>1, <1>2, <1>3, PTL DEF Spec

=============================================================================
