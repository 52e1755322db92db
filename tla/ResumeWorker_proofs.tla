------------------------- MODULE ResumeWorker_proofs -------------------------
(***************************************************************************)
(* Theorems about ResumeWorker, for any number of requests and handlers.   *)
(*                                                                         *)
(* A handler acts on what it read earlier; the compare-and-set tells it    *)
(* whether that still holds.  Three invariants say what it may rely on:    *)
(*                                                                         *)
(*   IInv     whatever the backend starts: types, no terminal status is a  *)
(*            stage to enter from, what is saved is data;                  *)
(*   RunInv   until the backend starts another run: who builds the index   *)
(*            builds it from the row, and an outcome to be told is the     *)
(*            row's;                                                       *)
(*   WorkInv  with handlers faster than the claim: of the requests not yet *)
(*            acknowledged, one is that of the handler that last set the   *)
(*            status, and it will not lose its compare-and-set.            *)
(***************************************************************************)
EXTENDS ResumeWorker, TLAPS

\* The statuses a handler may announce.
News == Stages \cup {"PARSED"} \cup Terminal

\* What a handler knows at a place p, with locals r.
Knows(p, r) ==
    /\ p = "PARSING" => r.entry \in Early
    /\ p = "announce" => r.news \in News
    /\ p = "save data" => r.data \in Structured

\* The variables that are not a handler's own.
Surroundings ==
    /\ GroupTypeOK
    /\ resume \in Resumes
    /\ published \subseteq Messages
    /\ status \in Status /\ told \in Status
    /\ data \in Data \cup {Absent} /\ chunks \in Data \cup {Absent}
    /\ ParsedHasData

IInv ==
    /\ Surroundings
    /\ pc \in [Consumers -> PCs] /\ run \in [Consumers -> Run]
    /\ \A c \in Consumers : Knows(pc[c], run[c])

\* The inductive invariant is as strong as what is wanted of it.
LEMMA IInvImplies == IInv => TypeOK /\ ParsedHasData
BY DEF IInv, Surroundings, TypeOK

\* The names of the statuses.
LEMMA Statuses ==
    /\ Early = {"UPLOADED", "PARSING", "TEXT_EXTRACTING", "STRUCTURING"}
    /\ Terminal = {"EMBEDDED", "FAILED"}
    /\ Status = {"NONE"} \cup Early \cup {"PARSED", "EMBEDDING"} \cup Terminal
BY DEF Early, Terminal, Status, Analysis!Early, Analysis!Terminal, Analysis!Status

\* A call may be tried at least once.
LEMMA RetryLimit == RetryMaxAttempts \in Nat /\ RetryMaxAttempts > 0
<1>1. RetryMaxAttempts \in Nat \ {0}
  BY ResumeAssumption
<1> QED
  BY <1>1

\* What is not Absent is the data of a handler that saves.
LEMMA DataIsNotAbsent == \A d \in Data : d # Absent
BY ResumeAssumption DEF Data

-----------------------------------------------------------------------------
(* One handler moves.                                                      *)

\* The locals a handler may be left with.
LEMMA RunTypes ==
    ASSUME NEW r \in Run
    PROVE  /\ \A s \in Status : [r EXCEPT !.news = s] \in Run
           /\ \A s \in Status : [r EXCEPT !.entry = s] \in Run
           /\ [r EXCEPT !.tries = 0] \in Run
           /\ \A d \in Data : [r EXCEPT !.tries = 0, !.data = d] \in Run
           /\ \A d \in Data \cup {Absent} : [r EXCEPT !.data = d] \in Run
           /\ r.tries + 1 < RetryMaxAttempts => [r EXCEPT !.tries = @ + 1] \in Run
<1>1. ASSUME NEW s \in Status PROVE [r EXCEPT !.news = s] \in Run
  BY DEF Run
<1>2. ASSUME NEW s \in Status PROVE [r EXCEPT !.entry = s] \in Run
  BY DEF Run
<1>3. [r EXCEPT !.tries = 0] \in Run
  <2>1. 0 \in 0 .. RetryMaxAttempts
    BY RetryLimit
  <2> QED BY <2>1 DEF Run
<1>4. ASSUME NEW d \in Data PROVE [r EXCEPT !.tries = 0, !.data = d] \in Run
  BY <1>3 DEF Run
<1>5. ASSUME NEW d \in Data \cup {Absent} PROVE [r EXCEPT !.data = d] \in Run
  BY DEF Run
<1>6. ASSUME r.tries + 1 < RetryMaxAttempts PROVE [r EXCEPT !.tries = @ + 1] \in Run
  <2>1. r.tries + 1 \in 0 .. RetryMaxAttempts
    <3>1. r.tries \in 0 .. RetryMaxAttempts
      BY DEF Run
    <3> QED BY <1>6, <3>1, RetryLimit
  <2> QED BY <2>1 DEF Run
<1> QED
  BY <1>1, <1>2, <1>3, <1>4, <1>5, <1>6

\* The locals of a delivery that begins.
LEMMA BegunTypes ==
    ASSUME NEW n \in 0 .. GiveUpAt
    PROVE  Begun(n) \in Run
<1>1. 0 \in 0 .. RetryMaxAttempts
  BY RetryLimit
<1> QED
  BY <1>1, Statuses DEF Begun, Run

\* Handler c moves to p with locals r.
LEMMA Moves ==
    ASSUME IInv, NEW c \in Consumers, NEW p \in PCs, NEW r \in Run,
           pc' = [pc EXCEPT ![c] = p], run' = [run EXCEPT ![c] = r],
           Surroundings', Knows(p, r)
    PROVE  IInv'
<1>1. pc' \in [Consumers -> PCs] /\ run' \in [Consumers -> Run]
  BY DEF IInv
<1>2. ASSUME NEW d \in Consumers
      PROVE  Knows(pc'[d], run'[d])
  <2>1. CASE d = c
    BY <2>1 DEF IInv
  <2>2. CASE d # c
    <3>1. pc'[d] = pc[d] /\ run'[d] = run[d]
      BY <2>2 DEF IInv
    <3>2. Knows(pc[d], run[d])
      BY DEF IInv
    <3> QED BY <3>1, <3>2
  <2> QED BY <2>1, <2>2
<1> QED
  BY <1>1, <1>2 DEF IInv

\* The places where a handler's locals mean nothing to Knows.
Plain == PCs \ {"PARSING", "announce", "save data"}

\* Handler c goes to such a place.
LEMMA Goes ==
    ASSUME IInv, NEW c \in Consumers, NEW p \in Plain, Goto(c, p), UNCHANGED run,
           Surroundings'
    PROVE  IInv'
<1>1. run[c] \in Run /\ run' = [run EXCEPT ![c] = run[c]]
  BY DEF IInv
<1>2. Knows(p, run[c])
  BY DEF Knows, Plain
<1> QED
  BY <1>1, <1>2, Moves DEF Goto, Plain

\* Handler c is about to announce a status.
LEMMA Tells ==
    ASSUME IInv, NEW c \in Consumers, NEW s \in News, Tell(c, s), Surroundings'
    PROVE  IInv'
<1> DEFINE r == [run[c] EXCEPT !.news = s]
<1>1. run[c] \in Run
  BY DEF IInv
<1>2. s \in Status
  BY Statuses DEF News, Stages
<1>3. r \in Run /\ r.news = s
  BY <1>1, <1>2, RunTypes DEF Run
<1>4. Knows("announce", r)
  BY <1>3 DEF Knows
<1>5. run' = [run EXCEPT ![c] = r] /\ pc' = [pc EXCEPT ![c] = "announce"]
  BY DEF Tell, Goto
<1>6. "announce" \in PCs
  BY DEF PCs
<1> HIDE DEF r
<1> QED
  BY <1>3, <1>4, <1>5, <1>6, Moves

\* Handler c has lost, and will acknowledge.
LEMMA Yields ==
    ASSUME IInv, NEW c \in Consumers, Yield(c), Surroundings'
    PROVE  IInv'
<1>1. "ack" \in Plain
  BY DEF Plain, PCs, Stages, Calls
<1> QED
  BY <1>1, Goes DEF Yield

\* Handler c is done.
LEMMA Finishes ==
    ASSUME IInv, NEW c \in Consumers, Finish(c), Surroundings'
    PROVE  IInv'
<1>1. 0 \in 0 .. GiveUpAt
  BY GroupAssumption
<1>2. Begun(0) \in Run
  BY <1>1, BegunTypes
<1>3. Knows("idle", Begun(0)) /\ "idle" \in PCs
  BY DEF Knows, PCs
<1> QED
  BY <1>2, <1>3, Moves DEF Finish, Goto

\* A step that leaves everything but the handlers alone.
LEMMA SurroundingsStay ==
    ASSUME IInv, UNCHANGED <<groupVars, resume, published, rowVars>>, told' \in Status
    PROVE  Surroundings'
BY DEF IInv, Surroundings, groupVars, GroupTypeOK, rowVars, ParsedHasData

\* A request that comes back, or is acknowledged, leaves the stream well-typed.
LEMMA RequestOver ==
    ASSUME IInv, NEW c \in Consumers, Abandon(c) \/ Acknowledge(c),
           UNCHANGED <<resume, published, rowVars, told>>
    PROVE  Surroundings'
<1>1. GroupTypeOK'
  BY DEF IInv, Surroundings, GroupTypeOK, Abandon, Acknowledge
<1> QED
  BY <1>1 DEF IInv, Surroundings, rowVars, ParsedHasData

-----------------------------------------------------------------------------
(* The actions.                                                            *)

\* A delivery, first or repeated, keeps the invariant.
LEMMA ReceiveKeeps ==
    ASSUME IInv, NEW c \in Consumers, NEW m \in Messages, Receive(c, m)
    PROVE  IInv'
<1>1. DeliveryCount(m) \in 0 .. GiveUpAt
  <2>1. deliveries[m] \in 0 .. GiveUpAt /\ GiveUpAt \in Nat
    BY GroupAssumption DEF IInv, Surroundings, GroupTypeOK
  <2> QED BY <2>1 DEF DeliveryCount, Counted
<1>2. GroupTypeOK'
  <2>1. pel' \in [Messages -> {"new", "pending", "acked"}]
    BY DEF Receive, Deliver, IInv, Surroundings, GroupTypeOK
  <2>2. deliveries' \in [Messages -> 0 .. GiveUpAt]
    BY <1>1 DEF Receive, Deliver, IInv, Surroundings, GroupTypeOK
  <2>3. handling' \in [Consumers -> Messages \cup {NoMessage}]
    BY DEF Receive, Deliver, IInv, Surroundings, GroupTypeOK
  <2> QED BY <2>1, <2>2, <2>3 DEF GroupTypeOK
<1>3. Surroundings'
  BY <1>2 DEF Receive, IInv, Surroundings, rowVars, ParsedHasData
<1>4. Begun(DeliveryCount(m)) \in Run
  BY <1>1, BegunTypes
<1>5. /\ Knows("fail", Begun(DeliveryCount(m))) /\ Knows("read", Begun(DeliveryCount(m)))
      /\ "fail" \in PCs /\ "read" \in PCs
  BY DEF Knows, PCs
<1> QED
  BY <1>3, <1>4, <1>5, Moves DEF Receive, Goto

\* Reading the status and choosing where to enter keeps the invariant.
LEMMA ReadStatusKeeps ==
    ASSUME IInv, NEW c \in Consumers, ReadStatus(c)
    PROVE  IInv'
<1>1. Surroundings' /\ status \in Status
  BY SurroundingsStay DEF ReadStatus, IInv, Surroundings
<1>2. CASE Yield(c)
  BY <1>1, <1>2, Yields
<1>3. CASE Tell(c, "EMBEDDING")
  BY <1>1, <1>3, Tells DEF News, Stages
<1>4. CASE (Goto(c, "EMBEDDING") \/ Goto(c, "fail")) /\ UNCHANGED run
  <2>1. "EMBEDDING" \in Plain /\ "fail" \in Plain
    BY DEF Plain, PCs, Stages, Calls
  <2> QED BY <1>1, <1>4, <2>1, Goes
<1>5. CASE /\ status \in Early
           /\ Goto(c, "PARSING") /\ run' = [run EXCEPT ![c].entry = status]
  <2> DEFINE r == [run[c] EXCEPT !.entry = status]
  <2>1. run[c] \in Run
    BY DEF IInv
  <2>2. r \in Run /\ r.entry = status
    BY <1>1, <2>1, RunTypes DEF Run
  <2>3. Knows("PARSING", r) /\ "PARSING" \in PCs
    BY <1>5, <2>2 DEF Knows, PCs, Stages
  <2>4. run' = [run EXCEPT ![c] = r]
    BY <1>5
  <2> HIDE DEF r
  <2> QED BY <1>1, <1>5, <2>2, <2>3, <2>4, Moves DEF Goto
<1> QED
  BY <1>1, <1>2, <1>3, <1>4, <1>5, Statuses DEF ReadStatus

\* A stage is entered from an unfinished status, or the handler yields.
LEMMA EnterStageKeeps ==
    ASSUME IInv, NEW c \in Consumers, EnterStage(c)
    PROVE  IInv'
<1>1. pc[c] \in Stages /\ pc[c] \in Status /\ pc[c] \in News
  BY Statuses DEF EnterStage, Stages, News
<1>2. CASE status' = pc[c] /\ status = From(c) /\ Tell(c, pc[c])
  <2>1. ParsedHasData'
    BY <1>1, <1>2 DEF From, Stages, EnterStage, IInv, Surroundings, ParsedHasData
  <2>2. Surroundings'
    BY <1>1, <1>2, <2>1 DEF EnterStage, IInv, Surroundings, groupVars, GroupTypeOK
  <2> QED BY <1>1, <1>2, <2>2, Tells
<1>3. CASE Yield(c) /\ UNCHANGED status
  <2>1. Surroundings'
    BY <1>3, SurroundingsStay DEF EnterStage, IInv, Surroundings, rowVars
  <2> QED BY <1>3, <2>1, Yields
<1> QED
  BY <1>2, <1>3 DEF EnterStage

\* An announcement changes nothing but what was told.
LEMMA AnnounceKeeps ==
    ASSUME IInv, NEW c \in Consumers, Announce(c)
    PROVE  IInv'
<1> DEFINE r == [run[c] EXCEPT !.news = "NONE"]
           p == AfterNews(run[c].news)
<1>1. run[c] \in Run /\ run[c].news \in News /\ run[c].news \in Status
  BY Statuses DEF Announce, IInv, Knows, News, Stages
<1>2. Surroundings'
  BY <1>1, SurroundingsStay DEF Announce
<1>3. r \in Run
  BY <1>1, RunTypes, Statuses
<1>4. p \in Plain
  BY DEF AfterNews, Plain, PCs, Stages, Calls
<1>5. Knows(p, r)
  BY <1>4 DEF Plain, Knows
<1>6. pc' = [pc EXCEPT ![c] = p] /\ run' = [run EXCEPT ![c] = r] /\ p \in PCs
  BY <1>4 DEF Announce, Goto, Plain
<1> HIDE DEF r, p
<1> QED
  BY <1>2, <1>3, <1>5, <1>6, Moves

\* The calls keep the invariant: the text, the data of the LLM, the index.
LEMMA CallSucceedsKeeps ==
    ASSUME IInv, NEW c \in Consumers, Fetched(c) \/ StructuredBy(c) \/ Indexed(c)
    PROVE  IInv'
<1>1. Surroundings'
  BY SurroundingsStay DEF Fetched, StructuredBy, Indexed, IInv, Surroundings
<1>2. run[c] \in Run
  BY DEF IInv
<1>3. CASE Fetched(c) \/ Indexed(c)
  <2> DEFINE r == [run[c] EXCEPT !.tries = 0]
  <2>1. r \in Run
    BY <1>2, RunTypes
  <2>2. PICK p \in {"fail", "STRUCTURING", "embed", "save chunks"} :
            Goto(c, p) /\ run' = [run EXCEPT ![c].tries = 0]
    BY <1>3 DEF Fetched, Indexed
  <2>3. p \in PCs /\ Knows(p, r)
    BY DEF Knows, PCs, Stages, Calls
  <2>4. run' = [run EXCEPT ![c] = r]
    BY <2>2
  <2> HIDE DEF r
  <2> QED BY <1>1, <2>1, <2>2, <2>3, <2>4, Moves DEF Goto
<1>4. CASE StructuredBy(c)
  <2>1. PICK d \in Structured : run' = [run EXCEPT ![c].tries = 0, ![c].data = d]
    BY <1>4 DEF StructuredBy
  <2> DEFINE r == [run[c] EXCEPT !.tries = 0, !.data = d]
  <2>2. r \in Run /\ r.data = d
    BY <1>2, RunTypes DEF Data, Run
  <2>3. "save data" \in PCs /\ Knows("save data", r)
    BY <2>2 DEF Knows, PCs
  <2>4. run' = [run EXCEPT ![c] = r]
    BY <2>1 DEF IInv
  <2> HIDE DEF r
  <2> QED BY <1>1, <1>4, <2>2, <2>3, <2>4, Moves DEF StructuredBy, Goto
<1> QED
  BY <1>3, <1>4

\* A call that fails is tried again, or its request comes back.
LEMMA CallFailsKeeps ==
    ASSUME IInv, NEW c \in Consumers, CallFails(c)
    PROVE  IInv'
<1>1. CASE /\ run[c].tries + 1 < RetryMaxAttempts
           /\ run' = [run EXCEPT ![c].tries = @ + 1] /\ UNCHANGED <<groupVars, pc>>
  <2> DEFINE r == [run[c] EXCEPT !.tries = @ + 1]
  <2>1. run[c] \in Run /\ pc[c] \in PCs /\ pc[c] \in Calls
    BY DEF IInv, CallFails
  <2>2. r \in Run
    BY <1>1, <2>1, RunTypes
  <2>3. Knows(pc[c], r)
    BY <2>1 DEF Calls, Knows
  <2>4. pc' = [pc EXCEPT ![c] = pc[c]] /\ run' = [run EXCEPT ![c] = r]
    BY <1>1 DEF IInv
  <2>5. Surroundings'
    BY <1>1, SurroundingsStay DEF CallFails, IInv, Surroundings
  <2> HIDE DEF r
  <2> QED BY <2>1, <2>2, <2>3, <2>4, <2>5, Moves
<1>2. CASE Finish(c) /\ Abandon(c)
  <2>1. Surroundings'
    BY <1>2, RequestOver DEF CallFails
  <2> QED BY <1>2, <2>1, Finishes
<1> QED
  BY <1>1, <1>2 DEF CallFails

\* The data and PARSED are one transaction, so that PARSED is never without data.
LEMMA SaveDataKeeps ==
    ASSUME IInv, NEW c \in Consumers, SaveData(c)
    PROVE  IInv'
<1>1. run[c].data \in Structured
  BY DEF SaveData, IInv, Knows
<1>2. CASE status' = "PARSED" /\ data' = run[c].data /\ Tell(c, "PARSED")
  <2>1. data' \in Data /\ data' # Absent
    BY <1>1, <1>2, DataIsNotAbsent DEF Data
  <2>2. Surroundings'
    BY <1>2, <2>1, Statuses DEF SaveData, IInv, Surroundings, groupVars, GroupTypeOK, ParsedHasData
  <2> QED BY <1>2, <2>2, Tells DEF News
<1>3. CASE Yield(c) /\ UNCHANGED <<status, data>>
  <2>1. Surroundings'
    BY <1>3, SurroundingsStay DEF SaveData, IInv, Surroundings, rowVars
  <2> QED BY <1>3, <2>1, Yields
<1> QED
  BY <1>2, <1>3 DEF SaveData

\* Loading the data keeps the invariant.
LEMMA LoadDataKeeps ==
    ASSUME IInv, NEW c \in Consumers, LoadData(c)
    PROVE  IInv'
<1> DEFINE r == [run[c] EXCEPT !.data = data]
<1>1. Surroundings' /\ data \in Data \cup {Absent} /\ run[c] \in Run
  BY SurroundingsStay DEF LoadData, IInv, Surroundings
<1>2. r \in Run
  BY <1>1, RunTypes
<1>3. PICK p \in {"fail", "enrich"} : Goto(c, p)
  BY DEF LoadData
<1>4. p \in PCs /\ Knows(p, r)
  BY DEF Knows, PCs, Calls
<1>5. run' = [run EXCEPT ![c] = r]
  BY DEF LoadData
<1> HIDE DEF r
<1> QED
  BY <1>1, <1>2, <1>3, <1>4, <1>5, Moves DEF Goto

\* The chunks and EMBEDDED are one transaction, and only of an analysis that has data.
LEMMA SaveChunksKeeps ==
    ASSUME IInv, NEW c \in Consumers, SaveChunks(c)
    PROVE  IInv'
<1>1. run[c] \in Run
  BY DEF IInv
<1>2. CASE /\ status = "EMBEDDING" /\ status' = "EMBEDDED" /\ chunks' = run[c].data
           /\ Tell(c, "EMBEDDED")
  <2>1. chunks' \in Data \cup {Absent}
    BY <1>1, <1>2 DEF Run
  <2>2. Surroundings'
    BY <1>2, <2>1, Statuses DEF SaveChunks, IInv, Surroundings, groupVars, GroupTypeOK, ParsedHasData
  <2> QED BY <1>2, <2>2, Tells, Statuses DEF News
<1>3. CASE Yield(c) /\ UNCHANGED <<status, chunks>>
  <2>1. Surroundings'
    BY <1>3, SurroundingsStay DEF SaveChunks, IInv, Surroundings, rowVars
  <2> QED BY <1>3, <2>1, Yields
<1> QED
  BY <1>2, <1>3 DEF SaveChunks

\* mark_failed keeps the invariant.
LEMMA FailsKeeps ==
    ASSUME IInv, NEW c \in Consumers, Fails(c)
    PROVE  IInv'
<1>1. CASE status' = "FAILED" /\ Tell(c, "FAILED")
  <2>1. Surroundings'
    BY <1>1, Statuses DEF Fails, IInv, Surroundings, groupVars, GroupTypeOK, ParsedHasData
  <2> QED BY <1>1, <2>1, Tells, Statuses DEF News
<1>2. CASE Yield(c) /\ UNCHANGED status
  <2>1. Surroundings'
    BY <1>2, SurroundingsStay DEF Fails, IInv, Surroundings, rowVars
  <2> QED BY <1>2, <2>1, Yields
<1> QED
  BY <1>1, <1>2 DEF Fails

\* A handler that ends, well or badly, keeps the invariant.
LEMMA EndsKeep ==
    ASSUME IInv, NEW c \in Consumers, Ack(c) \/ Dies(c)
    PROVE  IInv'
<1>1. Surroundings'
  BY RequestOver DEF Ack, Dies
<1> QED
  BY <1>1, Finishes DEF Ack, Dies

\* A new run of the backend is one from the start, or one that has its data.
LEMMA BackendKeeps ==
    ASSUME IInv, Backend
    PROVE  IInv'
<1>1. PICK m \in Messages : Reanalyse(m) \/ Reindex(m)
  BY DEF Backend
<1>2. UNCHANGED <<groupVars, resume, chunks, pc, run>> /\ published' \subseteq Messages
  BY <1>1 DEF Reanalyse, Reindex, IInv, Surroundings
<1>3. CASE Reanalyse(m)
  <2>1. Surroundings'
    BY <1>2, <1>3, Statuses DEF Reanalyse, IInv, Surroundings, groupVars, GroupTypeOK, ParsedHasData
  <2> QED BY <1>2, <2>1 DEF IInv
<1>4. CASE Reindex(m)
  <2>1. data' \in Data /\ data' # Absent
    BY <1>4, DataIsNotAbsent DEF Reindex, Data
  <2>2. Surroundings'
    BY <1>2, <1>4, <2>1, Statuses DEF Reindex, IInv, Surroundings, groupVars, GroupTypeOK, ParsedHasData
  <2> QED BY <1>2, <2>2 DEF IInv
<1> QED
  BY <1>1, <1>3, <1>4

-----------------------------------------------------------------------------
\* The invariant holds at the start.
LEMMA InitIInv == Init => IInv
<1> SUFFICES ASSUME Init PROVE IInv
  OBVIOUS
<1>1. GroupTypeOK
  BY GroupAssumption DEF Init, GroupInit, GroupTypeOK
<1>2. Surroundings
  BY <1>1, ResumeAssumption, Statuses DEF Init, Surroundings, ParsedHasData
<1>3. 0 \in 0 .. GiveUpAt
  BY GroupAssumption
<1>4. run \in [Consumers -> Run]
  BY <1>3, BegunTypes DEF Init
<1>5. pc \in [Consumers -> PCs]
  BY DEF Init, PCs
<1>6. \A c \in Consumers : Knows(pc[c], run[c])
  BY DEF Init, Knows
<1> QED
  BY <1>2, <1>4, <1>5, <1>6 DEF IInv

\* The invariant survives every step: one case for each action of Next.
LEMMA NextIInv == IInv /\ [Next]_vars => IInv'
<1> SUFFICES ASSUME IInv, [Next]_vars PROVE IInv'
  OBVIOUS
<1>1. CASE \E c \in Consumers, m \in Messages : Receive(c, m)
  BY <1>1, ReceiveKeeps
<1>2. CASE \E c \in Consumers : Work(c) \/ Dies(c)
  BY <1>2, ReadStatusKeeps, EnterStageKeeps, AnnounceKeeps, CallSucceedsKeeps,
     CallFailsKeeps, SaveDataKeeps, LoadDataKeeps, SaveChunksKeeps, FailsKeeps,
     EndsKeep DEF Work
<1>3. CASE Backend
  BY <1>3, BackendKeeps
<1>4. CASE UNCHANGED vars
  BY <1>4 DEF vars, IInv, Surroundings, groupVars, GroupTypeOK, rowVars, ParsedHasData
<1> QED
  BY <1>1, <1>2, <1>3, <1>4 DEF Next

\* The invariant holds in every reachable state.
LEMMA Invariance == Spec => []IInv
BY InitIInv, NextIInv, PTL DEF Spec

\* Every variable keeps its type; the delivery count and the number of tries their bounds.
THEOREM TypeCorrect == Spec => []TypeOK
BY Invariance, IInvImplies, PTL

\* No status past the structuring stage without structured data, whatever restarts,
\* duplicates and new runs do (pipeline.md, chapter 2.4).
THEOREM ParsedIsKept == Spec => []ParsedHasData
BY Invariance, IInvImplies, PTL

\* EMBEDDED and FAILED are left only by the request of a new run: no handler, at
\* whatever time it read the status, reopens them.
THEOREM OutcomeIsKept == Spec => OnlyNewRunReopens
<1>1. IInv /\ [Next]_vars =>
        [(status \in Terminal /\ status' # status) => (published' # published)]_vars
  <2> SUFFICES ASSUME IInv, Next, status \in Terminal, status' # status
               PROVE  published' # published
    OBVIOUS
  <2>1. CASE Backend
    BY <2>1 DEF Backend, Reanalyse, Reindex
  <2>2. ASSUME NEW c \in Consumers, EnterStage(c) PROVE FALSE
    BY <2>2, Statuses DEF EnterStage, From, Stages, IInv, Knows
  <2>3. ASSUME NEW c \in Consumers, SaveData(c) \/ SaveChunks(c) \/ Fails(c) PROVE FALSE
    BY <2>3, Statuses DEF SaveData, SaveChunks, Fails
  <2>4. ASSUME NEW c \in Consumers,
               \/ \E m \in Messages : Receive(c, m)
               \/ ReadStatus(c) \/ Announce(c) \/ Fetched(c) \/ StructuredBy(c)
               \/ Indexed(c) \/ CallFails(c) \/ LoadData(c) \/ Ack(c) \/ Dies(c)
        PROVE  FALSE
    BY <2>4 DEF Receive, ReadStatus, Announce, Fetched, StructuredBy, Indexed, CallFails,
                LoadData, Ack, Dies, rowVars
  <2> QED
    BY <2>1, <2>2, <2>3, <2>4 DEF Next, Work
<1> QED
  BY <1>1, Invariance, PTL DEF OnlyNewRunReopens, Spec

-----------------------------------------------------------------------------
(* One run.  Until the backend starts another, what is past STRUCTURING    *)
(* stays there, and with it the data of the row.                           *)

NoNewRun == Reanalyses = {} /\ Reindexes = {}

Settled == {"EMBEDDING"} \cup Terminal

Indexing(p, r) ==
    \/ p \in {"load", "enrich", "embed", "save chunks"}
    \/ p = "announce" /\ r.news = "EMBEDDING"

\* What a handler at p, with locals r, knows of the row, when it has status s and data d.
Within(p, r, s, d) ==
    /\ p = "announce" /\ r.news \in Terminal => s = r.news
    /\ Indexing(p, r) => s \in Settled
    /\ p \in {"enrich", "embed", "save chunks"} => r.data = d

RunInv ==
    /\ IInv
    /\ OutcomeToldIsTrue
    /\ \A c \in Consumers : Within(pc[c], run[c], status, data)

\* A step of a handler.
Step(c) == (\E m \in Messages : Receive(c, m)) \/ Work(c) \/ Dies(c)

\* Without new runs, a step is one of a handler.
LEMMA OnlySteps ==
    ASSUME NoNewRun, Next
    PROVE  \E c \in Consumers : Step(c)
BY DEF NoNewRun, Next, Backend, Reanalyse, Reindex, Step

\* It moves that handler only.
LEMMA OneMoves ==
    ASSUME IInv, NEW c \in Consumers, Step(c), NEW d \in Consumers \ {c}
    PROVE  pc'[d] = pc[d] /\ run'[d] = run[d] /\ handling'[d] = handling[d]
<1>1. /\ pc \in [Consumers -> PCs] /\ run \in [Consumers -> Run]
      /\ handling \in [Consumers -> Messages \cup {NoMessage}]
  BY DEF IInv, Surroundings, GroupTypeOK
<1>2. CASE \E m \in Messages : Receive(c, m)
  BY <1>1, <1>2 DEF Receive, Deliver, Goto
<1>3. CASE ReadStatus(c)
  BY <1>1, <1>3 DEF ReadStatus, Yield, Tell, Goto, groupVars
<1>4. CASE EnterStage(c) \/ SaveData(c) \/ SaveChunks(c) \/ Fails(c)
  BY <1>1, <1>4 DEF EnterStage, SaveData, SaveChunks, Fails, Yield, Tell, Goto, groupVars
<1>5. CASE Announce(c) \/ Fetched(c) \/ StructuredBy(c) \/ Indexed(c) \/ LoadData(c)
  BY <1>1, <1>5 DEF Announce, Fetched, StructuredBy, Indexed, LoadData, Goto, groupVars
<1>6. CASE CallFails(c)
  BY <1>1, <1>6 DEF CallFails, Finish, Abandon, Goto, groupVars
<1>7. CASE Ack(c) \/ Dies(c)
  BY <1>1, <1>7 DEF Ack, Dies, Acknowledge, Abandon, Finish, Goto
<1> QED
  BY <1>2, <1>3, <1>4, <1>5, <1>6, <1>7 DEF Step, Work

\* A handler's step changes the row in the order of the stages.
LEMMA RowSteps ==
    ASSUME IInv, NEW c \in Consumers, Step(c)
    PROVE  /\ status \in Settled => status' \in Settled /\ data' = data
           /\ status \in Terminal => status' = status
<1>1. CASE EnterStage(c)
  <2>1. From(c) \notin Settled
    BY <1>1, Statuses DEF EnterStage, From, Stages, IInv, Knows, Settled
  <2>2. (status' = status /\ data' = data) \/ status = From(c)
    BY <1>1 DEF EnterStage
  <2> QED BY <2>1, <2>2 DEF Settled
<1>2. CASE SaveData(c) \/ SaveChunks(c) \/ Fails(c)
  BY <1>2, Statuses DEF SaveData, SaveChunks, Fails, Settled
<1>3. CASE \/ \E m \in Messages : Receive(c, m)
           \/ ReadStatus(c) \/ Announce(c) \/ Fetched(c) \/ StructuredBy(c)
           \/ Indexed(c) \/ CallFails(c) \/ LoadData(c) \/ Ack(c) \/ Dies(c)
  BY <1>3 DEF Receive, ReadStatus, Announce, Fetched, StructuredBy, Indexed, CallFails,
              LoadData, Ack, Dies, rowVars
<1> QED
  BY <1>1, <1>2, <1>3 DEF Step, Work

\* The handler that moves knows of the row what its new place asks for.
LEMMA WithinAfter ==
    ASSUME RunInv, NEW c \in Consumers, Step(c)
    PROVE  Within(pc'[c], run'[c], status', data')
<1>1. /\ pc \in [Consumers -> PCs] /\ run \in [Consumers -> Run]
      /\ Within(pc[c], run[c], status, data)
  BY DEF RunInv, IInv
<1>2. CASE (\E m \in Messages : Receive(c, m)) \/ Ack(c) \/ Dies(c)
  <2>1. pc'[c] \in {"read", "fail", "idle"}
    BY <1>1, <1>2 DEF Receive, Ack, Dies, Finish, Goto
  <2> QED BY <2>1 DEF Within, Indexing
<1>3. ASSUME Yield(c) PROVE Within(pc'[c], run'[c], status', data')
  <2>1. pc'[c] = "ack"
    BY <1>1, <1>3 DEF Yield, Goto
  <2> QED BY <2>1 DEF Within, Indexing
<1>4. ASSUME NEW s \in News, Tell(c, s), s \in Terminal => status' = s,
             s = "EMBEDDING" => status' \in Settled
      PROVE  Within(pc'[c], run'[c], status', data')
  <2>1. pc'[c] = "announce" /\ run'[c].news = s
    BY <1>1, <1>4 DEF Tell, Goto, Run
  <2> QED BY <1>4, <2>1 DEF Within, Indexing
<1>5. CASE ReadStatus(c)
  <2>1. CASE Tell(c, "EMBEDDING") /\ status = "EMBEDDING"
    <3>1. status' = "EMBEDDING" /\ "EMBEDDING" \in News /\ "EMBEDDING" \notin Terminal
      BY <1>5, <2>1, Statuses DEF ReadStatus, rowVars, News, Stages
    <3> QED BY <1>4, <2>1, <3>1 DEF Settled
  <2>2. CASE Goto(c, "EMBEDDING") \/ Goto(c, "fail") \/ Goto(c, "PARSING")
    <3>1. pc'[c] \in {"EMBEDDING", "fail", "PARSING"}
      BY <1>1, <2>2 DEF Goto
    <3> QED BY <3>1 DEF Within, Indexing
  <2> QED BY <1>3, <1>5, <2>1, <2>2 DEF ReadStatus
<1>6. CASE EnterStage(c)
  <2>1. pc[c] \in News \ Terminal
    BY <1>6, Statuses DEF EnterStage, Stages, News
  <2> QED BY <1>3, <1>4, <1>6, <2>1 DEF EnterStage, Settled
<1>7. CASE Announce(c)
  <2>1. pc'[c] = AfterNews(run[c].news) /\ status' = status /\ pc[c] = "announce"
    BY <1>1, <1>7 DEF Announce, Goto, rowVars
  <2>2. CASE run[c].news = "EMBEDDING"
    <3>1. pc'[c] = "load" /\ status' \in Settled
      BY <1>1, <2>1, <2>2 DEF AfterNews, Within, Indexing
    <3> QED BY <3>1 DEF Within, Indexing
  <2>3. CASE run[c].news # "EMBEDDING"
    <3>1. pc'[c] \in {"TEXT_EXTRACTING", "fetch", "structure", "EMBEDDING", "ack"}
      BY <2>1, <2>3 DEF AfterNews
    <3> QED BY <3>1 DEF Within, Indexing
  <2> QED BY <2>2, <2>3
<1>8. CASE Fetched(c) \/ StructuredBy(c)
  <2>1. pc'[c] \in {"fail", "STRUCTURING", "save data"}
    BY <1>1, <1>8 DEF Fetched, StructuredBy, Goto
  <2> QED BY <2>1 DEF Within, Indexing
<1>9. CASE Indexed(c)
  <2>1. /\ pc'[c] \in {"embed", "save chunks"} /\ pc[c] \in {"enrich", "embed"}
        /\ status' = status /\ data' = data
    BY <1>1, <1>9 DEF Indexed, Goto, rowVars
  <2>2. run'[c].data = run[c].data
    BY <1>1, <1>9 DEF Indexed, Run
  <2> QED BY <1>1, <2>1, <2>2 DEF Within, Indexing
<1>10. CASE CallFails(c)
  <2>1. CASE Finish(c)
    <3>1. pc'[c] = "idle"
      BY <1>1, <2>1 DEF Finish, Goto
    <3> QED BY <3>1 DEF Within, Indexing
  <2>2. CASE run' = [run EXCEPT ![c].tries = @ + 1] /\ UNCHANGED pc
    <3>1. /\ pc'[c] = pc[c] /\ pc[c] \in Calls /\ status' = status /\ data' = data
          /\ run'[c].data = run[c].data
      BY <1>1, <1>10, <2>2 DEF CallFails, rowVars, Run
    <3> QED BY <1>1, <3>1 DEF Within, Indexing, Calls
  <2> QED BY <1>10, <2>1, <2>2 DEF CallFails
<1>11. CASE SaveData(c)
  <2>1. "PARSED" \in News \ Terminal
    BY Statuses DEF News
  <2> QED BY <1>3, <1>4, <1>11, <2>1 DEF SaveData
<1>12. CASE LoadData(c)
  <2>1. /\ pc'[c] \in {"fail", "enrich"} /\ pc[c] = "load"
        /\ status' = status /\ data' = data
    BY <1>1, <1>12 DEF LoadData, Goto, rowVars
  <2>2. run'[c].data = data
    BY <1>1, <1>12 DEF LoadData, Run
  <2> QED BY <1>1, <2>1, <2>2 DEF Within, Indexing
<1>13. CASE SaveChunks(c)
  <2>1. "EMBEDDED" \in News
    BY Statuses DEF News
  <2> QED BY <1>3, <1>4, <1>13, <2>1 DEF SaveChunks
<1>14. CASE Fails(c)
  <2>1. "FAILED" \in News
    BY Statuses DEF News
  <2> QED BY <1>3, <1>4, <1>14, <2>1 DEF Fails
<1> QED
  BY <1>2, <1>5, <1>6, <1>7, <1>8, <1>9, <1>10, <1>11, <1>12, <1>13, <1>14 DEF Step, Work

\* An outcome is told by the handler that recorded it.
LEMMA ToldAfter ==
    ASSUME RunInv, NEW c \in Consumers, Step(c)
    PROVE  OutcomeToldIsTrue'
<1>1. CASE Announce(c)
  <2>1. told' = run[c].news /\ status' = status /\ pc[c] = "announce"
    BY <1>1 DEF Announce, rowVars
  <2>2. Within(pc[c], run[c], status, data)
    BY DEF RunInv
  <2> QED BY <2>1, <2>2 DEF OutcomeToldIsTrue, Within
<1>2. CASE ~Announce(c)
  <2>1. told' = told
    BY <1>2 DEF Step, Work, Receive, ReadStatus, EnterStage, Fetched, StructuredBy, Indexed,
                CallFails, SaveData, LoadData, SaveChunks, Fails, Ack, Dies
  <2> QED BY <2>1, RowSteps DEF RunInv, OutcomeToldIsTrue
<1> QED
  BY <1>1, <1>2

\* The invariant of a run holds at the start.
LEMMA InitRunInv == Init => RunInv
BY InitIInv, Statuses DEF Init, RunInv, OutcomeToldIsTrue, Within, Indexing

\* It survives every step, as long as the backend starts no other run.
LEMMA NextRunInv ==
    ASSUME NoNewRun
    PROVE  RunInv /\ [Next]_vars => RunInv'
<1> SUFFICES ASSUME RunInv, [Next]_vars PROVE RunInv'
  OBVIOUS
<1>1. IInv'
  BY NextIInv DEF RunInv
<1>2. CASE Next
  <2>1. PICK c \in Consumers : Step(c)
    BY <1>2, OnlySteps
  <2>2. ASSUME NEW d \in Consumers \ {c} PROVE Within(pc'[d], run'[d], status', data')
    <3>1. Within(pc[d], run[d], status, data) /\ IInv
      BY DEF RunInv
    <3>2. pc'[d] = pc[d] /\ run'[d] = run[d]
      BY <2>1, <3>1, OneMoves
    <3>3. /\ status \in Settled => status' \in Settled /\ data' = data
          /\ status \in Terminal => status' = status
      BY <2>1, <3>1, RowSteps
    <3> QED BY <3>1, <3>2, <3>3 DEF Within, Indexing
  <2>3. Within(pc'[c], run'[c], status', data')
    BY <2>1, WithinAfter
  <2>4. OutcomeToldIsTrue'
    BY <2>1, ToldAfter
  <2> QED BY <1>1, <2>2, <2>3, <2>4 DEF RunInv
<1>3. CASE UNCHANGED vars
  BY <1>1, <1>3 DEF vars, rowVars, RunInv, OutcomeToldIsTrue
<1> QED
  BY <1>2, <1>3

\* No outcome is announced that the row does not have, whatever duplicates, slow
\* handlers and deaths there are, as long as the backend starts no other run.
THEOREM OutcomesAreTrue ==
    ASSUME NoNewRun
    PROVE  Spec => []OutcomeToldIsTrue
<1>1. RunInv => OutcomeToldIsTrue
  BY DEF RunInv
<1>2. RunInv /\ [Next]_vars => RunInv'
  BY NextRunInv
<1> QED
  BY <1>1, <1>2, InitRunInv, PTL DEF Spec

\* Every step of a handler is one of ResumeAnalysis on the row and its artifacts.
LEMMA StepImplements ==
    ASSUME RunInv, NEW c \in Consumers, Step(c)
    PROVE  Analysis!Next \/ UNCHANGED rowVars
<1>1. CASE EnterStage(c)
  <2>1. Knows(pc[c], run[c])
    BY DEF RunInv, IInv
  <2>2. CASE status' = status
    BY <1>1, <2>2 DEF EnterStage, rowVars
  <2>3. CASE status = From(c) /\ status' = pc[c]
    BY <1>1, <2>1, <2>3 DEF EnterStage, From, Stages, Knows, Analysis!Next, Analysis!Advance, Early
  <2> QED BY <1>1, <2>2, <2>3 DEF EnterStage
<1>2. CASE SaveData(c)
  <2>1. run[c].data \in Structured
    BY <1>2 DEF RunInv, IInv, Knows, SaveData
  <2> QED BY <1>2, <2>1 DEF SaveData, rowVars, Analysis!Next, Analysis!Parse
<1>3. CASE SaveChunks(c)
  <2>1. run[c].data = data
    BY <1>3 DEF RunInv, Within, SaveChunks
  <2> QED BY <1>3, <2>1 DEF SaveChunks, rowVars, Analysis!Next, Analysis!Embed
<1>4. CASE Fails(c)
  <2>1. status \in Status
    BY DEF RunInv, IInv, Surroundings
  <2>2. CASE UNCHANGED status
    BY <1>4, <2>2 DEF Fails, rowVars
  <2>3. CASE status \notin {"NONE"} \cup Terminal /\ status' = "FAILED"
    <3>1. status \in Analysis!Early \cup {"PARSED", "EMBEDDING"}
      BY <2>1, <2>3, Statuses DEF Early
    <3>2. Analysis!Advance(Analysis!Early \cup {"PARSED", "EMBEDDING"}, "FAILED")
      BY <1>4, <2>3, <3>1 DEF Fails, Analysis!Advance
    <3> QED BY <3>2 DEF Analysis!Next
  <2> QED BY <1>4, <2>2, <2>3 DEF Fails
<1>5. CASE \/ \E m \in Messages : Receive(c, m)
           \/ ReadStatus(c) \/ Announce(c) \/ Fetched(c) \/ StructuredBy(c)
           \/ Indexed(c) \/ CallFails(c) \/ LoadData(c) \/ Ack(c) \/ Dies(c)
  BY <1>5 DEF Receive, ReadStatus, Announce, Fetched, StructuredBy, Indexed, CallFails,
              LoadData, Ack, Dies
<1> QED
  BY <1>1, <1>2, <1>3, <1>4, <1>5 DEF Step, Work

\* A run is what its readers are promised: status and artifacts move together, stage by
\* stage, for any number of duplicates and handlers.
THEOREM RunRefinesAnalysis ==
    ASSUME NoNewRun
    PROVE  Spec => AnalysisSpec
<1>1. Init => Analysis!Init
  BY DEF Init, Analysis!Init
<1>2. RunInv /\ [Next]_vars => [Analysis!Next]_(Analysis!vars)
  <2> SUFFICES ASSUME RunInv, [Next]_vars PROVE Analysis!Next \/ UNCHANGED Analysis!vars
    OBVIOUS
  <2>1. CASE Next
    BY <2>1, OnlySteps, StepImplements DEF rowVars, Analysis!vars
  <2>2. CASE UNCHANGED vars
    BY <2>2 DEF vars, rowVars, Analysis!vars
  <2> QED BY <2>1, <2>2
<1>3. RunInv /\ [Next]_vars => RunInv'
  BY NextRunInv
<1> QED
  BY <1>1, <1>2, <1>3, InitRunInv, PTL DEF Spec, AnalysisSpec, Analysis!Spec

-----------------------------------------------------------------------------
(* Requests.  With handlers faster than the claim, a request is in the     *)
(* hands of one handler at most.                                           *)

\* A handler at p, with locals r, will not find its compare-and-set lost if the status
\* stays s.
InStep(p, r, s) ==
    \/ p \in {"read", "fail"}
    \/ p = "PARSING" /\ r.entry = s
    \/ p = "announce" /\ r.news = s
    \/ p = "TEXT_EXTRACTING" /\ s = "PARSING"
    \/ p \in {"fetch", "STRUCTURING"} /\ s = "TEXT_EXTRACTING"
    \/ p \in {"structure", "save data"} /\ s = "STRUCTURING"
    \/ p = "EMBEDDING" /\ s = "PARSED"
    \/ p \in {"load", "enrich", "embed", "save chunks"} /\ s = "EMBEDDING"

\* Request m will be worked on, or claimed.
Vouches(m) ==
    /\ m \in published /\ pel[m] # "acked"
    /\ \A c \in Consumers : handling[c] = m => InStep(pc[c], run[c], status)

\* What is in hand is pending, and in one hand; what is not published was never delivered.
Held ==
    /\ \A c \in Consumers :
          handling[c] # NoMessage => handling[c] \in published /\ pel[handling[c]] = "pending"
    /\ \A c, d \in Consumers : handling[c] = handling[d] /\ handling[c] # NoMessage => c = d
    /\ \A c \in Consumers : pc[c] # "idle" => handling[c] # NoMessage
    /\ \A m \in Messages \ published : pel[m] = "new"

WorkInv ==
    /\ IInv
    /\ Held
    /\ Unfinished => \E m \in Messages : Vouches(m)

\* The types the proofs below need.
LEMMA WorkTypes ==
    ASSUME IInv
    PROVE  /\ pc \in [Consumers -> PCs] /\ run \in [Consumers -> Run]
           /\ handling \in [Consumers -> Messages \cup {NoMessage}]
           /\ pel \in [Messages -> {"new", "pending", "acked"}]
           /\ published \subseteq Messages /\ NoMessage \notin Messages
           /\ status \in Status
BY GroupAssumption DEF IInv, Surroundings, GroupTypeOK

\* A delivery of m to c: what is in hand stays so, and m is in one hand.
LEMMA ReceiveHeld ==
    ASSUME IInv, Held, ~SlowHandlers, NEW c \in Consumers, NEW m \in Messages, Receive(c, m)
    PROVE  /\ Held'
           /\ \A d \in Consumers : handling[d] # m
           /\ pel' = [pel EXCEPT ![m] = "pending"]
           /\ handling' = [handling EXCEPT ![c] = m]
<1>1. /\ pel' = [pel EXCEPT ![m] = "pending"] /\ handling' = [handling EXCEPT ![c] = m]
      /\ m \in published /\ published' = published
      /\ pel[m] = "new" \/ Claimable(m)
  BY DEF Receive, Deliver
<1>2. ASSUME NEW d \in Consumers PROVE handling[d] # m
  BY <1>1, WorkTypes DEF Held, Claimable
<1>3. ASSUME NEW d \in Consumers, handling'[d] # NoMessage
      PROVE  handling'[d] \in published' /\ pel'[handling'[d]] = "pending"
  BY <1>1, <1>2, <1>3, WorkTypes DEF Held
<1>4. ASSUME NEW d \in Consumers, NEW e \in Consumers, handling'[d] = handling'[e],
             handling'[d] # NoMessage
      PROVE  d = e
  BY <1>1, <1>2, <1>4, WorkTypes DEF Held
<1>5. ASSUME NEW d \in Consumers, pc'[d] # "idle" PROVE handling'[d] # NoMessage
  <2>1. CASE d = c
    BY <1>1, <2>1, WorkTypes
  <2>2. CASE d # c
    <3>1. pc'[d] = pc[d] /\ handling'[d] = handling[d]
      BY <2>2, OneMoves DEF Step
    <3> QED BY <1>5, <3>1 DEF Held
  <2> QED BY <2>1, <2>2
<1>6. ASSUME NEW n \in Messages \ published' PROVE pel'[n] = "new"
  BY <1>1, <1>6, WorkTypes DEF Held
<1> QED
  BY <1>1, <1>2, <1>3, <1>4, <1>5, <1>6 DEF Held

\* What a handler does to its own request: it keeps it, gives it back or acknowledges it.
LEMMA OwnRequest ==
    ASSUME IInv, Held, NEW c \in Consumers, Work(c) \/ Dies(c)
    PROVE  /\ published' = published
           /\ \/ UNCHANGED <<pel, handling>> /\ pc[c] # "idle"
              \/ Finish(c) /\ Abandon(c)
              \/ Ack(c)
<1>1. CASE ReadStatus(c) \/ EnterStage(c) \/ Announce(c) \/ Fetched(c) \/ StructuredBy(c)
  BY <1>1 DEF ReadStatus, EnterStage, Stages, Announce, Fetched, StructuredBy, groupVars
<1>2. CASE Indexed(c) \/ SaveData(c) \/ LoadData(c) \/ SaveChunks(c) \/ Fails(c)
  BY <1>2 DEF Indexed, SaveData, LoadData, SaveChunks, Fails, groupVars
<1>3. CASE CallFails(c)
  BY <1>3 DEF CallFails, Calls, groupVars
<1>4. CASE Ack(c) \/ Dies(c)
  BY <1>4 DEF Ack, Dies
<1> QED
  BY <1>1, <1>2, <1>3, <1>4 DEF Work

\* The handlers' steps leave what is in hand in one hand.
LEMMA HandlersHeld ==
    ASSUME IInv, Held, NEW c \in Consumers, Work(c) \/ Dies(c)
    PROVE  Held'
<1>1. \A d \in Consumers \ {c} : pc'[d] = pc[d] /\ handling'[d] = handling[d]
  BY OneMoves DEF Step
<1>2. CASE UNCHANGED <<pel, handling>> /\ pc[c] # "idle"
  <2>1. published' = published
    BY OwnRequest
  <2>2. \A d \in Consumers : pc'[d] # "idle" => handling[d] # NoMessage
    BY <1>1, <1>2 DEF Held
  <2> QED BY <1>2, <2>1, <2>2 DEF Held
<1>3. CASE (Finish(c) /\ Abandon(c)) \/ Ack(c)
  <2>1. pc'[c] = "idle" /\ handling' = [handling EXCEPT ![c] = NoMessage]
    BY <1>3, WorkTypes DEF Finish, Goto, Ack, Abandon, Acknowledge
  <2>2. published' = published
    BY OwnRequest
  <2>3. \/ pel' = pel
        \/ pel' = [pel EXCEPT ![handling[c]] = "acked"] /\ pc[c] = "ack"
    BY <1>3 DEF Ack, Abandon, Acknowledge
  <2>4. ASSUME NEW d \in Consumers, handling'[d] # NoMessage
        PROVE  /\ d # c /\ handling'[d] = handling[d] /\ handling[d] \in published
               /\ handling[d] # handling[c] /\ pel[handling[d]] = "pending"
    BY <2>1, <2>4, WorkTypes DEF Held
  <2>5. ASSUME NEW d \in Consumers, handling'[d] # NoMessage
        PROVE  handling'[d] \in published' /\ pel'[handling'[d]] = "pending"
    BY <2>2, <2>3, <2>4, <2>5, WorkTypes
  <2>6. ASSUME NEW d \in Consumers, NEW e \in Consumers, handling'[d] = handling'[e],
               handling'[d] # NoMessage
        PROVE  d = e
    <3>1. handling[d] = handling[e] /\ handling[d] # NoMessage
      BY <2>4, <2>6
    <3> QED BY <3>1 DEF Held
  <2>7. ASSUME NEW d \in Consumers, pc'[d] # "idle" PROVE handling'[d] # NoMessage
    <3>1. d # c /\ pc'[d] = pc[d] /\ handling'[d] = handling[d]
      BY <1>1, <2>1, <2>7
    <3> QED BY <2>7, <3>1 DEF Held
  <2>8. ASSUME NEW n \in Messages \ published' PROVE pel'[n] = "new"
    <3>1. n \notin published /\ pel[n] = "new"
      BY <2>2 DEF Held
    <3>2. pc[c] = "ack" => handling[c] \in published
      BY DEF Held
    <3> QED BY <2>3, <3>1, <3>2, WorkTypes
  <2> QED BY <2>5, <2>6, <2>7, <2>8 DEF Held
<1> QED
  BY <1>2, <1>3, OwnRequest

-----------------------------------------------------------------------------
(* Who vouches for an unfinished analysis.                                 *)

\* The names of the unfinished statuses.
LEMMA UnfinishedStatuses ==
    ASSUME IInv, Unfinished
    PROVE  status \in Early \cup {"PARSED", "EMBEDDING"}
BY WorkTypes, Statuses DEF Unfinished

\* A handler that is in step and does not change the status stays in step, keeps its
\* request, or gives it back.
LEMMA StaysInStep ==
    ASSUME IInv, Unfinished, NEW c \in Consumers, Work(c) \/ Dies(c),
           InStep(pc[c], run[c], status), status' = status
    PROVE  /\ pel' = pel
           /\ handling'[c] = NoMessage \/ InStep(pc'[c], run'[c], status')
<1>1. /\ pc \in [Consumers -> PCs] /\ run \in [Consumers -> Run]
      /\ handling \in [Consumers -> Messages \cup {NoMessage}]
  BY WorkTypes
<1>2. status \in Early \cup {"PARSED", "EMBEDDING"}
  BY UnfinishedStatuses
<1>3. status \notin {"NONE"} \cup Terminal
  BY DEF Unfinished
<1>4. CASE ReadStatus(c)
  <2>1. pel' = pel
    BY <1>4 DEF ReadStatus, groupVars
  <2>2. CASE Tell(c, "EMBEDDING") /\ status = "EMBEDDING"
    <3>1. pc'[c] = "announce" /\ run'[c].news = "EMBEDDING"
      BY <1>1, <2>2 DEF Tell, Goto, Run
    <3> QED BY <2>1, <2>2, <3>1 DEF InStep
  <2>3. CASE Goto(c, "EMBEDDING") /\ status = "PARSED"
    <3>1. pc'[c] = "EMBEDDING"
      BY <1>1, <2>3 DEF Goto
    <3> QED BY <2>1, <2>3, <3>1 DEF InStep
  <2>4. CASE Goto(c, "fail")
    <3>1. pc'[c] = "fail"
      BY <1>1, <2>4 DEF Goto
    <3> QED BY <2>1, <3>1 DEF InStep
  <2>5. CASE Goto(c, "PARSING") /\ run' = [run EXCEPT ![c].entry = status]
    <3>1. pc'[c] = "PARSING" /\ run'[c].entry = status
      BY <1>1, <2>5 DEF Goto, Run
    <3> QED BY <2>1, <3>1 DEF InStep
  <2> QED BY <1>3, <1>4, <2>2, <2>3, <2>4, <2>5 DEF ReadStatus
<1>5. CASE EnterStage(c)
  <2>1. pc[c] \in Stages /\ pc[c] \notin {"read", "fail", "announce"}
    BY <1>5 DEF EnterStage, Stages
  <2>2. status = From(c)
    BY <2>1 DEF InStep, From, Stages
  <2>3. status' = pc[c] /\ Tell(c, pc[c]) /\ pel' = pel
    BY <1>5, <2>2 DEF EnterStage, groupVars
  <2>4. pc'[c] = "announce" /\ run'[c].news = pc[c]
    BY <1>1, <2>3 DEF Tell, Goto, Run
  <2> QED BY <2>3, <2>4 DEF InStep
<1>6. CASE Announce(c)
  <2>1. /\ run[c].news = status /\ pc'[c] = AfterNews(run[c].news)
        /\ pel' = pel
    BY <1>1, <1>6 DEF Announce, InStep, Goto, groupVars
  <2>2. CASE status \in {"PARSING", "TEXT_EXTRACTING", "STRUCTURING", "PARSED", "EMBEDDING"}
    BY <2>1, <2>2 DEF AfterNews, InStep
  <2>3. CASE status = "UPLOADED"
    <3>1. run[c].news \in News
      BY <1>6 DEF IInv, Knows, Announce
    <3> QED BY <2>1, <2>3, <3>1, Statuses DEF News, Stages
  <2> QED BY <1>2, <2>2, <2>3, Statuses
<1>7. CASE Fetched(c) \/ StructuredBy(c)
  <2>1. /\ pel' = pel
        /\ \/ pc[c] = "fetch" /\ pc'[c] \in {"fail", "STRUCTURING"}
           \/ pc[c] = "structure" /\ pc'[c] = "save data"
    BY <1>1, <1>7 DEF Fetched, StructuredBy, Goto, groupVars
  <2> QED BY <2>1 DEF InStep
<1>8. CASE Indexed(c) \/ LoadData(c)
  <2>1. /\ pel' = pel /\ pc[c] \in {"load", "enrich", "embed"}
        /\ pc'[c] \in {"fail", "enrich", "embed", "save chunks"}
    BY <1>1, <1>8 DEF Indexed, LoadData, Goto, groupVars
  <2> QED BY <2>1 DEF InStep
<1>9. CASE CallFails(c)
  <2>1. CASE Abandon(c)
    BY <1>1, <2>1 DEF Abandon
  <2>2. CASE UNCHANGED <<groupVars, pc>>
    <3>1. pel' = pel /\ pc'[c] = pc[c] /\ pc[c] \in Calls
      BY <1>9, <2>2 DEF CallFails, groupVars
    <3> QED BY <3>1 DEF InStep, Calls
  <2> QED BY <1>9, <2>1, <2>2 DEF CallFails
<1>10. CASE SaveData(c) \/ SaveChunks(c) \/ Fails(c)
  BY <1>3, <1>10, Statuses DEF SaveData, SaveChunks, Fails, InStep
<1>11. CASE Ack(c)
  BY <1>11 DEF Ack, InStep
<1>12. CASE Dies(c)
  BY <1>1, <1>12 DEF Dies, Abandon
<1> QED
  BY <1>4, <1>5, <1>6, <1>7, <1>8, <1>9, <1>10, <1>11, <1>12 DEF Work

\* Who changes the status and leaves the analysis unfinished is in step with what it set.
LEMMA ComesIntoStep ==
    ASSUME IInv, NEW c \in Consumers, Work(c) \/ Dies(c), status' # status, Unfinished'
    PROVE  /\ UNCHANGED <<pel, handling>> /\ pc[c] # "idle"
           /\ InStep(pc'[c], run'[c], status')
<1>1. pc \in [Consumers -> PCs] /\ run \in [Consumers -> Run]
  BY WorkTypes
<1>2. ASSUME NEW s, status' = s, Tell(c, s) PROVE InStep(pc'[c], run'[c], status')
  <2>1. pc'[c] = "announce" /\ run'[c].news = s
    BY <1>1, <1>2 DEF Tell, Goto, Run
  <2> QED BY <1>2, <2>1 DEF InStep
<1>3. CASE EnterStage(c)
  BY <1>2, <1>3 DEF EnterStage, Stages, groupVars
<1>4. CASE SaveData(c)
  BY <1>2, <1>4 DEF SaveData, groupVars
<1>5. CASE SaveChunks(c) \/ Fails(c)
  BY <1>5, Statuses DEF SaveChunks, Fails, Unfinished
<1>6. CASE \/ ReadStatus(c) \/ Announce(c) \/ Fetched(c) \/ StructuredBy(c)
           \/ Indexed(c) \/ CallFails(c) \/ LoadData(c) \/ Ack(c) \/ Dies(c)
  BY <1>6 DEF ReadStatus, Announce, Fetched, StructuredBy, Indexed, CallFails,
              LoadData, Ack, Dies, rowVars
<1> QED
  BY <1>3, <1>4, <1>5, <1>6 DEF Work

\* Somebody vouches for the analysis after a handler's step.
LEMMA HandlersVouch ==
    ASSUME WorkInv, NEW c \in Consumers, Work(c) \/ Dies(c), Unfinished'
    PROVE  \E m \in Messages : Vouches(m)'
<1>1. IInv /\ Held /\ published' = published
  BY OwnRequest DEF WorkInv
<1>2. \A d \in Consumers \ {c} :
          pc'[d] = pc[d] /\ run'[d] = run[d] /\ handling'[d] = handling[d]
  BY <1>1, OneMoves DEF Step
<1>3. CASE status' = status
  <2>1. Unfinished
    BY <1>3 DEF Unfinished
  <2>2. PICK m \in Messages : Vouches(m)
    BY <2>1 DEF WorkInv
  <2>3. CASE handling[c] = m
    <3>1. InStep(pc[c], run[c], status)
      BY <2>2, <2>3 DEF Vouches
    <3>2. pel' = pel /\ (handling'[c] = NoMessage \/ InStep(pc'[c], run'[c], status'))
      BY <1>1, <1>3, <2>1, <3>1, StaysInStep
    <3>3. ASSUME NEW d \in Consumers, handling'[d] = m
          PROVE  InStep(pc'[d], run'[d], status')
      <4>1. CASE d = c
        BY <1>1, <3>2, <3>3, <4>1, WorkTypes
      <4>2. CASE d # c
        BY <1>2, <1>3, <2>2, <3>3, <4>2 DEF Vouches
      <4> QED BY <4>1, <4>2
    <3> QED BY <1>1, <2>2, <3>2, <3>3 DEF Vouches
  <2>4. CASE handling[c] # m
    <3>1. handling'[c] # m /\ pel'[m] = pel[m]
      <4>1. CASE UNCHANGED <<pel, handling>>
        BY <2>4, <4>1
      <4>2. CASE Abandon(c)
        BY <1>1, <4>2, WorkTypes DEF Abandon
      <4>3. CASE Ack(c)
        BY <1>1, <2>4, <4>3, WorkTypes DEF Ack, Acknowledge
      <4> QED BY <1>1, <4>1, <4>2, <4>3, OwnRequest
    <3>2. ASSUME NEW d \in Consumers, handling'[d] = m
          PROVE  InStep(pc'[d], run'[d], status')
      BY <1>2, <1>3, <2>2, <3>1, <3>2 DEF Vouches
    <3> QED BY <1>1, <2>2, <3>1, <3>2 DEF Vouches
  <2> QED BY <2>3, <2>4
<1>4. CASE status' # status
  <2>1. /\ UNCHANGED <<pel, handling>> /\ pc[c] # "idle"
        /\ InStep(pc'[c], run'[c], status')
    BY <1>1, <1>4, ComesIntoStep
  <2>2. handling[c] \in published /\ pel[handling[c]] = "pending" /\ handling[c] \in Messages
    BY <1>1, <2>1, WorkTypes DEF Held
  <2>3. PICK m \in Messages : m = handling[c]
    BY <2>2
  <2>4. ASSUME NEW d \in Consumers, handling'[d] = m PROVE d = c
    BY <1>1, <2>1, <2>2, <2>3, <2>4, WorkTypes DEF Held
  <2>5. Vouches(m)'
    BY <1>1, <2>1, <2>2, <2>3, <2>4 DEF Vouches
  <2> QED BY <2>5
<1> QED
  BY <1>3, <1>4

\* And after a delivery.
LEMMA ReceiveVouches ==
    ASSUME WorkInv, ~SlowHandlers, NEW c \in Consumers, NEW n \in Messages, Receive(c, n),
           Unfinished'
    PROVE  \E m \in Messages : Vouches(m)'
<1>1. IInv /\ Held /\ status' = status /\ published' = published
  BY DEF WorkInv, Receive, rowVars
<1>2. Unfinished
  BY <1>1 DEF Unfinished
<1>3. PICK m \in Messages : Vouches(m)
  BY <1>2 DEF WorkInv
<1>4. /\ pel' = [pel EXCEPT ![n] = "pending"]
      /\ handling' = [handling EXCEPT ![c] = n]
  BY <1>1, ReceiveHeld
<1>5. pel'[m] # "acked"
  BY <1>1, <1>3, <1>4, WorkTypes DEF Vouches
<1>6. ASSUME NEW d \in Consumers, handling'[d] = m
      PROVE  InStep(pc'[d], run'[d], status')
  <2>1. CASE d = c
    <3>1. pc'[c] \in {"read", "fail"}
      BY <1>1, WorkTypes DEF Receive, Goto
    <3> QED BY <2>1, <3>1 DEF InStep
  <2>2. CASE d # c
    <3>1. pc'[d] = pc[d] /\ run'[d] = run[d] /\ handling'[d] = handling[d]
      BY <1>1, <2>2, OneMoves DEF Step
    <3> QED BY <1>1, <1>3, <1>6, <3>1 DEF Vouches
  <2> QED BY <2>1, <2>2
<1>7. m \in published' /\ m \in Messages
  BY <1>1, <1>3 DEF Vouches
<1>8. Vouches(m)'
  BY <1>5, <1>6, <1>7 DEF Vouches
<1> QED
  BY <1>7, <1>8

\* A new run of the backend comes with its request.
LEMMA BackendWorks ==
    ASSUME IInv, Held, Backend
    PROVE  Held' /\ \E m \in Messages : Vouches(m)'
<1>1. PICK m \in Messages \ published : Reanalyse(m) \/ Reindex(m)
  BY DEF Backend, Reanalyse, Reindex
<1>2. UNCHANGED <<groupVars, pc, run>> /\ published' = published \cup {m}
  BY <1>1 DEF Reanalyse, Reindex
<1>3. Held' /\ pel[m] = "new"
  BY <1>2, WorkTypes DEF Held, groupVars
<1>4. \A c \in Consumers : handling[c] # m
  BY <1>3, WorkTypes DEF Held
<1>5. Vouches(m)'
  BY <1>2, <1>3, <1>4 DEF Vouches, groupVars
<1> QED
  BY <1>3, <1>5

\* The invariant of the requests holds at the start.
LEMMA InitWorkInv == Init => WorkInv
<1> SUFFICES ASSUME Init PROVE WorkInv
  OBVIOUS
<1>1. IInv
  BY InitIInv
<1>2. Held
  BY <1>1, WorkTypes DEF Init, GroupInit, Held
<1>3. ASSUME NEW m \in FirstRequests PROVE m \in Messages /\ Vouches(m)
  BY GroupAssumption, ResumeAssumption DEF Init, GroupInit, Vouches
<1>4. PICK m \in FirstRequests : TRUE
  BY ResumeAssumption
<1> QED
  BY <1>1, <1>2, <1>3, <1>4 DEF WorkInv

\* It survives every step of handlers faster than the claim.
LEMMA NextWorkInv ==
    ASSUME ~SlowHandlers
    PROVE  WorkInv /\ [Next]_vars => WorkInv'
<1> SUFFICES ASSUME WorkInv, [Next]_vars PROVE WorkInv'
  OBVIOUS
<1>1. IInv /\ Held /\ IInv'
  BY NextIInv DEF WorkInv
<1>2. CASE \E c \in Consumers, m \in Messages : Receive(c, m)
  BY <1>1, <1>2, ReceiveHeld, ReceiveVouches DEF WorkInv
<1>3. CASE \E c \in Consumers : Work(c) \/ Dies(c)
  BY <1>1, <1>3, HandlersHeld, HandlersVouch DEF WorkInv
<1>4. CASE Backend
  BY <1>1, <1>4, BackendWorks DEF WorkInv
<1>5. CASE UNCHANGED vars
  <2>1. Held'
    BY <1>1, <1>5 DEF vars, groupVars, Held
  <2>2. ASSUME NEW m \in Messages, Vouches(m) PROVE Vouches(m)'
    BY <1>5, <2>2 DEF vars, groupVars, rowVars, Vouches
  <2>3. Unfinished' = Unfinished
    BY <1>5 DEF vars, rowVars, Unfinished
  <2> QED BY <1>1, <2>1, <2>2, <2>3 DEF WorkInv
<1> QED
  BY <1>2, <1>3, <1>4, <1>5 DEF Next

\* While an analysis is unfinished a request of it is unacknowledged, for any number of
\* duplicates, handlers, deaths and new runs, if no handler is slower than the claim.
THEOREM WorkIsNeverOrphaned ==
    ASSUME ~SlowHandlers
    PROVE  Spec => []WorkHasRequest
<1>1. WorkInv => WorkHasRequest
  BY DEF WorkInv, Vouches, WorkHasRequest
<1>2. WorkInv /\ [Next]_vars => WorkInv'
  BY NextWorkInv
<1> QED
  BY <1>1, <1>2, InitWorkInv, PTL DEF Spec

=============================================================================
