----------------------------- MODULE ResumeWorker -----------------------------
(***************************************************************************)
(* The resume worker (worker/src/main.py, worker/src/analysis/pipeline.py):*)
(* from an uploaded PDF to structured data and an index of chunks.  All    *)
(* shared state hangs on one resume, so one resume is modelled: its status *)
(* row, its two artifacts, the requests that name it and the handlers that *)
(* serve them.                                                             *)
(*                                                                         *)
(*   read -> PARSING -> TEXT_EXTRACTING -> fetch -> STRUCTURING ->         *)
(*   structure -> save data -> EMBEDDING -> load -> enrich -> embed ->     *)
(*   save chunks -> ack                                                    *)
(*                                                                         *)
(* Every stage is entered by a compare-and-set of the status, then         *)
(* announced; whoever loses one yields and acknowledges.  A step is what   *)
(* happens between two awaits.  Unlike the report worker, a new request    *)
(* does not yield to work in progress: it resumes it, as a reclaimed one.  *)
(*                                                                         *)
(* Not modelled: retry_count and error_message, which no branch reads, and *)
(* the synchronous HTTP entrance, an experiment that runs the pipeline.    *)
(***************************************************************************)
EXTENDS ConsumerGroup

CONSTANTS
    FirstRequests,      \* requests of the first run: more than one are duplicates
    Reanalyses,         \* later requests, mode FULL
    Reindexes,          \* later requests, mode REINDEX
    Structured, Edits,  \* versions of structured_data, by the LLM and by the user
    Resumes,            \* the kinds of resume a request may name
    RetryMaxAttempts,   \* settings.retry_max_attempts
    Absent

ASSUME ResumeAssumption ==
    /\ Messages = FirstRequests \cup Reanalyses \cup Reindexes
    /\ FirstRequests \cap (Reanalyses \cup Reindexes) = {}
    /\ Reanalyses \cap Reindexes = {}
    /\ FirstRequests # {}
    /\ Resumes \subseteq {"missing", "scan", "text"}
    /\ RetryMaxAttempts \in Nat \ {0}
    /\ Absent \notin Structured \cup Edits

VARIABLES
    resume,      \* the kind of resume, fixed
    published,   \* the requests the backend has put on the stream
    status, data, chunks,   \* the row and the artifacts, as in ResumeAnalysis
    pc,          \* where a handler is
    run,         \* its local variables
    told         \* the last status published

rowVars == <<status, data, chunks>>
vars == <<groupVars, resume, published, rowVars, pc, run, told>>

Analysis == INSTANCE ResumeAnalysis
AnalysisSpec == Analysis!Spec

Terminal == Analysis!Terminal
Early    == Analysis!Early
Status   == Analysis!Status
Data     == Structured \cup Edits

-----------------------------------------------------------------------------
Run == [count : 0 .. GiveUpAt, tries : 0 .. RetryMaxAttempts, entry : Status,
        data : Data \cup {Absent}, news : Status]

Begun(n) == [count |-> n, tries |-> 0, entry |-> "NONE", data |-> Absent, news |-> "NONE"]

\* A place named after a stage is just before the compare-and-set that enters it.
Stages == {"PARSING", "TEXT_EXTRACTING", "STRUCTURING", "EMBEDDING"}
Calls  == {"fetch", "structure", "enrich", "embed"}
PCs    == Stages \cup Calls
            \cup {"idle", "read", "announce", "save data", "load", "save chunks", "fail", "ack"}

Goto(c, place) == pc' = [pc EXCEPT ![c] = place]

\* The coroutine is over and its locals with it.
Finish(c) ==
    /\ Goto(c, "idle")
    /\ run' = [run EXCEPT ![c] = Begun(0)]

Tell(c, s) ==
    /\ Goto(c, "announce")
    /\ run' = [run EXCEPT ![c].news = s]

Yield(c) == Goto(c, "ack") /\ UNCHANGED run

-----------------------------------------------------------------------------
\* Bug: the give-up rule is missing.
Receive_NoGiveUp(c, m) ==
    /\ m \in published
    /\ Deliver(c, m)
    /\ run' = [run EXCEPT ![c] = Begun(DeliveryCount(m))]
    /\ Goto(c, "read")
    /\ UNCHANGED <<resume, published, rowVars, told>>

\* The give-up rule comes before anything is read.
Receive(c, m) ==
    /\ m \in published
    /\ Deliver(c, m)
    /\ run' = [run EXCEPT ![c] = Begun(DeliveryCount(m))]
    /\ Goto(c, IF DeliveryCount(m) >= GiveUpAt THEN "fail" ELSE "read")
    /\ UNCHANGED <<resume, published, rowVars, told>>

\* Bug: a request for the whole pipeline begins it, whatever the status.
ReadStatus_ModeTrusted(c) ==
    /\ pc[c] = "read"
    /\ IF status = "NONE" THEN Yield(c)
       ELSE IF handling[c] \in Reindexes THEN Tell(c, "EMBEDDING")
       ELSE Goto(c, "PARSING") /\ run' = [run EXCEPT ![c].entry = status]
    /\ UNCHANGED <<groupVars, resume, published, rowVars, told>>

\* The status decides where a request enters; the mode is only checked against it.
ReadStatus(c) ==
    /\ pc[c] = "read"
    /\ CASE status \in {"NONE"} \cup Terminal -> Yield(c)
         [] status = "EMBEDDING"              -> Tell(c, "EMBEDDING")
         [] status = "PARSED"                 -> Goto(c, "EMBEDDING") /\ UNCHANGED run
         [] status \in Early /\ handling[c] \in Reindexes
                                              -> Goto(c, "fail") /\ UNCHANGED run
         [] OTHER -> /\ Goto(c, "PARSING")
                     /\ run' = [run EXCEPT ![c].entry = status]
    /\ UNCHANGED <<groupVars, resume, published, rowVars, told>>

\* The status a stage is entered from.
From(c) == CASE pc[c] = "PARSING"         -> run[c].entry
             [] pc[c] = "TEXT_EXTRACTING" -> "PARSING"
             [] pc[c] = "STRUCTURING"     -> "TEXT_EXTRACTING"
             [] pc[c] = "EMBEDDING"       -> "PARSED"

\* Bug: a stage is entered without the compare-and-set.
EnterStage_NoCompare(c) ==
    /\ pc[c] \in Stages
    /\ status' = pc[c]
    /\ Tell(c, pc[c])
    /\ UNCHANGED <<groupVars, resume, published, data, chunks, told>>

\* Bug: PARSING is entered only from UPLOADED, as if nothing were ever resumed.
EnterStage_OnlyNew(c) ==
    /\ pc[c] \in Stages
    /\ IF status = (IF pc[c] = "PARSING" THEN "UPLOADED" ELSE From(c))
       THEN status' = pc[c] /\ Tell(c, pc[c])
       ELSE Yield(c) /\ UNCHANGED status
    /\ UNCHANGED <<groupVars, resume, published, data, chunks, told>>

EnterStage(c) ==
    /\ pc[c] \in Stages
    /\ IF status = From(c)
       THEN status' = pc[c] /\ Tell(c, pc[c])
       ELSE Yield(c) /\ UNCHANGED status
    /\ UNCHANGED <<groupVars, resume, published, data, chunks, told>>

AfterNews(s) == CASE s = "PARSING"         -> "TEXT_EXTRACTING"
                  [] s = "TEXT_EXTRACTING" -> "fetch"
                  [] s = "STRUCTURING"     -> "structure"
                  [] s = "PARSED"          -> "EMBEDDING"
                  [] s = "EMBEDDING"       -> "load"
                  [] OTHER                 -> "ack"

Announce(c) ==
    /\ pc[c] = "announce"
    /\ told' = run[c].news
    /\ Goto(c, AfterNews(run[c].news))
    /\ run' = [run EXCEPT ![c].news = "NONE"]
    /\ UNCHANGED <<groupVars, resume, published, rowVars>>

\* A scanned PDF has no text and fails for good.
Fetched(c) ==
    /\ pc[c] = "fetch"
    /\ Goto(c, IF resume = "scan" THEN "fail" ELSE "STRUCTURING")
    /\ run' = [run EXCEPT ![c].tries = 0]
    /\ UNCHANGED <<groupVars, resume, published, rowVars, told>>

StructuredBy(c) ==
    /\ pc[c] = "structure"
    /\ \E d \in Structured : run' = [run EXCEPT ![c].tries = 0, ![c].data = d]
    /\ Goto(c, "save data")
    /\ UNCHANGED <<groupVars, resume, published, rowVars, told>>

\* Enriched once, embedded once; the chunks are a function of the data loaded.
Indexed(c) ==
    /\ pc[c] \in {"enrich", "embed"}
    /\ Goto(c, IF pc[c] = "enrich" THEN "embed" ELSE "save chunks")
    /\ run' = [run EXCEPT ![c].tries = 0]
    /\ UNCHANGED <<groupVars, resume, published, rowVars, told>>

\* Bug: the last failure is swallowed, so that the request is acknowledged.
CallFails_Swallowed(c) ==
    /\ pc[c] \in Calls
    /\ IF run[c].tries + 1 < RetryMaxAttempts
       THEN run' = [run EXCEPT ![c].tries = @ + 1] /\ UNCHANGED pc
       ELSE Yield(c)
    /\ UNCHANGED <<groupVars, resume, published, rowVars, told>>

\* Bug: a call is retried without end.
CallFails_NoLimit(c) ==
    /\ pc[c] \in Calls
    /\ run' = [run EXCEPT ![c].tries = @ + 1]
    /\ UNCHANGED <<groupVars, resume, published, rowVars, pc, told>>

\* _with_retry: the last failure is raised.
CallFails(c) ==
    /\ pc[c] \in Calls
    /\ IF run[c].tries + 1 < RetryMaxAttempts
       THEN /\ run' = [run EXCEPT ![c].tries = @ + 1]
            /\ UNCHANGED <<groupVars, pc>>
       ELSE /\ Finish(c)
            /\ Abandon(c)
    /\ UNCHANGED <<resume, published, rowVars, told>>

\* Bug: the data of a handler that lost the compare-and-set is not rolled back.
SaveData_NoRollback(c) ==
    /\ pc[c] = "save data"
    /\ data' = run[c].data
    /\ IF status = "STRUCTURING"
       THEN status' = "PARSED" /\ Tell(c, "PARSED")
       ELSE Yield(c) /\ UNCHANGED status
    /\ UNCHANGED <<groupVars, resume, published, chunks, told>>

\* Bug: PARSED is set without waiting for the data to be stored.
SaveData_StatusOnly(c) ==
    /\ pc[c] = "save data"
    /\ IF status = "STRUCTURING"
       THEN status' = "PARSED" /\ Tell(c, "PARSED")
       ELSE Yield(c) /\ UNCHANGED status
    /\ UNCHANGED <<groupVars, resume, published, data, chunks, told>>

\* One transaction: the data and PARSED, or neither.
SaveData(c) ==
    /\ pc[c] = "save data"
    /\ IF status = "STRUCTURING"
       THEN /\ data' = run[c].data
            /\ status' = "PARSED"
            /\ Tell(c, "PARSED")
       ELSE Yield(c) /\ UNCHANGED <<status, data>>
    /\ UNCHANGED <<groupVars, resume, published, chunks, told>>

LoadData(c) ==
    /\ pc[c] = "load"
    /\ run' = [run EXCEPT ![c].data = data]
    /\ Goto(c, IF data = Absent THEN "fail" ELSE "enrich")
    /\ UNCHANGED <<groupVars, resume, published, rowVars, told>>

\* One transaction: the chunks and EMBEDDED, or neither.
SaveChunks(c) ==
    /\ pc[c] = "save chunks"
    /\ IF status = "EMBEDDING"
       THEN /\ chunks' = run[c].data
            /\ status' = "EMBEDDED"
            /\ Tell(c, "EMBEDDED")
       ELSE Yield(c) /\ UNCHANGED <<status, chunks>>
    /\ UNCHANGED <<groupVars, resume, published, data, told>>

\* Bug: FAILED is announced whether or not mark_failed recorded it.
Fails_TellsAnyway(c) ==
    /\ pc[c] = "fail"
    /\ Tell(c, "FAILED")
    /\ IF status \in {"NONE"} \cup Terminal
       THEN UNCHANGED status
       ELSE status' = "FAILED"
    /\ UNCHANGED <<groupVars, resume, published, data, chunks, told>>

\* mark_failed: a missing row or a terminal status is left alone.
Fails(c) ==
    /\ pc[c] = "fail"
    /\ IF status \in {"NONE"} \cup Terminal
       THEN Yield(c) /\ UNCHANGED status
       ELSE status' = "FAILED" /\ Tell(c, "FAILED")
    /\ UNCHANGED <<groupVars, resume, published, data, chunks, told>>

Ack(c) ==
    /\ pc[c] = "ack"
    /\ Acknowledge(c)
    /\ Finish(c)
    /\ UNCHANGED <<resume, published, rowVars, told>>

\* The process dies or a statement raises: no trace but the pending request.
Dies(c) ==
    /\ ~Idle(c)
    /\ Abandon(c)
    /\ Finish(c)
    /\ UNCHANGED <<resume, published, rowVars, told>>

-----------------------------------------------------------------------------
\* The backend starts a run of a resume whose last run is over: status and request
\* in one transaction.
Reanalyse(m) ==
    /\ m \in Reanalyses \ published
    /\ status \in Terminal
    /\ status' = "UPLOADED"
    /\ published' = published \cup {m}
    /\ told' = "UPLOADED"
    /\ UNCHANGED <<groupVars, resume, data, chunks, pc, run>>

Reindex(m) ==
    /\ m \in Reindexes \ published
    /\ status = "EMBEDDED"
    /\ status' = "EMBEDDING"
    /\ data' \in Edits
    /\ published' = published \cup {m}
    /\ told' = "EMBEDDING"
    /\ UNCHANGED <<groupVars, resume, chunks, pc, run>>

Init ==
    /\ GroupInit
    /\ resume \in Resumes
    /\ published = FirstRequests
    /\ status = IF resume = "missing" THEN "NONE" ELSE "UPLOADED"
    /\ data = Absent
    /\ chunks = Absent
    /\ pc = [c \in Consumers |-> "idle"]
    /\ run = [c \in Consumers |-> Begun(0)]
    /\ told = status

Work(c) ==
    \/ ReadStatus(c)   \/ EnterStage(c) \/ Announce(c) \/ Fetched(c)
    \/ StructuredBy(c) \/ Indexed(c)    \/ CallFails(c) \/ SaveData(c)
    \/ LoadData(c)     \/ SaveChunks(c) \/ Fails(c)    \/ Ack(c)

Backend == \E m \in Messages : Reanalyse(m) \/ Reindex(m)

Next ==
    \/ \E c \in Consumers, m \in Messages : Receive(c, m)
    \/ \E c \in Consumers : Work(c) \/ Dies(c)
    \/ Backend

Spec == Init /\ [][Next]_vars

\* A scheduled handler makes progress and the subscriber keeps reading.
FairSpec ==
    /\ Spec
    /\ \A c \in Consumers : WF_vars(Work(c))
    /\ \A m \in Messages : WF_vars(\E c \in Consumers : Receive(c, m))

-----------------------------------------------------------------------------
TypeOK ==
    /\ GroupTypeOK
    /\ resume \in Resumes
    /\ published \subseteq Messages
    /\ status \in Status
    /\ data \in Data \cup {Absent}
    /\ chunks \in Data \cup {Absent}
    /\ pc \in [Consumers -> PCs]
    /\ run \in [Consumers -> Run]
    /\ told \in Status

Unfinished == status \notin {"NONE"} \cup Terminal

\* As long as an analysis is under way, one of its requests is unacknowledged: whatever
\* dies, there is something to reclaim.  It is the reason why a handler that loses a
\* compare-and-set may acknowledge and forget.
WorkHasRequest == Unfinished => \E m \in published : pel[m] # "acked"

\* A status past the structuring stage is never reached without structured data, through
\* restarted stages, new runs and stale requests (pipeline.md, chapter 2.4).
ParsedHasData == status \in {"PARSED", "EMBEDDING", "EMBEDDED"} => data # Absent

\* Only the backend, by publishing the request of a new run, reopens an analysis that is
\* EMBEDDED or FAILED: never a stale, reclaimed or duplicate request.
OnlyNewRunReopens ==
    [][(status \in Terminal /\ status' # status) => (published' # published)]_vars

\* Within a run, the backend is never told of an outcome that the row does not have:
\* only the winner of a compare-and-set publishes.
OutcomeToldIsTrue == told \in Terminal => status = told

\* A handler dies finitely often; a call may go on failing (which ends like a death, but
\* is the work of the handler).
FewDeaths == <>[][\A c \in Consumers : Dies(c) => Work(c)]_vars

\* An analysis is EMBEDDED or FAILED in the end.
AnalysisConcludes == FewDeaths => (Unfinished ~> ~Unfinished)

\* No request is redelivered forever.
RequestsDrain == FewDeaths => <>[](\A m \in published : pel[m] = "acked")

\* What the documents say and the code does not keep.

\* pipeline.md, chapter 3.1: EMBEDDED always means that the work is complete, the user's
\* edits included.
EmbeddedIsComplete == status = "EMBEDDED" => chunks = data
=============================================================================
