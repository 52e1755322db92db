--------------------------- MODULE ResumeAnalysis ---------------------------
(***************************************************************************)
(* What the resume worker promises to the readers of a resume: the status  *)
(* column and the two artifacts it stands for (pipeline.md, chapters 1.3,  *)
(* 2.2 and 2.4).  An artifact appears together with the status that        *)
(* promises it, the index is built from the structured data of the row,    *)
(* and only a new run of the backend leaves EMBEDDED or FAILED.            *)
(*                                                                         *)
(* This is the abstract specification that ResumeWorker implements with    *)
(* handlers that race, die, are reclaimed and served duplicates.           *)
(***************************************************************************)

CONSTANTS Structured,   \* what the structuring LLM may answer
          Edits,        \* what the user may make of it
          Absent

VARIABLES status,   \* resume_analysis_status.parse_status, "NONE" without a row
          data,     \* resumes.structured_data
          chunks    \* resume_chunks, named by the data they were built from

vars == <<status, data, chunks>>

\* The stages that begin again when they are resumed: the text is never stored.
Early    == {"UPLOADED", "PARSING", "TEXT_EXTRACTING", "STRUCTURING"}
Terminal == {"EMBEDDED", "FAILED"}
Status   == {"NONE"} \cup Early \cup {"PARSED", "EMBEDDING"} \cup Terminal

Init ==
    /\ status \in {"NONE", "UPLOADED"}
    /\ data = Absent
    /\ chunks = Absent

Advance(from, to) ==
    /\ status \in from
    /\ status' = to
    /\ UNCHANGED <<data, chunks>>

Parse ==
    /\ status = "STRUCTURING"
    /\ status' = "PARSED"
    /\ data' \in Structured
    /\ UNCHANGED chunks

Embed ==
    /\ status = "EMBEDDING"
    /\ status' = "EMBEDDED"
    /\ chunks' = data
    /\ UNCHANGED data

\* The backend starts a new run: from the file, or from the data the user edited.
Reanalyse ==
    /\ status \in Terminal
    /\ status' = "UPLOADED"
    /\ UNCHANGED <<data, chunks>>

Reindex ==
    /\ status = "EMBEDDED"
    /\ status' = "EMBEDDING"
    /\ data' \in Edits
    /\ UNCHANGED chunks

Next ==
    \/ Advance(Early, "PARSING")
    \/ Advance({"PARSING"}, "TEXT_EXTRACTING")
    \/ Advance({"TEXT_EXTRACTING"}, "STRUCTURING")
    \/ Parse
    \/ Advance({"PARSED"}, "EMBEDDING")
    \/ Embed
    \/ Advance(Early \cup {"PARSED", "EMBEDDING"}, "FAILED")
    \/ Reanalyse
    \/ Reindex

Spec == Init /\ [][Next]_vars
=============================================================================
