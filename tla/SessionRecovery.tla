--------------------------- MODULE SessionRecovery ---------------------------
(***************************************************************************)
(* One interview session over the jobs that serve it: what they keep in    *)
(* Redis and in the database, how a job that replaces a crashed one        *)
(* restores the interview from it, and how the end sequence hands the      *)
(* session over to Spring and to the report worker.                        *)
(*                                                                         *)
(* agent/src/main.py (the entrypoint), interview/session_store.py,         *)
(* restore.py, redis_sink.py, transcript_store.py, report_request.py,      *)
(* end_sequence.py and the store operations of reconnect.py.  What happens *)
(* inside one job while it talks is the matter of TurnPipeline; here a job *)
(* talks, and closes, as it pleases.  Every read of a clock may go either  *)
(* way, and every call of Redis or of the database may fail, or succeed    *)
(* without the caller learning of it.                                      *)
(*                                                                         *)
(* Spring and the candidate are external.  Spring runs at most one job of  *)
(* a session at a time and none once the row is there (interview-          *)
(* recovery.md, Overview 5; interview-end.md 3).  That it refrains when it *)
(* sees the marker too is not relied upon: the job defends itself.         *)
(***************************************************************************)
EXTENDS Naturals, Sequences

CONSTANTS NoRow,
          MaxJobs,      \* bound: dispatches of the session
          MaxSaid,      \* bound: utterances of the session
          MaxAbsences   \* bound: departures of the candidate

Kinds == {"talk", "final", "finalAnswer", "closing"}
Utterance == [id : 1..MaxSaid, kind : Kinds]

ASSUME NoRowIsNoLog == NoRow \notin Seq(Utterance)
ASSUME BoundsAreNaturals == MaxJobs \in Nat /\ MaxSaid \in Nat /\ MaxAbsences \in Nat

VARIABLES
    \* what outlives a job
    started,      \* meta startedAt and candidateIdentity, written together
    deadline,     \* meta reconnectDeadline: the absence it belongs to
    copy, marker, row, requests,    \* see SessionRecord
    owner,        \* interview:{id}:owner, the number of a job
    \* Spring, LiveKit and the candidate
    verdict, room, present, absences, said,
    \* the job: how many there were, and the state of the last one
    job, pc,
    plan,         \* how it was told to begin: new, resumed, to be closed, without a voice
    cause,        \* of its end
    log,          \* ConversationLog, what will be the row
    queue,        \* RedisTranscriptWriter._queue
    armed,        \* the PresenceMonitor listens
    deadlineOps,  \* waiters of PresenceMonitor._store_lock, the deadline each will leave
    settled,      \* the last of them is known to have succeeded
    blind,        \* its read of the recovery state failed
    \* history, read by the properties only
    closedBy,     \* the job that last spoke the closing statement
    forgotten,    \* what was in the copy when a job could not read it
    purged        \* what was deleted from the copy

record  == <<copy, marker, row, requests>>
meta    == <<started, deadline>>
world   == <<verdict, room, present, absences>>
monitor == <<armed, deadlineOps, settled>>
talk    == <<said, log, queue, closedBy>>
plans   == <<plan, cause, blind>>
history == <<forgotten, purged>>
vars    == <<record, meta, owner, world, monitor, talk, plans, history, job, pc>>

Nobody     == 0
NoDeadline == 0
NoCause    == "none"
\* COMPLETED stands for every cause that leaves a row: FINAL_QUESTION, LLM_END,
\* HARD_TIMEOUT, USER_REQUEST, RECOVERED_CLOSING.
Causes == {"COMPLETED", "RECONNECT_TIMEOUT"}
Plans  == {"new", "resume", "close", "silent"}

Ids(s)  == {s[i].id : i \in DOMAIN s}
Last(s) == s[Len(s)]
EndsIn(s, kind) == s # <<>> /\ Last(s).kind = kind
Holds(s, kind)  == \E i \in DOMAIN s : s[i].kind = kind

Init ==
    /\ started = FALSE /\ deadline = NoDeadline /\ owner = Nobody
    /\ copy = <<>> /\ marker = FALSE /\ row = NoRow /\ requests = 0
    /\ verdict = "open" /\ room = TRUE /\ present = FALSE /\ absences = 0 /\ said = 0
    /\ job = 0 /\ pc = "none"
    /\ plan = "new" /\ cause = NoCause /\ log = <<>> /\ queue = <<>>
    /\ armed = FALSE /\ deadlineOps = <<>> /\ settled = FALSE /\ blind = FALSE
    /\ closedBy = 0 /\ forgotten = {} /\ purged = {}

-----------------------------------------------------------------------------
(* Beginning: the entrypoint up to the first words. *)

\* A process holds nothing before it starts and leaves nothing when it is gone.
Blank ==
    /\ plan' = "new" /\ cause' = NoCause /\ log' = <<>> /\ queue' = <<>>
    /\ armed' = FALSE /\ deadlineOps' = <<>> /\ settled' = FALSE /\ blind' = FALSE

Dispatch ==
    /\ pc = "none" /\ job < MaxJobs
    /\ verdict = "open" /\ room /\ row = NoRow
    /\ job' = job + 1
    /\ pc' = "read"
    /\ Blank
    /\ UNCHANGED <<record, meta, owner, world, said, closedBy, history>>

\* read_restore_state failed: no state is no session, the interview begins anew.
ReadFails ==
    /\ pc = "read"
    /\ blind' = TRUE
    /\ forgotten' = forgotten \cup Ids(copy)
    /\ pc' = "claim"
    /\ UNCHANGED <<record, meta, owner, world, monitor, talk, plan, cause, purged, job>>

\* The marker is there: the job goes, before it has anything to clean up.
ReadTerminated ==
    /\ pc = "read" /\ marker
    /\ pc' = "none"
    /\ UNCHANGED <<record, meta, owner, world, monitor, talk, plans, history, job>>

\* RestoreState.restorable
Restorable == started \/ copy # <<>>
\* _derive_mode: the final question was answered (and is not lost itself)
Answered == EndsIn(copy, "finalAnswer") /\ Holds(copy, "final")

\* Fault: a closing statement at the end of the copy is an utterance like any other.
Planned_Fault(p, c) ==
    \/ ~Restorable /\ p = "new" /\ c = NoCause
    \/ Restorable /\ ~started /\ p = "silent" /\ c \in Causes
    \/ started /\ p = "resume" /\ c = NoCause

\* build_restore_plan, and the branches of the entrypoint that lead straight to the
\* end: without an identity by either limit, with one if the hard limit is past.
Planned(p, c) ==
    \/ /\ ~Restorable
       /\ p = "new" /\ c = NoCause
    \/ /\ EndsIn(copy, "closing")
       /\ p = "silent" /\ c = "COMPLETED"
    \/ /\ Restorable /\ ~EndsIn(copy, "closing") /\ ~started
       /\ p = "silent" /\ c \in Causes
    \/ /\ ~EndsIn(copy, "closing") /\ started
       /\ p = "close" /\ c = "COMPLETED"
    \/ /\ ~EndsIn(copy, "closing") /\ started /\ ~Answered
       /\ p = "resume" /\ c = NoCause

\* MULTI: marker, meta and copy are of one moment.
ReadPlan ==
    /\ pc = "read" /\ ~marker
    /\ \E p \in Plans, c \in Causes \cup {NoCause} :
           /\ Planned(p, c)
           /\ plan' = p
           /\ cause' = c
    /\ log' = copy
    /\ pc' = "claim"
    /\ UNCHANGED <<record, meta, owner, world, monitor, said, queue, closedBy, blind,
                   history, job>>

\* claim_owner, last wins; then the plan decides where the entrypoint goes on.
Entrance == [new |-> "lobby", resume |-> "entry", close |-> "marker", silent |-> "marker"]

Claim ==
    /\ pc = "claim"
    /\ owner' \in {owner, job}
    /\ pc' = Entrance[plan]
    /\ UNCHANGED <<record, meta, world, monitor, talk, plans, history, job>>

\* A new interview waits for anybody, PARTICIPANT_WAIT_TIMEOUT_SECONDS at most.
LobbyEntered ==
    /\ pc = "lobby" /\ present
    /\ pc' = "init"
    /\ UNCHANGED <<record, meta, owner, world, monitor, talk, plans, history, job>>

LobbyTimesOut ==
    /\ pc = "lobby" /\ ~present
    /\ pc' = "leave"
    /\ UNCHANGED <<record, meta, owner, world, monitor, talk, plans, history, job>>

\* init_session_meta: HSETNX keeps what an earlier job wrote.
InitMeta ==
    /\ pc = "init"
    /\ started' \in {started, TRUE}
    /\ pc' = "start"
    /\ UNCHANGED <<record, deadline, owner, world, monitor, talk, plans, history, job>>

\* A resumed one waits for its candidate, for what is left of the window: that of the
\* absence an earlier job saw begin, or one that begins now.
Entry ==
    /\ pc = "entry"
    /\ \/ /\ present
          /\ pc' = "clear"
          /\ UNCHANGED deadline
       \/ /\ ~present
          /\ pc' = "window"
          /\ deadline' \in IF deadline = NoDeadline THEN {NoDeadline, absences} ELSE {deadline}
    /\ UNCHANGED <<record, started, owner, world, monitor, talk, plans, history, job>>

WindowEntered ==
    /\ pc = "window" /\ present
    /\ pc' = "clear"
    /\ UNCHANGED <<record, meta, owner, world, monitor, talk, plans, history, job>>

WindowTimesOut ==
    /\ pc = "window" /\ ~present
    /\ plan' = "silent"
    /\ cause' \in Causes
    /\ pc' = "marker"
    /\ UNCHANGED <<record, meta, owner, world, monitor, talk, blind, history, job>>

\* record_reconnect_deadline, clear_reconnect_deadline
WriteDeadline(d) ==
    \/ deadline' = d /\ settled' \in BOOLEAN
    \/ UNCHANGED deadline /\ settled' = FALSE

ClearDeadline ==
    /\ pc = "clear"
    /\ WriteDeadline(NoDeadline)
    /\ pc' = "start"
    /\ UNCHANGED <<record, started, owner, world, armed, deadlineOps, talk, plans, history, job>>

\* The monitor is armed and compares itself with the room at once.
Arm ==
    /\ pc = "start"
    /\ armed' = TRUE
    /\ deadlineOps' = IF present THEN <<>> ELSE <<absences>>
    /\ pc' = "talk"
    /\ UNCHANGED <<record, meta, owner, world, settled, talk, plans, history, job>>

-----------------------------------------------------------------------------
(* Talking. *)

\* Fault: the number is taken before it is counted up.
Utter_Fault(kind) ==
    LET u == [id |-> said, kind |-> kind] IN
    /\ said < MaxSaid
    /\ said' = said + 1
    /\ log' = Append(log, u)
    /\ queue' = Append(queue, u)

\* append to the log and enqueue for the copy; a full queue is a failed Push.
Utter(kind) ==
    LET u == [id |-> said + 1, kind |-> kind] IN
    /\ said < MaxSaid
    /\ said' = said + 1
    /\ log' = Append(log, u)
    /\ queue' = Append(queue, u)

\* The final answer is the only thing said after the final question.  (A question that is
\* still playing when the end begins, TurnPipeline's RowIsWholeLog, is left out here.)
Say(kind) ==
    /\ pc = "talk" /\ present
    /\ kind \in IF EndsIn(log, "final") THEN {"finalAnswer"} ELSE {"talk", "final"}
    /\ kind = "final" => log # <<>>
    /\ Utter(kind)
    /\ IF kind = "finalAnswer" THEN cause' = "COMPLETED" /\ pc' = "marker"
                               ELSE UNCHANGED <<cause, pc>>
    /\ UNCHANGED <<record, meta, owner, world, monitor, closedBy, plan, blind, history, job>>

\* Begun by the time guard, the orchestrator or the user.
BeginClosing ==
    /\ pc = "talk"
    /\ cause' = "COMPLETED"
    /\ pc' = "marker"
    /\ UNCHANGED <<record, meta, owner, world, monitor, talk, plan, blind, history, job>>

WindowExpires ==
    /\ pc = "talk" /\ ~present
    /\ cause' \in Causes
    /\ pc' = "marker"
    /\ UNCHANGED <<record, meta, owner, world, monitor, talk, plan, blind, history, job>>

\* The playout failed twice: shutdown without an end sequence.
GivesUp ==
    /\ pc = "talk"
    /\ pc' = "leave"
    /\ UNCHANGED <<record, meta, owner, world, monitor, talk, plans, history, job>>

\* _drain_loop: RPUSH of the oldest, or a hole in the copy.
Push ==
    /\ pc # "none" /\ queue # <<>>
    /\ copy' \in {copy, Append(copy, Head(queue))}
    /\ queue' = Tail(queue)
    /\ UNCHANGED <<marker, row, requests, meta, owner, world, monitor, said, log, closedBy,
                   plans, history, job, pc>>

\* Fault: whichever waiter gets the lock, the latest first.
StoreDeadline_Fault ==
    /\ pc # "none" /\ deadlineOps # <<>>
    /\ WriteDeadline(Last(deadlineOps))
    /\ deadlineOps' = SubSeq(deadlineOps, 1, Len(deadlineOps) - 1)
    /\ UNCHANGED <<record, started, owner, world, armed, talk, plans, history, job, pc>>

\* _serialized: the waiters of the store lock, first come first served.
StoreDeadline ==
    /\ pc # "none" /\ deadlineOps # <<>>
    /\ WriteDeadline(Head(deadlineOps))
    /\ deadlineOps' = Tail(deadlineOps)
    /\ UNCHANGED <<record, started, owner, world, armed, talk, plans, history, job, pc>>

-----------------------------------------------------------------------------
(* Ending: on_marker, the closing statement, EndSequence.run, base_cleanup. *)

\* owner_allows before each step: only another job's name refuses, and a lookup that
\* fails does not.
Allowed == [marker |-> "mark", flush |-> "insert", purge |-> "delete", room |-> "kick"]
Refused == [marker |-> IF plan = "silent" THEN "drain" ELSE "speak",
            flush |-> "room", purge |-> "publish", room |-> "leave"]
Guards  == {"marker", "flush", "purge", "room"}

GuardAllows ==
    /\ pc \in Guards
    /\ pc' = Allowed[pc]
    /\ UNCHANGED <<record, meta, owner, world, monitor, talk, plans, history, job>>

GuardRefuses ==
    /\ pc \in Guards
    /\ owner \notin {Nobody, job}
    /\ pc' = Refused[pc]
    /\ UNCHANGED <<record, meta, owner, world, monitor, talk, plans, history, job>>

\* write_termination_marker
Mark ==
    /\ pc = "mark"
    /\ marker' \in {marker, TRUE}
    /\ pc' = Refused["marker"]
    /\ UNCHANGED <<copy, row, requests, meta, owner, world, monitor, talk, plans, history, job>>

\* The closing statement is spoken to a candidate who is there, and recorded.
SpeakClosing ==
    /\ pc = "speak"
    /\ \/ /\ present
          /\ Utter("closing")
          /\ closedBy' = job
       \/ UNCHANGED talk
    /\ pc' = "drain"
    /\ UNCHANGED <<record, meta, owner, world, monitor, plans, history, job>>

\* Fault: what is left of the queue when the timeout strikes goes on being pushed.
DrainEnds_Fault ==
    /\ pc = "drain"
    /\ pc' = IF cause = "RECONNECT_TIMEOUT" THEN "room" ELSE "flush"
    /\ UNCHANGED <<record, meta, owner, world, monitor, talk, plans, history, job>>

\* Fault: the room is deleted before the row is written.
DrainEnds_RoomFirst ==
    /\ pc = "drain"
    /\ queue' = <<>>
    /\ room' = FALSE
    /\ pc' = IF cause = "RECONNECT_TIMEOUT" THEN "leave" ELSE "flush"
    /\ UNCHANGED <<record, meta, owner, verdict, present, absences, monitor, said, log,
                   closedBy, plans, history, job>>

\* _finalize_log: the writer is done, or what is left of its queue is given up.
DrainEnds ==
    /\ pc = "drain"
    /\ queue' = <<>>
    /\ pc' = IF cause = "RECONNECT_TIMEOUT" THEN "room" ELSE "flush"
    /\ UNCHANGED <<record, meta, owner, world, monitor, said, log, closedBy, plans, history, job>>

\* Fault: the copy is purged after the second attempt, whatever came of it.
Insert_Fault ==
    /\ pc \in {"insert", "reinsert"}
    /\ row' \in {row, IF row = NoRow THEN log ELSE row}
    /\ pc' = IF pc = "insert" THEN "reinsert" ELSE "purge"
    /\ UNCHANGED <<copy, marker, requests, meta, owner, world, monitor, talk, plans, history, job>>

\* flush_transcript: two attempts, ON CONFLICT DO NOTHING; a commit may go unseen.
Insert ==
    /\ pc \in {"insert", "reinsert"}
    /\ \/ /\ row' = IF row = NoRow THEN log ELSE row
          /\ pc' \in {"purge", IF pc = "insert" THEN "reinsert" ELSE "room"}
       \/ /\ UNCHANGED row
          /\ pc' = IF pc = "insert" THEN "reinsert" ELSE "room"
    /\ UNCHANGED <<copy, marker, requests, meta, owner, world, monitor, talk, plans, history, job>>

\* purge_session_state: the copy and the meta go, the owner stays.
Purge ==
    /\ pc = "delete"
    /\ \/ /\ copy' = <<>>
          /\ purged' = purged \cup Ids(copy)
          /\ started' = FALSE
          /\ deadline' = NoDeadline
       \/ UNCHANGED <<copy, purged, meta>>
    /\ pc' = "publish"
    /\ UNCHANGED <<marker, row, requests, owner, world, monitor, talk, plans, forgotten, job>>

\* publish_report_request: two attempts, the first may have succeeded unseen.
Publish ==
    /\ pc \in {"publish", "republish"}
    /\ \/ /\ requests' = requests + 1
          /\ pc' \in {"room", IF pc = "publish" THEN "republish" ELSE "room"}
       \/ /\ UNCHANGED requests
          /\ pc' = IF pc = "publish" THEN "republish" ELSE "room"
    /\ UNCHANGED <<copy, marker, row, meta, owner, world, monitor, talk, plans, history, job>>

\* _delete_room: deleted by one of its attempts, or not.
DeleteRoom ==
    /\ pc = "kick"
    /\ room' \in {room, FALSE}
    /\ pc' = "leave"
    /\ UNCHANGED <<record, meta, owner, verdict, present, absences, monitor, talk, plans,
                   history, job>>

\* base_cleanup: release_owner compares and deletes, if it succeeds.
Leave ==
    /\ pc = "leave"
    /\ owner' \in {owner, IF owner = job THEN Nobody ELSE owner}
    /\ pc' = "none"
    /\ Blank
    /\ UNCHANGED <<record, meta, world, said, closedBy, history, job>>

Crash ==
    /\ pc # "none"
    /\ pc' = "none"
    /\ Blank
    /\ UNCHANGED <<record, meta, owner, world, said, closedBy, history, job>>

-----------------------------------------------------------------------------
(* The candidate and Spring. *)

\* on_participant_disconnected, on_participant_connected, if the monitor is armed.
CandidateLeaves ==
    /\ room /\ present /\ absences < MaxAbsences
    /\ present' = FALSE
    /\ absences' = absences + 1
    /\ deadlineOps' = IF armed THEN Append(deadlineOps, absences') ELSE deadlineOps
    /\ UNCHANGED <<record, meta, owner, verdict, room, armed, settled, talk, plans, history,
                   job, pc>>

CandidateEnters ==
    /\ room /\ ~present
    /\ present' = TRUE
    /\ deadlineOps' = IF armed THEN Append(deadlineOps, NoDeadline) ELSE deadlineOps
    /\ UNCHANGED <<record, meta, owner, verdict, room, absences, armed, settled, talk, plans,
                   history, job, pc>>

\* room_finished, or the agent is lost and not replaced: the row decides.
Judge ==
    /\ verdict = "open"
    /\ ~room \/ (pc = "none" /\ job > 0)
    /\ verdict' = IF row = NoRow THEN "ABORTED" ELSE "ENDED"
    /\ UNCHANGED <<record, meta, owner, room, present, absences, monitor, talk, plans, history,
                   job, pc>>

-----------------------------------------------------------------------------
\* What the job does of itself, once it runs.
JobStep ==
    \/ ReadFails \/ ReadTerminated \/ ReadPlan \/ Claim
    \/ LobbyEntered \/ LobbyTimesOut \/ InitMeta
    \/ Entry \/ WindowEntered \/ WindowTimesOut \/ ClearDeadline \/ Arm
    \/ BeginClosing \/ WindowExpires \/ Push \/ StoreDeadline
    \/ GuardAllows \/ GuardRefuses \/ Mark \/ SpeakClosing
    \/ DrainEnds \/ Insert \/ Purge \/ Publish \/ DeleteRoom \/ Leave

Next ==
    \/ JobStep
    \/ \E kind \in Kinds : Say(kind)
    \/ GivesUp
    \/ Crash
    \/ CandidateLeaves \/ CandidateEnters
    \/ Dispatch \/ Judge

Spec == Init /\ [][Next]_vars

-----------------------------------------------------------------------------
Pcs == {"none", "read", "claim", "lobby", "init", "entry", "window", "clear", "start", "talk",
        "marker", "mark", "speak", "drain", "flush", "insert", "reinsert", "purge", "delete",
        "publish", "republish", "room", "kick", "leave"}
Logs == Seq(Utterance)

TypeOK ==
    /\ started \in BOOLEAN /\ deadline \in Nat /\ owner \in Nat
    /\ copy \in Logs /\ marker \in BOOLEAN /\ row \in Logs \cup {NoRow} /\ requests \in Nat
    /\ verdict \in {"open", "ENDED", "ABORTED"} /\ room \in BOOLEAN /\ present \in BOOLEAN
    /\ absences \in 0..MaxAbsences /\ said \in 0..MaxSaid
    /\ job \in 0..MaxJobs /\ pc \in Pcs /\ plan \in Plans /\ cause \in Causes \cup {NoCause}
    /\ log \in Logs /\ queue \in Logs
    /\ armed \in BOOLEAN /\ deadlineOps \in Seq(Nat) /\ settled \in BOOLEAN /\ blind \in BOOLEAN
    /\ closedBy \in Nat /\ forgotten \subseteq Nat /\ purged \subseteq Nat

\* The session keeps the promise its readers rely on (SessionRecord): one row that never
\* changes, nothing added to the copy or the marker after it, the copy given up and the
\* report asked for only when it is there, whatever crashes, fails or goes unseen.
Record == INSTANCE SessionRecord WITH
    copy <- copy, marker <- marker, row <- row, requests <- requests
RecordSpec == Record!Spec

\* Whatever end_sequence purges is in the row: nothing the candidate or the interviewer said
\* and Redis kept is lost, except what an earlier job could not read (read_restore_state).
PurgedIsStored == purged \subseteq forgotten \cup IF row = NoRow THEN {} ELSE Ids(row)

\* Spring's verdict agrees with the row it is taken from ever after: a row that arrives
\* late, after an end judged without it, would be an interview both ABORTED and stored.
VerdictIsTrue ==
    /\ verdict = "ENDED" => row # NoRow
    /\ verdict = "ABORTED" => row = NoRow

\* An interview that was closed goes on in a later job only if that job could not read the
\* state, or if the marker and the closing statement are both lost (interview-recovery.md,
\* the remaining risk): each of them alone is enough to keep it closed.
ClosedStaysClosed ==
    [][closedBy # 0 /\ closedBy # job /\ pc = "talk" /\ said' # said
         => \/ blind
            \/ /\ ~marker
               /\ \A i \in DOMAIN copy : copy[i].kind = "closing" => copy[i].id \in forgotten]_vars

\* When the writes of the reconnect deadline have come to rest, and the last succeeded, Redis
\* has the window of the absence that lasts and none while the candidate is there, however
\* fast the candidate left and came back (PresenceMonitor._serialized).
DeadlineFollowsPresence ==
    pc = "talk" /\ settled /\ deadlineOps = <<>>
        => deadline = IF present THEN NoDeadline ELSE absences

\* "Only when another job's name is seen" (owner_allows) is meant of the job that took over:
\* end_sequence says "the later job is the session's owner" of a step it skips.
OnlyALaterJobRefuses ==
    [][(pc \in Guards /\ pc' = Refused[pc]) => owner > job]_vars
=============================================================================
