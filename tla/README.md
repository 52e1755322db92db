# Kkori-AI in TLA+

Kkori-AI conducts spoken job interviews. Two programs share this repository: the
*agent* (`src/agent`), one process per interview that listens, asks and speaks, and
the *worker* (`src/worker`), which analyses the resume before the interview and
writes the report after it. A Spring backend, LiveKit, Redis and Postgres stand
around them; they are not in the repository and appear here only as what the code
expects of them. This directory models the parts of both programs whose correctness
depends on the order in which things happen, checks the models with TLC and proves
theorems about them with TLAPS.

Paths below are relative to `src/`.

## 1. Inventory

### The agent: one interview, one event loop

| component | state | operations |
|---|---|---|
| turn pipeline (`agent/src/interview/turn_pipeline.py`) | turn number, set of coroutines, speech lock, commit lock, closed flag | a completed turn of the candidate; run (decide, generate, speak, commit); final question; re-entry (notice, then repeat the question or run); closing task; time guard; aclose |
| end state (`end_state.py`) | phase, cause | `try_advance`: forward only, CLOSING is won once |
| conversation log (`conversation_log.py`) | utterances, number floor | append question / answer / closing; numbering; branches; rebuild from a copy with holes |
| reconnect window (`reconnect.py`) | presence, window timer, last departure | departed, connected, window expires; deadline written to Redis in FIFO order |
| interview clock (`interview_clock.py`) | start | soft and hard limits |
| end signal (`end_signal.py`) | received early or bound | the server asks for the end |
| end sequence (`end_sequence.py`) | none of its own | close the writer, write the row, purge the copy, ask for the report, delete the room, end the job |
| transcript copy and row (`redis_sink.py`, `transcript_store.py`) | bounded queue, Redis list; one row per session | enqueue, drain, close; insert once |
| recovery (`session_store.py`, `restore.py`) | owner, deadline, clock in Redis | claim the session, read the copy, choose how to resume |
| entrypoint (`agent/src/main.py`) | wiring | new or restored start, order of guard, window and first words |
| orchestrator, question generation, prompts | none | one LLM call each with retries |

The pipeline is the centre. LiveKit's callbacks (a turn ends, a participant leaves or
connects), timers and the server's signal call into it; it starts coroutines that wait
on the LLM, on the lock and on playouts. All coroutines run in one event loop, so what
happens between two awaits is atomic and everything else interleaves. Hard behaviours:
a run overtaken by a new turn, by the end or by a departure at any await; several
coroutines in line for the speech lock; presence that is read before or after a wait;
five parties that push the end; an end sequence that reads the log while a question may
still be playing; jobs that start from a damaged copy. And across the jobs of one session: a
crash between any two steps of the end, calls that succeed without the caller learning of
it, an owner key that outlives its owner, writes of the absence deadline that wait in line.

Correct means: one voice at a time; nothing after the closing statement; what is
recorded as asked was heard; no answer is lost from the row and none that came too late
is in it; numbers never repeat; somebody always works on the next word; the end moves
forward only; the job ends; the copy is given up and the report asked for only when the row is
there, the row never changes, and Spring's verdict stays true of it; an interview that was
closed is not reopened.

### The worker: Redis streams, consumer groups, Postgres

| component | state | operations |
|---|---|---|
| consumer group (`messaging/claim.py`, subscribers in both `main.py`) | pending entries with delivery counts | deliver, claim an idle entry, XACK |
| report text pipeline (`report/pipeline.py`) | report row, scores, feedbacks | create, enter PROCESSING, evaluate, save, judge, give up |
| report audio pipeline (`report/audio_pipeline.py`) | delivery score, voice tags | download, analyse, save, judge, give up silently |
| grace loop (`report/main.py`) | none | completes a report whose audio is overdue |
| report repository (`report/repository.py`) | the rows | conditional updates, row lock on the tag summary |
| resume pipeline (`analysis/pipeline.py`, `storage/repository.py`) | parse status, structured data, chunks | stages entered by compare-and-set, two transactions, give-up rule |
| evaluator (`report/evaluator.py`, `contract/transcript.py`) | none | group utterances into pairs and topics, check the LLM's answer, aggregate |
| delivery measures (`report/audio.py`) | none | resample, windows, speech segments, pauses |
| chunking (`analysis/chunking.py`) | none | pieces of oversized descriptions, chunks with the enrichment of their entity |
| extraction, AI clients, configuration | none | external |

Handlers are at-least-once: a handler that dies leaves its entry pending, another claims
it when it is idle, and after a number of deliveries it is given up. Several handlers may
have the same report or resume in hand: duplicates, claims of a slow handler, the other
half, the grace loop. Nothing but conditional updates and one row lock keeps them apart.

The transcript row is where the two programs meet: the numbers and branches the agent gives
its utterances are all the worker has to tell which answer belongs to which question.

Correct means: an outcome, once recorded, stays; it is announced only if recorded, and
once; nothing that one half saved is wiped out by the other; a score that is stored is
counted; an artifact appears together with its status; unfinished work always has a
request that can be reclaimed; every request is acknowledged in the end.

The hazards of the code, each at its line with the properties that watch it, are listed
in `PROJECT.json`.

## 2. Plan

Written, in this order:

1. `EndState`, `ConversationLog`, `TurnPipeline`: the core of the agent.
2. `TurnPipeline_proofs`, and the facts about the log that it needs, in `Data_proofs`.
3. `ConsumerGroup`, `ReportWorker`; `ResumeAnalysis`, `ResumeWorker`.
4. `ReportWorker_proofs`, later extended with the events and the unfinished work.
5. `SessionRecord`, `SessionRecovery`: the jobs of one session, what they leave in Redis and
   in the database, the end sequence step by step. `SessionRecovery_proofs`.
6. `Chunking`, `SpeechSegments`, `Evaluation`: the pure algorithms of the worker against
   reference definitions; `Evaluation` works on the log of `ConversationLog`.
7. `ResumeWorker_proofs`, with the refinement of `ResumeAnalysis` for one run.
8. `Interview_proofs`: what an interview says, hears and records.
9. `Data_proofs`: what loops over data compute, and what the log keeps to; on it
   `ReportContents_proofs` (speech segments, evaluations) and `Chunking_proofs` (the chunks),
   for data of any size.

What is left:

10. The packet that carries the end signal, and the empty-room timeout of LiveKit.
11. An abstract specification of a report's row, as `ResumeAnalysis` is of a resume's, and
    one of the dialogue, whose turns the coroutines of `TurnPipeline` implement.

## 3. Modules

```
EndState <--refined by-- TurnPipeline --EXTENDS--> ConversationLog
                              ^                          ^
               MCTurnPipeline, TurnPipeline_proofs       +--EXTENDS-- Evaluation
                              ^
                       Interview_proofs           Data_proofs extends Evaluation

SessionRecord <--refined by-- SessionRecovery <-- MCSessionRecovery, SessionRecovery_proofs

ConsumerGroup <--EXTENDS-- ReportWorker <-- MCReportWorker, ReportWorker_proofs
      ^                                          ^
      |         Evaluation, SpeechSegments <-- MCReportContents
      +----EXTENDS-- ResumeWorker --refines--> ResumeAnalysis
                          ^
        Chunking <-- MCResumeWorker,  ResumeWorker_proofs
                          ^
                     MCResumeRaces

Data_proofs <-- TurnPipeline_proofs, ReportContents_proofs (of MCReportContents),
                Chunking_proofs (of MCResumeWorker)
```

A definition whose name has the form `X_Y` stands next to `X`, and the line above it, or the
head of its module, says so. It is `X` as a plausible mistake would have it and is used by no
specification; it exists to show that a property notices the mistake.

### EndState

The machine of `end_state.py`: phases 0 to 4, `try_advance` forward only, the cause
fixed by whoever enters CLOSING. It is an abstract specification: `TurnPipeline` has the
same two variables and must implement it.

### ConversationLog

Operators on a sequence of utterances `[type, num, parent, intact]`: numbering above the
floor of a rebuilt log, current root, follow-ups of the current branch, validity of the
root, and the mode in which a restored log is resumed. Texts and times are left out.
`ValidUtterance` is what `Utterance.__post_init__` checks, and all that is sure of an
utterance of a restored log. `WellKeptFrom(l, r)` is the order that a job keeps in what it
adds to a log of length `r`; `WellKept` is that order of a whole log. `TurnPipeline` states it
as `LogIsWellKept`. `intact` records whether the candidate was in the room from the first to
the last word; no code reads it, the properties do.

### TurnPipeline

One job. The tasks are `Main` (the entrypoint's own coroutine), `Closer` (the closing
task and end sequence) and `Slots`, for runs and re-entries. `task[t]` has a place
(`pc`), the turn number it was started with, the kind of question and two ghosts
(`resumed`, `intact`). An action is what the code does between two awaits:

* a spawned coroutine is a record in `task`; its first step is an action of its own,
  so that anything may come between `create_task` and that step;
* `asyncio.Lock` wakes its waiters in order: `speechQ` is that order, its head the
  holder; a waiter whose turn has come still has to be scheduled (`AskGranted`, ...),
  and what happens at the hand-over may make it stale. The commit lock is never
  contended, because nothing is awaited under it;
* a playout ends well or fails; the question is replayed once, then the job is shut down;
* the decision of the orchestrator is any that the code allows for the log and the clock
  (`Decisions`), drawn when the run starts, acted upon when the call returns;
* the clock has three readings (before the soft limit, between the limits, after the
  hard one); the time guard is armed after the first words;
* the end sequence reads the log for the one row; a failure, a timeout or another owner
  leaves no row (`row = 0`);
* the entrypoint does not yield between the start of the session and its first words
  (`Entered`), and a candidate who left during initialisation is noticed there;
* a job may be rebuilt from any list of valid utterances that does not end with a closing
  statement (`RestoredLogsAssumption`). A job whose read of the copy failed begins at number 1
  and pushes onto the old list (`redis_sink.py:94`), so that the copy the next one reads may
  have numbers twice, which `restore.py:103` expects. `restored` remembers how long the
  rebuilt log was; no code reads it, the properties do, to tell what this job said.

LiveKit is modelled from how the code uses it: a turn is delivered when the candidate
stops speaking (`speech` remembers how often the candidate had left when the speech
began, which is what the code compares by time stamps). With `UntimedSpeech` LiveKit may leave
out when it began; then `speech` is `Untimed` and the code asks only whether the candidate is
there now (`turn_pipeline.py:136`). Whether a turn that ends during a
non-interruptible playout is delivered is a matter of the framework
(`TurnsDuringPlayout`): the comments of `main.py` say that it is dropped. The passing
runs take the wider case, in which it is delivered; the run that expects a violation
takes the narrower.

### SessionRecord and SessionRecovery

`SessionRecord` is what the readers of a session may rely on: one row that never changes,
nothing added to the copy or the marker after it, the copy given up and the report asked for
only when the row is there. `SessionRecovery` has the same four variables and, over up to
`MaxJobs` jobs of one session, what the code does between two calls of Redis or of the
database. Inside a job it is coarse where `TurnPipeline` is fine: a job says something,
closes, or gives up as it pleases. Every call may fail, or succeed without the caller
learning of it (`Insert`, `Publish`, `WriteDeadline`), a job may crash anywhere, and every
read of a clock may go either way.

* `ReadPlan` is `read_restore_state` and `build_restore_plan`: marker, meta and copy are
  read in one transaction, and the four ways to begin (`plan`) follow from them. `ReadFails` is a
  read that failed, which the code takes for "no session"; what the copy held is then in the ghost
  `forgotten`.
* `owner` is the number of a job; `GuardAllows` and `GuardRefuses` are `owner_allows` before
  the marker, the row, the purge and the room. A lookup that fails allows.
* `queue` and `Push` are the transcript writer: a full queue and a failed RPUSH both leave
  a hole in the copy. `DrainEnds` gives up what is left.
* `Say` is every word of the interview before its end begins. A question that is committed while
  the end sequence runs (`ghost_question`) is left to `TurnPipeline`: the closed writer drops it,
  so it reaches the row or nothing, and the copy never holds more than the row.
* `deadlineOps` is the line at `PresenceMonitor._store_lock`; each waiter leaves one value of
  the deadline (`StoreDeadline`). A deadline is the number of the absence it belongs to.
* Spring (`Dispatch`, `Judge`) and the candidate are external, from
  `docs/prd/interview-recovery.md` and `interview-end.md`: one job at a time, none once the row is
  there, and a verdict taken from the row when the room is finished or no job is left. That
  Spring also refrains when it sees the marker is not relied upon: the job defends
  itself.

### ConsumerGroup

`pel` (new, pending, acked), `deliveries` (saturating at the give-up threshold: the code
compares it with one and with the threshold only) and `handling` (which request a
handler has in hand). With `SlowHandlers` a request may be claimed while the handler it
was delivered to still runs: `claim_min_idle_ms` is five minutes and a chain of LLM calls
with retries may be slower. XACK names the request, not the delivery, so a slow handler
acknowledges what its reclaimer works on.

### ReportWorker

One session: its row, the requests of both streams, their handlers, the grace loop. A
handler keeps nothing of the row it read but the branch it took. Transactions that save a
half take the row lock first and hold it to the commit; a conditional update waits for
that lock if the committed row matches (`CanUpdate`). The scores and feedbacks, which
`save_text_results` deletes and inserts just before it takes the lock, appear with the commit; a
second save that runs into their unique keys raises, which is one of the ways in which a
handler `Dies`. Publishing follows the commit as
a step of its own and is lost when the handler dies before it. A report and its Job, and
an evaluation and its verdict, are one transaction each. `audio_analysis_enabled` is
fixed at the start (`requireAudio`), as is the kind of session: no transcript, no resume,
a silent candidate, or a full one; the transcript is written before the request.

### ResumeAnalysis and ResumeWorker

`ResumeAnalysis` is what the readers of a resume are promised: status and artifacts move
together, EMBEDDED and FAILED are left only by a new run. `ResumeWorker` has the same
three variables and the handlers, stage by stage. The backend starts a later run by
setting the status and publishing the request in one transaction (its `restartFor`, as
`worker/docs/requirements/resume-analysis/pipeline.md`, chapter 2.3, describes it):
these two actions are external.

### Chunking, SpeechSegments, Evaluation

Pure algorithms of the worker, as operators over abstracted data; each has a reference
definition that says what the result is without saying how it is found.

* `Chunking`: a text is the number of its characters, a sentence its place in the
  description. `SplitOversized` is the greedy packing with overlap, `BuildChunks` what the
  pipeline runs and `ChunkStructuredData` the second builder, which the repository's tests
  exercise; `SoundPieces` determines the pieces, `SoundChunks` says what becomes a chunk.
* `SpeechSegments`: the probability of a window is `high`, `between` or `low`, which is all the
  hysteresis of `speech_segments` tells apart. `SpeechesOf` is the reference: speeches as the
  maximal stretches without a silence. `Push` and `RunWindows` are the two stages that cut
  the recording into blocks and carry a rest.
* `Evaluation`: from the log of the agent to pairs, topics, the check of the LLM's answer and
  the aggregates. It extends `ConversationLog`, so that the transcripts it is checked on are the
  ones the agent can write, holes of a restored copy included.

They are evaluated where their result is stored: `MCResumeWorker` and `MCReportContents`
state them as invariants guarded by the state in which the chunks, the delivery score
or the evaluation are in the database.

## 4. Runs

All runs use model values for coroutines, handlers and requests, with symmetry where no
liveness is checked. Deadlock is checked for the interview, whose stop is an explicit
step (`JobOver`); it is not checked for the worker, which rightly stops when every request is
acknowledged.

| run | what it asks | bounds |
|---|---|---|
| `interview` | new and restored interviews, any interleaving: types, one voice, windows, closing last, no dead air, what is asked is heard, the row has every answer and none that was cut short, numbering, branches, the final answer; implements `EndState` | 2 slots; the empty log and 8 restored ones (pending, full branch, final pending, final answered, lost root, and three with what a job that could not read the copy pushed onto it: a number twice, a closing statement in the middle, a final question with a number below an older one's); 4 utterances, 2 follow-ups to a branch, 1 departure; LiveKit says when a speech began |
| `interview_ends` | liveness: every answer is followed up without the help of a timer; with timers, the job ends | 2 slots, 2 utterances, 1 departure; a speech may be without its beginning |
| `ghost_question` | violated: the row is the whole log | 1 answered question |
| `session` | the jobs of one session: implements `SessionRecord`; what is purged is stored, the verdict stays true, the deadline follows the presence, a closed interview stays closed | 2 jobs, 3 utterances, 1 departure |
| `owner_of_the_dead` | violated: only a later job's name refuses | as `session` |
| `report_races` | duplicates, audio, slow handlers, deaths, grace loop: final outcome, events, tags, score, in time | 2+1 requests, 2+1 handlers, 2 evaluations, audio analysed or not |
| `report_concludes` | unfinished work has a request, a report concludes, requests drain; what is saved is of the interview and of the speech | 2+1 requests, 1+1 handlers, 4 kinds of session; interviews and recordings below |
| `report_frozen` | violated: a completed report does not change | as `report_races` with 1+1 requests |
| `report_late_fail` | violated: a text half that was saved is not failed | no slow handlers |
| `resume_races` | duplicates and slow handlers: implements `ResumeAnalysis` in a run, outcomes told are true, the loser of a compare-and-set orphans no work unless a slow handler was overtaken; the chunks say the resume | 2 requests, 2 handlers, 2 LLM answers; descriptions below |
| `resume_concludes` | first run, reanalysis and reindexing with stale requests pending: types, data behind the status, no orphaned work; liveness: concludes and drains | 2+1+1 requests, 1 handler |
| `resume_stale_index` | violated: EMBEDDED is complete | 2+1 requests |

The pure properties are checked for every small input: descriptions of up to four sentences,
targets from one token to more than the whole, overlaps 0 to 2; every recording of up to
seven windows at three levels, padding smaller and larger than half a silence, every cut of
a recording into up to four blocks; every interview of up to four utterances the agent can
record, with any of them lost and one added after the restore, and those onto which a job that
could not read the copy pushed another, against an LLM that echoes, reorders, omits or invents
numbers.

Why the bounds are enough. Two slots let a stale run overlap a new one, with `Main` and
`Closer` beside them; a third would be as stale as the second. The number of slots bounds
concurrency, not the number of turns: a slot is used again when its coroutine is over.
An action that needs a slot waits for one (`SlotToSpare`). Four utterances reach
question, answer, follow-up or final question and its answer, and the restored logs begin
further on; a log at its bound takes no further turn. One departure and return separate
"present now" from "present throughout". Every property of `interview` is proved for any
bounds (section 6). In `session`, a second job is what restores from the first and what
the first leaves behind; a third would restore from what the second leaves, which is no
other kind of state; three utterances are one of each job and a closing statement, and all its
properties but `OnlyALaterJobRefuses` are proved for any bounds. In `resume_concludes`
one handler suffices, because the requests, not the handlers, carry what is stale. What it
cannot show is a compare-and-set that is lost: `resume_races` has two handlers for that. They
may be slower than the claim, which is when a request may be acknowledged under the one who
works on it; `overtaken` (`MCResumeRaces`) remembers whether that has happened. The safety
properties of `ResumeWorker` are proved for any number. For the worker, two handlers of one
stream show every race of a loser and a winner; three deliveries are first, reclaimed and given up; two evaluations tell whose
evaluation was saved. Retries of a call are bounded by the code itself
(`RetryMaxAttempts`).

Fairness. The event loop runs every ready coroutine, calls and playouts end (they have
timeouts, or the length of the audio): weak fairness of the steps of each coroutine. Time
passes and timers fire: weak fairness of `TimePasses`, `WindowExpires`, `GuardFires`,
assumed only by `JobEnds`. The candidate and the server owe nothing. In the worker, a scheduled
handler makes progress, the subscriber keeps reading, the grace loop keeps polling, and a
handler dies finitely often (`FewDeaths`), although its calls may fail for ever: the
code cannot promise anything about a handler that always dies, except that the give-up
rule ends it, which again takes one that does not.

## 5. What the runs show

The properties in the passing runs hold. What is worth knowing about why:

* A question about to be committed has had its listener from its first word
  (`AskedIsHeard`), although the code looks at the presence only at the end: the turn
  number, raised by every departure, does the rest. The exception is a question born of a
  re-entry (below).
* `NoDeadAir` holds because every way in which a run is dropped leaves either a newer run, a
  window, an ending interview or a job being shut down.
* An answer that began before the candidate left is not taken although the candidate is back
  (`RowHasEveryAnswer`), as long as LiveKit says when it began; the code falls back on
  presence otherwise.
* A handler that loses a compare-and-set may acknowledge its request because the winner
  has another one (`WorkHasRequest`, `WorkHasRequestUnlessOvertaken`); this needs handlers
  faster than the claim.
* What a job says keeps the order of numbers and branches after any copy (`LogIsWellKept`), because
  the floor is above all that was ever seen.
* `ChunksSayTheResume` loses no sentence of a description that is split. Of an achievement the
  chunk carries the sentence the LLM wrote, which may leave out what it likes.
* Terminal events are true and unique without any ordering of publications, because only
  the winner of a conditional update publishes. `PROCESSING` may be told after the outcome.

Five statements of documents or comments that the code does not keep are runs that expect
a violation; `PROJECT.json` quotes them.

* `ghost_question`: a question that plays while the end sequence runs is committed after
  the row was written.
* `report_frozen`: `save_text_results` asks for no status, so a claimed slow handler
  rewrites a completed report.
* `report_late_fail`: `mark_failed` spares only terminal reports, so a delivery at the
  threshold that read an unsaved report fails it after another handler saved its text.
* `owner_of_the_dead`: the owner key of a crashed job lives on for its TTL. If the job
  that replaces it cannot write its own name, `owner_allows` takes the dead one's for a
  successor and skips the marker, the row, the purge and the room: an interview that was held to its
  end by the only job there is leaves no row and no report.
* `resume_stale_index`: the commit of the chunks compares the status only, so that
  chunks of the data before an edit can complete the reindexing that was to replace them.

Of the jobs of one session and of the transcript between agent and worker:

* `PurgedIsStored` holds although the owner check, the insert and the purge are separate
  calls, each of which may fail or lose its answer: the purge is reached only through an
  insert that was seen to commit or found a row, and the row of another job holds
  what the copy held. It needs Spring to look at the row before it dispatches: the agent itself
  never does.
* `ClosedStaysClosed` holds on two legs, the marker and the closing statement at the end of the copy;
  a job reopens a closed interview only if both writes were lost or its one read failed.
* The topics sent to the LLM are the branches, sorted, each pair in one of them (`SoundTopics`), of any
  transcript. Laid end to end they are the pairs in the order of the interview only if the log is in
  order and no question is missing: an answer whose root was lost with the copy forms a topic
  of its own.

Other behaviours seen while modelling, which no document rules out clearly enough to be
stated as a property:

* The hook looks for the final question by the greatest number in the log (`turn_pipeline.py:159`).
  In a copy that has numbers twice an older question may have that number: the restored final
  question is read out, its answer is discarded, and so is every other until the hard limit.
  `restore.py:103` looks for the nearest question instead, because of such copies. After a
  copy in order the question is always found (`WaitingForTheFinalAnswer`).
* In a transcript that has a number twice, the worker merges the two questions and their answers into
  one pair (`evaluator.py` groups by number).
* The closing statement is spoken to an empty room when the candidate leaves while it
  waits for the lock (`turn_pipeline.py:286`).
* A question answered while its repetition waits for the lock is repeated all the same
  (`turn_pipeline.py:214`).
* A question of a re-entry whose notice outlived a second departure is committed if the
  candidate is back at its end, though nobody heard it begin.
* If the candidate leaves and returns before the re-entry's coroutine runs its first step,
  the initial question may be asked twice.
* With handlers slower than the claim, the loser acknowledges the request its reclaimer
  works on; if that one dies, the resume stays in its stage without a request.
* If the meta record of a session could not be written (`init_session_meta`), start and identity are
  both missing, so that the documented case "no startedAt, but a transcript: resume"
  (`docs/prd/interview-recovery.md:126`) never resumes: the job ends the interview without
  a voice.
* A candidate who leaves during the end sequence, after the purge, makes the presence monitor
  write a deadline and so recreate the meta key, which lives until its TTL.
* What was asked or answered after the last question of the copy and lost with it leaves its
  neighbours in the branch before (`conversation_log.py:258`), as
  `docs/prd/interview-recovery.md:132` accepts.
* An LLM that repeats a weakness tag has it counted twice in the summary of the report
  (`sanitize_evaluation` keeps duplicates).
* The tests of chunking call `chunk_structured_data`, the pipeline `build_chunks`; they are
  separate code that agrees without an enrichment (part of `ChunksSayTheResume`).
* A stale request at the delivery threshold fails the run a later request began
  (`analysis/pipeline.py:129`); a stale REINDEX request reclaimed at the start of a FULL
  run fails it as a breach of contract (`analysis/pipeline.py:161`).
* Saving the text half again renews `text_analyzed_at` and so the grace period.

## 6. Proofs

`TurnPipeline_proofs` proves, for any number of slots, any initial logs and any bounds:

* `TypeCorrect`: `Spec => []TypeOK`;
* `OneVoiceAtATime`: `Spec => []OneVoice`;
* `EndRefinesEndState`: `Spec => EndStateSpec`, the refinement of `EndState`.

The assumptions are `PipelineAssumption` (distinct `Main`, `Closer`, slots; logs are
sequences of utterances), which TLC evaluates in every run.

`OneVoice` is not inductive: it says that a task that plays is at the head of the line, but
not that a task in the line is where it believes to be, nor that whoever waits is in
line. The inductive invariant `IInv` is `Data` (types of the rest) and `Good`, whose parts are

* `Role`: what a coroutine may be in which phase: only `Closer` takes the steps of the
  closing, and only once the interview is closing;
* `Line`: who is in the line waits or plays, who waits or plays is in the line exactly
  once, and who plays is its head.

Three lemmas (`LineJoin`, `LineLeave`, `LineStay`) say that `Line` survives joining,
leaving at the head and a step that moves nobody; every action is then one of these moves plus a change of
type-correct data. The facts about the log's operators that the steps need (numbers are
natural, appended utterances are utterances) are in `Data_proofs`.

`Interview_proofs` proves the rest of the safety of `TurnPipeline`, with the same generality:

* `AbsenceIsWatched`: `Spec => []AbsenceHasWindow`;
* `OnlyTheFinalIsAwaited`: `Spec => []WaitingForTheFinalAnswer`;
* `WhatIsAskedIsHeard`: `Spec => []AskedIsHeard`;
* `NothingAfterTheClosing`: `Spec => []ClosingIsLast`;
* `RowMissesNoAnswer`: `Spec => []RowHasEveryAnswer`;
* `TheLogIsWellKept`: `Spec => []LogIsWellKept`;
* `FollowUpsAreBounded`: `Spec => []BranchesAreSound`;
* `SomebodySpeaksNext`: `Spec => []NoDeadAir`;
* `TranscriptsAreSound`: whatever Redis loses of the log, what is left is valid, it is well kept if
  the job was rebuilt from a log that was, and the worker's pairs and topics of it are sound
  (`SoundTopics` of `Evaluation`).

They assume `PipelineAssumption` and, of the logs a job may be restored from,
`RestoredLogsAssumption`: each utterance is valid, since `rebuild_conversation_log` drops what
fails the checks of `Utterance`, and the last is no closing statement, since a session that
ends with one is not resumed. They do not assume any order: what a job that could not read
the copy pushed onto it may follow. `TheLogIsWellKept` is about what the job adds, after any such
copy, and about the whole log only where the copy is in order. The validity is
what `TranscriptsAreSound` gives for whatever is left of an earlier job's log, and one valid list
after another is a valid list. TLC evaluates the assumption in every run.

The invariants read little of what a step does. So `EveryStepIsKind` first sorts the steps
into twelve kinds: one coroutine moves and says nothing (`Steps`), a question was played
(`AskPlayed`), a re-entry starts a run (`Renews`), the candidate answers, leaves or
arrives, the entrypoint enters, `begin_closing` is won or lost (`Closes`, `Late`), the
closing task moves (`Winds`), everything is cancelled, nothing changes. `BeforeEntry` says
that nothing runs until the entrypoint has spoken. The invariants are then these:

* `Watched`: the window property from the moment the monitor exists, before it is armed.
* `Turns`: a coroutine with a question in hand is of the present turn or an older one
  (`NotAhead`); two of the present turn both ask the initial question (`Single`), as two
  re-entries do when the candidate leaves and returns twice before it is heard; before anything is said
  nobody asks anything else (`Opening`); whoever asks as the follow-up of an answer asks a
  candidate who has not left since (`Heard`); while the last answer is awaited, nobody of
  the present turn asks (`Awaiting`). Without `Single` a second question of the turn
  could follow the final one.
* `Ending`: the closing statement is said in CLOSING only, and with it nobody plays a
  question (by `OneVoice`: the lock was the closing's); whatever is appended after the row
  was written is a question that was being played. `Uncut`: no answer of this job was cut short
  by a departure, unless a speech may be without its beginning.
* `LogKept`: the restored part of the log (`Copy`) stays as it was, what follows it is in order
  (`Ongoing` from its end), and so is the whole if the copy is; the next number is greater
  than all, and the floor a number that was seen. By the lemmas of `Data_proofs` on what a question, an answer and the closing do to
  a log that grows.
* `Branching`: whoever of the present turn is about to put a follow-up may put it: the
  branch has a root and is not full. `Single` is what makes this last from the decision
  to the commit.
* `NoDeadAir` is inductive on top of these: a commit is refused only to a coroutine of an
  older turn, or with nobody there, because a follow-up that may be put is accepted
  (`FollowUpsAreAccepted`).

`ReportWorker_proofs` proves, for any number of requests, handlers and evaluations, with
or without slow handlers and audio analysis:

* `TypeCorrect`: `Spec => []TypeOK`;
* `TagsSurvive`: `Spec => []TagsOfBothHalves`;
* `ScoreIsWhole`: `Spec => []OverallCountsDelivery`;
* `Finality`: `Spec => TerminalIsFinal`;
* `NeverEarly`: `Spec => CompletedOnTime`;
* `OutcomeIsToldOnce`: `Spec => []TerminalEventsTellTheTruth`;
* `WorkIsNeverOrphaned`: with handlers faster than the claim, `Spec => []WorkHasRequest`.

The assumptions are `GroupAssumption` and `ReportAssumption` (the two streams and their
handlers are disjoint, "voice" is no tag of the text half), which TLC evaluates in every
run. `TagsOfBothHalves` is not inductive: a commit writes tags that were read when the
transaction began. `IInv` adds `Coherent`, one formula for each handler: at "commit" it
holds the row lock, and the tags it read are still those of the row. Hence at most one
handler is there (`OneCommits`), and no other step changes tags: the conditional updates
touch the status and the overall score only (`StatusGood`, `CompletedGood`). The two
action properties follow from `TypeOK` and from `RowSteps`, which lists what a step may
do to the row. For the events, `EventInv` adds that whoever is to tell of an outcome (a
handler at "announce" with terminal news, or the grace loop while `owed`) is the only one,
that nobody was told before, and that the outcome is that of the row. For the unfinished
work, `WorkInv` adds that there is a delivered, pending text request which no handler has,
or whose handler does not yield (`Vouches`, `InStep`), and that only a session with pairs
of question and answer gets a report at all (`HasSubject`).

`SessionRecovery_proofs` proves, for any number of jobs, utterances and absences:

* `TypeCorrect`: `Spec => []TypeOK`;
* `VerdictStaysTrue`: `Spec => []VerdictIsTrue`;
* `SessionRefinesRecord`: `Spec => RecordSpec`, the refinement of `SessionRecord`;
* `NothingPurgedIsLost`: `Spec => []PurgedIsStored`;
* `DeadlineIsOfThisAbsence`: `Spec => []DeadlineFollowsPresence`;
* `ClosedIsNotReopened`: `Spec => ClosedStaysClosed`.

The assumptions are those on its constants (`NoRow` is no log, the bounds are natural
numbers). The verdict and the refinement rest on an invariant that ties the place of a job
to the row: a job that runs before its insert runs without a row, since Spring dispatches
none once it is there, and a job past its insert has one. `PurgedIsStored` needs, besides, that
whatever is in the copy or in the queue is in the log of the job at work, unless it was
forgotten; `DeadlineFollowsPresence` that the last waiter of the store lock, or the last value written,
is that of the candidate's present state; `ClosedStaysClosed` that a job which
closed the interview has left the marker, the statement in the copy, or neither.

`ResumeWorker_proofs` proves, for any number of requests, handlers and answers of the LLM:

* `TypeCorrect`: `Spec => []TypeOK`;
* `ParsedIsKept`: `Spec => []ParsedHasData`;
* `OutcomeIsKept`: `Spec => OnlyNewRunReopens`;
* `OutcomesAreTrue`: without later runs, `Spec => []OutcomeToldIsTrue`;
* `RunRefinesAnalysis`: without later runs, `Spec => AnalysisSpec`, the refinement of
  `ResumeAnalysis`;
* `WorkIsNeverOrphaned`: with handlers faster than the claim, `Spec => []WorkHasRequest`.

The assumption is `ResumeAssumption` (kinds of requests are disjoint, there is a first
one), which TLC evaluates in every run. `OutcomesAreTrue` and `RunRefinesAnalysis` are of one run,
because a stale request of an earlier one may complete a later one (`resume_stale_index`);
that hypothesis is part of their statement. `WorkHasRequest` is far from
inductive: the loser of a compare-and-set acknowledges its own request, and what remains
is that of the winner. The invariant says so: while the analysis is unfinished there is a
published, unacknowledged request which no handler has in hand or whose handler is in step
with the status of the row (`Vouches`, `InStep`); `Held` says that, without slow handlers,
what is in hand is pending and in one hand.

### What is computed

The worker's algorithms are loops over data, and the theorems about them hold for data of any
size. `Data_proofs` makes that possible. A fold of the community modules is a function
chosen over the sets of positions; `FoldExists` shows that there is one, `FoldPrefixes` that it
is computed stage by stage, from the first element to the last. A fact about every stage is
proved on the least stage where it would fail (`LeastElement`): no induction rule with an
operator for a parameter is needed. Sums, concatenations and remainders follow.

`ReportContents_proofs`:

* `BlocksAreHeardWhole`: however a recording is cut into blocks, no sample is skipped or taken
  twice by the decimation and no window is lost, for any step and window size;
* `SegmentsAreSound`: for any recording and thresholds the loop finds exactly the stretches of
  speech between silences, and what is measured of the padded segments is sound. The
  invariant `Heard` says, of each state of the loop, which speeches are closed and whether
  nobody speaks (`Resting`), or one is open, and since when a silence is waited for;
* `EvaluationsAreSound`: whatever the LLM answers, an evaluation is refused or complete, each
  verdict under its own pair (`Matches`), within the rules for tags and tasks; the summary has
  the most frequent tags and the score lies between the least and the greatest;
* `DeliveryHolds`, `EvaluationHolds`: `Spec => []DeliveryIsOfTheSpeech` and
  `Spec => []EvaluationIsOfTheInterview`, from these at the instances of the run.

`TopicsAreSound` (`Data_proofs`) is about the transcript, for every list of valid utterances,
with numbers twice or not. A sorted set has all of the set, in order (`RankedIsRanking`: as
many are before an element as its place says), so each pair is in one topic and topics come in
order. Of a log in order the pairs come with rising numbers, branches do not come back, and
so the topics one after the other are an order of the pairs; there is only one (`OneOrder`).

`Chunking_proofs`:

* `PiecesAreSound`: for any description, label, target and overlap, the pieces are what
  `SoundPieces` says. The invariant (`SoFar`) is of the greedy loop: what was emitted, what is
  in the buffer, and where the overlap came from;
* `ChunksAreSound`, `BuildersAgree`: what becomes a chunk, for every resume, and that the second
  builder gives the same without an enrichment;
* `ChunksSayIt`: `Spec => []ChunksSayTheResume`.

tlapm cannot expand `SortSeq` and `SelectSeq` (operator parameters, and a recursive
definition), so `Evaluation` sorts and selects by rank (`Ranked`, `Kept`), which says the same.

Only model-checked: the liveness properties (TLAPS 1.4 has no rule for `ENABLED`), and the
runs that expect a violation. Every other property of the passing runs is a theorem;
`WorkHasRequestUnlessOvertaken` is one for handlers that are faster than the claim
(`WorkIsNeverOrphaned` of `ResumeWorker_proofs`).

## 7. Not modelled

* Prompts, the Bedrock and embedding clients, the extraction of text from a PDF: external
  calls, whose answers the models draw from small sets.
* The resampling filter, the voice-activity network, the arithmetic of the delivery score
  and the counting of syllables: floating-point numbers and text. What they are applied to
  (segments, pauses, which samples) is in `SpeechSegments`.
* Configuration, metrics, log masking, migrations and scripts: formats or wiring without
  shared state.
* The Job row and the retry counters of the worker, which no branch reads. Malformed
  messages, which are logged and acknowledged. The synchronous HTTP entrance of the resume
  worker. Regeneration of a FAILED report, which has no subscriber in this repository.
* Spring's fallback deletion of a room and LiveKit's empty-room timeout, which end a session
  the way `Judge` does. Two jobs of one session at the same time: the dispatch contract
  excludes them, and the owner guard is the defence if it is broken.
* The validation of the packet that carries the end signal.
