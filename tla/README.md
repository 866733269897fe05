# Sales CRM: specifications and proofs

A TLA+ development of the behaviour of the Sales CRM server (`app/`), its Pi
agent sidecar (`services/pi-agent/`) and the interface between them. The
modules say what the code does, the TLC runs check what should be true of it
on small instances, the proof modules establish it for every value of the
constants.

## 1. The system

One Python process (FastAPI on one uvicorn worker, so one event loop) over
PostgreSQL, with an optional Node sidecar that runs the agent's decision loop
and calls back over HTTP. `docs/production.md` (section 7) states the
single-instance assumption: much of the state that excludes one activity from
another is memory of this process.

Who can run when decides most of what follows:

* `async def` routes, the sender loop, the scheduler loop and every background
  job are tasks of the event loop. Their database calls are synchronous, so
  between two `await`s no other task runs.
* `def` routes run in the thread pool, at the same time as the loop. Each
  database function is one transaction; a thread may run between any two.
* `asyncio.to_thread` work (SMTP, persisting a thread, compressing a context)
  is awaited by a task but is not stopped when that task is cancelled.
* `lifespan` (main.py) recovers jobs and starts the loops, and on shutdown
  stops the sender and the scheduler; `asyncio.run` then cancels the rest.

| Component | State | Operations | What makes it correct |
|---|---|---|---|
| E-mail outbox and sender (`email_sender.py`, `email_queue.py`, `database.py`, routes) | `email_outbox` rows, contact marks, the setting that enables sending, the row in flight | queue a batch, tick, cancel, retry, toggle, recover | a mail goes out once per queueing, one active row per address, the cap holds, queued mail moves, closed rows rest |
| Background jobs (`background_jobs.py`) | `background_jobs` rows, `_running`, `_cancel_requested`, `_job_tasks` | spawn, execute (four runners), cancel, recover | a finished job stays finished, a cancelled job ends cancelled or done, no job runs twice at once, every job ends |
| Job events (`background_jobs.py`, `main.py`, `jobs/index.ts`) | subscriber queues of 64 events, the page's trackers | publish, subscribe, drop a slow subscriber, poll | a page that follows a job learns its end |
| Pi threads (`pi_chat_store.py`, `pi_context.py`) | history (800 entries at most), summary and how far it covers | append, replace, compress, fork, delete | no entry is lost between turns, the context misses none |
| Thread exclusion (`agent_chat.py`, `main.py`, `background_jobs.py`) | `_active_pi_streams`, the pi_agent jobs in the table | chat stream, job spawn, release | one turn at a time on a thread, and never locked for good |
| Agent turn (`agent_chat.py`, `pi_decisions.py` and what they parse with) | rounds, requests, nudges, tool budget, messages | decide, screen, execute a batch, recover, summarise, stop | bounded, one tool message per call, exactly one end |
| Agent tools (`agent_chat.py`, `/api/pi/confirm-tool`, `pi.ts`) | cards with their undo, what the tools change | ask, confirm, dismiss, run, undo | what is destroyed was confirmed and can be brought back |
| LLM client (`pi_llm_client.py`, `pi_stream_parser.py`) | attempts, parts of an answer | request, retry, assemble | one answer is shown, whole or with an error |
| Scheduler (`scheduler.py`) | `scheduled_jobs` with a 3 h lease, loop task | tick, run now, restart, edit | one run of a schedule at a time, every due one runs |
| Lead discovery (`lead_discovery.py`, `lead_checkpoint.py`) | checkpoint in the job row | run, resume, import, review, learn | a resumed run repeats no recorded step, its leads arrive |
| Contact enrichment (`contact_enrichment.py`) | what it read at its start | look up, score, import, patch links | it adds what was not there and was not rejected |
| Contacts, lead reviews, preferences (`database.py`, `lead_preferences.py`, `import_filters.py`) | contacts (unique address), reviews, avoided domains | import, review, reject, learn, reset | imported means a contact, no second pending review, a rejection is kept |
| ASN look-up (`arin_lookup.py`, `asn_cache.py`, `main.py`) | TTL cache, batches | choose the registry, sort, cache, stream | answers in order and complete, each reader gets its end |
| Login limiter (`rate_limit.py`, `main.py`) | failures per key in a window | check, record, reset | no more than the limit in a window, and one per log-in at once |
| Settings, sessions, tokens | key/value rows | read, update | mostly single assignments |
| Sources, prompts, rendering, front end, sidecar transport | none that outlives a request, or of the browser | I/O and text | not in TLC's reach or not in the core |

The hazards of this code, each at its line, are listed in `PROJECT.json`.


## 2. Plan

Modules in the order of writing. Each component has its module, an `MC` module
that gives constants their values or adds symmetry, its `.cfg` files and, where theorems are worth it, a
proof module. At most twelve TLC runs are kept, so a run checks all the
properties that share its bounds.

| # | Module | What it is for | State |
|---|---|---|---|
| 1 | `EmailOutbox` | the outbox, its sender, the batch and the routes | checked, proved |
| 2 | `JobLifecycle`, `BackgroundJobs` | an abstract life of a job row; tasks, runners, cancel and recovery that implement it | checked, proved |
| 3 | `Scheduler` | lease, polling loop, run-now, restart | checked, proved |
| 4 | `ThreadOwner`, `PiThreads` | what the 409 answers promise; one thread's row under turns, workers and PUTs that implements it | checked, proved |
| 5 | `Contacts`, `LeadSearch`, `LeadDiscovery` | imports, reviews and feedback as transactions; what checkpoints promise; the discovery that implements it | checked, proved |
| 6 | `PiDecisions`, `TurnStream`, `AgentTurn` | what is made of an answer of the model; what the reader of a turn is promised; the turn that implements it | checked, safety proved |
| 7 | `LlmReply`, `LlmClient` | one request to the model and its promise | checked, safety proved |
| 8 | `AsnLookup`, `JobEvents`, `AgentTools`, `ContactEnrichment`, `LoginLimiter` | five parts that stand beside each other, checked with 7 in one run | checked; proved but for `JobEvents` and what an answer of a registry comes to |

Compositions: `BackgroundJobs` implements `JobLifecycle`, `PiThreads`
`ThreadOwner`, `LeadDiscovery` `LeadSearch`, `AgentTurn` `TurnStream`,
`LlmClient` `LlmReply`. `LeadDiscovery` and `ContactEnrichment` extend
`Contacts`; `AgentTurn` extends `PiDecisions`.

The theorems follow the same order: every safety invariant and every refinement
of a run has one (section 12), but for the ends that must come, which are
liveness, and for what section 12 leaves to TLC.

## 3. `EmailOutbox`

**State.** The columns of `email_outbox` that decide something, each a function
of the row id: `status`, `attempts`, `addr`, `linked` (contact_id not NULL),
`age` and `today` (what the gates ask of `sent_at`). `contacts` is the sent
mark of each address; `enabled` the setting; `pc`, `held`, `smtp` the sender's
tick; `batch` the queueing request on the loop; `proc` the process. `copies`,
`puts`, `touched` and `unmarked` are history.

**Actions.** A tick is `TickSettings`, `TickInterval`, `TickCap`, `Claim` or
`ClaimNothing`, `SmtpFinish`, then `MarkSent` and `MarkContact`, or
`MarkConfigError` and `Pause`, or `MarkItemError`, or `MarkFails`: one action
per database transaction, because a `def` route may run between any two of
them, and nothing else on the loop may (`LoopFree`). A batch is `QueueStart`,
`QueueNext` for each contact, `QueueInsert` or `QueueAbort`. `Cancel`, `Retry`,
`ToggleSender`, `AddContact`, `DeleteContact` and `SetContactSent` are the
routes. `Stop` cancels the task and lets an SMTP thread run on until `Exit`;
`Crash` loses what is in memory; `Start` recovers. `Advance` is the clock.

**Abstractions.** `enabled` stands for the setting together with a configured
SMTP host; other settings are constants. `lost` is a connection that breaks
before or after the server took the mail. Hours of one clock stand for the
active hours and for the day of the cap. Time stands still inside a synchronous
segment. An address stands for a (user, address) pair, and its e-mail does not
change. `FOR UPDATE SKIP LOCKED` has one claimer and no effect.

**Runs.**

* `outbox_safety`: two addresses, three rows, batches of three, two events, a
  day of three hours with a window over midnight, a cap of one. Two rows of one
  address and two of a day need three rows; the hazards need one or two routes,
  failures or crashes in one tick. `CopiesWithinPuts`, `DedupePerAddress`,
  `SentContactMarked`, `SentTodayUnderCap`, `ClosedRowsRest`, `TypeOK`.
* `outbox_liveness`: `QueuedMoves` with two rows: the second waits behind one
  that fails, is queued again, or uses up the cap, in a window that closes
  each day.
* `outbox_refusal`: what the design document says and the code does not do
  (section 13).

**Fairness** (`Fairness` in the module): the loop runs ready tasks, so a
started segment ends and a tick that waits for the loop gets it; the loop ticks
each minute, so an open window is met (strong fairness of `TickSettings`); SMTP
has a timeout; time passes. Nothing is assumed of routes, failures or crashes.

## 4. `JobLifecycle` and `BackgroundJobs`

**The promise.** `JobLifecycle` has the row's status alone: created pending,
begun, settled once as done, error or cancelled; a failure right after the
settling may turn it into error; a restart puts running rows back to pending.
`ImplementsLifecycle` says that `BackgroundJobs` keeps it.

**State.** `kind` and `status` of each row; the task of a row as a `pc` that is
either suspended at an await or inside a segment; `_cancel_requested` as
`flags`, `_job_tasks` as `registered`, undelivered `task.cancel()` as `doomed`;
the thread of a cancel request as `canceller`. `asked`, `swept`, `hit`,
`stillborn` and `broken` are history.

**Actions.** `SpawnCreate` and `SpawnTask` (the row and the task, one segment);
`Start`, `NeverStart`, `Load`, `Launch`, `Step`, `Save`, `Resume`, `Interrupt`,
`Close`, `Broke`, `Compressed`, `Settle`, `Leave`: the common course of
`_execute_job` and the four runners, which differ in where they poll the flag
and what they do when they see it. `CancelCheck`, `CancelFlag`, `CancelNote`,
`CancelTask` are the steps of the cancel route. `Stop`, `Exit`, `Crash`,
`Recover` are the process; recovery ends before the first request is served. A
`Store` that fails stands for the database and for what else raises there, such
as the clash of section 6 after a Pi job's row is 'running' (`Launch`).

**Abstractions.** What is in progress, results, checkpoints and messages is left
out; the event streams are `JobEvents` (section 10). A runner receives at most `MaxSteps` events.
`UtcNowIsText` says which `utc_now()` the build has: in this commit it returns
a text, and every progress update raises at `.isoformat()` (section 13). With
TRUE all runners die at their first event, so the run `jobs` takes FALSE, the
intended one, to reach the rest; the theorems hold for both values.

**Runs.** `jobs`: two jobs of three kinds (enrichment polls like lead
discovery), one event each, two of cancel, failure, stop and crash: a cancel
during a failure or a restart, and one job's cancel against the other; with the
fairness below, `ActiveSettles`. `jobs_snapshots`: the violation of section 13.
Deadlock checking is off because the runs end: all jobs settled, no event left.

**Fairness.** Strong for each task, since other tasks' segments disable a
suspended one again and again; a request that inserted a row goes on to its
task; what is awaited has a timeout.

## 5. `Scheduler`

**State.** For each schedule its row, its lease (`claimed` and `age`) and
`dueIn`, the time to next_run_at; `_scheduler_task` as `current`; loops and
run-now requests as runners with `pc` and `job`; `_running_jobs` as `running`;
restarts and the loop they await as `waiting`. `abandoned`, `overrun` and
`leaked` are history.

**Actions.** `Tick` lists the due schedules and `NextJob` takes one;
`RunNow` is the route. `Claim`, `Skip`, `ClaimFails`, `Return`, `Mark`,
`Record`, `Fail`, `Note` are run_scheduled_job: the claim, the await of the
discovery, and the two updates in the try or the except clause, each of which
may fail. `SaveSettings`, `LoopCancelled` and `RestartEnd` are the restart in
its three parts. `Create`, `Patch`, `Delete` are the routes; `Down`, `Boot`,
`Advance` process and time.

**Abstractions.** Ages and delays saturate, so that time never ends; the order
of the list by next_run_at is therefore any order. A schedule's query, score
and import flag are left out. A configured LLM is part of `setting`. A shutdown
does to the table what a crash does. A failing update has not been committed.
The minute between polls is below the model's unit of time.

**Runs.** `scheduler_safety`: two schedules, three loops (two that overlapping
restarts leave, and one more), one request, two restarts, three events, a lease
of two units that a long run outlives. `scheduler_liveness`: `DueRuns` with one
loop, where a run is cut off, fails, or its schedule is deleted in front of
another. `scheduler_skipped`: section 13.

**Fairness.** As for jobs: strong for runners, loops and the end of a restart;
strong for time. `DueRuns` gives up when the scheduler stops polling.

## 6. `PiThreads`

**State.** `exists`, `history`, `summary`, `through` are the row; an entry is a
number and the summary the set of the entries it was made from, so that what a
context misses can be said (`Forgotten`). `copy` is a browser's history. A turn
has a `phase` and the `entries` it made; its writes are those of a worker with
its own `pc`, because a worker goes on when the turn that awaits it is
cancelled or its reader leaves. `locked` is membership of `_active_pi_streams`.

**Actions.** `ReadBase`, `ReadExisting`, `Store` are an append or a PUT (two
reads and the upsert), `Check`, `Read`, `Merge` a compression (which asks the
model between `Read` and `Merge`); `ChatStart`, `Abandon`, `JobSpawn`,
`Stillborn`, `JobBegin`, `Prepare`, `Stream`, `Emit`, `StreamEnd`, `Persisted`,
`TurnEnd`, `Cancelled` are the turns. `Put` is the browser, `ToolEntry` the
entry of a confirmed tool, which asks nobody who has the thread;
`DatabaseFails`, `Delete`, `Restart` are the rest.

**Ghosts.** `saved` is what a live turn has stored; `dirty` the workers a
foreign write (a PUT, or a worker that outlived its turn) came before; `excused`
and `forgiven` what such a write, a write it overtook, or the cut to the newest
entries took from the history or pushed below the position, until a later write
brings it back. They are kept in `Account`, at the write that loses something,
by what that write is, so `NothingLost` and `ContextComplete` say that turns
alone lose nothing.

**Abstractions.** Roles of entries, titles and the list of threads are left out;
the usage share that triggers a compression is chosen. A recovery from an
overflow compresses the way `Prepare` does. A branch is a formula over the
parent's row (`BranchThrough`, `BranchSummary`), since it is written once.

**Run.** `threads`: two chats (numbered as they come), a job and a PUT, at most
three entries and a history of three, two PUTs, tool entries, deletions, cancels,
failures or restarts.
Two turns and a foreign writer are needed for an overtaken append; three entries
for a position that a cut or a branch leaves behind. Deadlock checking is off: the run ends.

**Fairness.** Weak for each turn with its worker: the loop and the pool go on,
the model has a timeout. `ThreadFreed` names the three ways to keep a thread
until a restart: a response nobody iterates, a job whose task never began, and a
job that ends on an exception no handler wrote down (`broken`): the database
fails again when the outcome is written, or something raises where there is no
try clause. One such place needs no failing database: a job stores the user's
message before its try clause (`background_jobs.py:502`), and its INSERT clashes
when a PUT has put a deleted row back since the job looked (`Clash`).

## 7. `Contacts` and `LeadDiscovery`

**State.** An address stands for a contact, its domain and its organization.
`contacts`, `reviews`, `avoid` are tables and the one list of preferences that
filters; `call` is the database call each thread is in, `requests` counts the
user's. `LeadDiscovery` adds the local variables of each `run`, the `saved`
checkpoint of those that are `jobs`, and `auto`, whether leads are imported.

**Actions.** `Look` and `Write` are the SELECT and the INSERT or UPDATE of one
row of an import, with the locks they hold and wait for (`Blockers`), the unique
violation of an address inserted in between, and PostgreSQL's `Deadlock`;
`Commit`, `Mark`; `Find`, `Keep` save reviews; `Learn`, `Teach` are feedback.
`ImportRows`, `ImportReviews`, `Patch`, `Reject`, `Reset` are the user. The
phases are `Plan`, `Sources`, `Extract`, `Targets`, `Rdap`, `LookedUp`,
`Score`, `ImportLeads`, `SaveReviews`, `Feedback`, each with its checkpoint
where the code has one; `Fail`, `Cancel`, `Restart`, `Resume`, `DatabaseFails`.

**The promise.** `LeadSearch`: over any number of restarts what is recorded only
grows, a recorded ASN is not looked up again, a scored search not scored again.
Import, reviews and feedback come after the last checkpoint and are repeated;
`LeadsArrive`, `ImportedIsContact`, `OnePending` say what holds all the same.

**Ghosts.** `ever` the addresses that have been contacts, `byHand` the reviews
whose status the user set, `spurned` the rejections that the list holds (taken
out when one falls off its end, is reset, or is overwritten from preferences
read before it); `looked` in a review is how many there were at its look-up.

**Abstractions.** Which runs are jobs and what the import filter refuses is
chosen at the start. What a source or the model answers is chosen; a source that
fails found nothing. Row locks of reviews are not modelled: their writes are
single statements. So are the other edits of a contact and its notes, which are
left out.

**Run.** `leads`: one run against one request, two addresses, two networks that
share one, one failure, cancel or restart. Two imports and two rows make a lock
cycle; two networks a resumption between them. With one request the list of
avoided addresses has one at most: that a rejection falls off its end is reached
by the theorem `RejectionsKept`, not by TLC, for which a second request is too
many states. Deadlock checking is off: the run ends.

**Fairness.** Weak for each run, its resumption at startup and each thread:
`RunsEnd` needs nothing of the user or the faults.

## 8. `PiDecisions` and `AgentTurn`

**State.** `messages` after the system prompt, as role and calls; a call is its
round and place. The rest has the code's names: `round`, `asks`, `nudges`,
`recovered` (`overflow_retried`), `executed`, `force`. `running` are workers,
`open` the calls announced without a result. `PiDecisions` is `decide_turn` as
an operator: from the text and the raw calls of an answer to a reply, calls, a
retry or a failure, with the names inferred from arguments, the calls written
inside the text and the fallback calls.

**Actions.** `Start`, `StartRound`, `Ask`, `Answer`, `Overflow`, `ModelError`;
`Screen` puts the refused calls' messages; `StartAll` and `Gather` with `Take`
are a parallel batch, `StartOne`, `TakeOne` a sequential one; `NextRound`,
`Summarize`; `AskToStop`, `Stop`, `Leave`. A worker survives a reader who leaves.

**Properties.** `WellFormed`: in each request every call has exactly one tool
message, right after its assistant message. `ResultsKept`: what ran is before
the model, unless an overflow took it (`dropped`). `Guardrails`: budget, look-up
turns and lead searches over the whole turn. `ImplementsTurnStream`: what the
reader sees, and that it ends.

**Run.** `agent`: five kinds of message and six raw calls, one for each way a
call is recognised or refused. Three rounds (12 in the code), four requests
(30), a budget of three calls (8), batches of two, two fallback queries (8), one
nudge (2): each limit can be met and passed by one within the others.

**Fairness.** Weak for the loop and the workers: requests and tools have
timeouts. Nobody has to stop or to leave.

## 9. `LlmClient`

`stream_chat` with its attempts and the parts put together from the chunks:
text in pieces, calls in fragments of name and arguments. `LlmReply` is the
promise: what is shown comes from one answer and the end is the whole of it, an
error, or a reader who left. A retry is allowed only while nothing was shown.
Chunks have the shape of the API; a cut body raises an error of the transport.

## 10. `AsnLookup`, `JobEvents`, `AgentTools`

`AsnLookup` has the choice of registry, the sorting and de-duplication of
contacts, the cache, and a batch with its two readers. Errors are cached for as
long as answers; a batch goes on when its reader leaves. `LookupServed` says that
answers come in order and complete and that a reader gets its end, unless a
worker raised: then the stream waits for ever, since `run_batch` puts its final
None only after the batch ends well (`main.py:1239`), while the job fails.

`JobEvents` is one job and one page: the queue that is dropped when full, the
stream's snapshot and polling, the trackers with their polls, and the cancel
request, a thread that publishes what it read before. `EndIsShown` names what
may hide the end: a full queue, an end between the snapshot and the
subscription, an event that a cancel's older one overtook, or one that came
before the job was tracked when the only poll of the new job then failed
(`EndIsPast`). A break of the connection mends each of them.

`AgentTools` are the tools that need a confirmation, between the card and the
undo, transaction by transaction, with imports, filters and notes beside them.
All contacts are leads, so that each deletion teaches the preferences. A user's
request is one step here; `Contacts` has its statements. `dedupe_contacts`
removes nothing, since addresses are unique and in lower case. The undo of
contacts goes through the import and its filter and does not bring back notes or
e-mail marks, that of preferences overwrites what was learnt since; a reload of
the page loses both.

A tool has ended before its request has: the route then awaits a thread that
appends the tool's entry to the history (`main.py:561`), with the loop free for
the next tool (the card is at "append"), and answers with the undo after it
(`Told`). Two things come between what a tool has committed and its undo. A
transaction of the tool may raise (`Raise`): any database call, or, without any
failure, the DELETE of a contact to which a note was added in the middle, since
`contact_notes` refers to `contacts` without a cascade (`StillNoted`). Or the
append may raise, for the reasons of section 6 (`AnswerFails`). In both the
request answers 500, the page brings the buttons back and has no undo, so what
that attempt removed is offered by none: `raised` holds those attempts, and
`DestroyedIsOffered` excuses these only, for contacts and for preferences
(`wiped` says which attempt cleared what). A card confirmed again is a new
attempt, with an undo for what it removes itself. Failures count as one of the
`MaxDeeds`; feedback that raises is dropped by the code (`Unlearned`).

## 11. `ContactEnrichment`, `LoginLimiter`, and the run `services`

`ContactEnrichment` extends `Contacts` with the enrichment of one contact, as a
job that starts over after a restart or as a tool that does not. The anchor, the
preferences and the known addresses are read one by one while the user's threads
go on. `EnrichmentOnlyAdds` says that it brings no address that has been a
contact, or was rejected, all the time since it began (`steady`, `warned`), that
its leads arrive when it ends well, and that it leaves a link the user gave
(`own` is dropped when he gives it between the read and the write of the patch).
What sources answer is chosen where it is used; the addresses of one organization
share a domain in the code, here each stands for its own; a database that fails
inside an import is in `LeadDiscovery`.

`LoginLimiter` has the limiter's three calls, each one step under its lock but
with the clock read before it, and the route around them. `GuessesBounded`:
wrong passwords verified within a window stay below the limit plus one for each
log-in that may have passed the check at the same time. `uncounted` excuses a
key whose failure found the table full, or whose bucket was given up: it is
dropped by its last entry, and entries come in the order of the lock.

**Run.** `services` checks these five and `LlmClient`. They share no state, so a
behaviour is one of them with the others at rest (`part`), which checks each as
by itself. Bounds: one retry, two pieces and two calls of an answer; three ASNs
in batches of two with one cached answer that expires, read by a stream and a
job; a queue of one event and one on the wire, three updates, two breaks; two
contacts and one to come, two cards confirmed twice, one request of the user or
failure; for an enrichment three addresses (the anchor, a lead, one to find,
which the import filter may refuse), one request and one fault; two log-ins at once on two keys with room for one, a limit of one.
Each is the least with which the hazards of the part happen: TLC finds each
mutant of `PROJECT.json` within them. Deadlock checking is off: each part ends.

**Fairness.** Weak for the attempts and chunks of a request (each wait has a
timeout), for the threads and tasks of a look-up, and for generator, connection
and page; strong for the answer to a poll, which is asked again and again.
Nothing is assumed of users, breaks or registries.

## 12. Proofs

TLAPS checks every theorem for all values of the constants (any number of rows,
jobs, schedules, loops, events, addresses, readers). Their assumptions are the
named ASSUMEs of the modules, no more: limits are naturals, sets that are
counted or folded are finite, a lead's filter and a registry's contacts are
addresses. TLC evaluates them in the runs, and it has checked the invariants
below on the instances of the runs before they were proved.

* `EmailOutboxProofs`. `SegmentInv` says where a tick can be and what it then
  holds. `CopiesBounded` needs that a row's accepted mails *plus those it may
  still cause* (one if it is queued, one if its SMTP call runs) stay within its
  puts; `DedupeHolds` that the batch's snapshot contains the address of every
  active row no route wrote, which is why a requeue after a failure is harmless;
  `ContactsMarked` that a linked row's contact exists; `CapHolds` that between
  the gate and the marking the count is strictly below the cap.
  `ClosedRowsStay` follows action by action.
* `BackgroundJobsProofs`. `PlaceInv` relates status to where the task stands
  (`OrphansHold`); `ReasonInv` says that a flag, an undelivered cancel and a
  runner about to write 'cancelled' each have their reason (`ReasonsHold`);
  `HitInv` that a caught task is still doomed or already on its way out
  (`HitsHold`). `LifecycleImplemented` is the refinement: every step maps to a
  step of `JobLifecycle` or a stutter, with `PlaceInv` for where a settled row
  can be written again.
* `SchedulerProofs`. `Shape` ties runners, jobs, loops and restarts together;
  `RunInv` that of two workers on a schedule one outlived its lease; `LeaseInv`
  and `LoopInv` are the invariants of their theorems.

* `PiThreadsProofs`. `Shape` has the types and where a turn's worker can be.
  `OwnerInv`, one turn at a time and `locked` while a chat is one, gives the
  refinement of `ThreadOwner` (`OwnerImplemented`), and `CleanInv` on top of it:
  a worker of a live turn that no foreign write overtook is alone with the row,
  so what it read is there when it writes. With `EntriesInv` (an append holds
  its turn's entries) each write keeps `RowInv`: what was saved is in the
  history or excused, what is below the position is in the summary or forgiven.
  `EntriesKept`, `ContextKept` are its parts; `BranchesHold` needs only types.
* `ContactsProofs` and `LeadDiscoveryProofs`. The first has no theorem of a
  specification: it shows that each statement of a thread and each request of
  the user preserves the invariants of the tables. Rows only gain (`Grows`), so
  what a thread has made sure of (`MadeSure`: found or inserted rows, reviews it
  will mark) or looked up (`Alone`) stays so while others work; a call that
  begins is an `Opening`, and a lead on its way is `Arriving`. The second adds
  the runs: `RunsInv` says that the record of a job agrees with what the job
  works on (`Agree`), that phases grow (`Phased`) and fit the place (`Fits`),
  which is `SearchImplemented`, the refinement of `LeadSearch` with all its
  restarts; `Way` how far the leads of a run have come at each place, which is
  `LeadsGiven`. `MarkedAreContacts`, `PendingOnce`, `RejectionsKept` are the
  tables' invariants.
* `AgentTurnProofs`. `PlaceInv` says what each place of the loop finds, and
  `MessageInv` that the messages are whole between rounds and how far the answers
  to the last assistant message have come within one (`Half`): this is
  `RequestsWellFormed`. `RanInv` says which results the messages hold
  (`ResultsBeforeModel`), `GuardInv` what the turn has run (`GuardrailsHold`).
  `StreamImplemented` is the part of `ImplementsTurnStream` without fairness:
  each tool announced has its result, there is one end, with no tool open, and
  it is a stop only when one was asked for. `PiDecisions` writes the
  choice of the calls from an answer with `InOrder`, over positions.
* `ServicesProofs` are about the composition in `MCServices`: a step of one part
  leaves the other parts alone (`StepOf`), so each has its invariant. `Offered`:
  between a card and its undo the rows it takes are in the copy that will be
  offered (`CopyInv`), and so were those gone (`GoneInv`); what a reset clears
  is in what it read (`WipeInv`), then in the undo of that attempt
  (`WipedOffered`), until the attempt is one that raised. `Guesses`: an entry of
  a key within a window is one of the failures counted, so a log-in that passed
  the check saw less than the limit, and those that are past it are at most the
  threads (`Counted`, `Bounded`). `Additions` takes the tables from
  `ContactsProofs` and says of a run what it heeds at each place (`Heeds`), that
  its leads are apart from what was there all along (`Apart`) and arrive
  (`Arrives`), and of the link who gave it (`LinkInv`). `ReplyImplemented` is
  the part of `ImplementsLlmReply` without fairness: while a request runs, the
  reader has what the running attempt put together (`ShownInv`).
  `ServedInOrder`: what is told is the list as far as the batch has come
  (`ToldInv`), a cached answer is one that was found (`CacheInv`), and an end
  means the whole list (`EndInv`).

Only model-checked:

* what must happen in the end, which needs fairness and is out of the prover's
  reach: `QueuedMoves`, `ActiveSettles`, `DueRuns`, `ThreadFreed`, `RunsEnd`,
  `EndIsShown`, and the ends that `ImplementsTurnStream`, `ImplementsLlmReply`
  and `LookupServed` ask for;
* in `LookupServed`, that a told result is sorted and without repetition: it
  stands on `SelectSeq`, of which the prover knows no definition, and on
  `SortSeq`, whose definition chooses a permutation of which nothing follows
  where two contacts tie; both are evaluated by TLC;
* `JobEvents`, whose one property is liveness; and the violations below.

`TypeOK` of `PiThreads` and `AgentTurn` is not a property of a run; both are
proved (`TypeCorrect`) since the other proofs stand on them.

## 13. Where code and documents differ

* `RefusalDoesNotPause`: a refused recipient switches the whole sender off,
  where the design says that only its row fails (`email_sender.py:127`).
* `SnapshotsStored`: progress updates raise (`background_jobs.py:166`).
* `SkippedIsRunning`: run-now says "already running" of schedules nothing runs
  (`scheduler.py:54`).

The safety properties carry the code's known gaps as recorded exceptions rather
than hide them: `unmarked`, `stillborn`, `broken`, `abandoned`, `overrun`,
`leaked`, and those named in sections 6 to 11, are filled only at the step where the gap opens, so a property says
that this is the *only* way to lose the guarantee.

## 14. Not modelled

The contents of messages, prompts, leads and pages; what a source finds and how;
the ranking by role weights, keywords and scores; network clients but for the
request to the model and the look-up of an ASN; the sidecar's transport, whose
loop is that of `AgentTurn`; the front end except for the copy of a thread it
sends back, the trackers of jobs and the cards; tools of the agent that are one
read, one statement or a call of a component modelled elsewhere; settings,
sessions and tokens, which are single reads and writes; schema creation and
deployment.
