---------------------------- MODULE BackgroundJobs ----------------------------
(***************************************************************************)
(* Background jobs (app/background_jobs.py): rows of background_jobs, the  *)
(* asyncio tasks that execute them, the routes that spawn and cancel them, *)
(* and the recovery at startup.                                            *)
(*                                                                         *)
(* A task runs on the event loop and gives it up only where it awaits; the *)
(* cancel route is a `def` route, a thread that may take a step between    *)
(* any two database transactions of a task.  It works twice: a flag that   *)
(* the runners poll, and task.cancel(), which an await turns into a        *)
(* CancelledError.  A task cancelled before its first step never runs its  *)
(* body, nor its finally clause.                                           *)
(*                                                                         *)
(* _running is not a variable: a job has at most one task in the life of   *)
(* a process, and its pc says whether the job is in _running.              *)
(***************************************************************************)
EXTENDS Integers

CONSTANTS
    MaxJobs,      \* bound: jobs ever created
    JobTypes,     \* the kinds of job this instance creates
    MaxSteps,     \* bound: events a runner receives in one execution
    MaxEvents,    \* bound: cancels, database failures, stops, crashes
    UtcNowIsText  \* what database.utc_now() returns: a str in this commit,
                  \* whose missing isoformat() fails every progress update

ASSUME JobConstants ==
    /\ {MaxJobs, MaxSteps, MaxEvents} \subseteq Nat
    /\ JobTypes \subseteq {"lookup", "lead_discover", "enrich_contact", "pi_agent"}
    /\ UtcNowIsText \in BOOLEAN

Jobs   == 1..MaxJobs
Active == {"pending", "running"}
Final  == {"done", "error", "cancelled"}

\* Where a task is suspended, and where it is inside a synchronous segment.
\* "spawned" is the request between the INSERT and create_task.
Suspended == {"ready", "await", "compress"}
Segment   == {"spawned", "load", "launch", "step", "save", "close", "broke",
              "final", "report", "fail", "stop", "abort", "leave"}

VARIABLES
    kind, status,  \* columns job_type and status
    pc,            \* where the task of a job stands; "none", "over": no task
    steps,         \* events the runner has received in this execution
    flags,         \* _cancel_requested
    registered,    \* keys of _job_tasks
    doomed,        \* tasks with a task.cancel() not yet delivered
    canceller,     \* the thread of a cancel request, per job
    proc,          \* "up", "stopping" or "down"
    events,        \* what users, the database and the machine have done
    asked,         \* history: jobs a user cancelled
    swept,         \* history: jobs a graceful shutdown cancelled
    hit,           \* history: suspended tasks a user's cancel() reached
    stillborn,     \* history: jobs whose task was cancelled before it began
    broken         \* history: jobs that met a database failure

memoryVars  == <<steps, flags, registered, doomed, canceller>>
historyVars == <<asked, swept, hit, stillborn, broken>>
vars == <<kind, status, pc, memoryVars, proc, events, historyVars>>

TypeOK ==
    /\ kind \in [Jobs -> JobTypes \cup {"none"}]
    /\ status \in [Jobs -> {"none"} \cup Active \cup Final]
    /\ pc \in [Jobs -> {"none", "over"} \cup Suspended \cup Segment]
    /\ steps \in [Jobs -> Nat]
    /\ canceller \in [Jobs -> {"idle", "flag", "note", "task"}]
    /\ {flags, registered, doomed, asked, swept, hit, stillborn, broken}
         \subseteq SUBSET Jobs
    /\ proc \in {"up", "stopping", "down"}
    /\ events \in Nat

Event == events < MaxEvents /\ events' = events + 1

LoopFree == \A j \in Jobs : pc[j] \notin Segment

Goto(j, next) == pc' = [pc EXCEPT ![j] = next]

\* The database refuses a call of job j.
DatabaseFails(j) == Event /\ broken' = broken \cup {j}

\* _update_job(status = s): the UPDATE and the read that publishes it.  If
\* one of them fails the exception goes where onError says; the row may
\* have been written already.
Store(j, s, next, onError) ==
    \/ /\ status' = [status EXCEPT ![j] = s]
       /\ Goto(j, next)
       /\ UNCHANGED <<events, broken>>
    \/ /\ DatabaseFails(j)
       /\ \/ status' = [status EXCEPT ![j] = s]
          \/ UNCHANGED status
       /\ Goto(j, onError)

-----------------------------------------------------------------------------
(* Spawning: an `async def` route, one segment with two transactions.      *)

SpawnCreate(j, k) ==
    /\ proc = "up" /\ LoopFree
    /\ status[j] = "none" /\ \A i \in Jobs : i < j => status[i] # "none"
    /\ kind' = [kind EXCEPT ![j] = k]
    /\ status' = [status EXCEPT ![j] = "pending"]
    /\ Goto(j, "spawned")
    /\ UNCHANGED <<memoryVars, proc, events, historyVars>>

\* Without create_task: the row alone.
SpawnTaskForgotten(j) ==
    /\ pc[j] = "spawned"
    /\ Goto(j, "over")
    /\ UNCHANGED <<kind, status, memoryVars, proc, events, historyVars>>

SpawnTask(j) ==
    /\ pc[j] = "spawned"
    /\ \/ /\ Goto(j, "ready")
          /\ registered' = registered \cup {j}
          /\ UNCHANGED <<events, broken>>
       \/ DatabaseFails(j) /\ Goto(j, "over") /\ UNCHANGED registered
    /\ UNCHANGED <<kind, status, steps, flags, doomed, canceller, proc,
                   asked, swept, hit, stillborn>>

-----------------------------------------------------------------------------
(* Executing: _execute_job and the runners.                                *)

\* A flag set that is read as a whole instead of by job.
SeenAny(j) == flags # {}
Seen(j) == j \in flags

Start(j) ==
    /\ pc[j] = "ready" /\ j \notin doomed /\ LoopFree
    /\ Goto(j, IF Seen(j) THEN "abort" ELSE "load")
    /\ steps' = [steps EXCEPT ![j] = 0]
    /\ UNCHANGED <<kind, status, flags, registered, doomed, canceller, proc,
                   events, historyVars>>

\* task.cancel() before the first step: the coroutine is closed unstarted.
NeverStart(j) ==
    /\ pc[j] = "ready" /\ j \in doomed /\ LoopFree
    /\ Goto(j, "over")
    /\ doomed' = doomed \ {j}
    /\ stillborn' = stillborn \cup {j}
    /\ UNCHANGED <<kind, status, steps, flags, registered, canceller, proc,
                   events, asked, swept, hit, broken>>

\* What follows the status check: lookup polls once more, and no ASNs, no
\* contact or a blank message is an error of the runner.
AfterLoad(j) ==
    IF status[j] \notin Active THEN {"leave"}
    ELSE IF kind[j] = "lookup" /\ Seen(j) THEN {"abort"}
    ELSE IF kind[j] = "lead_discover" THEN {"launch"}
    ELSE {"launch", "fail"}

Load(j) ==
    /\ pc[j] = "load"
    /\ \/ (\E next \in AfterLoad(j) : Goto(j, next)) /\ UNCHANGED <<events, broken>>
       \/ DatabaseFails(j) /\ Goto(j, "leave")
    /\ UNCHANGED <<kind, status, memoryVars, proc, asked, swept, hit, stillborn>>

\* status 'running'; lookup stores its first event in the same breath, Pi puts
\* the user's message on its thread.  That is before the try clause too: what it
\* raises (a row inserted in between, the database) is the failing Store here,
\* with the row already 'running'; PiThreads has the thread.
Launch(j) ==
    /\ pc[j] = "launch"
    /\ \E next \in IF kind[j] = "lookup" THEN {"save"} ELSE {"step", "await"} :
          Store(j, "running", next, "leave")
    /\ UNCHANGED <<kind, memoryVars, proc, asked, swept, hit, stillborn>>

\* The runner is handed an event.  lookup raises when it sees the flag, the
\* lead runners return; the Pi runner leaves the polling to the agent's
\* stream, which may see the flag later or not at all.
AfterEvent(j) ==
    CASE kind[j] = "lookup"   -> IF Seen(j) THEN {"abort"} ELSE {"save"}
      [] kind[j] = "pi_agent" -> {"save", "broke"} \cup (IF Seen(j) THEN {"close"} ELSE {})
      [] OTHER                -> IF Seen(j) THEN {"stop"} ELSE {"save", "report"}

Step(j) ==
    /\ pc[j] = "step"
    /\ \E next \in AfterEvent(j) : Goto(j, next)
    /\ UNCHANGED <<kind, status, memoryVars, proc, events, historyVars>>

\* Between two events the source may await or not, and it ends some day.
Onward(j) == IF steps[j] < MaxSteps THEN {"step", "await", "close"} ELSE {"close"}

\* _update_job_progress: _merge_progress_events calls utc_now().isoformat().
Save(j) ==
    /\ pc[j] = "save"
    /\ steps' = [steps EXCEPT ![j] = @ + 1]
    /\ IF UtcNowIsText
       THEN Goto(j, "fail") /\ UNCHANGED <<status, events, broken>>
       ELSE \E next \in Onward(j) : Store(j, status[j], next, "fail")
    /\ UNCHANGED <<kind, flags, registered, doomed, canceller, proc,
                   asked, swept, hit, stillborn>>

\* What was awaited arrives, or fails with an exception.
Resume(j) ==
    /\ pc[j] = "await" /\ j \notin doomed /\ LoopFree
    /\ \E next \in {"step", "fail"} \cup (IF steps[j] > 0 THEN {"close"} ELSE {}) :
          Goto(j, next)
    /\ UNCHANGED <<kind, status, memoryVars, proc, events, historyVars>>

\* A runner that swallows the CancelledError and goes on.
InterruptSwallowed(j) ==
    /\ pc[j] \in {"await", "compress"} /\ j \in doomed /\ LoopFree
    /\ Goto(j, "close")
    /\ doomed' = doomed \ {j}
    /\ UNCHANGED <<kind, status, steps, flags, registered, canceller, proc,
                   events, historyVars>>

\* The await raises CancelledError.
Interrupt(j) ==
    /\ pc[j] \in {"await", "compress"} /\ j \in doomed /\ LoopFree
    /\ Goto(j, "abort")
    /\ doomed' = doomed \ {j}
    /\ UNCHANGED <<kind, status, steps, flags, registered, canceller, proc,
                   events, historyVars>>

\* The source has ended.  lookup and Pi poll a last time; Pi appends the new
\* entries to the thread and awaits the compression of its context.
Close(j) ==
    /\ pc[j] = "close"
    /\ \E next \in IF kind[j] \in {"lookup", "pi_agent"} /\ Seen(j) THEN {"stop"}
                   ELSE IF kind[j] = "pi_agent" THEN {"compress", "final"}
                   ELSE {"final"} :
          Goto(j, next)
    /\ UNCHANGED <<kind, status, memoryVars, proc, events, historyVars>>

\* The agent's stream reported an error.
Broke(j) ==
    /\ pc[j] = "broke"
    /\ Goto(j, IF Seen(j) THEN "stop" ELSE "report")
    /\ UNCHANGED <<kind, status, memoryVars, proc, events, historyVars>>

Compressed(j) ==
    /\ pc[j] = "compress" /\ j \notin doomed /\ LoopFree
    /\ \E next \in {"final", "fail"} : Goto(j, next)
    /\ UNCHANGED <<kind, status, memoryVars, proc, events, historyVars>>

\* The last words of a runner: inside its try clause ("final", "report",
\* "stop"), in its except clause ("fail"), or in _execute_job ("abort").
Settle(j) ==
    /\ \/ pc[j] = "final"  /\ Store(j, "done", "leave", "fail")
       \/ pc[j] = "report" /\ Store(j, "error", "leave", "fail")
       \/ pc[j] = "stop"   /\ Store(j, "cancelled", "leave", "fail")
       \/ pc[j] = "fail"   /\ Store(j, "error", "leave", "leave")
       \/ pc[j] = "abort"  /\ Store(j, "cancelled", "leave", "leave")
    /\ UNCHANGED <<kind, memoryVars, proc, asked, swept, hit, stillborn>>

\* The finally clause.
Leave(j) ==
    /\ pc[j] = "leave"
    /\ Goto(j, "over")
    /\ flags' = flags \ {j} /\ registered' = registered \ {j} /\ doomed' = doomed \ {j}
    /\ UNCHANGED <<kind, status, steps, canceller, proc, events, historyVars>>

-----------------------------------------------------------------------------
(* Cancelling: request_cancel_background_job, in a thread.                 *)

CancelCheck(j) ==
    /\ Event
    /\ proc = "up" /\ canceller[j] = "idle" /\ status[j] \in Active
    /\ canceller' = [canceller EXCEPT ![j] = "flag"]
    /\ UNCHANGED <<kind, status, pc, steps, flags, registered, doomed, proc, historyVars>>

CancelFlag(j) ==
    /\ canceller[j] = "flag"
    /\ flags' = flags \cup {j}
    /\ asked' = asked \cup {j}
    /\ canceller' = [canceller EXCEPT ![j] = "note"]
    /\ UNCHANGED <<kind, status, pc, steps, registered, doomed, proc, events,
                   swept, hit, stillborn, broken>>

\* The message of the row; its failure ends the request.
CancelNote(j) ==
    /\ canceller[j] = "note"
    /\ \/ canceller' = [canceller EXCEPT ![j] = "task"] /\ UNCHANGED events
       \/ canceller' = [canceller EXCEPT ![j] = "idle"] /\ Event
    /\ UNCHANGED <<kind, status, pc, steps, flags, registered, doomed, proc, historyVars>>

CancelTask(j) ==
    /\ canceller[j] = "task"
    /\ canceller' = [canceller EXCEPT ![j] = "idle"]
    /\ IF j \in registered /\ pc[j] # "over"
       THEN /\ doomed' = doomed \cup {j}
            /\ hit' = IF pc[j] \in Suspended THEN hit \cup {j} ELSE hit
       ELSE UNCHANGED <<doomed, hit>>
    /\ UNCHANGED <<kind, status, pc, steps, flags, registered, proc, events,
                   asked, swept, stillborn, broken>>

-----------------------------------------------------------------------------
(* The process.                                                            *)

\* The event loop is closed and cancels the tasks that are left.
Stop ==
    /\ Event
    /\ proc = "up" /\ LoopFree
    /\ proc' = "stopping"
    /\ LET left == {j \in Jobs : pc[j] \in Suspended}
       IN  doomed' = doomed \cup left /\ swept' = swept \cup left
    /\ UNCHANGED <<kind, status, pc, steps, flags, registered, canceller,
                   asked, hit, stillborn, broken>>

MemoryGone ==
    /\ proc' = "down"
    /\ pc' = [j \in Jobs |-> "none"]
    /\ flags' = {} /\ registered' = {} /\ doomed' = {} /\ hit' = {} /\ stillborn' = {}
    /\ canceller' = [j \in Jobs |-> "idle"]
    /\ broken' = {}
    /\ UNCHANGED <<kind, status, steps, asked, swept>>

Exit ==
    /\ proc = "stopping"
    /\ \A j \in Jobs : pc[j] \in {"none", "over"}
    /\ MemoryGone /\ UNCHANGED events

Crash == proc # "down" /\ Event /\ MemoryGone

\* Recovery that leaves out the jobs still pending.
ResumableRunning == {j \in Jobs : status[j] = "running"}

\* list_resumable_background_jobs.
Resumable == {j \in Jobs : status[j] \in Active}

\* Recovery with the outbox's word for waiting, and recovery of every row.
RequeuedAsQueued == [j \in Jobs |-> IF status[j] = "running" THEN "queued" ELSE status[j]]
RequeuedAll == [j \in Jobs |-> IF status[j] = "none" THEN "none" ELSE "pending"]
Requeued    == [j \in Jobs |-> IF status[j] = "running" THEN "pending" ELSE status[j]]

\* recover_background_jobs_on_startup: before the first request is served.
\* The tasks it creates are not put in _job_tasks.
Recover ==
    /\ proc = "down"
    /\ proc' = "up"
    /\ status' = Requeued
    /\ pc' = [j \in Jobs |-> IF j \in Resumable THEN "ready" ELSE "none"]
    /\ UNCHANGED <<kind, memoryVars, events, historyVars>>

-----------------------------------------------------------------------------
Init ==
    /\ kind = [j \in Jobs |-> "none"] /\ status = [j \in Jobs |-> "none"]
    /\ pc = [j \in Jobs |-> "none"] /\ steps = [j \in Jobs |-> 0]
    /\ canceller = [j \in Jobs |-> "idle"]
    /\ flags = {} /\ registered = {} /\ doomed = {}
    /\ proc = "up" /\ events = 0
    /\ asked = {} /\ swept = {} /\ hit = {} /\ stillborn = {} /\ broken = {}

Spawn(j) == (\E k \in JobTypes : SpawnCreate(j, k)) \/ SpawnTask(j)

\* The steps of a task that is, or can be, on the loop.
Run(j) == \/ Start(j) \/ NeverStart(j) \/ Load(j) \/ Launch(j) \/ Step(j) \/ Save(j)
          \/ Resume(j) \/ Interrupt(j) \/ Close(j) \/ Broke(j) \/ Compressed(j)
          \/ Settle(j) \/ Leave(j)

Cancel(j) == CancelCheck(j) \/ CancelFlag(j) \/ CancelNote(j) \/ CancelTask(j)

Process == Stop \/ Exit \/ Crash \/ Recover

Next == (\E j \in Jobs : Spawn(j) \/ Run(j) \/ Cancel(j)) \/ Process

Spec == Init /\ [][Next]_vars

(***************************************************************************)
(* Fairness: the loop runs every ready task (strong fairness, since other  *)
(* tasks' segments disable a suspended one again and again), a segment     *)
(* that has begun ends, and what is awaited has a timeout.  Nothing is     *)
(* assumed of requests, failures or the process.                           *)
(***************************************************************************)
FairSpec == Spec /\ \A j \in Jobs : SF_vars(Run(j)) /\ WF_vars(SpawnTask(j))

-----------------------------------------------------------------------------
(* Properties.                                                             *)

Lifecycle == INSTANCE JobLifecycle WITH Jobs <- Jobs, status <- status

\* The rows live the life JobLifecycle describes: whatever the order of
\* runner, cancel route, failures and restarts, a settled job is never
\* active again, and only a failure to report it turns 'done' into 'error'.
ImplementsLifecycle == Lifecycle!Spec

\* While the process is up, an active row has a task that will settle it;
\* the exceptions are a task cancelled before it began and a database
\* failure that escaped the runner (spawn, _execute_job, an except clause).
NoOrphans ==
    \A j \in Jobs :
        (proc = "up" /\ status[j] \in Active /\ pc[j] \in {"none", "over"})
        => j \in stillborn \cup broken

\* A row says 'cancelled' only where a user asked for it or the shutdown
\* cancelled its task: no job is stopped by the cancellation of another.
CancelledForAReason ==
    \A j \in Jobs : status[j] = "cancelled" => j \in asked \cup swept

\* A cancel whose task.cancel() reached a suspended task keeps that job from
\* ending 'done', at whichever await it was and whatever the runner.
HitNeverDone ==
    \A j \in hit : status[j] = "done" => j \in broken

\* Every active job is settled, or the process goes down, or it is one of
\* the exceptions of NoOrphans.
ActiveSettles ==
    \A j \in Jobs :
        status[j] \in Active
        ~> (status[j] \in Final \/ proc # "up" \/ j \in stillborn \cup broken)

(* What the code's own comments say and the code does not do.              *)

\* _slim_progress: "Store lightweight progress snapshots".  A snapshot fails
\* to be stored only where the database does.
SnapshotsStored ==
    [][\A j \in Jobs : (pc[j] = "save" /\ pc'[j] = "fail") => events' # events]_vars
=============================================================================
