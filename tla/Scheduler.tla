------------------------------- MODULE Scheduler -------------------------------
(***************************************************************************)
(* The lead discovery scheduler (app/scheduler.py): schedules with a lease *)
(* (running_at, taken over after three hours), the polling loop, the route *)
(* that runs a schedule at once, and the restart that saving the settings  *)
(* causes.                                                                 *)
(*                                                                         *)
(* The loop and a run-now request are runners on the event loop; a run     *)
(* gives it up only while lead discovery awaits.  Editing and deleting are *)
(* `def` routes, threads that may step between two transactions of a run.  *)
(* The age of a lease and the time to the next run saturate, so time never *)
(* ends: Lease and Delays are in the same unit.                            *)
(***************************************************************************)
EXTENDS Integers

CONSTANTS
    Schedules,   \* ids of scheduled_jobs
    Loops,       \* bound: loop tasks that exist at the same time
    Requests,    \* bound: run-now requests at the same time
    Restarts,    \* bound: settings requests at the same time
    NoJob, NoLoop,
    Lease,       \* age at which running_at counts as stale
    Delays,      \* cooldown or interval, as mark_job_run clamps them
    MaxEvents    \* bound: what users, the database and the machine do

Runners == Loops \cup Requests

ASSUME SchedulerConstants ==
    /\ Loops \cap Requests = {} /\ NoLoop \notin Loops /\ NoJob \notin Schedules
    /\ Lease \in Nat \ {0} /\ MaxEvents \in Nat
    /\ Delays \subseteq Nat \ {0} /\ Delays # {}

\* Where a runner may be suspended, and where it is between two awaits.
Suspended == {"sleep", "work"}
Segment   == {"next", "claim", "mark", "record", "fail", "note"}
Working   == {"work", "mark", "record", "fail", "note"}

VARIABLES
    row,       \* of a schedule: "none", "on", "off" (enabled) or "gone"
    claimed,   \* schedules with running_at
    age,       \* of their lease
    dueIn,     \* time to next_run_at
    setting,   \* scheduler_enabled
    pc, job,   \* of a runner; pc "none": no such task or request
    todo,      \* due schedules a loop has listed and not yet run
    running,   \* _running_jobs
    current,   \* _scheduler_task
    doomed,    \* loops with a cancel() not yet delivered
    waiting,   \* the loop a restart awaits the end of
    proc, events,
    abandoned, \* history: leases whose run ended without a release
    overrun,   \* history: schedules whose stale lease a second run took over
    leaked     \* history: loops _scheduler_task forgot alive

tableVars   == <<row, claimed, age, dueIn, setting>>
loopVars    == <<current, doomed, waiting>>
historyVars == <<abandoned, overrun, leaked>>
vars == <<tableVars, pc, job, todo, running, loopVars, proc, events, historyVars>>

TypeOK ==
    /\ row \in [Schedules -> {"none", "on", "off", "gone"}]
    /\ {claimed, running, abandoned, overrun} \subseteq SUBSET Schedules
    /\ age \in [Schedules -> 0..Lease]
    /\ dueIn \in [Schedules -> Nat]
    /\ setting \in {"on", "off"}
    /\ pc \in [Runners -> {"none"} \cup Suspended \cup Segment]
    /\ job \in [Runners -> Schedules \cup {NoJob}]
    /\ todo \in [Loops -> SUBSET Schedules]
    /\ current \in Loops \cup {NoLoop}
    /\ {doomed, leaked} \subseteq SUBSET Loops
    /\ waiting \in [Restarts -> Loops \cup {NoLoop}]
    /\ proc \in {"up", "down"}
    /\ events \in Nat

Event == events < MaxEvents /\ events' = events + 1

LoopFree == proc = "up" /\ \A r \in Runners : pc[r] \notin Segment

Stale(j) == j \in claimed /\ age[j] >= Lease

\* A claim that overlooks running_at, and one that never takes over.
LeaseIgnored(j) == TRUE
LeaseForever(j) == j \notin claimed
LeaseFree(j)    == j \notin claimed \/ Stale(j)

Due == {j \in Schedules : row[j] = "on" /\ dueIn[j] = 0 /\ LeaseFree(j)}

\* The finally clauses; run-now has none before its claim succeeds.
Discard(r) == running' = IF r \in Requests /\ pc[r] = "claim" THEN running
                         ELSE running \ {job[r]}

\* The loop goes on with its list, a request answers.
Finish(r) ==
    /\ Discard(r)
    /\ pc' = [pc EXCEPT ![r] = IF r \in Loops THEN "next" ELSE "none"]
    /\ job' = [job EXCEPT ![r] = NoJob]
    /\ UNCHANGED todo

\* An exception that leaves run_scheduled_job ends the loop's whole tick.
Escape(r) ==
    /\ Discard(r)
    /\ pc' = [pc EXCEPT ![r] = IF r \in Loops THEN "sleep" ELSE "none"]
    /\ job' = [job EXCEPT ![r] = NoJob]
    /\ todo' = IF r \in Loops THEN [todo EXCEPT ![r] = {}] ELSE todo

Goto(r, next) == pc' = [pc EXCEPT ![r] = next]

-----------------------------------------------------------------------------
(* The loop's tick and the run-now route.                                  *)

Tick(l) ==
    /\ pc[l] = "sleep" /\ l \notin doomed /\ LoopFree
    /\ setting = "on" /\ Due # {}
    /\ todo' = [todo EXCEPT ![l] = Due]
    /\ Goto(l, "next")
    /\ UNCHANGED <<tableVars, job, running, loopVars, proc, events, historyVars>>

\* The list is ordered by next_run_at; dueIn forgets how overdue a schedule
\* is, so any order is taken.
NextJob(l) ==
    /\ pc[l] = "next"
    /\ \/ /\ todo[l] = {} \/ setting = "off"
          /\ todo' = [todo EXCEPT ![l] = {}]
          /\ Goto(l, "sleep")
          /\ UNCHANGED <<job, running>>
       \/ /\ setting = "on"
          /\ \E j \in todo[l] :
                /\ todo' = [todo EXCEPT ![l] = @ \ {j}]
                /\ IF j \in running
                   THEN UNCHANGED <<pc, job, running>>
                   ELSE /\ running' = running \cup {j}
                        /\ job' = [job EXCEPT ![l] = j]
                        /\ Goto(l, "claim")
    /\ UNCHANGED <<tableVars, loopVars, proc, events, historyVars>>

RunNow(q, j) ==
    /\ Event
    /\ pc[q] = "none" /\ LoopFree /\ row[j] \in {"on", "off"}
    /\ job' = [job EXCEPT ![q] = j]
    /\ Goto(q, "claim")
    /\ UNCHANGED <<tableVars, todo, running, loopVars, proc, historyVars>>

-----------------------------------------------------------------------------
(* run_scheduled_job.                                                      *)

Claimable(j) == row[j] = "on" /\ LeaseFree(j)

Claim(r) ==
    /\ pc[r] = "claim"
    /\ Claimable(job[r])
    /\ claimed' = claimed \cup {job[r]}
    /\ age' = [age EXCEPT ![job[r]] = 0]
    /\ overrun' = IF Stale(job[r]) /\ \E o \in Runners : job[o] = job[r] /\ pc[o] \in Working
                  THEN overrun \cup {job[r]} ELSE overrun
    /\ \/ /\ Goto(r, "work")
          /\ abandoned' = abandoned \ {job[r]}
          /\ UNCHANGED <<job, todo, running, events>>
       \/ \* get_prefs, before the try clause, fails
          /\ Event /\ Escape(r)
          /\ abandoned' = abandoned \cup {job[r]}
    /\ UNCHANGED <<row, dueIn, setting, loopVars, proc, leaked>>

\* "skipped": held by another run, disabled or deleted.
Skip(r) ==
    /\ pc[r] = "claim"
    /\ ~Claimable(job[r])
    /\ Finish(r)
    /\ UNCHANGED <<tableVars, loopVars, proc, events, historyVars>>

ClaimFails(r) ==
    /\ pc[r] = "claim"
    /\ Event /\ Escape(r)
    /\ UNCHANGED <<tableVars, loopVars, proc, historyVars>>

\* Lead discovery ends with a result, which may be an error, or raises.
Return(r) ==
    /\ pc[r] = "work" /\ r \notin doomed /\ LoopFree
    /\ \E next \in {"mark", "fail"} : Goto(r, next)
    /\ UNCHANGED <<tableVars, job, todo, running, loopVars, proc, events, historyVars>>

\* Without running_at = NULL; and with next_run_at counted from the start of
\* the run.
ReleaseForgotten(r) ==
    /\ UNCHANGED <<claimed, abandoned>>
    /\ \E d \in Delays : dueIn' = [dueIn EXCEPT ![job[r]] = d]
ReleaseBackdated(r) ==
    /\ claimed' = claimed \ {job[r]}
    /\ abandoned' = abandoned \ {job[r]}
    /\ \E d \in Delays : dueIn' = [dueIn EXCEPT ![job[r]] = d - age[job[r]]]

\* mark_job_run: whoever holds the lease loses it.
Release(r) ==
    /\ claimed' = claimed \ {job[r]}
    /\ abandoned' = abandoned \ {job[r]}
    /\ \E d \in Delays : dueIn' = [dueIn EXCEPT ![job[r]] = d]

Mark(r) ==
    /\ pc[r] = "mark"
    /\ \/ Release(r) /\ Goto(r, "record") /\ UNCHANGED events
       \/ Event /\ Goto(r, "fail") /\ UNCHANGED <<claimed, dueIn, abandoned>>
    /\ UNCHANGED <<row, age, setting, job, todo, running, loopVars, proc, overrun, leaked>>

\* insert_job_run: the foreign key refuses a run of a deleted schedule.
Record(r) ==
    /\ pc[r] = "record"
    /\ \/ row[job[r]] # "gone" /\ Finish(r) /\ UNCHANGED events
       \/ /\ (row[job[r]] = "gone" /\ UNCHANGED events) \/ Event
          /\ Goto(r, "fail") /\ UNCHANGED <<job, todo, running>>
    /\ UNCHANGED <<tableVars, loopVars, proc, historyVars>>

\* The except clause marks and records once more.
Fail(r) ==
    /\ pc[r] = "fail"
    /\ \/ /\ Release(r) /\ Goto(r, "note")
          /\ UNCHANGED <<events, job, todo, running>>
       \/ /\ Event /\ Escape(r)
          /\ abandoned' = abandoned \cup (claimed \cap {job[r]})
          /\ UNCHANGED <<claimed, dueIn>>
    /\ UNCHANGED <<row, age, setting, loopVars, proc, overrun, leaked>>

Note(r) ==
    /\ pc[r] = "note"
    /\ \/ row[job[r]] # "gone" /\ Finish(r) /\ UNCHANGED events
       \/ ((row[job[r]] = "gone" /\ UNCHANGED events) \/ Event) /\ Escape(r)
    /\ UNCHANGED <<tableVars, loopVars, proc, historyVars>>

-----------------------------------------------------------------------------
(* Saving the settings: restart_scheduler.                                 *)

\* create_task for a loop, in the place of no live and no awaited one.
StartLoop(l) ==
    /\ pc[l] = "none"
    /\ current' = l
    /\ Goto(l, "sleep")

\* A restart if scheduler_enabled changes or the poll interval is given,
\* which the settings page always does.
SaveSettings(q, v) ==
    /\ Event
    /\ LoopFree /\ waiting[q] = NoLoop
    /\ setting' = v
    /\ IF current # NoLoop
       THEN /\ waiting' = [waiting EXCEPT ![q] = current]
            /\ doomed' = IF pc[current] = "none" THEN doomed ELSE doomed \cup {current}
            /\ UNCHANGED <<pc, current>>
       ELSE /\ UNCHANGED <<waiting, doomed>>
            /\ IF v = "on"
               THEN \E l \in Loops : (\A s \in Restarts : waiting[s] # l) /\ StartLoop(l)
               ELSE UNCHANGED <<pc, current>>
    /\ UNCHANGED <<row, claimed, age, dueIn, job, todo, running, proc, historyVars>>

\* A stop_scheduler that does not await the loop it cancels.
LoopEndedUnawaited(q) == TRUE
LoopEnded(q) == pc[waiting[q]] = "none"

\* The awaited loop has ended: _scheduler_task = None, whatever it is now,
\* and start_scheduler.
RestartEnd(q) ==
    /\ waiting[q] # NoLoop /\ LoopEnded(q) /\ LoopFree
    /\ waiting' = [waiting EXCEPT ![q] = NoLoop]
    /\ leaked' = IF current = NoLoop \/ current = waiting[q] THEN leaked
                 ELSE leaked \cup {current}
    /\ IF setting = "on"
       THEN \E l \in Loops : (\A s \in Restarts \ {q} : waiting[s] # l) /\ StartLoop(l)
       ELSE current' = NoLoop /\ UNCHANGED pc
    /\ UNCHANGED <<tableVars, job, todo, running, doomed, proc, events, abandoned, overrun>>

\* CancelledError at the loop's await: `except Exception` lets it pass, and
\* a run that is interrupted neither releases its lease nor is recorded.
LoopCancelled(l) ==
    /\ pc[l] \in Suspended /\ l \in doomed /\ LoopFree
    /\ Goto(l, "none")
    /\ doomed' = doomed \ {l}
    /\ leaked' = leaked \ {l}
    /\ running' = running \ {job[l]}
    /\ job' = [job EXCEPT ![l] = NoJob]
    /\ todo' = [todo EXCEPT ![l] = {}]
    /\ abandoned' = abandoned \cup (claimed \cap {job[l]})
    /\ UNCHANGED <<tableVars, current, waiting, proc, events, overrun>>

-----------------------------------------------------------------------------
(* The routes of the schedules, threads; time; the process.                *)

Create(j) ==
    /\ proc = "up" /\ row[j] = "none"
    /\ \E v \in {"on", "off"} : row' = [row EXCEPT ![j] = v]
    /\ dueIn' = [dueIn EXCEPT ![j] = 0]
    /\ UNCHANGED <<claimed, age, setting, pc, job, todo, running, loopVars, proc,
                   events, historyVars>>

Patch(j) ==
    /\ Event
    /\ proc = "up" /\ row[j] \in {"on", "off"}
    /\ row' = [row EXCEPT ![j] = IF @ = "on" THEN "off" ELSE "on"]
    /\ UNCHANGED <<claimed, age, dueIn, setting, pc, job, todo, running, loopVars,
                   proc, historyVars>>

Delete(j) ==
    /\ proc = "up" /\ row[j] \in {"on", "off"}
    /\ row' = [row EXCEPT ![j] = "gone"]
    /\ claimed' = claimed \ {j} /\ abandoned' = abandoned \ {j}
    /\ UNCHANGED <<age, dueIn, setting, pc, job, todo, running, loopVars, proc,
                   events, overrun, leaked>>

\* Segments are short: no time passes in them.
Advance ==
    /\ \A r \in Runners : pc[r] \notin Segment
    /\ age' = [j \in Schedules |-> IF j \in claimed /\ age[j] < Lease
                                   THEN age[j] + 1 ELSE age[j]]
    /\ dueIn' = [j \in Schedules |-> IF dueIn[j] > 0 THEN dueIn[j] - 1 ELSE 0]
    /\ UNCHANGED <<row, claimed, setting, pc, job, todo, running, loopVars, proc,
                   events, historyVars>>

\* A crash, or a shutdown: both end every task where it stands.
Down ==
    /\ Event
    /\ proc = "up" /\ proc' = "down"
    /\ pc' = [r \in Runners |-> "none"] /\ job' = [r \in Runners |-> NoJob]
    /\ todo' = [l \in Loops |-> {}] /\ running' = {}
    /\ current' = NoLoop /\ doomed' = {} /\ waiting' = [q \in Restarts |-> NoLoop]
    /\ abandoned' = claimed /\ overrun' = {} /\ leaked' = {}
    /\ UNCHANGED tableVars

Boot ==
    /\ proc = "down" /\ proc' = "up"
    /\ IF setting = "on" THEN \E l \in Loops : StartLoop(l) ELSE UNCHANGED <<pc, current>>
    /\ UNCHANGED <<tableVars, job, todo, running, doomed, waiting, events, historyVars>>

-----------------------------------------------------------------------------
Init ==
    /\ row = [j \in Schedules |-> "none"] /\ dueIn = [j \in Schedules |-> 0]
    /\ age = [j \in Schedules |-> 0] /\ claimed = {}
    /\ setting = "on"
    /\ pc = [r \in Runners |-> "none"] /\ job = [r \in Runners |-> NoJob]
    /\ todo = [l \in Loops |-> {}] /\ running = {}
    /\ current = NoLoop /\ doomed = {} /\ waiting = [q \in Restarts |-> NoLoop]
    /\ proc = "down" /\ events = 0
    /\ abandoned = {} /\ overrun = {} /\ leaked = {}

Run(r) == \/ Claim(r) \/ Skip(r) \/ ClaimFails(r) \/ Return(r) \/ Mark(r) \/ Record(r)
          \/ Fail(r) \/ Note(r)

Loop(l) == Tick(l) \/ NextJob(l) \/ LoopCancelled(l)

Settings(q) == (\E v \in {"on", "off"} : SaveSettings(q, v)) \/ RestartEnd(q)

Route(j) == (\E q \in Requests : RunNow(q, j)) \/ Create(j) \/ Patch(j) \/ Delete(j)

Next ==
    \/ \E r \in Runners : Run(r)
    \/ \E l \in Loops : Loop(l)
    \/ \E q \in Restarts : Settings(q)
    \/ \E j \in Schedules : Route(j)
    \/ Advance \/ Down \/ Boot

Spec == Init /\ [][Next]_vars

(***************************************************************************)
(* Fairness: the event loop runs each ready task, a run's discovery ends   *)
(* (each of its calls has a timeout), and time passes; strongly, because   *)
(* the segments of other tasks disable these steps again and again.        *)
(***************************************************************************)
FairSpec ==
    /\ Spec
    /\ \A r \in Runners : SF_vars(Run(r))
    /\ \A l \in Loops : SF_vars(Loop(l))
    /\ \A q \in Restarts : SF_vars(RestartEnd(q))
    /\ SF_vars(Advance)

-----------------------------------------------------------------------------
(* Properties.                                                             *)

\* Two runs of one schedule at the same time only after the lease of the
\* first had gone stale under it, whoever started them.
OneRun ==
    \A r, o \in Runners :
        (r # o /\ job[r] = job[o] /\ pc[r] \in Working /\ pc[o] \in Working)
        => job[r] \in overrun

\* A lease is held by a run, or its run was cut off: by a restart or stop
\* of the loop, the end of the process, or a database failure.
LeaseHasRun ==
    \A j \in claimed :
        j \in abandoned \/ \E r \in Runners : job[r] = j /\ pc[r] \in Working

\* Loops do not run side by side unless two restarts overlapped and
\* _scheduler_task forgot a live one.
LoopsOneByOne ==
    leaked = {} => \A l, m \in Loops : (pc[l] # "none" /\ pc[m] # "none") => l = m

Polling == /\ proc = "up" /\ setting = "on"
           /\ current # NoLoop /\ current \notin doomed

AtWork(j) == \E r \in Runners : job[r] = j /\ pc[r] = "work"

\* A schedule that is enabled and due is run, whatever failed before and
\* whoever left its lease behind, as long as the scheduler polls.
DueRuns ==
    \A j \in Schedules :
        (row[j] = "on" /\ dueIn[j] = 0 /\ Polling)
        ~> (AtWork(j) \/ row[j] # "on" \/ dueIn[j] > 0 \/ ~Polling)

\* What run-now answers when it skips a schedule: that it is running.
SkippedIsRunning ==
    [][\A q \in Requests :
          (pc[q] = "claim" /\ pc'[q] = "none" /\ proc' = "up" /\ events' = events)
          => \E r \in Runners \ {q} : job[r] = job[q] /\ pc[r] \in Working]_vars
=============================================================================
