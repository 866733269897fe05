---------------------------- MODULE SchedulerProofs ----------------------------
(***************************************************************************)
(* Proofs about Scheduler.  Everything rests on the event loop: one runner *)
(* at a time is between two awaits (Shape), so a claim meets other runs of *)
(* its schedule only where they are suspended, and there each of them      *)
(* still has its lease unless it was overrun (RunInv).                     *)
(***************************************************************************)
EXTENDS Scheduler, TLAPS

OneSegment == \A r, o \in Runners : (pc[r] \in Segment /\ pc[o] \in Segment) => r = o

HasJob == \A r \in Runners : job[r] \in Schedules <=> pc[r] \in Working \cup {"claim"}

Shape == /\ TypeOK
         /\ HasJob
         /\ OneSegment
         /\ proc = "down" => \A r \in Runners : pc[r] = "none"

\* A run keeps its lease until it marks, unless it was overrun or its
\* schedule is deleted.
RunInv ==
    /\ OneRun
    /\ \A r \in Runners :
          (pc[r] \in {"work", "mark"} /\ row[job[r]] # "gone")
          => job[r] \in claimed \cup overrun

\* After mark_job_run, no lease is left.
LeaseInv ==
    /\ LeaseHasRun
    /\ \A r \in Runners : pc[r] \in {"record", "note"} => job[r] \notin claimed

LoopInv == \A l \in Loops : pc[l] # "none" => l = current \/ l \in leaked

-----------------------------------------------------------------------------
LEMMA ShapeInit == Init => Shape
BY SchedulerConstants
   DEF Init, Shape, TypeOK, HasJob, OneSegment, Segment, Working, Runners

LEMMA ShapeRun == ASSUME Shape, NEW r \in Runners, Run(r) PROVE Shape'
<1> USE SchedulerConstants
    DEF Shape, TypeOK, HasJob, OneSegment, Suspended, Segment, Working, Runners,
        tableVars, loopVars, historyVars, Goto, Event
<1>1. CASE Claim(r)      BY <1>1 DEF Claim, Escape, Discard
<1>2. CASE Skip(r)       BY <1>2 DEF Skip, Finish, Discard
<1>3. CASE ClaimFails(r) BY <1>3 DEF ClaimFails, Escape, Discard
<1>4. CASE Return(r)     BY <1>4 DEF Return, LoopFree
<1>5. CASE Mark(r)       BY <1>5 DEF Mark, Release
<1>6. CASE Record(r)     BY <1>6 DEF Record, Finish, Discard
<1>7. CASE Fail(r)       BY <1>7 DEF Fail, Release, Escape, Discard
<1>8. CASE Note(r)       BY <1>8 DEF Note, Finish, Escape, Discard
<1> QED BY <1>1, <1>2, <1>3, <1>4, <1>5, <1>6, <1>7, <1>8 DEF Run

LEMMA ShapeLoop == ASSUME Shape, NEW l \in Loops, Loop(l) PROVE Shape'
<1> USE SchedulerConstants
    DEF Shape, TypeOK, HasJob, OneSegment, Suspended, Segment, Working, Runners,
        tableVars, loopVars, historyVars, Goto, Event
<1>1. CASE Tick(l)    BY <1>1 DEF Tick, LoopFree, Due
<1>2. CASE NextJob(l) BY <1>2 DEF NextJob
<1>3. CASE LoopCancelled(l) BY <1>3 DEF LoopCancelled
<1> QED BY <1>1, <1>2, <1>3 DEF Loop

\* What starting a loop, or not, does to the runners.
LEMMA LoopStarted ==
  ASSUME Shape, proc' = "up", UNCHANGED job,
         UNCHANGED pc \/ \E l \in Loops : pc[l] = "none" /\ pc' = [pc EXCEPT ![l] = "sleep"]
  PROVE  /\ pc' \in [Runners -> {"none"} \cup Suspended \cup Segment]
         /\ (HasJob /\ OneSegment)'
<1> USE DEF Shape, TypeOK, HasJob, OneSegment, Suspended, Segment, Working, Runners
<1>1. CASE UNCHANGED pc
  BY <1>1
<1>2. CASE \E l \in Loops : pc[l] = "none" /\ pc' = [pc EXCEPT ![l] = "sleep"]
  BY <1>2
<1> QED BY <1>1, <1>2

LEMMA ShapeSettings == ASSUME Shape, NEW q \in Restarts, Settings(q) PROVE Shape'
<1>1. CASE \E v \in {"on", "off"} : SaveSettings(q, v)
  <2>1. PICK v \in {"on", "off"} : SaveSettings(q, v)
    BY <1>1
  <2>2. UNCHANGED pc \/ \E l \in Loops : pc[l] = "none" /\ pc' = [pc EXCEPT ![l] = "sleep"]
    BY <2>1 DEF SaveSettings, StartLoop, Goto
  <2>3. proc' = "up" /\ UNCHANGED <<job, row, claimed, age, dueIn, todo, running, abandoned, overrun, leaked>>
    BY <2>1 DEF SaveSettings, historyVars, LoopFree
  <2>4. current' \in Loops \cup {NoLoop} /\ doomed' \subseteq Loops
    BY <2>1 DEF SaveSettings, StartLoop, Shape, TypeOK
  <2>5. waiting' \in [Restarts -> Loops \cup {NoLoop}]
    BY <2>1 DEF SaveSettings, Shape, TypeOK
  <2>6. setting' \in {"on", "off"} /\ events' \in Nat
    BY <2>1 DEF SaveSettings, Event, Shape, TypeOK
  <2> QED BY <2>2, <2>3, <2>4, <2>5, <2>6, LoopStarted DEF Shape, TypeOK
<1>2. CASE RestartEnd(q)
  <2>1. UNCHANGED pc \/ \E l \in Loops : pc[l] = "none" /\ pc' = [pc EXCEPT ![l] = "sleep"]
    BY <1>2 DEF RestartEnd, StartLoop, Goto
  <2>2. proc' = "up" /\ UNCHANGED <<tableVars, job, todo, running, doomed, events, abandoned, overrun>>
    BY <1>2 DEF RestartEnd, LoopFree
  <2>3. current' \in Loops \cup {NoLoop} /\ leaked' \subseteq Loops
    BY <1>2 DEF RestartEnd, StartLoop, Shape, TypeOK
  <2>4. waiting' \in [Restarts -> Loops \cup {NoLoop}]
    BY <1>2 DEF RestartEnd, Shape, TypeOK
  <2> QED BY <2>1, <2>2, <2>3, <2>4, LoopStarted DEF Shape, TypeOK, tableVars
<1> QED BY <1>1, <1>2 DEF Settings

LEMMA ShapeRoute == ASSUME Shape, NEW j \in Schedules, Route(j) PROVE Shape'
<1> USE SchedulerConstants
    DEF Shape, TypeOK, HasJob, OneSegment, Suspended, Segment, Working, Runners,
        tableVars, loopVars, historyVars, Goto, Event
<1>1. CASE \E q \in Requests : RunNow(q, j) BY <1>1 DEF RunNow, LoopFree
<1>2. CASE Create(j) BY <1>2 DEF Create
<1>3. CASE Patch(j)  BY <1>3 DEF Patch
<1>4. CASE Delete(j) BY <1>4 DEF Delete
<1> QED BY <1>1, <1>2, <1>3, <1>4 DEF Route

LEMMA ShapeRest ==
  ASSUME Shape, Advance \/ Down \/ Boot \/ UNCHANGED vars PROVE Shape'
<1> USE SchedulerConstants
    DEF Shape, TypeOK, HasJob, OneSegment, Suspended, Segment, Working, Runners,
        tableVars, loopVars, historyVars, Goto, Event
<1>1. CASE Advance BY <1>1 DEF Advance
<1>2. CASE Down    BY <1>2 DEF Down
<1>3. CASE Boot    BY <1>3 DEF Boot, StartLoop
<1>4. CASE UNCHANGED vars BY <1>4 DEF vars
<1> QED BY <1>1, <1>2, <1>3, <1>4

LEMMA Shaped == Spec => []Shape
<1>1. Init => Shape
  BY ShapeInit
<1>2. Shape /\ [Next]_vars => Shape'
  BY ShapeRun, ShapeLoop, ShapeSettings, ShapeRoute, ShapeRest DEF Next
<1> QED BY <1>1, <1>2, PTL DEF Spec

\* Every reachable state has the types of the model.
THEOREM TypeCorrect == Spec => []TypeOK
<1>1. Shape => TypeOK
  BY DEF Shape
<1> QED BY <1>1, Shaped, PTL

-----------------------------------------------------------------------------
(* One run of a schedule at a time.                                        *)

LEMMA RunInvRun == ASSUME Shape, RunInv, NEW r \in Runners, Run(r) PROVE RunInv'
<1> USE SchedulerConstants
    DEF RunInv, OneRun, Shape, TypeOK, HasJob, OneSegment, Segment, Working, Runners,
        tableVars, historyVars, Goto
<1>1. CASE Claim(r)
  <2>1. \A o \in Runners \ {r} : pc'[o] = pc[o] /\ job'[o] = job[o]
    BY <1>1 DEF Claim, Escape, Discard
  <2>2. \A o \in Runners \ {r} :
           (job[o] = job[r] /\ pc[o] \in Working) => job[r] \in overrun'
    BY <1>1 DEF Claim, Claimable, LeaseFree, Stale
  <2>3. overrun \subseteq overrun' /\ claimed' = claimed \cup {job[r]} /\ row' = row
    BY <1>1 DEF Claim
  <2>4. pc'[r] \notin Working \/ (pc'[r] = "work" /\ job'[r] = job[r])
    BY <1>1 DEF Claim, Escape, Discard
  <2> QED BY <2>1, <2>2, <2>3, <2>4
<1>2. CASE Skip(r)       BY <1>2 DEF Skip, Finish, Discard
<1>3. CASE ClaimFails(r) BY <1>3 DEF ClaimFails, Escape, Discard
<1>4. CASE Return(r)     BY <1>4 DEF Return
<1>5. CASE Mark(r)       BY <1>5 DEF Mark, Release
<1>6. CASE Record(r)     BY <1>6 DEF Record, Finish, Discard
<1>7. CASE Fail(r)       BY <1>7 DEF Fail, Release, Escape, Discard
<1>8. CASE Note(r)       BY <1>8 DEF Note, Finish, Escape, Discard
<1> QED BY <1>1, <1>2, <1>3, <1>4, <1>5, <1>6, <1>7, <1>8 DEF Run

LEMMA RunInvRest ==
  ASSUME Shape, RunInv,
         \/ \E l \in Loops : Loop(l)
         \/ \E q \in Restarts : Settings(q)
         \/ \E j \in Schedules : Route(j)
         \/ Advance \/ Down \/ Boot \/ UNCHANGED vars
  PROVE  RunInv'
<1> USE SchedulerConstants
    DEF RunInv, OneRun, Shape, TypeOK, HasJob, Segment, Working, Runners,
        tableVars, loopVars, historyVars, Goto
<1>1. ASSUME NEW l \in Loops, Loop(l) PROVE RunInv'
  BY <1>1 DEF Loop, Tick, NextJob, LoopCancelled
<1>2. ASSUME NEW q \in Restarts, Settings(q) PROVE RunInv'
  <2>1. UNCHANGED <<job, row, claimed, overrun>>
    BY <1>2 DEF Settings, SaveSettings, RestartEnd
  <2>2. \A r \in Runners : pc'[r] = pc[r] \/ pc'[r] = "sleep"
    BY <1>2 DEF Settings, SaveSettings, RestartEnd, StartLoop
  <2> QED BY <2>1, <2>2
<1>3. ASSUME NEW j \in Schedules, Route(j) PROVE RunInv'
  <2>1. CASE \E q \in Requests : RunNow(q, j) BY <2>1 DEF RunNow
  <2>2. CASE Create(j) BY <2>2 DEF Create
  <2>3. CASE Patch(j)  BY <2>3 DEF Patch
  <2>4. CASE Delete(j) BY <2>4 DEF Delete
  <2> QED BY <1>3, <2>1, <2>2, <2>3, <2>4 DEF Route
<1>4. CASE Advance BY <1>4 DEF Advance
<1>5. CASE Down    BY <1>5 DEF Down
<1>6. CASE Boot    BY <1>6 DEF Boot, StartLoop
<1>7. CASE UNCHANGED vars BY <1>7 DEF vars
<1> QED BY <1>1, <1>2, <1>3, <1>4, <1>5, <1>6, <1>7

\* A schedule never has two runs at a time unless the lease of one of them
\* went stale under it.
THEOREM RunsHold == Spec => []OneRun
<1>1. Init => RunInv
  BY DEF Init, RunInv, OneRun, Working
<1>2. Shape /\ RunInv /\ [Next]_vars => RunInv'
  BY RunInvRun, RunInvRest DEF Next
<1>3. RunInv => OneRun
  BY DEF RunInv
<1> QED BY <1>1, <1>2, <1>3, Shaped, PTL DEF Spec

-----------------------------------------------------------------------------
(* Every lease has its run, or is known to have lost it.                   *)

LEMMA LeaseInvRun == ASSUME Shape, LeaseInv, NEW r \in Runners, Run(r) PROVE LeaseInv'
<1> USE SchedulerConstants
    DEF LeaseInv, LeaseHasRun, Shape, TypeOK, HasJob, OneSegment, Segment, Working, Runners,
        tableVars, historyVars, Goto
<1>1. CASE Claim(r)      BY <1>1 DEF Claim, Escape, Discard
<1>2. CASE Skip(r)       BY <1>2 DEF Skip, Finish, Discard
<1>3. CASE ClaimFails(r) BY <1>3 DEF ClaimFails, Escape, Discard
<1>4. CASE Return(r)     BY <1>4 DEF Return
<1>5. CASE Mark(r)       BY <1>5 DEF Mark, Release
<1>6. CASE Record(r)     BY <1>6 DEF Record, Finish, Discard
<1>7. CASE Fail(r)       BY <1>7 DEF Fail, Release, Escape, Discard
<1>8. CASE Note(r)       BY <1>8 DEF Note, Finish, Escape, Discard
<1> QED BY <1>1, <1>2, <1>3, <1>4, <1>5, <1>6, <1>7, <1>8 DEF Run

LEMMA LeaseInvRest ==
  ASSUME Shape, LeaseInv,
         \/ \E l \in Loops : Loop(l)
         \/ \E q \in Restarts : Settings(q)
         \/ \E j \in Schedules : Route(j)
         \/ Advance \/ Down \/ Boot \/ UNCHANGED vars
  PROVE  LeaseInv'
<1> USE SchedulerConstants
    DEF LeaseInv, LeaseHasRun, Shape, TypeOK, HasJob, Segment, Working, Runners,
        tableVars, loopVars, historyVars, Goto
<1>1. ASSUME NEW l \in Loops, Loop(l) PROVE LeaseInv'
  <2>1. CASE Tick(l) BY <2>1 DEF Tick
  <2>2. CASE NextJob(l) BY <2>2 DEF NextJob
  <2>3. CASE LoopCancelled(l) BY <2>3 DEF LoopCancelled
  <2> QED BY <1>1, <2>1, <2>2, <2>3 DEF Loop
<1>2. ASSUME NEW q \in Restarts, Settings(q) PROVE LeaseInv'
  <2>1. UNCHANGED <<job, claimed, abandoned>>
    BY <1>2 DEF Settings, SaveSettings, RestartEnd
  <2>2. \A r \in Runners : pc'[r] = pc[r] \/ (pc[r] = "none" /\ pc'[r] = "sleep")
    BY <1>2 DEF Settings, SaveSettings, RestartEnd, StartLoop
  <2> QED BY <2>1, <2>2
<1>3. ASSUME NEW j \in Schedules, Route(j) PROVE LeaseInv'
  <2>1. CASE \E q \in Requests : RunNow(q, j) BY <2>1 DEF RunNow
  <2>2. CASE Create(j) BY <2>2 DEF Create
  <2>3. CASE Patch(j)  BY <2>3 DEF Patch
  <2>4. CASE Delete(j) BY <2>4 DEF Delete
  <2> QED BY <1>3, <2>1, <2>2, <2>3, <2>4 DEF Route
<1>4. CASE Advance BY <1>4 DEF Advance
<1>5. CASE Down    BY <1>5 DEF Down
<1>6. CASE Boot    BY <1>6 DEF Boot, StartLoop
<1>7. CASE UNCHANGED vars BY <1>7 DEF vars
<1> QED BY <1>1, <1>2, <1>3, <1>4, <1>5, <1>6, <1>7

\* A lease without a run is one whose run was cut off.
THEOREM LeasesHold == Spec => []LeaseHasRun
<1>1. Init => LeaseInv
  BY DEF Init, LeaseInv, LeaseHasRun
<1>2. Shape /\ LeaseInv /\ [Next]_vars => LeaseInv'
  BY LeaseInvRun, LeaseInvRest DEF Next
<1>3. LeaseInv => LeaseHasRun
  BY DEF LeaseInv
<1> QED BY <1>1, <1>2, <1>3, Shaped, PTL DEF Spec

-----------------------------------------------------------------------------
(* One polling loop.                                                       *)

LEMMA LoopInvStep == ASSUME Shape, LoopInv, [Next]_vars PROVE LoopInv'
<1> USE SchedulerConstants DEF LoopInv, Shape, TypeOK, Runners, loopVars, historyVars, Goto
<1>1. ASSUME NEW r \in Runners, Run(r) PROVE LoopInv'
  <2>1. \A l \in Loops : pc[l] = "none" => pc'[l] = "none"
    BY <1>1 DEF Run, Claim, Skip, ClaimFails, Return, Mark, Record, Fail, Note, Finish, Escape
  <2>2. UNCHANGED <<current, leaked>>
    BY <1>1 DEF Run, Claim, Skip, ClaimFails, Return, Mark, Record, Fail, Note
  <2> QED BY <2>1, <2>2
<1>2. ASSUME NEW l \in Loops, Loop(l) PROVE LoopInv'
  BY <1>2 DEF Loop, Tick, NextJob, LoopCancelled
<1>3. ASSUME NEW q \in Restarts, Settings(q) PROVE LoopInv'
  <2>1. CASE \E v \in {"on", "off"} : SaveSettings(q, v)
    BY <2>1 DEF SaveSettings, StartLoop
  <2>2. CASE RestartEnd(q)
    BY <2>2 DEF RestartEnd, LoopEnded, StartLoop
  <2> QED BY <1>3, <2>1, <2>2 DEF Settings
<1>4. ASSUME NEW j \in Schedules, Route(j) PROVE LoopInv'
  BY <1>4 DEF Route, RunNow, Create, Patch, Delete
<1>5. CASE Advance BY <1>5 DEF Advance
<1>6. CASE Down    BY <1>6 DEF Down
<1>7. CASE Boot    BY <1>7 DEF Boot, StartLoop
<1>8. CASE UNCHANGED vars BY <1>8 DEF vars
<1> QED BY <1>1, <1>2, <1>3, <1>4, <1>5, <1>6, <1>7, <1>8 DEF Next

\* Two loops poll side by side only after overlapping restarts.
THEOREM LoopsHold == Spec => []LoopsOneByOne
<1>1. Init => LoopInv
  BY DEF Init, LoopInv, Runners
<1>2. LoopInv => LoopsOneByOne
  BY DEF LoopInv, LoopsOneByOne
<1> QED BY <1>1, <1>2, LoopInvStep, Shaped, PTL DEF Spec
=============================================================================
