------------------------- MODULE BackgroundJobsProofs -------------------------
(***************************************************************************)
(* Proofs about BackgroundJobs.  The safety properties rest on four facts  *)
(* that no run sees as a property: which statuses go with a task's place   *)
(* (PlaceInv), why a task may be on its way to 'cancelled' (ReasonInv),    *)
(* and where a task is that a cancel has reached (HitInv).                 *)
(***************************************************************************)
EXTENDS BackgroundJobs, TLAPS

\* A task that has not settled its row works on an active one; in the
\* except clause the row may be settled already, and the finally clause
\* leaves an active row only after a database failure.
PlaceInv ==
    \A j \in Jobs :
        /\ pc[j] \in (Suspended \cup Segment) \ {"leave", "fail"} => status[j] \in Active
        /\ pc[j] = "fail" => status[j] # "none"
        /\ pc[j] = "leave" => status[j] \notin Active \/ j \in broken

OrphanInv == PlaceInv /\ NoOrphans

ReasonInv ==
    /\ flags \subseteq asked
    /\ doomed \subseteq asked \cup swept
    /\ \A j \in Jobs : canceller[j] \in {"note", "task"} => j \in asked
    /\ \A j \in Jobs : (pc[j] \in {"stop", "abort"} \/ status[j] = "cancelled")
                       => j \in asked \cup swept

\* Where the job of a delivered or pending cancel can be.
Caught(j) == \/ pc[j] \in Suspended /\ j \in doomed
             \/ pc[j] = "abort"
             \/ pc[j] \in {"leave", "over"} /\ status[j] \notin {"none", "done"}
             \/ j \in broken /\ status[j] # "none"

\* No task and no cancel outlives the process.
HitInv == /\ \A j \in hit : Caught(j)
          /\ proc = "down" => hit = {} /\ \A j \in Jobs : pc[j] = "none"

-----------------------------------------------------------------------------
LEMMA TypeInit == Init => TypeOK
<1> USE DEF Init, TypeOK, Jobs
<1> QED OBVIOUS

LEMMA TypeSpawn == ASSUME TypeOK, NEW j \in Jobs, Spawn(j) PROVE TypeOK'
<1> USE JobConstants DEF TypeOK, memoryVars, historyVars, Goto, Suspended, Segment, Active, Final
<1>1. CASE \E k \in JobTypes : SpawnCreate(j, k)
  BY <1>1 DEF SpawnCreate
<1>2. CASE SpawnTask(j)
  BY <1>2 DEF SpawnTask, DatabaseFails, Event
<1> QED BY <1>1, <1>2 DEF Spawn

LEMMA TypeRun == ASSUME TypeOK, NEW j \in Jobs, Run(j) PROVE TypeOK'
<1> USE JobConstants DEF TypeOK, memoryVars, historyVars, Goto, Suspended, Segment, Active, Final
<1>1. CASE Start(j)      BY <1>1 DEF Start
<1>2. CASE NeverStart(j) BY <1>2 DEF NeverStart
<1>3. CASE Load(j)
  BY <1>3 DEF Load, AfterLoad, DatabaseFails, Event
<1>4. CASE Launch(j)
  BY <1>4 DEF Launch, Store, DatabaseFails, Event
<1>5. CASE Step(j)       BY <1>5 DEF Step, AfterEvent
<1>6. CASE Save(j)
  <2>1. steps' \in [Jobs -> Nat]
    BY <1>6 DEF Save
  <2>2. status' \in [Jobs -> {"none"} \cup Active \cup Final]
    BY <1>6 DEF Save, Store
  <2>3. pc' \in [Jobs -> {"none", "over"} \cup Suspended \cup Segment]
    BY <1>6 DEF Save, Store, Onward
  <2>4. events' \in Nat /\ broken' \subseteq Jobs
    BY <1>6 DEF Save, Store, DatabaseFails, Event
  <2> QED BY <1>6, <2>1, <2>2, <2>3, <2>4 DEF Save
<1>7. CASE Resume(j)     BY <1>7 DEF Resume
<1>8. CASE Interrupt(j)  BY <1>8 DEF Interrupt
<1>9. CASE Close(j)      BY <1>9 DEF Close
<1>10. CASE Broke(j)     BY <1>10 DEF Broke
<1>11. CASE Compressed(j) BY <1>11 DEF Compressed
<1>12. CASE Settle(j)
  BY <1>12 DEF Settle, Store, DatabaseFails, Event
<1>13. CASE Leave(j)     BY <1>13 DEF Leave
<1> QED
  BY <1>1, <1>2, <1>3, <1>4, <1>5, <1>6, <1>7, <1>8, <1>9, <1>10, <1>11, <1>12, <1>13 DEF Run

LEMMA TypeCancel == ASSUME TypeOK, NEW j \in Jobs, Cancel(j) PROVE TypeOK'
<1> USE DEF TypeOK, memoryVars, historyVars, Suspended, Event
<1>1. CASE CancelCheck(j) BY <1>1 DEF CancelCheck
<1>2. CASE CancelFlag(j)  BY <1>2 DEF CancelFlag
<1>3. CASE CancelNote(j)  BY <1>3 DEF CancelNote
<1>4. CASE CancelTask(j)  BY <1>4 DEF CancelTask
<1> QED BY <1>1, <1>2, <1>3, <1>4 DEF Cancel

LEMMA TypeProcess == ASSUME TypeOK, Process PROVE TypeOK'
<1> USE DEF TypeOK, memoryVars, historyVars, Suspended, Event, Active, Final
<1>1. CASE Stop    BY <1>1 DEF Stop
<1>2. CASE Exit    BY <1>2 DEF Exit, MemoryGone
<1>3. CASE Crash   BY <1>3 DEF Crash, MemoryGone
<1>4. CASE Recover BY <1>4 DEF Recover, Requeued
<1> QED BY <1>1, <1>2, <1>3, <1>4 DEF Process

\* Every reachable state has the types of the model.
THEOREM TypeCorrect == Spec => []TypeOK
<1>1. Init => TypeOK
  BY TypeInit
<1>2. TypeOK /\ [Next]_vars => TypeOK'
  <2>1. ASSUME TypeOK, UNCHANGED vars PROVE TypeOK'
    BY <2>1 DEF TypeOK, vars, memoryVars, historyVars
  <2> QED BY <2>1, TypeSpawn, TypeRun, TypeCancel, TypeProcess DEF Next
<1> QED BY <1>1, <1>2, PTL DEF Spec

-----------------------------------------------------------------------------
(* The place of a task and the status of its row.                          *)

\* What a Store does to the row of its job and to the others.
LEMMA Stored ==
  ASSUME TypeOK, NEW j \in Jobs, NEW s, NEW next, NEW onError, Store(j, s, next, onError)
  PROVE  /\ \A i \in Jobs \ {j} : status'[i] = status[i] /\ pc'[i] = pc[i]
         /\ \/ status'[j] = s /\ pc'[j] = next /\ broken' = broken
            \/ status'[j] \in {s, status[j]} /\ pc'[j] = onError /\ j \in broken'
         /\ broken \subseteq broken'
BY DEF Store, TypeOK, Goto, DatabaseFails

LEMMA PlaceSpawn ==
  ASSUME TypeOK, OrphanInv, NEW j \in Jobs, Spawn(j) PROVE OrphanInv'
<1> USE DEF OrphanInv, PlaceInv, NoOrphans, TypeOK, Goto, historyVars, Suspended, Segment, Active
<1>1. CASE \E k \in JobTypes : SpawnCreate(j, k)
  BY <1>1 DEF SpawnCreate
<1>2. CASE SpawnTask(j)
  BY <1>2 DEF SpawnTask, DatabaseFails
<1> QED BY <1>1, <1>2 DEF Spawn

LEMMA PlaceRun ==
  ASSUME TypeOK, OrphanInv, NEW j \in Jobs, Run(j) PROVE OrphanInv'
<1> USE DEF OrphanInv, PlaceInv, NoOrphans, TypeOK, historyVars, Suspended, Segment, Active
<1>1. CASE Start(j)      BY <1>1 DEF Start, Goto
<1>2. CASE NeverStart(j) BY <1>2 DEF NeverStart, Goto
<1>3. CASE Load(j)
  BY <1>3 DEF Load, AfterLoad, Goto, DatabaseFails
<1>4. CASE Launch(j)
  <2>1. PICK next \in {"save", "step", "await"} : Store(j, "running", next, "leave")
    BY <1>4 DEF Launch
  <2> QED BY <1>4, <2>1, Stored DEF Launch
<1>5. CASE Step(j)       BY <1>5 DEF Step, AfterEvent, Goto
<1>6. CASE Save(j)
  <2>1. CASE UtcNowIsText
    BY <1>6, <2>1 DEF Save, Goto
  <2>2. CASE ~UtcNowIsText
    <3>1. PICK next \in {"step", "await", "close"} : Store(j, status[j], next, "fail")
      BY <1>6, <2>2 DEF Save, Onward
    <3> QED BY <1>6, <3>1, Stored DEF Save
  <2> QED BY <2>1, <2>2
<1>7. CASE Resume(j)     BY <1>7 DEF Resume, Goto
<1>8. CASE Interrupt(j)  BY <1>8 DEF Interrupt, Goto
<1>9. CASE Close(j)      BY <1>9 DEF Close, Goto
<1>10. CASE Broke(j)     BY <1>10 DEF Broke, Goto
<1>11. CASE Compressed(j) BY <1>11 DEF Compressed, Goto
<1>12. CASE Settle(j)
  <2>1. PICK s \in Final, onError \in {"fail", "leave"} : Store(j, s, "leave", onError)
    BY <1>12 DEF Settle, Final
  <2>2. pc[j] \in Segment \ {"leave"} /\ status[j] # "none"
    BY <1>12 DEF Settle
  <2> QED BY <1>12, <2>1, <2>2, Stored DEF Settle, Final
<1>13. CASE Leave(j)     BY <1>13 DEF Leave, Goto
<1> QED
  BY <1>1, <1>2, <1>3, <1>4, <1>5, <1>6, <1>7, <1>8, <1>9, <1>10, <1>11, <1>12, <1>13 DEF Run

LEMMA PlaceRest ==
  ASSUME TypeOK, OrphanInv,
         (\E j \in Jobs : Cancel(j)) \/ Process \/ UNCHANGED vars
  PROVE  OrphanInv'
<1> USE DEF OrphanInv, PlaceInv, NoOrphans, TypeOK, historyVars, Suspended, Segment, Active
<1>1. CASE \E j \in Jobs : Cancel(j)
  BY <1>1 DEF Cancel, CancelCheck, CancelFlag, CancelNote, CancelTask
<1>2. CASE Stop    BY <1>2 DEF Stop
<1>3. CASE Exit    BY <1>3 DEF Exit, MemoryGone
<1>4. CASE Crash   BY <1>4 DEF Crash, MemoryGone
<1>5. CASE Recover BY <1>5 DEF Recover, Requeued, Resumable
<1>6. CASE UNCHANGED vars BY <1>6 DEF vars
<1> QED BY <1>1, <1>2, <1>3, <1>4, <1>5, <1>6 DEF Process

LEMMA Placed == Spec => [](TypeOK /\ OrphanInv)
<1>1. Init => OrphanInv
  BY DEF Init, OrphanInv, PlaceInv, NoOrphans, Jobs, Suspended, Segment, Active
<1>2. TypeOK /\ OrphanInv /\ [Next]_vars => OrphanInv'
  BY PlaceSpawn, PlaceRun, PlaceRest DEF Next
<1> QED BY <1>1, <1>2, TypeCorrect, PTL DEF Spec

\* While the process is up, an active row has a task, save for the recorded
\* exceptions.
THEOREM OrphansHold == Spec => []NoOrphans
<1>1. OrphanInv => NoOrphans
  BY DEF OrphanInv
<1> QED BY <1>1, Placed, PTL

-----------------------------------------------------------------------------
(* Why a job is cancelled.                                                 *)

LEMMA ReasonSpawn ==
  ASSUME TypeOK, ReasonInv, NEW j \in Jobs, Spawn(j) PROVE ReasonInv'
<1> USE DEF ReasonInv, TypeOK, Goto, memoryVars, historyVars
<1>1. CASE \E k \in JobTypes : SpawnCreate(j, k)
  BY <1>1 DEF SpawnCreate
<1>2. CASE SpawnTask(j)
  BY <1>2 DEF SpawnTask
<1> QED BY <1>1, <1>2 DEF Spawn

LEMMA ReasonRun ==
  ASSUME TypeOK, ReasonInv, NEW j \in Jobs, Run(j) PROVE ReasonInv'
<1> USE DEF ReasonInv, TypeOK, memoryVars, historyVars
<1>1. CASE Start(j)      BY <1>1 DEF Start, Goto, Seen
<1>2. CASE NeverStart(j) BY <1>2 DEF NeverStart, Goto
<1>3. CASE Load(j)
  BY <1>3 DEF Load, AfterLoad, Goto, Seen
<1>4. CASE Launch(j)
  <2>1. PICK next \in {"save", "step", "await"} : Store(j, "running", next, "leave")
    BY <1>4 DEF Launch
  <2> QED BY <1>4, <2>1, Stored DEF Launch
<1>5. CASE Step(j)       BY <1>5 DEF Step, AfterEvent, Goto, Seen
<1>6. CASE Save(j)
  <2>1. CASE UtcNowIsText
    BY <1>6, <2>1 DEF Save, Goto
  <2>2. CASE ~UtcNowIsText
    <3>1. PICK next \in {"step", "await", "close"} : Store(j, status[j], next, "fail")
      BY <1>6, <2>2 DEF Save, Onward
    <3> QED BY <1>6, <3>1, Stored DEF Save
  <2> QED BY <2>1, <2>2
<1>7. CASE Resume(j)     BY <1>7 DEF Resume, Goto
<1>8. CASE Interrupt(j)  BY <1>8 DEF Interrupt, Goto
<1>9. CASE Close(j)      BY <1>9 DEF Close, Goto, Seen
<1>10. CASE Broke(j)     BY <1>10 DEF Broke, Goto, Seen
<1>11. CASE Compressed(j) BY <1>11 DEF Compressed, Goto
<1>12. CASE Settle(j)
  <2>1. PICK s \in Final, onError \in {"fail", "leave"} :
           /\ Store(j, s, "leave", onError)
           /\ s = "cancelled" => pc[j] \in {"stop", "abort"}
    BY <1>12 DEF Settle, Final
  <2>2. status'[j] = "cancelled" => j \in asked \cup swept
    BY <2>1, Stored
  <2> QED BY <1>12, <2>1, <2>2, Stored DEF Settle, Final
<1>13. CASE Leave(j)     BY <1>13 DEF Leave, Goto
<1> QED
  BY <1>1, <1>2, <1>3, <1>4, <1>5, <1>6, <1>7, <1>8, <1>9, <1>10, <1>11, <1>12, <1>13 DEF Run

LEMMA ReasonCancel ==
  ASSUME TypeOK, ReasonInv, NEW j \in Jobs, Cancel(j) PROVE ReasonInv'
<1> USE DEF ReasonInv, TypeOK, historyVars
<1>1. CASE CancelCheck(j) BY <1>1 DEF CancelCheck
<1>2. CASE CancelFlag(j)  BY <1>2 DEF CancelFlag
<1>3. CASE CancelNote(j)  BY <1>3 DEF CancelNote
<1>4. CASE CancelTask(j)  BY <1>4 DEF CancelTask
<1> QED BY <1>1, <1>2, <1>3, <1>4 DEF Cancel

LEMMA ReasonRest ==
  ASSUME TypeOK, ReasonInv, Process \/ UNCHANGED vars PROVE ReasonInv'
<1> USE DEF ReasonInv, TypeOK, memoryVars, historyVars
<1>1. CASE Stop    BY <1>1 DEF Stop
<1>2. CASE Exit    BY <1>2 DEF Exit, MemoryGone
<1>3. CASE Crash   BY <1>3 DEF Crash, MemoryGone
<1>4. CASE Recover BY <1>4 DEF Recover, Requeued, Resumable
<1>5. CASE UNCHANGED vars BY <1>5 DEF vars
<1> QED BY <1>1, <1>2, <1>3, <1>4, <1>5 DEF Process

\* Only a user's request or a graceful shutdown cancels a job, and never
\* that of another job.
THEOREM ReasonsHold == Spec => []CancelledForAReason
<1>1. Init => ReasonInv
  BY DEF Init, ReasonInv
<1>2. TypeOK /\ ReasonInv /\ [Next]_vars => ReasonInv'
  BY ReasonSpawn, ReasonRun, ReasonCancel, ReasonRest DEF Next
<1>3. ReasonInv => CancelledForAReason
  BY DEF ReasonInv, CancelledForAReason
<1> QED BY <1>1, <1>2, <1>3, TypeCorrect, PTL DEF Spec

-----------------------------------------------------------------------------
(* What becomes of a task that a cancel reached.                           *)

LEMMA HitSpawn ==
  ASSUME TypeOK, OrphanInv, HitInv, NEW j \in Jobs, Spawn(j) PROVE HitInv'
<1> USE DEF HitInv, Caught, TypeOK, Goto, memoryVars, historyVars, Suspended
<1>1. CASE \E k \in JobTypes : SpawnCreate(j, k)
  BY <1>1 DEF SpawnCreate, OrphanInv, PlaceInv, Segment, Active
<1>2. CASE SpawnTask(j)
  BY <1>2 DEF SpawnTask, DatabaseFails
<1> QED BY <1>1, <1>2 DEF Spawn

LEMMA HitRun ==
  ASSUME TypeOK, OrphanInv, HitInv, NEW j \in Jobs, Run(j) PROVE HitInv'
<1> USE DEF HitInv, Caught, TypeOK, memoryVars, historyVars, Suspended
<1>1. CASE Start(j)      BY <1>1 DEF Start, Goto
<1>2. CASE NeverStart(j)
  BY <1>2 DEF NeverStart, Goto, OrphanInv, PlaceInv, Segment, Active
<1>3. CASE Load(j)
  BY <1>3 DEF Load, AfterLoad, Goto, DatabaseFails
<1>4. CASE Launch(j)
  <2>1. PICK next \in {"save", "step", "await"} : Store(j, "running", next, "leave")
    BY <1>4 DEF Launch
  <2> QED BY <1>4, <2>1, Stored DEF Launch
<1>5. CASE Step(j)       BY <1>5 DEF Step, AfterEvent, Goto
<1>6. CASE Save(j)
  <2>1. CASE UtcNowIsText
    BY <1>6, <2>1 DEF Save, Goto
  <2>2. CASE ~UtcNowIsText
    <3>1. PICK next \in {"step", "await", "close"} : Store(j, status[j], next, "fail")
      BY <1>6, <2>2 DEF Save, Onward
    <3> QED BY <1>6, <3>1, Stored DEF Save
  <2> QED BY <2>1, <2>2
<1>7. CASE Resume(j)     BY <1>7 DEF Resume, Goto
<1>8. CASE Interrupt(j)  BY <1>8 DEF Interrupt, Goto
<1>9. CASE Close(j)      BY <1>9 DEF Close, Goto
<1>10. CASE Broke(j)     BY <1>10 DEF Broke, Goto
<1>11. CASE Compressed(j) BY <1>11 DEF Compressed, Goto
<1>12. CASE Settle(j)
  <2>1. PICK s \in Final, onError \in {"fail", "leave"} :
           /\ Store(j, s, "leave", onError)
           /\ pc[j] = "abort" => s = "cancelled"
    BY <1>12 DEF Settle, Final
  <2>2. status[j] # "none" /\ pc[j] \notin Suspended
    BY <1>12 DEF Settle, OrphanInv, PlaceInv, Segment, Active
  <2>3. j \in hit => Caught(j)'
    BY <1>12, <2>1, <2>2, Stored DEF Settle, Final
  <2>4. \A i \in hit \ {j} : Caught(i)'
    BY <1>12, <2>1, Stored DEF Settle
  <2> QED BY <1>12, <2>3, <2>4 DEF Settle
<1>13. CASE Leave(j)     BY <1>13 DEF Leave, Goto
<1> QED
  BY <1>1, <1>2, <1>3, <1>4, <1>5, <1>6, <1>7, <1>8, <1>9, <1>10, <1>11, <1>12, <1>13 DEF Run

LEMMA HitRest ==
  ASSUME TypeOK, OrphanInv, HitInv,
         (\E j \in Jobs : Cancel(j)) \/ Process \/ UNCHANGED vars
  PROVE  HitInv'
<1> USE DEF HitInv, Caught, TypeOK, memoryVars, historyVars, Suspended
<1>1. CASE \E j \in Jobs : Cancel(j)
  BY <1>1 DEF Cancel, CancelCheck, CancelFlag, CancelNote, CancelTask
<1>2. CASE Stop    BY <1>2 DEF Stop
<1>3. CASE Exit    BY <1>3 DEF Exit, MemoryGone
<1>4. CASE Crash   BY <1>4 DEF Crash, MemoryGone
<1>5. CASE Recover
  <2>1. hit = {} /\ hit' = hit /\ proc' = "up"
    BY <1>5 DEF Recover
  <2> QED BY <2>1
<1>6. CASE UNCHANGED vars BY <1>6 DEF vars
<1> QED BY <1>1, <1>2, <1>3, <1>4, <1>5, <1>6 DEF Process

\* A cancel that reached a suspended task keeps its job from 'done'.
THEOREM HitsHold == Spec => []HitNeverDone
<1>1. Init => HitInv
  BY DEF Init, HitInv
<1>2. TypeOK /\ OrphanInv /\ HitInv /\ [Next]_vars => HitInv'
  BY HitSpawn, HitRun, HitRest DEF Next
<1>3. TypeOK /\ OrphanInv /\ HitInv => HitNeverDone
  BY DEF TypeOK, OrphanInv, PlaceInv, HitInv, Caught, HitNeverDone, Suspended, Segment, Active
<1> QED BY <1>1, <1>2, <1>3, Placed, PTL DEF Spec

-----------------------------------------------------------------------------
(* BackgroundJobs implements JobLifecycle: the rows are its only variable, *)
(* and a task's place says which of its actions a Store is.                *)

LEMMA RowStored ==
  ASSUME TypeOK, NEW j \in Jobs, NEW s, NEW next, NEW onError, Store(j, s, next, onError)
  PROVE  status' = [status EXCEPT ![j] = s] \/ status' = status
BY DEF Store

LEMMA LifecycleSpawn ==
  ASSUME TypeOK, NEW j \in Jobs, Spawn(j) PROVE [Lifecycle!Next]_status
<1>1. CASE \E k \in JobTypes : SpawnCreate(j, k)
  <2>1. Lifecycle!Create(j)
    BY <1>1 DEF SpawnCreate, Lifecycle!Create
  <2> QED BY <2>1 DEF Lifecycle!Next
<1>2. CASE SpawnTask(j)
  BY <1>2 DEF SpawnTask
<1> QED BY <1>1, <1>2 DEF Spawn

LEMMA LifecycleRun ==
  ASSUME TypeOK, OrphanInv, NEW j \in Jobs, Run(j) PROVE [Lifecycle!Next]_status
<1>1. CASE Launch(j)
  <2>1. status[j] \in Active
    BY <1>1 DEF Launch, OrphanInv, PlaceInv, Segment
  <2>2. status' = [status EXCEPT ![j] = "running"] \/ status' = status
    BY <1>1, RowStored DEF Launch
  <2>3. CASE status[j] = "pending"
    BY <2>2, <2>3 DEF Lifecycle!Next, Lifecycle!Begin
  <2>4. CASE status[j] = "running"
    BY <2>2, <2>4 DEF TypeOK
  <2> QED BY <2>1, <2>3, <2>4 DEF Active
<1>2. CASE Save(j)
  <2>1. CASE UtcNowIsText
    BY <1>2, <2>1 DEF Save
  <2>2. CASE ~UtcNowIsText
    <3>1. status' = [status EXCEPT ![j] = status[j]] \/ status' = status
      BY <1>2, <2>2, RowStored DEF Save
    <3> QED BY <3>1 DEF TypeOK
  <2> QED BY <2>1, <2>2
<1>3. CASE Settle(j)
  <2>1. PICK s \in Final, onError \in {"fail", "leave"} :
           /\ Store(j, s, "leave", onError)
           /\ pc[j] = "fail" => s = "error"
    BY <1>3 DEF Settle, Final
  <2>2. status' = [status EXCEPT ![j] = s] \/ status' = status
    BY <2>1, RowStored
  <2>3. CASE status[j] \in Active
    <3>1. Lifecycle!Settle(j) \/ status' = status
      BY <2>2, <2>3 DEF Lifecycle!Settle, Lifecycle!Active, Lifecycle!Final, Active, Final
    <3> QED BY <3>1 DEF Lifecycle!Next
  <2>4. CASE status[j] \notin Active
    <3>1. pc[j] = "fail" /\ status[j] # "none"
      BY <1>3, <2>4 DEF Settle, OrphanInv, PlaceInv, Segment
    <3>2. CASE status[j] = "error"
      BY <2>1, <2>2, <3>1, <3>2 DEF TypeOK
    <3>3. CASE status[j] # "error"
      <4>1. Lifecycle!Spoil(j) \/ status' = status
        BY <2>1, <2>2, <2>4, <3>1, <3>3 DEF TypeOK, Final, Lifecycle!Spoil
      <4> QED BY <4>1 DEF Lifecycle!Next
    <3> QED BY <3>2, <3>3
  <2> QED BY <2>3, <2>4
<1>4. CASE ~(Launch(j) \/ Save(j) \/ Settle(j))
  BY <1>4 DEF Run, Start, NeverStart, Load, Step, Resume, Interrupt, Close, Broke,
              Compressed, Leave
<1> QED BY <1>1, <1>2, <1>3, <1>4

LEMMA LifecycleRest ==
  ASSUME (\E j \in Jobs : Cancel(j)) \/ Process \/ UNCHANGED vars
  PROVE  [Lifecycle!Next]_status
<1>1. CASE \E j \in Jobs : Cancel(j)
  BY <1>1 DEF Cancel, CancelCheck, CancelFlag, CancelNote, CancelTask
<1>2. CASE Recover
  BY <1>2 DEF Recover, Requeued, Lifecycle!Next, Lifecycle!Requeue
<1>3. CASE Stop \/ Exit \/ Crash
  BY <1>3 DEF Stop, Exit, Crash, MemoryGone
<1>4. CASE UNCHANGED vars
  BY <1>4 DEF vars
<1> QED BY <1>1, <1>2, <1>3, <1>4 DEF Process

\* Tasks, cancels, failures and restarts together do to the rows only what
\* JobLifecycle allows.
THEOREM LifecycleImplemented == Spec => ImplementsLifecycle
<1>1. Init => Lifecycle!Init
  BY DEF Init, Lifecycle!Init
<1>2. TypeOK /\ OrphanInv /\ [Next]_vars => [Lifecycle!Next]_status
  BY LifecycleSpawn, LifecycleRun, LifecycleRest DEF Next
<1> QED BY <1>1, <1>2, Placed, PTL DEF Spec, ImplementsLifecycle, Lifecycle!Spec
=============================================================================
