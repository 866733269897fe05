-------------------------- MODULE EmailOutboxProofs --------------------------
(***************************************************************************)
(* What TLAPS proves of EmailOutbox, for every number of rows, addresses   *)
(* and events, every window and every cap.                                 *)
(***************************************************************************)
EXTENDS EmailOutbox, FiniteSetTheorems, TLAPS

(* The parts of the inductive invariant.                                   *)

\* Where the tick stands, which row it holds and what its SMTP thread does.
SegmentInv ==
    /\ proc = "up" <=> pc # "off"
    /\ pc \in {"sleep", "interval", "cap", "claim"} => held = NoRow /\ smtp = "idle"
    /\ pc \in {"smtp", "pause", "contact"} => held \in RowIds
    /\ pc = "smtp" => smtp # "idle"
    /\ pc \in {"pause", "contact"} => smtp # "running"
    /\ pc = "contact" => smtp = "idle"
    /\ held = NoRow => smtp = "idle"
    /\ held \in RowIds => status[held] # "none"
    /\ pc \in {"interval", "cap", "claim", "pause", "contact"} => batch.at = "idle"
    /\ proc # "up" => batch.at = "idle"
    /\ proc = "down" => held = NoRow

\* The mails row r may still cause without being put in the queue again.
Pending(r) == (IF status[r] = "queued" THEN 1 ELSE 0)
              + (IF held = r /\ smtp = "running" THEN 1 ELSE 0)

CopyInv == \A r \in RowIds : /\ copies[r] + Pending(r) <= puts[r]
                             /\ status[r] = "none" => copies[r] = 0

\* An active row that no cancel or retry has written.
Fresh(r) == status[r] \in Active /\ r \notin touched

DedupeInv ==
    /\ \A r, s \in RowIds : (r # s /\ Fresh(r) /\ Fresh(s)) => addr[r] # addr[s]
    /\ batch.at # "idle" => \A r \in RowIds : Fresh(r) => addr[r] \in batch.already
    /\ batch.at = "insert" => batch.addr \notin batch.already
    /\ (pc = "smtp" /\ held \notin touched) => status[held] = "sending"

ContactInv ==
    /\ SentContactMarked
    /\ \A r \in RowIds : linked[r] => addr[r] \in Addresses /\ contacts[addr[r]] # "absent"
    /\ batch.at = "insert" => batch.addr \in Addresses /\ contacts[batch.addr] # "absent"

CapInv ==
    DailyCap > 0 => /\ Cardinality(SentToday) <= DailyCap
                    /\ pc \in {"claim", "smtp"} => Cardinality(SentToday) < DailyCap

-----------------------------------------------------------------------------
(* Type correctness.                                                       *)

LEMMA RestType ==
    ASSUME NEW b \in Batch, b.left # 0
    PROVE  Rest(b) \in Batch /\ (Rest(b).at # "idle" => Rest(b).left # 0)
BY ConstantsAssumption DEF Rest, Batch, NoBatch, AnyAddress

LEMMA PutsType ==
    ASSUME TypeOK, NEW S
    PROVE  PutsAfter(S) \in [RowIds -> Nat]
BY DEF TypeOK, PutsAfter

LEMMA TypeInit == Init => TypeOK
BY ConstantsAssumption
   DEF Init, TypeOK, AnyAddress, Batch, NoBatch, RowIds, NoRow, Status, ContactStates

LEMMA TypeQueueing == ASSUME TypeOK, Queueing PROVE TypeOK'
<1> USE ConstantsAssumption DEF TypeOK, rowVars, outbox, tickVars, historyVars
<1>1. ASSUME NEW n \in 1..MaxBatch, NEW skip \in BOOLEAN, QueueStart(n, skip) PROVE TypeOK'
  <2>1. ActiveAddresses \subseteq AnyAddress
    BY DEF ActiveAddresses
  <2>2. batch' \in Batch /\ batch'.left # 0
    BY <1>1, <2>1 DEF QueueStart, Batch, AnyAddress
  <2> QED  BY <1>1, <2>2 DEF QueueStart
<1>2. ASSUME NEW a \in Addresses, QueueNext(a) PROVE TypeOK'
  <2>1. CASE SkippedByBatch(a)
    BY <1>2, <2>1, RestType DEF QueueNext
  <2>2. CASE ~SkippedByBatch(a)
    <3>1. batch' \in Batch /\ batch'.left # 0
      BY <1>2, <2>2 DEF QueueNext, Batch, AnyAddress
    <3> QED  BY <1>2, <3>1 DEF QueueNext
  <2> QED  BY <2>1, <2>2
<1>3. ASSUME NEW r \in RowIds, QueueInsert(r) PROVE TypeOK'
  <2>1. /\ [batch EXCEPT !.already = @ \cup {batch.addr}] \in Batch
        /\ [batch EXCEPT !.already = @ \cup {batch.addr}].left # 0
    BY <1>3 DEF QueueInsert, Batch
  <2>2. batch' \in Batch /\ (batch'.at # "idle" => batch'.left # 0)
    BY <1>3, <2>1, RestType DEF QueueInsert
  <2>3. batch.addr \in AnyAddress
    BY DEF Batch
  <2> QED  BY <1>3, <2>2, <2>3 DEF QueueInsert, NewRow, Status
<1>4. CASE QueueAbort
  BY <1>4 DEF QueueAbort, Batch, NoBatch, AnyAddress
<1> QED  BY <1>1, <1>2, <1>3, <1>4 DEF Queueing

LEMMA TypeTick == ASSUME TypeOK, SegmentInv, Tick PROVE TypeOK'
<1> USE ConstantsAssumption DEF TypeOK, rowVars, outbox, tickVars, historyVars
<1>1. CASE TickSettings \/ TickInterval \/ TickCap \/ ClaimNothing \/ MarkFails
  BY <1>1 DEF TickSettings, TickInterval, TickCap, ClaimNothing, MarkFails, Event, NoRow
<1>2. ASSUME NEW r \in RowIds, Claim(r) PROVE TypeOK'
  BY <1>2 DEF Claim, Status
<1>3. ASSUME NEW outcome \in Outcomes, NEW accepted \in BOOLEAN, SmtpFinish(outcome, accepted)
      PROVE TypeOK'
  <2>1. copies' \in [RowIds -> Nat] /\ events' \in Nat
    <3>1. held \in RowIds
      BY <1>3 DEF SmtpFinish, SegmentInv
    <3> QED  BY <1>3, <3>1 DEF SmtpFinish, Event
  <2> QED  BY <1>3, <2>1 DEF SmtpFinish
<1>4. CASE MarkSent
  <2>1. held \in RowIds
    BY <1>4 DEF MarkSent, SegmentInv
  <2> QED  BY <1>4, <2>1 DEF MarkSent, Status
<1>5. CASE MarkContact
  <2>1. held \in RowIds
    BY <1>5 DEF MarkContact, SegmentInv
  <2> QED  BY <1>5, <2>1 DEF MarkContact, ContactStates, Event
<1>6. CASE MarkConfigError
  <2>1. held \in RowIds
    BY <1>6 DEF MarkConfigError, SegmentInv
  <2> QED  BY <1>6, <2>1, PutsType DEF MarkConfigError, Status
<1>7. CASE Pause
  <2>1. enabled' \in BOOLEAN
    BY <1>7, Zenon DEF Pause
  <2>2. events' \in Nat
    BY <1>7 DEF Pause, Event
  <2> QED  BY <1>7, <2>1, <2>2 DEF Pause
<1>8. CASE MarkItemError
  <2>1. held \in RowIds
    BY <1>8 DEF MarkItemError, SegmentInv
  <2> QED  BY <1>8, <2>1, PutsType DEF MarkItemError, Status
<1> QED  BY <1>1, <1>2, <1>3, <1>4, <1>5, <1>6, <1>7, <1>8 DEF Tick

LEMMA TypeRoutes == ASSUME TypeOK, Routes PROVE TypeOK'
<1> USE ConstantsAssumption DEF TypeOK, rowVars, outbox, tickVars, historyVars, Event
<1>1. ASSUME NEW r \in RowIds, Cancel(r) PROVE TypeOK'
  BY <1>1 DEF Cancel, Status
<1>2. ASSUME NEW r \in RowIds, Retry(r) PROVE TypeOK'
  BY <1>2, PutsType DEF Retry, Status
<1>3. CASE ToggleSender
  BY <1>3 DEF ToggleSender
<1>4. ASSUME NEW a \in Addresses, AddContact(a) PROVE TypeOK'
  BY <1>4 DEF AddContact, ContactStates
<1>5. ASSUME NEW a \in Addresses, DeleteContact(a) PROVE TypeOK'
  <2>1. batch' \in Batch /\ (batch'.at # "idle" => batch'.left # 0)
    BY <1>5 DEF DeleteContact, Batch
  <2>2. linked' \in [RowIds -> BOOLEAN]
    BY <1>5, Zenon DEF DeleteContact
  <2> QED  BY <1>5, <2>1, <2>2 DEF DeleteContact, ContactStates
<1>6. ASSUME NEW a \in Addresses, NEW sent \in BOOLEAN, SetContactSent(a, sent) PROVE TypeOK'
  BY <1>6 DEF SetContactSent, ContactStates
<1> QED  BY <1>1, <1>2, <1>3, <1>4, <1>5, <1>6 DEF Routes

LEMMA TypeProcess == ASSUME TypeOK, SegmentInv, Process PROVE TypeOK'
<1> USE ConstantsAssumption DEF TypeOK, rowVars, outbox, tickVars, historyVars, Event
<1>1. CASE Stop \/ Exit
  BY <1>1 DEF Stop, Exit
<1>2. CASE Crash
  <2>1. NoBatch \in Batch /\ NoBatch.at = "idle"
    BY DEF NoBatch, Batch, AnyAddress
  <2>2. unmarked' \subseteq RowIds
    BY <1>2 DEF Crash, UnmarkedByDeath, SegmentInv
  <2> QED  BY <1>2, <2>1, <2>2 DEF Crash
<1>3. CASE Start
  BY <1>3, PutsType DEF Start, Requeued, Status
<1>4. CASE Advance
  <2>1. today' \in [RowIds -> BOOLEAN]
    BY <1>4, Zenon DEF Advance
  <2>2. age' \in [RowIds -> 0..Interval] /\ hour' \in 0..(DayLength - 1)
       
    BY <1>4 DEF Advance
  <2> QED  BY <1>4, <2>1, <2>2 DEF Advance
<1> QED  BY <1>1, <1>2, <1>3, <1>4 DEF Process

-----------------------------------------------------------------------------
(* The segments of the tick.                                               *)

LEMMA SegmentNext ==
    ASSUME TypeOK, SegmentInv, [Next]_vars PROVE SegmentInv'
<1> USE DEF SegmentInv, LoopFree, outbox, rowVars, tickVars, historyVars, RowIds, NoRow
<1>1. ASSUME NEW n \in 1..MaxBatch, NEW skip \in BOOLEAN, QueueStart(n, skip) PROVE SegmentInv'
  BY <1>1 DEF QueueStart
<1>2. ASSUME NEW a \in Addresses, QueueNext(a) PROVE SegmentInv'
  BY <1>2 DEF QueueNext
<1>3. ASSUME NEW r \in RowIds, QueueInsert(r) PROVE SegmentInv'
  BY <1>3 DEF QueueInsert, NewRow, TypeOK
<1>4. CASE QueueAbort
  BY <1>4 DEF QueueAbort, NoBatch
<1>5. CASE TickSettings \/ TickInterval \/ TickCap \/ ClaimNothing \/ MarkFails
  BY <1>5 DEF TickSettings, TickInterval, TickCap, ClaimNothing, MarkFails
<1>6. ASSUME NEW r \in RowIds, Claim(r) PROVE SegmentInv'
  BY <1>6 DEF Claim, TypeOK
<1>7. ASSUME NEW outcome \in Outcomes, NEW accepted \in BOOLEAN, SmtpFinish(outcome, accepted)
      PROVE SegmentInv'
  BY <1>7 DEF SmtpFinish, Outcomes
<1>8. CASE MarkSent \/ MarkConfigError \/ MarkItemError
  <2>1. held \in RowIds /\ status'[held] # "none"
    BY <1>8 DEF MarkSent, MarkConfigError, MarkItemError, TypeOK
  <2>2. CASE MarkSent
    BY <1>8, <2>1, <2>2 DEF MarkSent
  <2>3. CASE MarkConfigError
    BY <1>8, <2>1, <2>3 DEF MarkConfigError, IsConfigError
  <2>4. CASE MarkItemError
    BY <1>8, <2>1, <2>4 DEF MarkItemError
  <2> QED  BY <1>8, <2>2, <2>3, <2>4
<1>9. CASE MarkContact \/ Pause
  BY <1>9 DEF MarkContact, Pause
<1>10. CASE Routes
  BY <1>10 DEF Routes, Cancel, Retry, ToggleSender, AddContact, DeleteContact,
               SetContactSent, TypeOK
<1>11. CASE Stop \/ Exit \/ Crash
  BY <1>11 DEF Stop, Exit, Crash, NoBatch
<1>12. CASE Start \/ Advance
  BY <1>12 DEF Start, Requeued, Advance
<1>13. CASE UNCHANGED vars
  BY <1>13 DEF vars
<1> QED  BY <1>1, <1>2, <1>3, <1>4, <1>5, <1>6, <1>7, <1>8, <1>9, <1>10, <1>11, <1>12, <1>13
         DEF Next, Queueing, Tick, Process

LEMMA Sane == Spec => [](TypeOK /\ SegmentInv)
<1>1. Init => SegmentInv
  BY DEF Init, SegmentInv, NoBatch, NoRow, RowIds
<1>2. TypeOK /\ SegmentInv /\ [Next]_vars => TypeOK'
  <2> SUFFICES ASSUME TypeOK, SegmentInv, [Next]_vars PROVE TypeOK'
    OBVIOUS
  <2>1. CASE UNCHANGED vars
    BY <2>1 DEF vars, outbox, rowVars, tickVars, historyVars, TypeOK
  <2> QED  BY <2>1, TypeQueueing, TypeTick, TypeRoutes, TypeProcess DEF Next
<1>3. TypeOK /\ SegmentInv /\ [Next]_vars => SegmentInv'
  BY SegmentNext
<1> QED  BY TypeInit, <1>1, <1>2, <1>3, PTL DEF Spec

\* Every reachable state is well typed.
THEOREM TypeCorrect == Spec => []TypeOK
BY Sane, PTL
-----------------------------------------------------------------------------
(* Copies and puts.                                                        *)

\* Pending changes only with the row's status and with the running thread.
LEMMA PendingSame ==
    ASSUME NEW r \in RowIds, status'[r] = status[r], UNCHANGED <<held, smtp>>
    PROVE  Pending(r)' = Pending(r)
BY DEF Pending

LEMMA PendingNat == ASSUME NEW r \in RowIds PROVE Pending(r) \in Nat
BY DEF Pending

LEMMA PutsAfterIs ==
    ASSUME NEW S, NEW r \in RowIds, puts' = PutsAfter(S)
    PROVE  puts'[r] = IF r \in S /\ status[r] # "queued" THEN puts[r] + 1 ELSE puts[r]
BY DEF PutsAfter

LEMMA CopyNext ==
    ASSUME TypeOK, TypeOK', SegmentInv, CopyInv, [Next]_vars PROVE CopyInv'
<1> SUFFICES ASSUME NEW r \in RowIds
             PROVE  /\ copies'[r] + Pending(r)' <= puts'[r]
                    /\ status'[r] = "none" => copies'[r] = 0
    BY DEF CopyInv
<1> USE DEF LoopFree, outbox, rowVars, tickVars, historyVars
<1> DEFINE Goal == /\ copies'[r] + Pending(r)' <= puts'[r]
                   /\ status'[r] = "none" => copies'[r] = 0
<1>0. /\ copies[r] + Pending(r) <= puts[r] /\ (status[r] = "none" => copies[r] = 0)
      /\ copies[r] \in Nat /\ puts[r] \in Nat
    BY DEF CopyInv, TypeOK
<1>1. CASE UNCHANGED <<status, held, smtp, copies, puts>>
  BY <1>0, <1>1, PendingSame
<1>2. ASSUME NEW i \in RowIds, QueueInsert(i) PROVE Goal
  <2>1. UNCHANGED <<held, smtp, copies>> /\ held # i
    BY <1>2 DEF QueueInsert, NewRow, IsNextId, SegmentInv
  <2>2. CASE i = r
    <3>1. status'[r] = "queued" /\ puts'[r] = 1 /\ copies[r] = 0
      BY <1>0, <1>2, <2>2 DEF QueueInsert, NewRow, IsNextId, TypeOK
    <3> QED  BY <2>1, <2>2, <3>1 DEF Pending
  <2>3. CASE i # r
    <3>1. status'[r] = status[r] /\ puts'[r] = puts[r]
      BY <1>2, <2>3 DEF QueueInsert, NewRow, TypeOK
    <3> QED  BY <1>0, <2>1, <3>1, PendingSame
  <2> QED  BY <2>2, <2>3
<1>3. ASSUME NEW i \in RowIds, Claim(i) PROVE Goal
  <2>1. UNCHANGED <<copies, puts>> /\ held = NoRow /\ held' = i /\ smtp' = "running"
    BY <1>3 DEF Claim, SegmentInv
  <2>2. status'[r] = (IF i = r THEN "sending" ELSE status[r]) /\ status[i] = "queued"
    BY <1>3 DEF Claim, IsOldestQueued, TypeOK
  <2> QED  BY <1>0, <2>1, <2>2 DEF Pending, NoRow, RowIds
<1>4. ASSUME NEW outcome \in Outcomes, NEW accepted \in BOOLEAN, SmtpFinish(outcome, accepted)
      PROVE Goal
  <2>1. UNCHANGED <<status, held, puts>> /\ smtp = "running" /\ smtp' # "running"
    BY <1>4 DEF SmtpFinish, Outcomes
  <2>2. held \in RowIds /\ status[held] # "none"
    BY <2>1 DEF SegmentInv, TypeOK
  <2>3. copies'[r] <= (IF held = r THEN copies[r] + 1 ELSE copies[r]) /\ copies'[r] \in Nat
        /\ (held # r => copies'[r] = copies[r])
    BY <1>0, <1>4, <2>2 DEF SmtpFinish, TypeOK
  <2> QED  BY <1>0, <2>1, <2>2, <2>3 DEF Pending
<1>5. CASE MarkSent
  <2>1. UNCHANGED <<copies, puts>> /\ smtp' = "idle"
        /\ (status'[r] = "sent" \/ status'[r] = status[r])
    BY <1>5 DEF MarkSent, TypeOK
  <2> QED  BY <1>0, <2>1 DEF Pending
<1>6. CASE MarkConfigError
  <2>1. held \in RowIds /\ smtp # "running" /\ UNCHANGED <<held, smtp, copies>>
    BY <1>6 DEF MarkConfigError, SegmentInv, IsConfigError
  <2>2. status'[r] = IF r = held THEN "queued" ELSE status[r]
    BY <1>6, <2>1 DEF MarkConfigError, TypeOK
  <2>3. puts'[r] = IF r = held /\ status[r] # "queued" THEN puts[r] + 1 ELSE puts[r]
    BY <1>6, PutsAfterIs DEF MarkConfigError
  <2> QED  BY <1>0, <2>1, <2>2, <2>3 DEF Pending, SegmentInv
<1>7. CASE MarkItemError
  <2>1. held \in RowIds /\ smtp # "running" /\ smtp' = "idle" /\ UNCHANGED copies
    BY <1>7 DEF MarkItemError, SegmentInv
  <2>2. CASE attempts[held] + 1 < MaxAttempts
    <3>1. status'[r] = IF r = held THEN "queued" ELSE status[r]
      BY <1>7, <2>1, <2>2 DEF MarkItemError, TypeOK
    <3>2. puts'[r] = IF r = held /\ status[r] # "queued" THEN puts[r] + 1 ELSE puts[r]
      BY <1>7, <2>2, PutsAfterIs DEF MarkItemError
    <3> QED  BY <1>0, <2>1, <3>1, <3>2 DEF Pending, SegmentInv
  <2>3. CASE ~(attempts[held] + 1 < MaxAttempts)
    <3>1. status'[r] = (IF r = held THEN "failed" ELSE status[r]) /\ UNCHANGED puts
      BY <1>7, <2>1, <2>3 DEF MarkItemError, TypeOK
    <3> QED  BY <1>0, <2>1, <3>1 DEF Pending, SegmentInv
  <2> QED  BY <2>2, <2>3
<1>8. CASE MarkContact \/ Pause \/ MarkFails
  <2>1. UNCHANGED <<status, copies, puts>> /\ smtp # "running" /\ smtp' = "idle"
    BY <1>8 DEF MarkContact, Pause, MarkFails, SegmentInv, Outcomes
  <2> QED  BY <1>0, <2>1 DEF Pending
<1>9. ASSUME NEW i \in RowIds, Cancel(i) PROVE Goal
  <2>1. UNCHANGED <<held, smtp, copies, puts>>
        /\ (status'[r] = status[r] \/ (status'[r] = "cancelled" /\ status[r] # "none"))
    BY <1>9 DEF Cancel, TypeOK
  <2> QED  BY <1>0, <2>1 DEF Pending
<1>10. ASSUME NEW i \in RowIds, Retry(i) PROVE Goal
  <2>1. UNCHANGED <<held, smtp, copies>> /\ status[i] # "none"
        /\ status'[r] = IF r = i THEN "queued" ELSE status[r]
    BY <1>10 DEF Retry, TypeOK
  <2>2. puts'[r] = IF r = i /\ status[r] # "queued" THEN puts[r] + 1 ELSE puts[r]
    BY <1>10, PutsAfterIs DEF Retry
  <2> QED  BY <1>0, <2>1, <2>2 DEF Pending
<1>11. CASE Start
  <2>1. UNCHANGED <<held, smtp, copies>>
    BY <1>11 DEF Start
  <2>2. CASE status' = Requeued /\ puts' = PutsAfter(WithStatus("sending"))
    <3>1. status'[r] = IF status[r] = "sending" THEN "queued" ELSE status[r]
      BY <2>2 DEF Requeued
    <3>2. puts'[r] = IF status[r] = "sending" THEN puts[r] + 1 ELSE puts[r]
      BY <2>2 DEF PutsAfter, WithStatus
    <3> QED  BY <1>0, <2>1, <3>1, <3>2 DEF Pending
  <2> QED  BY <1>1, <1>11, <2>1, <2>2 DEF Start
<1>12. CASE Exit \/ Crash
  <2>1. UNCHANGED <<status, copies, puts>> /\ smtp' = "idle"
    BY <1>12 DEF Exit, Crash
  <2> QED  BY <1>0, <2>1 DEF Pending
<1>13. CASE \/ \E n \in 1..MaxBatch, skip \in BOOLEAN : QueueStart(n, skip)
            \/ \E a \in Addresses : QueueNext(a)
            \/ QueueAbort \/ TickSettings \/ TickInterval \/ TickCap \/ ClaimNothing
            \/ ToggleSender \/ \E a \in Addresses : AddContact(a) \/ DeleteContact(a)
            \/ \E a \in Addresses, sent \in BOOLEAN : SetContactSent(a, sent)
            \/ Stop \/ Advance \/ UNCHANGED vars
  <2> UNCHANGED <<status, held, smtp, copies, puts>>
    BY <1>13 DEF QueueStart, QueueNext, QueueAbort, TickSettings, TickInterval, TickCap,
                 ClaimNothing, ToggleSender, AddContact, DeleteContact, SetContactSent,
                 Stop, Advance, vars
  <2> QED  BY <1>1
<1> QED  BY <1>2, <1>3, <1>4, <1>5, <1>6, <1>7, <1>8, <1>9, <1>10, <1>11, <1>12, <1>13
         DEF Next, Queueing, Tick, Routes, Process

\* At-least-once and never more: a mail is accepted at most once for each
\* time its row entered the queue.
THEOREM CopiesBounded == Spec => []CopiesWithinPuts
<1>1. Init => CopyInv
  BY DEF Init, CopyInv, Pending, NoRow, RowIds
<1>2. TypeOK /\ SegmentInv /\ CopyInv /\ TypeOK' /\ [Next]_vars => CopyInv'
  BY CopyNext
<1>3. TypeOK /\ CopyInv => CopiesWithinPuts
  <2> SUFFICES ASSUME TypeOK, CopyInv, NEW r \in RowIds PROVE copies[r] <= puts[r]
    BY DEF CopiesWithinPuts
  <2>1. copies[r] + Pending(r) <= puts[r] /\ copies[r] \in Nat /\ puts[r] \in Nat
    BY DEF CopyInv, TypeOK
  <2> QED  BY <2>1, PendingNat
<1> QED  BY Sane, <1>1, <1>2, <1>3, PTL DEF Spec
-----------------------------------------------------------------------------
(* One fresh active row for each address.                                  *)

\* Only an insert makes a row fresh: what a failure, a restart or a retry
\* puts back in the queue was active, or is touched.
LEMMA FreshOnlyFromInsert ==
    ASSUME TypeOK, SegmentInv, DedupeInv, [Next]_vars,
           NEW r \in RowIds, \A i \in RowIds : ~QueueInsert(i), Fresh(r)'
    PROVE  Fresh(r) /\ addr'[r] = addr[r]
<1> USE DEF outbox, rowVars, tickVars, historyVars
<1>1. CASE UNCHANGED <<status, touched, addr>>
  BY <1>1 DEF Fresh
<1>2. ASSUME NEW i \in RowIds, Claim(i) PROVE Fresh(r) /\ addr'[r] = addr[r]
  BY <1>2 DEF Claim, IsOldestQueued, TypeOK, Fresh, Active
<1>3. CASE MarkSent
  BY <1>3 DEF MarkSent, TypeOK, Fresh, Active
<1>4. CASE MarkConfigError \/ MarkItemError
  <2>1. held \in RowIds /\ (held \notin touched => status[held] = "sending")
        /\ UNCHANGED <<touched, addr>>
    BY <1>4 DEF MarkConfigError, MarkItemError, SegmentInv, DedupeInv
  <2>2. r # held => status'[r] = status[r]
    BY <1>4 DEF MarkConfigError, MarkItemError, TypeOK
  <2> QED  BY <2>1, <2>2 DEF Fresh, Active
<1>5. ASSUME NEW i \in RowIds, Cancel(i) \/ Retry(i) PROVE Fresh(r) /\ addr'[r] = addr[r]
  BY <1>5 DEF Cancel, Retry, TypeOK, Fresh
<1>6. CASE Start
  BY <1>6 DEF Start, Requeued, Fresh, Active
<1>7. CASE \/ \E n \in 1..MaxBatch, skip \in BOOLEAN : QueueStart(n, skip)
           \/ \E a \in Addresses : QueueNext(a)
           \/ QueueAbort \/ TickSettings \/ TickInterval \/ TickCap \/ ClaimNothing
           \/ \E outcome \in Outcomes, accepted \in BOOLEAN : SmtpFinish(outcome, accepted)
           \/ MarkContact \/ Pause \/ MarkFails
           \/ ToggleSender \/ \E a \in Addresses : AddContact(a) \/ DeleteContact(a)
           \/ \E a \in Addresses, sent \in BOOLEAN : SetContactSent(a, sent)
           \/ Stop \/ Exit \/ Crash \/ Advance \/ UNCHANGED vars
  <2> UNCHANGED <<status, touched, addr>>
    BY <1>7 DEF QueueStart, QueueNext, QueueAbort, TickSettings, TickInterval, TickCap,
                ClaimNothing, SmtpFinish, MarkContact, Pause, MarkFails, ToggleSender,
                AddContact, DeleteContact, SetContactSent, Stop, Exit, Crash, Advance, vars
  <2> QED  BY <1>1
<1> QED  BY <1>2, <1>3, <1>4, <1>5, <1>6, <1>7 DEF Next, Queueing, Tick, Routes, Process

LEMMA DedupeInsert ==
    ASSUME TypeOK, SegmentInv, DedupeInv, NEW i \in RowIds, QueueInsert(i)
    PROVE  DedupeInv'
<1> DEFINE a == batch.addr
<1>1. /\ batch.at = "insert" /\ a \notin batch.already /\ status[i] = "none"
      /\ \A r \in RowIds : Fresh(r) => addr[r] \in batch.already
  BY DEF QueueInsert, IsNextId, DedupeInv
<1>2. /\ touched' = touched /\ pc' = pc /\ held' = held
      /\ addr'[i] = a
      /\ \A r \in RowIds : r # i => status'[r] = status[r] /\ addr'[r] = addr[r]
  BY DEF QueueInsert, NewRow, TypeOK, tickVars
<1>3. \A r \in RowIds : (r # i /\ Fresh(r)') => Fresh(r)
  BY <1>2 DEF Fresh
<1>4. batch'.at # "insert" /\ (batch'.at # "idle" => batch'.already = batch.already \cup {a})
  BY DEF QueueInsert, Rest, NoBatch, TypeOK, Batch
<1>5. (pc = "smtp" /\ held \notin touched) => status'[held] = "sending"
  BY <1>1, <1>2 DEF SegmentInv, DedupeInv
<1> QED  BY <1>1, <1>2, <1>3, <1>4, <1>5 DEF DedupeInv

LEMMA DedupeNext ==
    ASSUME TypeOK, SegmentInv, DedupeInv, [Next]_vars PROVE DedupeInv'
<1> USE DEF outbox, rowVars, tickVars, historyVars, LoopFree
<1>1. CASE \E i \in RowIds : QueueInsert(i)
  BY <1>1, DedupeInsert
<1>2. CASE \A i \in RowIds : ~QueueInsert(i)
  <2>1. \A r \in RowIds : Fresh(r)' => Fresh(r) /\ addr'[r] = addr[r]
    BY <1>2, FreshOnlyFromInsert
  <2>2. \A r, s \in RowIds : (r # s /\ Fresh(r)' /\ Fresh(s)') => addr'[r] # addr'[s]
    BY <2>1 DEF DedupeInv
  <2>3. batch'.at # "idle" =>
           \/ \A r \in RowIds : status[r] \in Active => addr[r] \in batch'.already
           \/ batch.at # "idle" /\ batch'.already = batch.already
    <3>1. ASSUME NEW n \in 1..MaxBatch, NEW skip \in BOOLEAN, QueueStart(n, skip)
          PROVE \A r \in RowIds : status[r] \in Active => addr[r] \in batch'.already
      BY <3>1 DEF QueueStart, ActiveAddresses
    <3>2. ASSUME NEW a \in Addresses, QueueNext(a)
          PROVE batch'.at = "idle" \/ (batch.at # "idle" /\ batch'.already = batch.already)
      BY <3>2 DEF QueueNext, Rest, NoBatch
    <3>3. CASE QueueAbort \/ Crash
      BY <3>3 DEF QueueAbort, Crash, NoBatch
    <3>4. ASSUME NEW a \in Addresses, DeleteContact(a)
          PROVE (batch'.at # "idle" => batch.at # "idle") /\ batch'.already = batch.already
      BY <3>4 DEF DeleteContact, TypeOK, Batch
    <3>5. CASE UNCHANGED batch
      BY <3>5
    <3> QED  BY <1>2, <3>1, <3>2, <3>3, <3>4, <3>5
             DEF Next, vars, Queueing, Tick, Routes, Process, TickSettings, TickInterval,
                 TickCap, ClaimNothing, Claim, SmtpFinish, MarkSent, MarkContact,
                 MarkConfigError, Pause, MarkItemError, MarkFails, Cancel, Retry,
                 ToggleSender, AddContact, SetContactSent, Stop, Exit, Start, Advance
  <2>4. batch'.at # "idle" => \A r \in RowIds : Fresh(r)' => addr'[r] \in batch'.already
    BY <2>1, <2>3 DEF DedupeInv, Fresh
  <2>5. batch'.at = "insert" => batch'.addr \notin batch'.already
    <3>1. ASSUME NEW n \in 1..MaxBatch, NEW skip \in BOOLEAN, QueueStart(n, skip)
          PROVE batch'.at # "insert"
      BY <3>1 DEF QueueStart
    <3>2. ASSUME NEW a \in Addresses, QueueNext(a)
          PROVE batch'.at = "insert" => batch'.addr \notin batch'.already
      BY <3>2 DEF QueueNext, SkippedByBatch, Rest, NoBatch
    <3>3. CASE QueueAbort \/ Crash
      BY <3>3 DEF QueueAbort, Crash, NoBatch
    <3>4. ASSUME NEW a \in Addresses, DeleteContact(a)
          PROVE batch'.at = "insert" => batch' = batch
      BY <3>4 DEF DeleteContact, TypeOK, Batch
    <3>5. CASE UNCHANGED batch
      BY <3>5 DEF DedupeInv
    <3> QED  BY <1>2, <3>1, <3>2, <3>3, <3>4, <3>5
             DEF DedupeInv, Next, vars, Queueing, Tick, Routes, Process, TickSettings, TickInterval,
                 TickCap, ClaimNothing, Claim, SmtpFinish, MarkSent, MarkContact,
                 MarkConfigError, Pause, MarkItemError, MarkFails, Cancel, Retry,
                 ToggleSender, AddContact, SetContactSent, Stop, Exit, Start, Advance
  <2>6. (pc' = "smtp" /\ held' \notin touched') => status'[held'] = "sending"
    <3> SUFFICES ASSUME pc' = "smtp", held' \notin touched' PROVE status'[held'] = "sending"
      OBVIOUS
    <3>1. ASSUME NEW i \in RowIds, Claim(i) PROVE status'[held'] = "sending"
      BY <3>1 DEF Claim, TypeOK
    <3>2. ASSUME NEW i \in RowIds, Cancel(i) \/ Retry(i) PROVE status'[held'] = "sending"
      <4>1. pc = "smtp" /\ held' = held /\ held \in RowIds /\ held \notin touched /\ i # held
        BY <3>2 DEF Cancel, Retry, SegmentInv
      <4>2. status'[held] = status[held]
        BY <3>2, <4>1 DEF Cancel, Retry, TypeOK
      <4> QED  BY <4>1, <4>2 DEF DedupeInv
    <3>3. CASE pc = "smtp" /\ UNCHANGED <<status, held, touched>>
      BY <3>3 DEF DedupeInv
    <3>4. CASE Queueing \/ UNCHANGED vars
      BY <1>2, <3>3, <3>4 DEF Queueing, QueueStart, QueueNext, QueueAbort, vars
    <3>5. CASE Tick
      <4>1. CASE \/ TickSettings \/ TickInterval \/ TickCap \/ ClaimNothing \/ MarkSent
                 \/ MarkContact \/ MarkConfigError \/ Pause \/ MarkItemError \/ MarkFails
        BY <4>1 DEF TickSettings, TickInterval, TickCap, ClaimNothing, MarkSent, MarkContact,
                    MarkConfigError, Pause, MarkItemError, MarkFails
      <4>2. ASSUME NEW outcome \in Outcomes, NEW accepted \in BOOLEAN,
                   SmtpFinish(outcome, accepted)
            PROVE status'[held'] = "sending"
        BY <3>3, <4>2 DEF SmtpFinish
      <4> QED  BY <3>1, <3>5, <4>1, <4>2 DEF Tick
    <3>6. CASE Routes
      BY <3>2, <3>3, <3>6 DEF Routes, ToggleSender, AddContact, DeleteContact, SetContactSent
    <3>7. CASE Process
      BY <3>3, <3>7 DEF Process, Stop, Exit, Crash, Start, Advance, SegmentInv
    <3> QED  BY <3>4, <3>5, <3>6, <3>7 DEF Next
  <2> QED  BY <2>2, <2>4, <2>5, <2>6 DEF DedupeInv
<1> QED  BY <1>1, <1>2

\* Batches with repeated contacts, failures and restarts never leave two
\* active rows for one address: only the routes can.
THEOREM DedupeHolds == Spec => []DedupePerAddress
<1>1. Init => DedupeInv
  BY DEF Init, DedupeInv, NoBatch, Fresh, Active
<1>2. TypeOK /\ SegmentInv /\ DedupeInv /\ [Next]_vars => DedupeInv'
  BY DedupeNext
<1>3. DedupeInv => DedupePerAddress
  BY DEF DedupeInv, DedupePerAddress, Fresh
<1> QED  BY Sane, <1>1, <1>2, <1>3, PTL DEF Spec
-----------------------------------------------------------------------------
(* Rows that say 'sent' and their contacts.                                *)

LEMMA ContactLinks ==
    ASSUME TypeOK, SegmentInv, ContactInv, [Next]_vars
    PROVE  /\ \A r \in RowIds : linked'[r] => addr'[r] \in Addresses /\ contacts'[addr'[r]] # "absent"
           /\ batch'.at = "insert" => batch'.addr \in Addresses /\ contacts'[batch'.addr] # "absent"
<1> DEFINE Goal ==
      /\ \A r \in RowIds : linked'[r] => addr'[r] \in Addresses /\ contacts'[addr'[r]] # "absent"
      /\ batch'.at = "insert" => batch'.addr \in Addresses /\ contacts'[batch'.addr] # "absent"
<1> USE DEF outbox, rowVars, tickVars, historyVars
<1>1. CASE UNCHANGED <<linked, addr, contacts, batch>>
  BY <1>1 DEF ContactInv
<1>2. CASE UNCHANGED <<linked, addr, contacts>> /\ batch'.at # "insert"
  BY <1>2 DEF ContactInv
<1>3. ASSUME NEW a \in Addresses, QueueNext(a) PROVE Goal
  <2>1. UNCHANGED <<linked, addr, contacts>>
    BY <1>3 DEF QueueNext
  <2>2. batch'.at = "insert" => batch'.addr = a /\ contacts[a] # "absent"
    BY <1>3 DEF QueueNext, Rest, NoBatch, SkippedByBatch
  <2> QED  BY <2>1, <2>2 DEF ContactInv
<1>4. ASSUME NEW i \in RowIds, QueueInsert(i) PROVE Goal
  <2>1. batch'.at # "insert" /\ batch.at = "insert" /\ UNCHANGED contacts
    BY <1>4 DEF QueueInsert, Rest, NoBatch
  <2>2. /\ addr'[i] = batch.addr
        /\ \A r \in RowIds : r # i => linked'[r] = linked[r] /\ addr'[r] = addr[r]
    BY <1>4 DEF QueueInsert, NewRow, TypeOK
  <2> QED  BY <2>1, <2>2 DEF ContactInv
<1>5. CASE MarkContact
  <2>1. UNCHANGED <<linked, addr, batch>>
    BY <1>5 DEF MarkContact
  <2>2. \A a \in Addresses : contacts[a] # "absent" => contacts'[a] # "absent"
    BY <1>5 DEF MarkContact, TypeOK
  <2> QED  BY <2>1, <2>2 DEF ContactInv
<1>6. ASSUME NEW a \in Addresses,
             AddContact(a) \/ \E sent \in BOOLEAN : SetContactSent(a, sent)
      PROVE Goal
  <2>1. UNCHANGED <<linked, addr, batch>>
    BY <1>6 DEF AddContact, SetContactSent
  <2>2. \A c \in Addresses : contacts[c] # "absent" => contacts'[c] # "absent"
    BY <1>6 DEF AddContact, SetContactSent, TypeOK
  <2> QED  BY <2>1, <2>2 DEF ContactInv
<1>7. ASSUME NEW a \in Addresses, DeleteContact(a) PROVE Goal
  <2>1. \A r \in RowIds : linked'[r] => linked[r] /\ addr[r] # a
    BY <1>7 DEF DeleteContact
  <2>2. \A c \in Addresses : c # a => contacts'[c] = contacts[c]
    BY <1>7 DEF DeleteContact, TypeOK
  <2>3. UNCHANGED addr
    BY <1>7 DEF DeleteContact
  <2>4. batch'.at = "insert" => batch' = batch /\ batch.addr # a
    BY <1>7 DEF DeleteContact, TypeOK, Batch
  <2> QED  BY <2>1, <2>2, <2>3, <2>4 DEF ContactInv
<1>8. CASE Queueing
  BY <1>2, <1>3, <1>4, <1>8 DEF Queueing, QueueStart, QueueAbort, NoBatch
<1>9. CASE Tick
  BY <1>1, <1>5, <1>9
     DEF Tick, TickSettings, TickInterval, TickCap, ClaimNothing, Claim, SmtpFinish,
         MarkSent, MarkConfigError, Pause, MarkItemError, MarkFails
<1>10. CASE Routes
  BY <1>1, <1>6, <1>7, <1>10 DEF Routes, Cancel, Retry, ToggleSender
<1>11. CASE Process
  BY <1>1, <1>2, <1>11 DEF Process, Stop, Exit, Crash, Start, Advance, NoBatch
<1> QED  BY <1>1, <1>8, <1>9, <1>10, <1>11 DEF Next, vars

LEMMA ContactNext ==
    ASSUME TypeOK, SegmentInv, ContactInv, [Next]_vars PROVE SentContactMarked'
<1> SUFFICES ASSUME NEW r \in RowIds, status'[r] = "sent", linked'[r],
                    contacts'[addr'[r]] = "fresh"
             PROVE  r \in unmarked' \/ (pc' = "contact" /\ held' = r)
    BY DEF SentContactMarked, WithStatus
<1> DEFINE Goal == r \in unmarked' \/ (pc' = "contact" /\ held' = r)
           Old == status[r] = "sent" /\ linked[r] /\ contacts[addr[r]] = "fresh"
<1> USE DEF outbox, rowVars, tickVars, historyVars, LoopFree
<1>0. Old => r \in unmarked \/ (pc = "contact" /\ held = r)
  BY DEF ContactInv, SentContactMarked, WithStatus
<1>1. CASE Old /\ unmarked' = unmarked /\ (pc # "contact" \/ UNCHANGED <<pc, held>>)
  BY <1>0, <1>1
<1>2. CASE Queueing
  <2>1. ASSUME NEW i \in RowIds, QueueInsert(i) PROVE Goal
    <3>1. /\ status'[i] = "queued" /\ UNCHANGED <<contacts, unmarked, pc, held>>
          /\ r # i => status'[r] = status[r] /\ addr'[r] = addr[r] /\ linked'[r] = linked[r]
      BY <2>1 DEF QueueInsert, NewRow, TypeOK
    <3> QED  BY <1>1, <3>1
  <2> QED  BY <1>1, <1>2, <2>1 DEF Queueing, QueueStart, QueueNext, QueueAbort
<1>3. CASE Tick
  <2>1. CASE MarkSent
    <3>1. held \in RowIds /\ UNCHANGED <<linked, addr, contacts, unmarked>> /\ pc = "smtp"
      BY <2>1 DEF MarkSent, SegmentInv
    <3>2. CASE r = held
      BY <2>1, <3>1, <3>2 DEF MarkSent
    <3>3. CASE r # held
      <4> status[r] = "sent"
        BY <2>1, <3>1, <3>3 DEF MarkSent, TypeOK
      <4> QED  BY <1>1, <3>1
    <3> QED  BY <3>2, <3>3
  <2>2. CASE MarkContact
    <3>1. held \in RowIds /\ pc = "contact" /\ UNCHANGED <<linked, addr, status>>
      BY <2>2 DEF MarkContact, SegmentInv
    <3>2. CASE unmarked' = unmarked \cup {held} /\ UNCHANGED contacts
      BY <1>0, <3>1, <3>2
    <3>3. CASE UNCHANGED unmarked /\
               contacts' = IF linked[held] THEN [contacts EXCEPT ![addr[held]] = "sent"]
                           ELSE contacts
      <4>1. addr[r] \in Addresses
        BY <3>1 DEF ContactInv
      <4>2. r # held /\ contacts[addr[r]] = "fresh"
        BY <3>1, <3>3, <4>1 DEF TypeOK
      <4> QED  BY <1>0, <3>1, <3>3, <4>2
    <3> QED  BY <2>2, <3>2, <3>3 DEF MarkContact
  <2>3. CASE MarkConfigError \/ MarkItemError
    <3>1. /\ held \in RowIds /\ pc = "smtp"
          /\ UNCHANGED <<linked, addr, contacts, unmarked>>
      BY <2>3 DEF MarkConfigError, MarkItemError, SegmentInv
    <3>2. status[r] = "sent"
      BY <2>3, <3>1 DEF MarkConfigError, MarkItemError, TypeOK
    <3> QED  BY <1>1, <3>1, <3>2
  <2>4. ASSUME NEW i \in RowIds, Claim(i) PROVE Goal
    <3>1. pc = "claim" /\ UNCHANGED <<linked, addr, contacts, unmarked>>
      BY <2>4 DEF Claim
    <3>2. status[r] = "sent"
      BY <2>4 DEF Claim, TypeOK
    <3> QED  BY <1>1, <3>1, <3>2
  <2> QED  BY <1>1, <1>3, <2>1, <2>2, <2>3, <2>4
           DEF Tick, TickSettings, TickInterval, TickCap, ClaimNothing, SmtpFinish, Pause,
               MarkFails
<1>4. CASE Routes
  <2>1. ASSUME NEW i \in RowIds, Cancel(i) \/ Retry(i) PROVE Goal
    <3>1. UNCHANGED <<linked, addr, contacts, unmarked, pc, held>>
      BY <2>1 DEF Cancel, Retry
    <3>2. status[r] = "sent"
      BY <2>1 DEF Cancel, Retry, TypeOK
    <3> QED  BY <1>1, <3>1, <3>2
  <2>2. ASSUME NEW a \in Addresses,
               AddContact(a) \/ DeleteContact(a) \/ \E sent \in BOOLEAN : SetContactSent(a, sent)
        PROVE Goal
    <3>1. UNCHANGED <<status, addr, unmarked, pc, held>> /\ linked[r]
      BY <2>2 DEF AddContact, DeleteContact, SetContactSent
    <3>2. addr[r] \in Addresses /\ contacts[addr[r]] # "absent"
      BY <3>1 DEF ContactInv
    <3>3. contacts[addr[r]] = "fresh"
      BY <2>2, <3>1, <3>2 DEF AddContact, DeleteContact, SetContactSent, TypeOK
    <3> QED  BY <1>1, <3>1, <3>3
  <2> QED  BY <1>1, <1>4, <2>1, <2>2 DEF Routes, ToggleSender
<1>5. CASE Process
  <2>1. CASE Crash
    BY <1>0, <2>1 DEF Crash, UnmarkedByDeath
  <2>2. CASE Start
    <3>1. pc # "contact" /\ UNCHANGED <<linked, addr, contacts, unmarked>>
      BY <2>2 DEF Start, SegmentInv
    <3>2. status[r] = "sent"
      BY <2>2 DEF Start, Requeued, TypeOK
    <3> QED  BY <1>1, <3>1, <3>2
  <2> QED  BY <1>1, <1>5, <2>1, <2>2 DEF Process, Stop, Exit, Advance, SegmentInv
<1>6. CASE UNCHANGED vars
  BY <1>1, <1>6 DEF vars
<1> QED  BY <1>2, <1>3, <1>4, <1>5, <1>6 DEF Next

\* A row that says 'sent' has its contact marked, but for the step between
\* the two updates and for the deaths in that step.
THEOREM ContactsMarked == Spec => []SentContactMarked
<1>1. Init => ContactInv
  BY DEF Init, ContactInv, SentContactMarked, WithStatus, NoBatch
<1>2. TypeOK /\ SegmentInv /\ ContactInv /\ [Next]_vars => ContactInv'
  BY ContactLinks, ContactNext DEF ContactInv
<1>3. ContactInv => SentContactMarked
  BY DEF ContactInv
<1> QED  BY Sane, <1>1, <1>2, <1>3, PTL DEF Spec
-----------------------------------------------------------------------------
(* The daily cap.                                                          *)

LEMMA SentTodayFinite == IsFiniteSet(SentToday) /\ Cardinality(SentToday) \in Nat
<1>1. IsFiniteSet(RowIds)
  BY FS_Interval, ConstantsAssumption DEF RowIds
<1>2. SentToday \subseteq RowIds
  BY DEF SentToday, WithStatus
<1> QED  BY <1>1, <1>2, FS_Subset, FS_CardinalityType

\* No step but MarkSent adds a row to those sent today.
LEMMA SentTodayShrinks ==
    ASSUME TypeOK, SegmentInv, [Next]_vars, ~MarkSent
    PROVE  SentToday' \subseteq SentToday
<1> SUFFICES ASSUME NEW r \in RowIds, status'[r] = "sent", today'[r]
             PROVE  status[r] = "sent" /\ today[r]
    BY DEF SentToday, WithStatus
<1> USE DEF outbox, rowVars, tickVars, historyVars
<1>1. CASE UNCHANGED <<status, today>>
  BY <1>1
<1>2. CASE Queueing
  <2>1. ASSUME NEW i \in RowIds, QueueInsert(i) PROVE status[r] = "sent" /\ today[r]
    BY <2>1 DEF QueueInsert, NewRow, TypeOK
  <2> QED  BY <1>1, <1>2, <2>1 DEF Queueing, QueueStart, QueueNext, QueueAbort
<1>3. CASE Tick
  <2>1. ASSUME NEW i \in RowIds, Claim(i) PROVE status[r] = "sent" /\ today[r]
    BY <2>1 DEF Claim, TypeOK
  <2>2. CASE MarkConfigError \/ MarkItemError
    BY <2>2 DEF MarkConfigError, MarkItemError, TypeOK
  <2> QED  BY <1>1, <1>3, <2>1, <2>2
           DEF Tick, TickSettings, TickInterval, TickCap, ClaimNothing, SmtpFinish,
               MarkContact, Pause, MarkFails
<1>4. CASE Routes
  <2>1. ASSUME NEW i \in RowIds, Cancel(i) \/ Retry(i) PROVE status[r] = "sent" /\ today[r]
    BY <2>1 DEF Cancel, Retry, TypeOK
  <2> QED  BY <1>1, <1>4, <2>1
           DEF Routes, ToggleSender, AddContact, DeleteContact, SetContactSent
<1>5. CASE Start
  BY <1>5 DEF Start, Requeued
<1>6. CASE Advance
  <2>1. UNCHANGED status
    BY <1>6 DEF Advance
  <2>2. today[r]
    BY <1>6, Zenon DEF Advance
  <2> QED  BY <2>1, <2>2
<1> QED  BY <1>1, <1>2, <1>3, <1>4, <1>5, <1>6 DEF Next, Process, Stop, Exit, Crash, vars

LEMMA CapNext ==
    ASSUME TypeOK, SegmentInv, CapInv, [Next]_vars PROVE CapInv'
<1> SUFFICES ASSUME DailyCap > 0
             PROVE  /\ Cardinality(SentToday') <= DailyCap
                    /\ pc' \in {"claim", "smtp"} => Cardinality(SentToday') < DailyCap
    BY DEF CapInv
<1> USE SentTodayFinite, ConstantsAssumption
<1>1. CASE MarkSent
  <2>1. SentToday' \subseteq SentToday \cup {held}
    BY <1>1 DEF MarkSent, SentToday, WithStatus, TypeOK
  <2>2. pc = "smtp" /\ pc' \notin {"claim", "smtp"}
    BY <1>1 DEF MarkSent
  <2>3. /\ IsFiniteSet(SentToday \cup {held})
        /\ Cardinality(SentToday \cup {held}) <= Cardinality(SentToday) + 1
    BY FS_AddElement
  <2>4. Cardinality(SentToday') <= Cardinality(SentToday \cup {held})
    BY <2>1, <2>3, FS_Subset
  <2>5. Cardinality(SentToday') \in Nat /\ Cardinality(SentToday \cup {held}) \in Nat
    BY <2>1, <2>3, FS_Subset, FS_CardinalityType
  <2> QED  BY <2>2, <2>3, <2>4, <2>5 DEF CapInv
<1>2. CASE ~MarkSent
  <2>1. Cardinality(SentToday') <= Cardinality(SentToday) /\ Cardinality(SentToday') \in Nat
    BY <1>2, SentTodayShrinks, FS_Subset, FS_CardinalityType
  <2>2. pc' \in {"claim", "smtp"} => Cardinality(SentToday) < DailyCap
    <3>1. CASE TickCap
      BY <3>1 DEF TickCap, UnderDailyCap
    <3>2. CASE pc' \in {"claim", "smtp"} => pc \in {"claim", "smtp"}
      BY <3>2 DEF CapInv
    <3>3. CASE Tick /\ ~TickCap
      BY <3>2, <3>3
         DEF Tick, TickSettings, TickInterval, ClaimNothing, Claim, SmtpFinish, MarkSent,
             MarkContact, MarkConfigError, Pause, MarkItemError, MarkFails
    <3>4. CASE Queueing \/ Routes \/ UNCHANGED vars
      BY <3>2, <3>4
         DEF Queueing, QueueStart, QueueNext, QueueInsert, QueueAbort, Routes, Cancel, Retry,
             ToggleSender, AddContact, DeleteContact, SetContactSent, vars, tickVars
    <3>5. CASE Process
      BY <3>2, <3>5 DEF Process, Stop, Exit, Crash, Start, Advance, tickVars
    <3> QED  BY <3>1, <3>3, <3>4, <3>5 DEF Next
  <2> QED  BY <2>1, <2>2 DEF CapInv
<1> QED  BY <1>1, <1>2

\* The rows that say they were sent today never exceed the cap.
THEOREM CapHolds == Spec => []SentTodayUnderCap
<1>1. Init => CapInv
  <2> SUFFICES ASSUME Init PROVE CapInv
    OBVIOUS
  <2>1. SentToday = {}
    BY DEF Init, SentToday, WithStatus
  <2> QED  BY <2>1, FS_EmptySet, ConstantsAssumption DEF CapInv, Init
<1>2. TypeOK /\ SegmentInv /\ CapInv /\ [Next]_vars => CapInv'
  BY CapNext
<1>3. CapInv => SentTodayUnderCap
  BY DEF CapInv, SentTodayUnderCap
<1> QED  BY Sane, <1>1, <1>2, <1>3, PTL DEF Spec

-----------------------------------------------------------------------------
(* Closed rows.                                                            *)

\* A sent, failed or cancelled row outside the tick's hands is written by
\* the cancel and retry routes only.
THEOREM ClosedRowsStay == Spec => ClosedRowsRest
<1>1. TypeOK /\ SegmentInv /\ [Next]_vars => [ClosedRowRests]_vars
  <2> SUFFICES ASSUME TypeOK, SegmentInv, Next, NEW r \in RowIds, r # held,
                      status[r] \in {"sent", "failed", "cancelled"}
               PROVE  status'[r] = status[r] \/ Cancel(r) \/ Retry(r)
    BY DEF ClosedRowRests
  <2> USE DEF outbox, rowVars, tickVars, historyVars
  <2>1. CASE Queueing
    <3>1. ASSUME NEW i \in RowIds, QueueInsert(i) PROVE status'[r] = status[r]
      BY <3>1 DEF QueueInsert, NewRow, IsNextId, TypeOK
    <3> QED  BY <2>1, <3>1 DEF Queueing, QueueStart, QueueNext, QueueAbort
  <2>2. CASE Tick
    <3>1. ASSUME NEW i \in RowIds, Claim(i) PROVE status'[r] = status[r]
      BY <3>1 DEF Claim, IsOldestQueued, TypeOK
    <3>2. CASE MarkSent \/ MarkConfigError \/ MarkItemError
      BY <3>2 DEF MarkSent, MarkConfigError, MarkItemError, TypeOK
    <3> QED  BY <2>2, <3>1, <3>2
             DEF Tick, TickSettings, TickInterval, TickCap, ClaimNothing, SmtpFinish,
                 MarkContact, Pause, MarkFails
  <2>3. CASE Routes
    <3>1. ASSUME NEW i \in RowIds, i # r, Cancel(i) \/ Retry(i) PROVE status'[r] = status[r]
      BY <3>1 DEF Cancel, Retry, TypeOK
    <3> QED  BY <2>3, <3>1
             DEF Routes, ToggleSender, AddContact, DeleteContact, SetContactSent
  <2>4. CASE Process
    BY <2>4 DEF Process, Stop, Exit, Crash, Start, Requeued, Advance
  <2> QED  BY <2>1, <2>2, <2>3, <2>4 DEF Next
<1> QED  BY Sane, <1>1, PTL DEF Spec, ClosedRowsRest
=============================================================================
