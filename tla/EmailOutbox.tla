----------------------------- MODULE EmailOutbox -----------------------------
(***************************************************************************)
(* The e-mail outbox and its throttled sender: the email_outbox table      *)
(* (app/database.py), the single sender loop (app/email_sender.py), the    *)
(* batch that queues mails (app/email_queue.py) and the routes of          *)
(* app/main.py that cancel, retry, pause and resume.                       *)
(*                                                                         *)
(* Who runs where decides the interleavings.  The sender loop and the      *)
(* queueing batch run on the one event loop and give it up only at an      *)
(* await (SMTP runs in a worker thread), so neither can enter the other's  *)
(* synchronous segment; the `def` routes run in threads and may take a     *)
(* step between any two database transactions of either.                   *)
(*                                                                         *)
(* Time is what the gates tell apart: the hour of the day, whether a row   *)
(* was sent today, and its age, saturated at Interval.                     *)
(***************************************************************************)
EXTENDS Integers, FiniteSets

CONSTANTS
    Addresses,    \* (user, address) pairs: what the dedupe of a batch compares
    NoAddress,    \* the address of a row or batch that does not exist
    MaxRows,      \* bound: rows ever inserted
    MaxBatch,     \* bound: contact ids in one queueing request
    MaxEvents,    \* bound: route calls, failures, stops and crashes together
    DayLength,    \* hours of a day
    StartHour, EndHour,  \* email_active_start_hour, email_active_end_hour
    Interval,     \* email_send_interval_minutes, in hours of the model
    DailyCap      \* email_daily_cap; 0 or less is no cap

ASSUME ConstantsAssumption ==
    /\ NoAddress \notin Addresses
    /\ {MaxRows, MaxBatch, MaxEvents} \subseteq Nat
    /\ DayLength \in Nat \ {0}
    /\ StartHour \in 0..(DayLength - 1) /\ EndHour \in 0..(DayLength - 1)
    /\ Interval \in Nat \ {0}
    /\ DailyCap \in Int

RowIds == 1..MaxRows        \* SERIAL ids; scheduled_at grows with the id
NoRow  == 0
MaxAttempts == 3

Status   == {"none", "queued", "sending", "sent", "failed", "cancelled"}
Active   == {"queued", "sending"}
Outcomes == {"ok", "auth", "lost", "refused", "render"}

\* Contacts: "unset" is a contact whose sent flag a user has taken back.
ContactStates == {"absent", "fresh", "sent", "unset"}

VARIABLES
    \* the columns of email_outbox, each a function of the row id
    status, attempts,
    addr,         \* the (user, address) the mail goes to
    linked,       \* contact_id is not NULL
    age, today,   \* sent_at: hours since (saturated), and whether it is today
    contacts,     \* Addresses -> ContactStates
    enabled,      \* the setting email_sender_enabled
    hour,         \* hour of the day
    proc,         \* "up", "stopping" or "down": the server process
    pc,           \* where the sender loop stands
    held,         \* the row the current tick claimed
    smtp,         \* the SMTP thread: "idle", "running" or its outcome
    batch,        \* the queueing request the event loop is executing
    events,       \* what users, servers and the machine have done so far
    copies,       \* history: how often the server accepted a row's mail
    puts,         \* history: how often a row was put in the queue
    touched,      \* history: rows a cancel or a retry has written
    unmarked      \* history: sent rows whose tick died before the contact

tickVars    == <<pc, held, smtp>>
historyVars == <<copies, puts, touched, unmarked>>
rowVars     == <<addr, linked, age, today>>
outbox      == <<status, attempts, rowVars>>
vars == <<outbox, contacts, enabled, hour, proc, tickVars, batch, events,
          historyVars>>

AnyAddress == Addresses \cup {NoAddress}

Batch == [at: {"idle", "next", "insert", "fkerror"}, left: 0..MaxBatch,
          already: SUBSET AnyAddress, skip: BOOLEAN, addr: AnyAddress]

NoBatch == [at |-> "idle", left |-> 0, already |-> {}, skip |-> FALSE,
            addr |-> NoAddress]

TypeOK ==
    /\ status \in [RowIds -> Status] /\ attempts \in [RowIds -> Nat]
    /\ addr \in [RowIds -> AnyAddress] /\ linked \in [RowIds -> BOOLEAN]
    /\ age \in [RowIds -> 0..Interval] /\ today \in [RowIds -> BOOLEAN]
    /\ contacts \in [Addresses -> ContactStates]
    /\ enabled \in BOOLEAN
    /\ hour \in 0..(DayLength - 1)
    /\ proc \in {"up", "stopping", "down"}
    /\ pc \in {"off", "sleep", "interval", "cap", "claim", "smtp", "pause", "contact"}
    /\ held \in RowIds \cup {NoRow}
    /\ smtp \in {"idle", "running"} \cup Outcomes
    /\ batch \in Batch /\ (batch.at # "idle" => batch.left # 0)
    /\ events \in Nat
    /\ copies \in [RowIds -> Nat] /\ puts \in [RowIds -> Nat]
    /\ touched \subseteq RowIds /\ unmarked \subseteq RowIds

WithStatus(s) == {r \in RowIds : status[r] = s}

\* One more event of the environment, within the bound.
Event == events < MaxEvents /\ events' = events + 1

\* The event loop is free: neither a tick nor a batch is inside a
\* synchronous segment.
LoopFree == pc \in {"sleep", "smtp"} /\ batch.at = "idle"

-----------------------------------------------------------------------------
(* The gates of sender_tick.                                               *)

WithinActiveHours(h) ==
    \/ StartHour = EndHour
    \/ StartHour < EndHour /\ StartHour <= h /\ h < EndHour
    \/ StartHour > EndHour /\ (StartHour <= h \/ h < EndHour)  \* overnight

SentToday == {r \in WithStatus("sent") : today[r]}

\* A gate that takes "nothing sent yet" for "too early".
IntervalElapsedNeedsOne ==
    WithStatus("sent") # {} /\ \A r \in WithStatus("sent") : age[r] >= Interval

\* last_sent_email_at is MAX(sent_at) over the rows that say 'sent' now.
IntervalElapsed == \A r \in WithStatus("sent") : age[r] >= Interval

\* The cap compared with <= instead of <.
UnderDailyCapOffByOne(n) == DailyCap <= 0 \/ n <= DailyCap
UnderDailyCap(n) == DailyCap <= 0 \/ n < DailyCap

\* smtplib.SMTPException is an OSError, so the first except clause takes
\* every failure of the conversation; only what build_message raises (or a
\* bad port) reaches the per-item clause.
IsConfigError(outcome) == outcome \in {"auth", "lost", "refused"}

-----------------------------------------------------------------------------
(* Queueing: queue_emails_for_contacts, on the event loop.                 *)

ActiveAddresses ==
    {addr[r] : r \in {i \in RowIds : status[i] \in Active}}

\* The template exists (otherwise nothing changes) and the addresses with
\* an active row are read once for the whole batch.
QueueStart(n, skip) ==
    /\ proc = "up" /\ LoopFree
    /\ batch' = [at |-> "next", left |-> n, already |-> ActiveAddresses,
                 skip |-> skip, addr |-> NoAddress]
    /\ UNCHANGED <<outbox, contacts, enabled, hour, proc, tickVars, events, historyVars>>

\* A batch that never notices its end.
RestEndless(b) ==
    [at |-> "next", left |-> b.left - 1, already |-> b.already,
     skip |-> b.skip, addr |-> NoAddress]

\* The batch with one contact id less.
Rest(b) ==
    IF b.left = 1 THEN NoBatch
    ELSE [at |-> "next", left |-> b.left - 1, already |-> b.already,
          skip |-> b.skip, addr |-> NoAddress]

SkippedByBatch(a) ==
    \/ contacts[a] = "absent"
    \/ a \in batch.already
    \/ batch.skip /\ contacts[a] = "sent"

QueueNext(a) ==
    /\ batch.at = "next"
    /\ batch' = IF SkippedByBatch(a) THEN Rest(batch)
                ELSE [at |-> "insert", left |-> batch.left, already |-> batch.already,
                      skip |-> batch.skip, addr |-> a]
    /\ UNCHANGED <<outbox, contacts, enabled, hour, proc, tickVars, events, historyVars>>

\* enqueue_email: the INSERT with its column defaults.
NewRow(r, a) ==
    /\ status' = [status EXCEPT ![r] = "queued"]
    /\ addr' = [addr EXCEPT ![r] = a]
    /\ linked' = [linked EXCEPT ![r] = TRUE]
    /\ puts' = [puts EXCEPT ![r] = 1]
    /\ UNCHANGED <<attempts, age, today>>

IsNextId(r) == /\ status[r] = "none"
               /\ \A i \in RowIds : status[i] = "none" => r <= i

\* Without already.add(email).
QueueInsertForgetful(r) ==
    /\ batch.at = "insert" /\ IsNextId(r)
    /\ NewRow(r, batch.addr)
    /\ batch' = Rest(batch)
    /\ UNCHANGED <<contacts, enabled, hour, proc, tickVars, events,
                   copies, touched, unmarked>>

QueueInsert(r) ==
    /\ batch.at = "insert" /\ IsNextId(r)
    /\ NewRow(r, batch.addr)
    /\ batch' = Rest([batch EXCEPT !.already = @ \cup {batch.addr}])
    /\ UNCHANGED <<contacts, enabled, hour, proc, tickVars, events,
                   copies, touched, unmarked>>

\* The contact was deleted after get_contact read it: the foreign key
\* refuses the row and the exception ends the batch, rows before it stay.
\* (Also how a batch ends that has used up MaxRows.)
QueueAbort ==
    /\ \/ batch.at = "fkerror"
       \/ batch.at = "insert" /\ WithStatus("none") = {}
    /\ batch' = NoBatch
    /\ UNCHANGED <<outbox, contacts, enabled, hour, proc, tickVars, events, historyVars>>

-----------------------------------------------------------------------------
(* One tick of the sender.                                                 *)

TickSettings ==
    /\ proc = "up" /\ pc = "sleep" /\ LoopFree
    /\ enabled /\ WithinActiveHours(hour)
    /\ pc' = "interval"
    /\ UNCHANGED <<outbox, contacts, enabled, hour, proc, held, smtp, batch,
                   events, historyVars>>

TickInterval ==
    /\ pc = "interval"
    /\ pc' = IF IntervalElapsed THEN "cap" ELSE "sleep"
    /\ UNCHANGED <<outbox, contacts, enabled, hour, proc, held, smtp, batch,
                   events, historyVars>>

TickCap ==
    /\ pc = "cap"
    /\ pc' = IF UnderDailyCap(Cardinality(SentToday)) THEN "claim" ELSE "sleep"
    /\ UNCHANGED <<outbox, contacts, enabled, hour, proc, held, smtp, batch,
                   events, historyVars>>

IsOldestQueued(r) == /\ status[r] = "queued"
                     /\ \A i \in WithStatus("queued") : r <= i

\* A claim that reads the oldest row and leaves its status alone.
ClaimWithoutMarking(r) ==
    /\ pc = "claim" /\ IsOldestQueued(r)
    /\ pc' = "smtp" /\ held' = r /\ smtp' = "running"
    /\ UNCHANGED <<outbox, contacts, enabled, hour, proc, batch, events, historyVars>>

\* claim_next_queued_email, then send_smtp starts in a thread.
Claim(r) ==
    /\ pc = "claim" /\ IsOldestQueued(r)
    /\ status' = [status EXCEPT ![r] = "sending"]
    /\ pc' = "smtp" /\ held' = r /\ smtp' = "running"
    /\ UNCHANGED <<attempts, rowVars, contacts, enabled, hour, proc, batch, events,
                   historyVars>>

ClaimNothing ==
    /\ pc = "claim" /\ WithStatus("queued") = {}
    /\ pc' = "sleep"
    /\ UNCHANGED <<outbox, contacts, enabled, hour, proc, held, smtp, batch,
                   events, historyVars>>

\* The thread ends.  "lost" is a connection that breaks: before or after
\* the server took the mail, which the client cannot tell.
SmtpFinish(outcome, accepted) ==
    /\ smtp = "running"
    /\ outcome = "ok" => accepted
    /\ outcome \in {"auth", "refused", "render"} => ~accepted
    /\ IF outcome = "ok" THEN UNCHANGED events ELSE Event
    /\ smtp' = outcome
    /\ copies' = IF accepted THEN [copies EXCEPT ![held] = @ + 1] ELSE copies
    /\ UNCHANGED <<outbox, contacts, enabled, hour, proc, pc, held, batch,
                   puts, touched, unmarked>>

\* Putting row r (back) in the queue, for the history.
PutsAfter(rows) ==
    [r \in RowIds |-> IF r \in rows /\ status[r] # "queued"
                      THEN puts[r] + 1 ELSE puts[r]]

\* mark_email_sent: an UPDATE by id, whatever the status has become.
MarkSent ==
    /\ pc = "smtp" /\ smtp = "ok" /\ LoopFree
    /\ status' = [status EXCEPT ![held] = "sent"]
    /\ age' = [age EXCEPT ![held] = 0] /\ today' = [today EXCEPT ![held] = TRUE]
    /\ pc' = IF linked[held] THEN "contact" ELSE "sleep"
    /\ held' = IF linked[held] THEN held ELSE NoRow
    /\ smtp' = "idle"
    /\ UNCHANGED <<attempts, addr, linked, contacts, enabled, hour, proc, batch,
                   events, historyVars>>

\* Without mark_contact_sent.
MarkContactForgotten ==
    /\ pc = "contact"
    /\ pc' = "sleep" /\ held' = NoRow
    /\ UNCHANGED <<outbox, contacts, enabled, hour, proc, smtp, batch, events,
                   historyVars>>

\* mark_contact_sent: no row when the contact has been deleted meanwhile; an
\* exception is swallowed.
MarkContact ==
    /\ pc = "contact"
    /\ \/ /\ contacts' = IF linked[held]
                         THEN [contacts EXCEPT ![addr[held]] = "sent"]
                         ELSE contacts
          /\ UNCHANGED <<unmarked, events>>
       \/ unmarked' = unmarked \cup {held} /\ Event /\ UNCHANGED contacts
    /\ pc' = "sleep" /\ held' = NoRow
    /\ UNCHANGED <<outbox, enabled, hour, proc, smtp, batch,
                   copies, puts, touched>>

\* mark_email_failed with requeue, before the pause.
MarkConfigError ==
    /\ pc = "smtp" /\ IsConfigError(smtp) /\ LoopFree
    /\ status' = [status EXCEPT ![held] = "queued"]
    /\ attempts' = [attempts EXCEPT ![held] = @ + 1]
    /\ puts' = PutsAfter({held})
    /\ pc' = "pause"
    /\ UNCHANGED <<rowVars, contacts, enabled, hour, proc, held, smtp, batch, events,
                   copies, touched, unmarked>>

\* update_settings({"email_sender_enabled": "0"}); the loop survives its failure.
Pause ==
    /\ pc = "pause"
    /\ \/ enabled' = FALSE /\ UNCHANGED events
       \/ Event /\ UNCHANGED enabled
    /\ pc' = "sleep" /\ held' = NoRow /\ smtp' = "idle"
    /\ UNCHANGED <<outbox, contacts, hour, proc, batch, historyVars>>

\* mark_email_failed for one bad mail: queued again below MaxAttempts.
MarkItemError ==
    /\ pc = "smtp" /\ smtp = "render" /\ LoopFree
    /\ LET requeue == attempts[held] + 1 < MaxAttempts
       IN  /\ status' = [status EXCEPT ![held] = IF requeue THEN "queued" ELSE "failed"]
           /\ puts' = IF requeue THEN PutsAfter({held}) ELSE puts
    /\ attempts' = [attempts EXCEPT ![held] = @ + 1]
    /\ pc' = "sleep" /\ held' = NoRow /\ smtp' = "idle"
    /\ UNCHANGED <<rowVars, contacts, enabled, hour, proc, batch, events,
                   copies, touched, unmarked>>

\* The database refuses the update after the SMTP call: _sender_loop logs
\* the exception and sleeps; the row stays as the claim left it.
MarkFails ==
    /\ Event
    /\ pc = "smtp" /\ smtp \in Outcomes /\ LoopFree
    /\ pc' = "sleep" /\ held' = NoRow /\ smtp' = "idle"
    /\ UNCHANGED <<outbox, contacts, enabled, hour, proc, batch, historyVars>>

-----------------------------------------------------------------------------
(* The routes: threads, one transaction each.  update_outbox_status names  *)
(* the row and the new status, and asks nothing about the old one.         *)

Cancel(r) ==
    /\ Event
    /\ proc = "up" /\ status[r] # "none"
    /\ status' = [status EXCEPT ![r] = "cancelled"]
    /\ touched' = touched \cup {r}
    /\ UNCHANGED <<attempts, rowVars, contacts, enabled, hour, proc, tickVars, batch,
                   copies, puts, unmarked>>

Retry(r) ==
    /\ Event
    /\ proc = "up" /\ status[r] # "none"
    /\ status' = [status EXCEPT ![r] = "queued"]
    /\ puts' = PutsAfter({r})
    /\ touched' = touched \cup {r}
    /\ UNCHANGED <<attempts, rowVars, contacts, enabled, hour, proc, tickVars, batch,
                   copies, unmarked>>

ToggleSender ==
    /\ Event
    /\ proc = "up"
    /\ enabled' = ~enabled
    /\ UNCHANGED <<outbox, contacts, hour, proc, tickVars, batch, historyVars>>

AddContact(a) ==
    /\ Event
    /\ proc = "up" /\ contacts[a] = "absent"
    /\ contacts' = [contacts EXCEPT ![a] = "fresh"]
    /\ UNCHANGED <<outbox, enabled, hour, proc, tickVars, batch, historyVars>>

\* ON DELETE SET NULL unlinks the rows; a batch that has read the contact
\* and not yet inserted its row will meet the foreign key.
DeleteContact(a) ==
    /\ Event
    /\ proc = "up" /\ contacts[a] # "absent"
    /\ contacts' = [contacts EXCEPT ![a] = "absent"]
    /\ linked' = [r \in RowIds |-> linked[r] /\ addr[r] # a]
    /\ batch' = IF batch.at = "insert" /\ batch.addr = a
                THEN [batch EXCEPT !.at = "fkerror"] ELSE batch
    /\ UNCHANGED <<status, attempts, addr, age, today, enabled, hour, proc, tickVars,
                   historyVars>>

SetContactSent(a, sent) ==
    /\ Event
    /\ proc = "up" /\ contacts[a] # "absent"
    /\ contacts' = [contacts EXCEPT ![a] = IF sent THEN "sent" ELSE "unset"]
    /\ UNCHANGED <<outbox, enabled, hour, proc, tickVars, batch, historyVars>>

-----------------------------------------------------------------------------
(* The process, and time.                                                  *)

\* A tick that dies at the contact step leaves its row 'sent', the contact not.
UnmarkedByDeath == IF pc = "contact" THEN unmarked \cup {held} ELSE unmarked

\* stop_email_sender cancels the task at an await; an SMTP thread that runs
\* is not interrupted, and its result is not looked at.
Stop ==
    /\ Event
    /\ proc = "up" /\ LoopFree
    /\ proc' = "stopping" /\ pc' = "off"
    /\ UNCHANGED <<outbox, contacts, enabled, hour, held, smtp, batch, historyVars>>

Exit ==
    /\ proc = "stopping" /\ smtp # "running"
    /\ proc' = "down" /\ held' = NoRow /\ smtp' = "idle"
    /\ UNCHANGED <<outbox, contacts, enabled, hour, pc, batch, events, historyVars>>

Crash ==
    /\ proc # "down"
    /\ Event
    /\ proc' = "down" /\ pc' = "off" /\ held' = NoRow /\ smtp' = "idle"
    /\ batch' = NoBatch
    /\ unmarked' = UnmarkedByDeath
    /\ UNCHANGED <<outbox, contacts, enabled, hour, copies, puts, touched>>

\* requeue_stale_sending_emails as it would be without its WHERE.
RequeuedAll == [r \in RowIds |-> IF status[r] # "none" THEN "queued" ELSE status[r]]
Requeued    == [r \in RowIds |-> IF status[r] = "sending" THEN "queued" ELSE status[r]]

\* start_email_sender: recovery is best effort, the loop starts anyway.
Start ==
    /\ proc = "down"
    /\ proc' = "up" /\ pc' = "sleep"
    /\ \/ /\ status' = Requeued /\ puts' = PutsAfter(WithStatus("sending"))
          /\ UNCHANGED events
       \/ Event /\ UNCHANGED <<status, puts>>
    /\ UNCHANGED <<attempts, rowVars, contacts, enabled, hour, held, smtp, batch,
                   copies, touched, unmarked>>

\* Time does not move inside a synchronous segment of the event loop.
Advance ==
    /\ pc \in {"off", "sleep", "smtp"} /\ batch.at = "idle"
    /\ hour' = (hour + 1) % DayLength
    /\ age' = [r \in RowIds |-> IF age[r] < Interval THEN age[r] + 1 ELSE age[r]]
    /\ today' = [r \in RowIds |-> today[r] /\ hour' # 0]
    /\ UNCHANGED <<status, attempts, addr, linked, contacts, enabled, proc, tickVars,
                   batch, events, copies, puts, touched, unmarked>>

-----------------------------------------------------------------------------
Init ==
    /\ status = [r \in RowIds |-> "none"] /\ attempts = [r \in RowIds |-> 0]
    /\ addr = [r \in RowIds |-> NoAddress] /\ linked = [r \in RowIds |-> FALSE]
    /\ age = [r \in RowIds |-> Interval] /\ today = [r \in RowIds |-> FALSE]
    /\ batch = NoBatch
    /\ contacts = [a \in Addresses |-> "fresh"]
    /\ enabled = TRUE
    /\ hour = 0
    /\ proc = "up" /\ pc = "sleep" /\ held = NoRow /\ smtp = "idle"
    /\ events = 0
    /\ copies = [r \in RowIds |-> 0] /\ puts = [r \in RowIds |-> 0]
    /\ touched = {} /\ unmarked = {}

Queueing == \/ \E n \in 1..MaxBatch, skip \in BOOLEAN : QueueStart(n, skip)
            \/ \E a \in Addresses : QueueNext(a)
            \/ \E r \in RowIds : QueueInsert(r)
            \/ QueueAbort

Tick == \/ TickSettings \/ TickInterval \/ TickCap
        \/ \E r \in RowIds : Claim(r)
        \/ ClaimNothing
        \/ \E outcome \in Outcomes, accepted \in BOOLEAN : SmtpFinish(outcome, accepted)
        \/ MarkSent \/ MarkContact \/ MarkConfigError \/ Pause \/ MarkItemError
        \/ MarkFails

Routes == \/ \E r \in RowIds : Cancel(r) \/ Retry(r)
          \/ ToggleSender
          \/ \E a \in Addresses : AddContact(a) \/ DeleteContact(a)
          \/ \E a \in Addresses, sent \in BOOLEAN : SetContactSent(a, sent)

Process == Stop \/ Exit \/ Crash \/ Start \/ Advance

Next == Queueing \/ Tick \/ Routes \/ Process

Spec == Init /\ [][Next]_vars

(***************************************************************************)
(* Fairness.  The event loop runs every ready task, so a segment that has  *)
(* begun ends (weak fairness) and a tick that waits for the loop gets it   *)
(* although requests keep coming (strong fairness).  The loop ticks every  *)
(* 60 s, far more often than the active window opens and closes: strong    *)
(* fairness of TickSettings.  SMTP calls end: send_smtp sets a timeout.    *)
(* Time passes however busy the loop is: strong fairness of Advance.       *)
(* Nothing is assumed of the routes, of crashes or of events.            *)
(***************************************************************************)
Fairness ==
    /\ WF_vars((\E a \in Addresses : QueueNext(a)) \/ (\E r \in RowIds : QueueInsert(r)) \/ QueueAbort)
    /\ SF_vars(Advance)
    /\ SF_vars(TickSettings)
    /\ WF_vars(TickInterval) /\ WF_vars(TickCap)
    /\ WF_vars((\E r \in RowIds : Claim(r)) \/ ClaimNothing)
    /\ WF_vars(\E outcome \in Outcomes, accepted \in BOOLEAN : SmtpFinish(outcome, accepted))
    /\ SF_vars(MarkSent \/ MarkConfigError \/ MarkItemError \/ MarkFails)
    /\ WF_vars(MarkContact) /\ WF_vars(Pause)

FairSpec == Spec /\ Fairness

-----------------------------------------------------------------------------
(* Properties.                                                             *)

\* At-least-once, never more: the server accepts a row's mail at most once
\* for each time the row entered the queue, across crashes, graceful stops
\* that leave an SMTP thread running, and retries of a row that is being
\* sent (claim_next_queued_email, requeue_stale_sending_emails, the routes).
CopiesWithinPuts == \A r \in RowIds : copies[r] <= puts[r]

\* The rows that say they were sent today never exceed email_daily_cap,
\* although the cap is read before an await and the day may turn meanwhile.
SentTodayUnderCap == DailyCap > 0 => Cardinality(SentToday) <= DailyCap

\* Two active rows for one address exist only where a cancel or retry route
\* wrote one of them: neither a batch with repeated contacts, nor a re-queue
\* after a failure or a restart, makes a second one.
DedupePerAddress ==
    \A r, s \in RowIds :
        (/\ r # s /\ addr[r] = addr[s]
         /\ status[r] \in Active /\ status[s] \in Active)
        => r \in touched \/ s \in touched

\* A contact whose row says 'sent' is marked sent (or a user took the mark
\* back), except while the tick is about to mark it and where the process
\* or the database failed between the two updates.
SentContactMarked ==
    \A r \in WithStatus("sent") :
        (linked[r] /\ contacts[addr[r]] = "fresh")
        => r \in unmarked \/ (pc = "contact" /\ held = r)

ClosedRowRests ==
    \A r \in RowIds :
        (r # held /\ status[r] \in {"sent", "failed", "cancelled"})
        => \/ status'[r] = status[r]
           \/ Cancel(r) \/ Retry(r)

\* A row that is sent, failed or cancelled, and not in the hands of a tick,
\* changes its status only through the cancel or retry route: no recovery
\* and no claim revives it.
ClosedRowsRest == [][ClosedRowRests]_vars

\* A queued mail is eventually claimed (or cancelled), or the sender is
\* paused or the process gone: gates, batches, failing neighbours and the
\* ends of the day do not starve it.
QueuedMoves ==
    \A r \in RowIds :
        status[r] = "queued"
        ~> (status[r] # "queued" \/ ~enabled \/ proc # "up")

(* What the documents say and the code does not do.                        *)

\* Design 2026-06-08, section 7: a refused recipient fails its own row; only
\* a configuration error pauses the sender.
RefusalDoesNotPause == pc = "pause" => smtp # "refused"
=============================================================================
