------------------------------ MODULE JobEvents ------------------------------
(***************************************************************************)
(* How a page follows a job: the events of app/background_jobs.py, the     *)
(* stream GET /api/jobs/events and the polls of frontend/src/js/jobs.      *)
(*                                                                         *)
(* One job and one page.  The event loop writes the row and publishes it   *)
(* in one step of its own; a request to cancel runs in a thread of the     *)
(* pool and publishes what it read whenever the thread gets there.  An     *)
(* event is the status of the row it carries.                              *)
(***************************************************************************)
EXTENDS Naturals, Sequences

CONSTANTS QueueSize,    \* maxsize of a subscriber's queue, 64 in the code
          MaxOnWire,    \* what the connection holds before the generator waits
          MaxUpdates,   \* bound: progress updates and requests to cancel
          MaxBreaks     \* bound: connections that break

VARIABLES row,         \* the status of the job: "none", "active" or "ended"
          updates,     \* progress updates and requests to cancel so far
          canceller,   \* the thread of the request: its step, and the row it read
          stream,      \* the generator: "down", "headers" or "live"
          subscribed,  \* the queue is in _job_event_subscribers
          queue, wire, \* events in the queue and on their way to the page
          breaks,
          created,     \* the answer that creates the job: "none", "sent" or "taken"
          tracker,     \* backgroundJobTrackers: "none", or the status shown
          timer,       \* the tracker polls every two seconds
          connected,   \* jobsSseConnected
          poll,        \* "none", "asked", or the answer on its way
          missed       \* ghost: why the stream cannot tell the end, or "no"

server == <<row, updates, canceller>>
link == <<stream, subscribed, queue, wire, breaks>>
page == <<created, tracker, timer, connected, poll>>
eventVars == <<server, link, page, missed>>

Init == /\ row = "none" /\ updates = 0 /\ canceller = [at |-> "idle", read |-> "none"]
        /\ stream = "down" /\ subscribed = FALSE /\ queue = <<>> /\ wire = <<>> /\ breaks = 0
        /\ created = "none" /\ tracker = "none" /\ timer = FALSE /\ connected = FALSE
        /\ poll = "none" /\ missed = "no"

-----------------------------------------------------------------------------
(* The server. *)

\* put_nowait for each subscriber: one whose queue is full is dropped, and its
\* stream is not told.
Put(status) ==
    IF subscribed /\ Len(queue) = QueueSize
    THEN subscribed' = FALSE /\ missed' = "full" /\ UNCHANGED queue
    ELSE /\ queue' = IF subscribed THEN Append(queue, status) ELSE queue
         /\ missed' = IF subscribed /\ status = "active" /\ row = "ended"
                      THEN "overtaken" ELSE missed
         /\ UNCHANGED subscribed

\* As if the row were read before it is written.
PublishEarly(status) == row' = status /\ Put(row)

\* _update_job and _publish_job_event.
Publish(status) == row' = status /\ Put(status)

Create == /\ row = "none" /\ created = "none"
          /\ Publish("active") /\ created' = "sent"
          /\ UNCHANGED <<updates, canceller, stream, wire, breaks,
                         tracker, timer, connected, poll>>

Progress == /\ row = "active" /\ updates < MaxUpdates
            /\ Publish("active") /\ updates' = updates + 1
            /\ UNCHANGED <<canceller, stream, wire, breaks, page>>

End == /\ row = "active"
       /\ Publish("ended")
       /\ UNCHANGED <<updates, canceller, stream, wire, breaks, page>>

\* POST /api/jobs/{id}/cancel: the row must be active when it is first read;
\* only its message is written.
AskCancel == /\ canceller.at = "idle" /\ row = "active" /\ updates < MaxUpdates
             /\ canceller' = [at |-> "read", read |-> "none"]
             /\ updates' = updates + 1
             /\ UNCHANGED <<row, link, page, missed>>

ReadToCancel == /\ canceller.at = "read"
                /\ canceller' = [at |-> "put", read |-> row]
                /\ UNCHANGED <<row, updates, link, page, missed>>

PutCancelling == /\ canceller.at = "put"
                 /\ Put(canceller.read)
                 /\ canceller' = [at |-> "idle", read |-> "none"]
                 /\ UNCHANGED <<row, updates, stream, wire, breaks, page>>

-----------------------------------------------------------------------------
(* The stream. *)

\* The headers come before the generator runs: onopen stops the polls.
Connect == /\ stream = "down"
           /\ stream' = "headers" /\ connected' = TRUE /\ timer' = FALSE
           /\ UNCHANGED <<server, subscribed, queue, wire, breaks, created, tracker, poll, missed>>

\* subscribe_job_events, then the snapshot of the active jobs only.
Subscribe == /\ stream = "headers"
             /\ stream' = "live" /\ subscribed' = TRUE
             /\ wire' = IF row = "active" THEN <<row>> ELSE <<>>
             /\ missed' = IF row = "ended" THEN "between" ELSE missed
             /\ UNCHANGED <<server, queue, breaks, page>>

Send == /\ stream = "live" /\ queue # <<>> /\ Len(wire) < MaxOnWire
        /\ wire' = Append(wire, Head(queue)) /\ queue' = Tail(queue)
        /\ UNCHANGED <<server, stream, subscribed, breaks, page, missed>>

\* As if onerror left the polling to the next connection.
BreakQuietly == /\ stream # "down" /\ breaks < MaxBreaks
                /\ breaks' = breaks + 1
                /\ stream' = "down" /\ subscribed' = FALSE
                /\ queue' = <<>> /\ wire' = <<>>
                /\ connected' = FALSE /\ missed' = "no"
                /\ UNCHANGED <<server, created, tracker, timer, poll>>

\* The connection breaks with all that is on it; onerror polls what is tracked.
Break == /\ stream # "down" /\ breaks < MaxBreaks
         /\ breaks' = breaks + 1
         /\ stream' = "down" /\ subscribed' = FALSE /\ queue' = <<>> /\ wire' = <<>>
         /\ connected' = FALSE /\ timer' = (tracker # "none")
         /\ missed' = "no"
         /\ UNCHANGED <<server, created, tracker, poll>>

-----------------------------------------------------------------------------
(* The page. *)

\* handleJobEvent: an active job is tracked, with no poll of its own; the end of
\* one that is tracked is told and its tracker deleted.
Handle(status) ==
    IF status = "active"
    THEN tracker' = "active" /\ UNCHANGED timer
    ELSE tracker' = "none" /\ timer' = FALSE

Receive == /\ wire # <<>>
           /\ wire' = Tail(wire) /\ Handle(Head(wire))
           /\ UNCHANGED <<server, stream, subscribed, queue, breaks, created, connected,
                          poll, missed>>

\* The answer of POST /api/jobs/...: trackBackgroundJob polls once, and goes on
\* unless it is connected.
Track == /\ created = "sent" /\ poll = "none"
         /\ created' = "taken" /\ tracker' = "active"
         /\ timer' = ~connected /\ poll' = "asked"
         /\ UNCHANGED <<server, link, connected, missed>>

PollAgain == /\ timer /\ poll = "none"
             /\ poll' = "asked"
             /\ UNCHANGED <<server, link, created, tracker, timer, connected, missed>>

Answer == /\ poll = "asked"
          /\ poll' = row
          /\ UNCHANGED <<server, link, created, tracker, timer, connected, missed>>

\* The end is behind the page: its event came before the job was tracked.
EndIsPast == /\ stream = "live" /\ row = "ended"
             /\ \A k \in DOMAIN queue : queue[k] = "active"
             /\ \A k \in DOMAIN wire : wire[k] = "active"

\* pollBackgroundJob ignores a failure; when the page is connected there is no
\* next poll, and the stream may have nothing more to tell.
PollFails == /\ poll = "asked"
             /\ poll' = "none"
             /\ missed' = IF ~timer /\ EndIsPast THEN "unpolled" ELSE missed
             /\ UNCHANGED <<server, link, created, tracker, timer, connected>>

TakeAnswer == /\ poll \in {"active", "ended"}
              /\ poll' = "none"
              /\ IF poll = "ended"
                 THEN tracker' = "none" /\ timer' = FALSE
                 ELSE tracker' = (IF tracker = "none" THEN "none" ELSE poll) /\ UNCHANGED timer
              /\ UNCHANGED <<server, link, created, connected, missed>>

Server == Create \/ Progress \/ End \/ AskCancel \/ ReadToCancel \/ PutCancelling
Stream == Connect \/ Subscribe \/ Send \/ Break
Page == Receive \/ Track \/ PollAgain \/ Answer \/ PollFails \/ TakeAnswer

Next == Server \/ Stream \/ Page

-----------------------------------------------------------------------------
\* A job that has ended is not shown as running for ever, whatever the order of
\* events, answers and connections, unless an event was lost on a connection
\* that stands since: its queue was full, it began after the end, a request to
\* cancel put an older row last, or it came before the job was tracked and the
\* one poll of a new job failed.
EndIsShown == (row = "ended" /\ tracker = "active") ~> (tracker = "none" \/ missed # "no")
=============================================================================
