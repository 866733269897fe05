------------------------------ MODULE PiThreads ------------------------------
(***************************************************************************)
(* One Pi conversation thread: its row in pi_chat_threads                  *)
(* (app/pi_chat_store.py), the turns that work on it (the chat stream of   *)
(* app/main.py and the pi_agent jobs of app/background_jobs.py), the       *)
(* browsers that PUT their copy of it, and the worker threads that append  *)
(* and compress.  Each transaction is a step of its own; a worker thread   *)
(* goes on when the turn that awaits it is cancelled.                      *)
(*                                                                         *)
(* An entry of the history is a number, and the summary is the set of the  *)
(* entries it was made from.                                               *)
(***************************************************************************)
EXTENDS Integers, Sequences, FiniteSets

CONSTANTS
    Chats, Jobs,  \* turns: chat streams, numbered as they come, and jobs
    Puts,         \* requests that replace the history
    Recent,       \* MAX_RECENT_FULL_MESSAGES and MAX_LLM_HISTORY_MESSAGES
    Gap,          \* SUMMARIZE_TRIGGER_GAP
    Batch,        \* SUMMARIZE_BATCH_SIZE
    Limit,        \* MAX_STORED_MESSAGES
    MaxEntries,   \* bound: entries ever made
    MaxEvents     \* bound: PUTs, deletions, cancels, failures, restarts

ASSUME ThreadConstants ==
    /\ {Recent, Batch, Limit} \subseteq Nat \ {0}
    /\ {Gap, MaxEntries, MaxEvents} \subseteq Nat
    /\ Chats \subseteq Nat /\ Chats \cap Jobs = {} /\ Puts \cap (Chats \cup Jobs) = {}

Turns == Chats \cup Jobs
Procs == Turns \cup Puts
Entries == 1..MaxEntries
NoRow == -1

VARIABLES
    exists, history, summary, through,  \* the row
    copy,                     \* the history a browser holds
    phase,                    \* where each turn stands
    locked,                   \* the thread is in _active_pi_streams
    entries,                  \* new_entries of each turn
    pc,                       \* the next transaction of each worker
    base, seen, merged,       \* what a worker read and is about to write
    made, events,             \* entries and events so far
    saved,                    \* history: entries a turn has stored
    dirty,                    \* history: workers overtaken by a foreign write
    excused, forgiven         \* history: entries lost, or left out of the
                              \* context, by a foreign, overtaken or cut write

rowVars    == <<exists, history, summary, through>>
workerVars == <<pc, base, seen, merged>>
ghostVars  == <<saved, dirty, excused, forgiven>>
vars == <<rowVars, copy, phase, locked, entries, workerVars, made, events, ghostVars>>

\* A turn is live from the moment a route lets it in to its end; "lost" is a
\* response nobody iterates, "stuck" a job whose task never began, "broken" one
\* whose task ended on an exception and left the row as it was.
Waiting == {"new", "prepare", "stream", "persist", "compress"}
Live(t) == phase[t] \in Waiting \cup {"lost", "pending", "ensure", "stuck", "broken"}

\* The row of the job: pending or running.
ActiveJob == \E j \in Jobs : Live(j)

TypeOK ==
    /\ exists \in BOOLEAN /\ locked \in BOOLEAN
    /\ history \in Seq(Entries) /\ Len(history) <= Limit /\ copy \in Seq(Entries)
    /\ summary \subseteq Entries /\ through \in Nat
    /\ phase \in [Turns -> Waiting \cup {"none", "lost", "pending", "ensure",
                                         "stuck", "broken", "over"}]
    /\ entries \in [Turns -> Seq(Entries)]
    /\ pc \in [Procs -> {"idle", "base", "ensure", "existing", "store",
                         "check", "read", "merge"}]
    /\ base \in [Procs -> Seq(Entries)]
    /\ seen \in [Procs -> Nat \cup {NoRow}]
    /\ merged \in [Procs -> SUBSET Entries]
    /\ made \in 0..MaxEntries /\ events \in 0..MaxEvents
    /\ saved \subseteq Entries /\ dirty \subseteq Procs
    /\ excused \subseteq Entries /\ forgiven \subseteq Entries

Least(a, b) == IF a <= b THEN a ELSE b
Elems(s) == {s[i] : i \in DOMAIN s}
Event == events < MaxEvents /\ events' = events + 1

\* _thread_row_to_dict: what a reader takes for context_summary_through.
Covered == Least(through, Len(history))

\* build_llm_messages: the entries of h that are in no tier of the context;
\* what lies below th and before the recent ones is left to the summary.
Forgotten(h, th, sum) ==
    {h[i] : i \in {k \in DOMAIN h : k <= th /\ k <= Len(h) - Recent}} \ sum

\* _normalize_history keeps the newest.
Newest(h) == IF Len(h) <= Limit THEN h ELSE SubSeq(h, Len(h) - Limit + 1, Len(h))

-----------------------------------------------------------------------------
(* Workers.  A write is foreign when no live turn awaits it.               *)

Foreign(p) == p \in Puts \/ phase[p] = "over"
Cut(p)     == Len(base[p]) > Limit

Goto(p, next) == pc' = [pc EXCEPT ![p] = next]

\* The worker has ended; what it read is gone with it.
Rest(p) == /\ Goto(p, "idle")
           /\ base' = [base EXCEPT ![p] = <<>>]
           /\ seen' = [seen EXCEPT ![p] = 0]
           /\ merged' = [merged EXCEPT ![p] = {}]

\* Bookkeeping of the last write of p, which leaves h, th, sum in the row,
\* when the entries `kept` have been stored: what a foreign, overtaken or cut
\* write leaves out is excused until a write brings it back.
Account(p, h, th, sum, kept) ==
    LET missing   == kept \ Elems(h)
        uncovered == Elems(SubSeq(h, 1, Least(th, Len(h)))) \ sum
        bad       == Foreign(p) \/ p \in dirty \/ Cut(p)
    IN
    /\ dirty' = (IF Foreign(p) THEN {q \in Procs : pc[q] # "idle"} ELSE dirty) \ {p}
    /\ excused'  = IF bad THEN missing ELSE excused \cap missing
    /\ forgiven' = IF bad THEN uncovered ELSE forgiven \cap uncovered

\* append_pi_thread_history_entries reads the history to append to.
ReadBase(p) ==
    /\ pc[p] = "base"
    /\ base' = [base EXCEPT ![p] = history \o entries[p]]
    /\ Goto(p, "existing")
    /\ dirty' = dirty \ {p}
    /\ UNCHANGED <<rowVars, copy, phase, locked, entries, seen, merged, made,
                   events, saved, excused, forgiven>>

\* upsert_pi_thread reads the row once more, for its position.
ReadExisting(p) ==
    /\ pc[p] = "existing"
    /\ seen' = [seen EXCEPT ![p] = IF exists THEN Covered ELSE NoRow]
    /\ Goto(p, "store")
    /\ UNCHANGED <<rowVars, copy, phase, locked, entries, base, merged, made,
                   events, ghostVars>>

\* An append that writes only its own entries, not what it read.
StoreOwn(p) == IF p \in Turns THEN Newest(entries[p]) ELSE Newest(base[p])
NewHistory(p) == Newest(base[p])

\* The INSERT raises when the row has come into being, the UPDATE finds no row
\* when it has been deleted.  A job stores the user's message outside its try
\* clause: what the INSERT raises ends the task and leaves the row active.
Clash(p) == exists /\ seen[p] = NoRow
Store(p) ==
    /\ pc[p] = "store"
    /\ Rest(p)
    /\ LET h  == NewHistory(p)
           th == IF seen[p] = NoRow THEN 0 ELSE Least(seen[p], Len(h))
           s  == IF seen[p] = NoRow THEN {} ELSE summary
       IN  IF exists = (seen[p] # NoRow)
           THEN /\ exists' = TRUE /\ history' = h /\ through' = th /\ summary' = s
                /\ saved' = IF p \in Turns THEN saved \cup Elems(entries[p]) ELSE saved
                /\ Account(p, h, th, s, saved')
           ELSE dirty' = dirty \ {p} /\ UNCHANGED <<rowVars, saved, excused, forgiven>>
    /\ entries' = IF p \in Turns THEN [entries EXCEPT ![p] = <<>>] ELSE entries
    /\ phase' = IF Clash(p) /\ p \in Jobs /\ phase[p] = "ensure"
                THEN [phase EXCEPT ![p] = "broken"] ELSE phase
    /\ UNCHANGED <<copy, locked, made, events>>

\* should_compress_thread; the share of the window in use is not modelled.
Must(n, th)  == n > Recent + Gap /\ n - th > Recent + Gap
Might(n, th) == Must(n, th) \/ n - th > Batch

\* compress_thread_context_until_current, one round: the test,
Check(p) ==
    /\ pc[p] = "check"
    /\ \/ /\ exists /\ Might(Len(history), Covered)
          /\ Goto(p, "read") /\ UNCHANGED <<base, seen, merged>>
       \/ ~(exists /\ Must(Len(history), Covered)) /\ Rest(p)
    /\ dirty' = dirty \ {p}
    /\ UNCHANGED <<rowVars, copy, phase, locked, entries, made, events, saved,
                   excused, forgiven>>

\* next_compression_batch_end: any position, the roles are not modelled here.
Cuts(n, th) == th + 1 .. n - Recent

\* summarize_history_batch merges a batch into the summary there is.
SummarisedAnew(old, batch) == Elems(batch)
Summarised(old, batch) == old \cup Elems(batch)

\* the read of maybe_compress_thread_context and the call of the LLM,
Read(p) ==
    /\ pc[p] = "read"
    /\ \/ /\ exists /\ Might(Len(history), Covered)
          /\ \E end \in Cuts(Len(history), Covered) :
                /\ seen' = [seen EXCEPT ![p] = end]
                /\ merged' = [merged EXCEPT ![p] =
                         Summarised(summary, SubSeq(history, Covered + 1, end))]
          /\ Goto(p, "merge") /\ UNCHANGED base
       \/ /\ ~exists \/ ~Must(Len(history), Covered)
             \/ Cuts(Len(history), Covered) = {}
          /\ Rest(p)
    /\ dirty' = dirty \ {p}
    /\ UNCHANGED <<rowVars, copy, phase, locked, entries, made, events, saved,
                   excused, forgiven>>

\* and update_thread_context, which has no condition.
Merge(p) ==
    /\ pc[p] = "merge"
    /\ IF exists
       THEN /\ summary' = merged[p] /\ through' = seen[p]
            /\ Account(p, history, seen[p], merged[p], saved)
       ELSE dirty' = dirty \ {p} /\ UNCHANGED <<summary, through, excused, forgiven>>
    /\ Goto(p, "check")
    /\ seen' = [seen EXCEPT ![p] = 0] /\ merged' = [merged EXCEPT ![p] = {}]
    /\ UNCHANGED <<exists, history, copy, phase, locked, entries, base, made,
                   events, saved>>

Work(p) == \/ ReadBase(p) \/ ReadExisting(p) \/ Store(p)
           \/ Check(p) \/ Read(p) \/ Merge(p)

-----------------------------------------------------------------------------
(* Turns.                                                                  *)

Enter(t, next) == phase' = [phase EXCEPT ![t] = next]

Arrives(t) == phase[t] = "none" /\ \A u \in Chats : u < t => phase[u] # "none"

\* agent_chat_stream_route: both marks are looked at and the lock is taken in
\* one segment of the event loop.  A route that looks at the lock alone:
ChatStartBlind(t) ==
    /\ Arrives(t) /\ ~locked
    /\ locked' = TRUE /\ Enter(t, "new")
    /\ UNCHANGED <<rowVars, copy, entries, workerVars, made, events, ghostVars>>
ChatStart(t) ==
    /\ Arrives(t) /\ ~ActiveJob /\ ~locked
    /\ locked' = TRUE /\ Enter(t, "new")
    /\ UNCHANGED <<rowVars, copy, entries, workerVars, made, events, ghostVars>>

\* The client is gone before the body is iterated: no finally clause runs.
Abandon(t) ==
    /\ phase[t] = "new" /\ Event
    /\ Enter(t, "lost")
    /\ UNCHANGED <<rowVars, copy, locked, entries, workerVars, made, ghostVars>>

\* spawn_background_job, with the route's look at the thread.
JobSpawn(j) ==
    /\ phase[j] = "none" /\ exists /\ ~ActiveJob /\ ~locked
    /\ Enter(j, "pending")
    /\ UNCHANGED <<rowVars, copy, locked, entries, workerVars, made, events, ghostVars>>

\* A job cancelled before its task began stays pending until a restart.
Stillborn(j) ==
    /\ phase[j] = "pending" /\ Event
    /\ Enter(j, "stuck")
    /\ UNCHANGED <<rowVars, copy, locked, entries, workerVars, made, ghostVars>>

\* _ensure_user_message_on_thread: unless it is the last entry already.
JobBegin(j) ==
    /\ phase[j] = "pending"
    /\ Enter(j, "ensure")
    /\ \/ Goto(j, "idle") /\ UNCHANGED <<base, made>>
       \/ /\ made < MaxEntries /\ made' = made + 1
          /\ base' = [base EXCEPT ![j] = Append(history, made + 1)]
          /\ Goto(j, "existing")
    /\ dirty' = dirty \ {j}
    /\ UNCHANGED <<rowVars, copy, locked, entries, seen, merged, events,
                   saved, excused, forgiven>>

\* Both kinds of turn first bring the summary up to date (prepare_pi_turn, or
\* the first lines of agent_chat_stream).
Prepare(t) ==
    /\ \/ phase[t] = "new"
       \/ phase[t] = "ensure" /\ pc[t] = "idle"
    /\ Enter(t, "prepare") /\ Goto(t, "check")
    /\ UNCHANGED <<rowVars, copy, locked, entries, base, seen, merged, made,
                   events, ghostVars>>

Stream(t) ==
    /\ phase[t] = "prepare" /\ pc[t] = "idle"
    /\ Enter(t, "stream")
    /\ UNCHANGED <<rowVars, copy, locked, entries, workerVars, made, events, ghostVars>>

\* A tool result or an answer; the browser of a chat shows it at once.
Emit(t) ==
    /\ phase[t] = "stream" /\ made < MaxEntries
    /\ made' = made + 1
    /\ entries' = [entries EXCEPT ![t] = Append(@, made + 1)]
    /\ copy' = IF t \in Chats THEN Append(copy, made + 1) ELSE copy
    /\ UNCHANGED <<rowVars, phase, locked, workerVars, events, ghostVars>>

\* Releasing only what was stored, and releasing in the finally clause.
ReleaseStored(t) == locked' = IF t \in Chats /\ phase[t] # "stream" THEN FALSE ELSE locked
Release(t) == locked' = IF t \in Chats THEN FALSE ELSE locked

\* The stream has ended, well or not; with no entries there is nothing to store.
StreamEnd(t) ==
    /\ phase[t] = "stream"
    /\ IF entries[t] = <<>>
       THEN Enter(t, "over") /\ Release(t) /\ UNCHANGED pc
       ELSE Enter(t, "persist") /\ Goto(t, "base") /\ UNCHANGED locked
    /\ UNCHANGED <<rowVars, copy, entries, base, seen, merged, made, events, ghostVars>>

\* After a turn that went well the thread is compressed.
Persisted(t) ==
    /\ phase[t] = "persist" /\ pc[t] = "idle"
    /\ \/ Enter(t, "compress") /\ Goto(t, "check") /\ UNCHANGED locked
       \/ Enter(t, "over") /\ Release(t) /\ UNCHANGED pc
    /\ UNCHANGED <<rowVars, copy, entries, base, seen, merged, made, events, ghostVars>>

TurnEnd(t) ==
    /\ phase[t] = "compress" /\ pc[t] = "idle"
    /\ Enter(t, "over") /\ Release(t)
    /\ UNCHANGED <<rowVars, copy, entries, workerVars, made, events, ghostVars>>

\* CancelledError at an await.  A chat still starts the thread that appends,
\* which may be dropped before it runs, and releases the lock at once; a job
\* appends on the loop, where nothing can cancel it, and not at all when it is
\* cancelled earlier, and stays active when its 'cancelled' cannot be written.
\* Worker threads go on.
Cancelled(t) ==
    /\ Event
    /\ \/ /\ t \in Chats /\ phase[t] = "stream"
          /\ \E next \in {"idle"} \cup (IF entries[t] = <<>> THEN {} ELSE {"base"}) :
                Goto(t, next)
       \/ t \in Chats /\ phase[t] = "persist" /\ pc[t] = "base" /\ Goto(t, "idle")
       \/ t \in Chats /\ phase[t] \in {"prepare", "persist", "compress"} /\ UNCHANGED pc
       \/ t \in Jobs /\ phase[t] \in {"prepare", "stream", "compress"} /\ UNCHANGED pc
    /\ Enter(t, "over") \/ (t \in Jobs /\ Enter(t, "broken"))
    /\ Release(t)
    /\ UNCHANGED <<rowVars, copy, entries, base, seen, merged, made, ghostVars>>

\* A database call raises.  A worker that nobody awaits dies, and so does a
\* request; a chat ends and releases its lock (one that streams ends as any).
\* A job's handler writes 'error' when the call was inside its try clause and
\* the database answers again.
DatabaseFails(p) ==
    /\ Event /\ Rest(p)
    /\ \/ /\ pc[p] # "idle" /\ (p \in Turns => phase[p] = "over")
          /\ UNCHANGED <<phase, locked>>
       \/ /\ p \in Turns /\ phase[p] \in {"prepare", "stream", "persist", "compress"}
          /\ phase[p] = "stream" => p \in Jobs
          /\ Enter(p, "over") /\ Release(p)
       \/ /\ p \in Jobs /\ Live(p) /\ phase[p] \notin {"stuck", "broken"}
          /\ Enter(p, "broken") /\ UNCHANGED locked
    /\ entries' = IF p \in Turns THEN [entries EXCEPT ![p] = <<>>] ELSE entries
    /\ dirty' = dirty \ {p}
    /\ UNCHANGED <<rowVars, copy, made, saved, excused, forgiven>>

-----------------------------------------------------------------------------
(* Browsers and the process.                                               *)

\* persistActivePiThread: the browser sends the copy it has, or one it has
\* just fetched, with a new message of the user or without.  The request
\* carries the copy of this moment, whenever it is served.
Put(p) ==
    /\ pc[p] = "idle" /\ Event
    /\ \E h \in {copy, history} :
          \/ /\ h # <<>>
             /\ copy' = h /\ base' = [base EXCEPT ![p] = h] /\ UNCHANGED made
          \/ /\ made < MaxEntries /\ made' = made + 1
             /\ copy' = Append(h, made + 1)
             /\ base' = [base EXCEPT ![p] = Append(h, made + 1)]
    /\ Goto(p, "existing")
    /\ UNCHANGED <<rowVars, phase, locked, entries, seen, merged, ghostVars>>

\* confirm_pi_tool appends what a confirmed tool did, whoever has the thread.
ToolEntry(p) ==
    /\ pc[p] = "idle" /\ Event /\ made < MaxEntries
    /\ made' = made + 1
    /\ base' = [base EXCEPT ![p] = Append(history, made + 1)]
    /\ Goto(p, "existing")
    /\ UNCHANGED <<rowVars, copy, phase, locked, entries, seen, merged, ghostVars>>

Delete ==
    /\ exists /\ Event
    /\ exists' = FALSE /\ history' = <<>> /\ summary' = {} /\ through' = 0
    /\ excused' = saved /\ forgiven' = {}
    /\ dirty' = {q \in Procs : pc[q] # "idle"}
    /\ UNCHANGED <<copy, phase, locked, entries, workerVars, made, saved>>

\* The process is restarted: what was in memory is gone, jobs are queued again.
Restart ==
    /\ Event
    /\ phase' = [t \in Turns |-> IF phase[t] = "none" THEN "none"
                                 ELSE IF t \in Jobs /\ Live(t) THEN "pending"
                                 ELSE "over"]
    /\ entries' = [t \in Turns |-> <<>>]
    /\ pc' = [p \in Procs |-> "idle"]
    /\ locked' = FALSE
    /\ base' = [p \in Procs |-> <<>>]
    /\ seen' = [p \in Procs |-> 0] /\ merged' = [p \in Procs |-> {}]
    /\ dirty' = {}
    /\ UNCHANGED <<rowVars, copy, made, saved, excused, forgiven>>

-----------------------------------------------------------------------------

Init ==
    /\ exists = TRUE /\ history = <<>> /\ summary = {} /\ through = 0
    /\ copy = <<>> /\ locked = FALSE
    /\ phase = [t \in Turns |-> "none"]
    /\ entries = [t \in Turns |-> <<>>]
    /\ pc = [p \in Procs |-> "idle"]
    /\ base = [p \in Procs |-> <<>>]
    /\ seen = [p \in Procs |-> 0]
    /\ merged = [p \in Procs |-> {}]
    /\ made = 0 /\ events = 0
    /\ saved = {} /\ dirty = {} /\ excused = {} /\ forgiven = {}

Proceed(t) == \/ Prepare(t) \/ Stream(t) \/ StreamEnd(t) \/ Persisted(t) \/ TurnEnd(t)

Next ==
    \/ \E p \in Procs : Work(p) \/ DatabaseFails(p)
    \/ \E t \in Turns : Proceed(t) \/ Emit(t) \/ Cancelled(t)
    \/ \E t \in Chats : ChatStart(t) \/ Abandon(t)
    \/ \E j \in Jobs : JobSpawn(j) \/ Stillborn(j) \/ JobBegin(j)
    \/ \E p \in Puts : Put(p) \/ ToolEntry(p)
    \/ Delete \/ Restart

Spec == Init /\ [][Next]_vars

\* Worker threads run, the loop resumes what is ready, streams end.
Advance(t) == Work(t) \/ Proceed(t) \/ (t \in Jobs /\ JobBegin(t))

FairSpec == Spec /\ \A t \in Turns : WF_vars(Advance(t))

-----------------------------------------------------------------------------
(* Properties.                                                             *)

Owner == INSTANCE ThreadOwner WITH Turns <- Turns, owners <- {t \in Turns : Live(t)}

\* The in-memory lock of the chat stream and the job rows of the table,
\* looked at by different routes, together let one turn at a time work on a
\* thread, through cancels, abandoned responses and restarts.
ImplementsThreadOwner == Owner!Spec

\* What a turn has stored leaves the history of its thread only by a write
\* that no live turn awaits (a browser's PUT, a worker thread that outlived
\* its turn), by an append such a write overtook, or by the cut to the newest
\* entries: turns never lose each other's entries.
NothingLost == exists => saved \subseteq Elems(history) \cup excused

\* Every entry of the history is in the context the model is given: in the
\* summary, in the compact middle or among the recent ones, but for those a
\* foreign, overtaken or cut write pushed below the position.
ContextComplete == Forgotten(history, Covered, summary) \subseteq forgiven

\* fork_pi_thread: the branch's summary and position, for a cut after `end`.
\* A suffix is summarised into the branch's summary, and the position is then
\* set to the end of the branch.
BranchThrough(end) == IF end < Len(history) THEN end ELSE Least(end, Covered)
BranchNote(end) == Elems(SubSeq(history, end + 1, Len(history)))
BranchSummary(end) ==
    IF BranchThrough(end) = 0 THEN {}
    ELSE summary \cup Elems(SubSeq(history, end + 1, Len(history)))

\* A branch's context misses only entries between the parent's position and
\* the cut, which the branch counts as summarised and nobody summarised.
BranchForgets ==
    \A end \in 0..Len(history) :
        Forgotten(SubSeq(history, 1, end), BranchThrough(end), BranchSummary(end))
        \subseteq forgiven \cup (IF end < Len(history)
                                 THEN Elems(SubSeq(history, Covered + 1, end - Recent))
                                 ELSE {})

\* A thread that is taken is given back, unless its response was never
\* iterated, its job never began, or its job ended on an exception that no
\* handler wrote down: those need a restart.
Busy == locked \/ ActiveJob
ThreadFreed ==
    Busy ~> (~Busy \/ \E t \in Turns : phase[t] \in {"lost", "stuck", "broken"})
=============================================================================
