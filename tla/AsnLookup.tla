------------------------------ MODULE AsnLookup ------------------------------
(***************************************************************************)
(* The look-up of the role addresses of ASNs: arin_lookup.py, the cache of *)
(* app/asn_cache.py, and its two readers, the stream of POST               *)
(* /api/lookup/stream and the lookup job of app/background_jobs.py.        *)
(*                                                                         *)
(* An answer of a registry is "missing" (404), "failed" (another status or *)
(* no connection), "strange" (anything urlopen or json raises besides) or  *)
(* a record.  An address is a number, 0 when there is none; entities are   *)
(* in the order walk_entities meets them.                                  *)
(***************************************************************************)
EXTENDS Integers, Sequences, FiniteSets, TLC, SequencesExt

CONSTANTS Entities,      \* the lists of entities a registry may hold
          Rirs,          \* the registries but ARIN, in the order they are tried
          Streams, Jobs, \* readers
          Lists,         \* the ASNs each reader asks for, without repetition
          BatchSize,     \* lookup_workers()
          Ttl, MaxTime   \* cache_ttl_seconds(), and a bound

VARIABLES cache,    \* asn_lookup_cache: ASN -> [result, until]
          now,
          call      \* each reader and its batch

asnVars == <<cache, now, call>>

Readers == Streams \cup Jobs
Asns == UNION {ToSet(Lists[r]) : r \in Readers}

-----------------------------------------------------------------------------
(* lookup_asn. *)

RolePriority == <<"abuse", "administrative", "technical", "routing", "noc", "registrant">>
Priority(entry) == IF \E i \in DOMAIN RolePriority : RolePriority[i] = entry.roles[1]
                 THEN CHOOSE i \in DOMAIN RolePriority : RolePriority[i] = entry.roles[1]
                 ELSE Len(RolePriority) + 1

\* walk_entities keeps the entities with roles and an address.
Walk(entities) == SelectSeq(entities, LAMBDA e : e.roles # <<>> /\ e.email # 0)

Key(entry) == <<ToSet(entry.roles), entry.email>>
Before(a, b) == \/ Priority(a) < Priority(b)
                \/ Priority(a) = Priority(b) /\ a.email < b.email

\* dedupe_rows: the first row of each key, sorted.
DedupeRows(found) ==
    LET firsts == {i \in DOMAIN found : \A j \in 1..(i - 1) : Key(found[j]) # Key(found[i])}
    IN  SortSeq([k \in 1..Cardinality(firsts) |->
                    found[CHOOSE i \in firsts : Cardinality({j \in firsts : j <= i}) = k]],
                Before)

NoEmail == [kind |-> "error", rows |-> <<>>]
Raised  == [kind |-> "raised", rows |-> <<>>]

\* parse_rdap_response
Parse(data) ==
    IF data.inRange /\ Walk(data.entities) # <<>>
    THEN [kind |-> "rows", rows |-> DedupeRows(Walk(data.entities))] ELSE NoEmail

Records == [inRange : BOOLEAN, entities : Entities]
Failures == [kind : {"missing", "failed", "strange"}]
IsRecord(reply) == "entities" \in DOMAIN reply

Taken(reply) == CASE IsRecord(reply) -> Parse(reply)
                   [] ~IsRecord(reply) -> IF reply.kind = "strange" THEN Raised ELSE NoEmail

\* _lookup_asn_try_all_rirs: the first registry with addresses, ARIN before the
\* others; what one raises ends the search.
TryAll(answers) ==
    LET telling == {i \in DOMAIN answers : Taken(answers[i]) # NoEmail}
    IN  IF telling = {} THEN NoEmail
        ELSE Taken(answers[CHOOSE i \in telling : \A j \in telling : i <= j])

\* lookup_asn: ARIN first, then the registry its answer names (0: none or one
\* it does not know, 1: ARIN), or all of them when it knows no such ASN.
Lookup(first, names, answers) ==
    IF ~IsRecord(first)
    THEN IF first.kind = "missing" THEN TryAll(answers) ELSE Taken(first)
    ELSE CASE names = 0 -> NoEmail
           [] names = 1 /\ first.inRange -> Parse(first)
           [] OTHER -> Taken(answers[names])

Answers == Records \cup Failures
Results == {Lookup(first, names, answers) :
               first \in Answers, names \in 0..(Len(Rirs) + 1),
               answers \in [1..(Len(Rirs) + 1) -> Answers]}

-----------------------------------------------------------------------------
(* The cache and the batches. *)

Missing == [result |-> NoEmail, until |-> 0]

\* A worker of a batch: to_thread(lookup_asn_cached, asn).
Worker == [step |-> "look", result |-> NoEmail]

Batch(list, first) == SubSeq(list, first, first + BatchSize - 1)
Work(list, first) ==
    [i \in 1..(IF Len(list) - first + 1 < BatchSize THEN Len(list) - first + 1
               ELSE BatchSize) |-> Worker]

\* at: the task of the batch; first: where the batch starts, from 1
\* told: what on_progress was given; read: what the stream has sent of it
Idle == [at |-> "idle", asked |-> <<>>, first |-> 1, work |-> <<>>, told |-> <<>>,
         read |-> 0, end |-> "none"]

Init == /\ cache = [a \in Asns |-> Missing] /\ now = 0
        /\ call = [r \in Readers |-> Idle]

Set(r, c) == call' = [call EXCEPT ![r] = c]
Turn(r, i, w) == call' = [call EXCEPT ![r].work[i] = w]
Asn(r, i) == call[r].asked[call[r].first + i - 1]

\* POST /api/lookup/stream, or the job starts.
Ask(r) == /\ call[r].at = "idle"
          /\ Set(r, [Idle EXCEPT !.at = "gather", !.asked = Lists[r],
                                 !.work = Work(Lists[r], 1)])
          /\ UNCHANGED <<cache, now>>

\* get_cached_rows: expired rows are deleted first.
Look(r, i) ==
    LET kept == [a \in Asns |-> IF cache[a].until <= now THEN Missing ELSE cache[a]]
        entry  == kept[Asn(r, i)]
    IN /\ call[r].work[i].step = "look"
       /\ cache' = kept
       /\ Turn(r, i, IF entry = Missing THEN [Worker EXCEPT !.step = "fetch"]
                     ELSE [step |-> "done", result |-> entry.result])
       /\ UNCHANGED now

Fetch(r, i) ==
    /\ call[r].work[i].step = "fetch"
    /\ \E result \in Results :
          Turn(r, i, [step |-> IF result = Raised THEN "raised" ELSE "store",
                      result |-> result])
    /\ UNCHANGED <<cache, now>>

\* set_cached_rows, errors too.
Store(r, i) ==
    /\ call[r].work[i].step = "store"
    /\ cache' = [cache EXCEPT ![Asn(r, i)] =
                    [result |-> call[r].work[i].result, until |-> now + Ttl]]
    /\ Turn(r, i, [call[r].work[i] EXCEPT !.step = "done"])
    /\ UNCHANGED now

\* The database fails a worker.
Break(r, i) ==
    /\ call[r].work[i].step \in {"look", "store"}
    /\ Turn(r, i, [step |-> "raised", result |-> Raised])
    /\ UNCHANGED <<cache, now>>

WorkerSteps(r) == \E i \in DOMAIN call[r].work :
    Look(r, i) \/ Fetch(r, i) \/ Store(r, i) \/ Break(r, i)

\* As if the next batch started one further.
NextBatchLate(r) ==
    LET first == call[r].first + BatchSize + 1 IN
    IF first <= Len(call[r].asked)
    THEN Set(r, [call[r] EXCEPT !.at = "gather", !.first = first,
                                !.work = Work(call[r].asked, first)])
    ELSE Set(r, [call[r] EXCEPT !.at = "ended", !.end = IF r \in Jobs THEN "done" ELSE @])

\* The next batch, or the end: None for the stream, the result for the job.
NextBatch(r) ==
    LET first == call[r].first + BatchSize IN
    IF first <= Len(call[r].asked)
    THEN Set(r, [call[r] EXCEPT !.at = "gather", !.first = first,
                                !.work = Work(call[r].asked, first)])
    ELSE Set(r, [call[r] EXCEPT !.at = "ended", !.end = IF r \in Jobs THEN "done" ELSE @])

\* gather returns when all workers have.
Gathered(r) == /\ call[r].at = "gather"
               /\ \A i \in DOMAIN call[r].work : call[r].work[i].step = "done"
               /\ Set(r, [call[r] EXCEPT !.at = "tell"])
               /\ UNCHANGED <<cache, now>>

\* What a worker raises, gather raises at once; the others go on.  The job ends
\* with the error; the stream's task ends and puts no None.
GatherRaises(r) ==
    /\ call[r].at = "gather"
    /\ \E i \in DOMAIN call[r].work : call[r].work[i].step = "raised"
    /\ Set(r, [call[r] EXCEPT !.at = "raised", !.end = IF r \in Jobs THEN "error" ELSE @])
    /\ UNCHANGED <<cache, now>>

\* on_progress, ASN after ASN, then on.
Tell(r) ==
    LET c == call[r]
        i == Len(c.told) - c.first + 2
    IN /\ c.at = "tell"
       /\ IF i \in DOMAIN c.work
          THEN Set(r, [c EXCEPT !.told = Append(@, [asn |-> Asn(r, i),
                                                    result |-> c.work[i].result])])
          ELSE NextBatch(r)
       /\ UNCHANGED <<cache, now>>

-----------------------------------------------------------------------------
(* The readers. *)

\* The stream sends what it is told, and ends when it has read None.
Read(r) == /\ r \in Streams /\ call[r].end = "none"
           /\ \/ /\ call[r].read < Len(call[r].told)
                 /\ Set(r, [call[r] EXCEPT !.read = @ + 1])
              \/ /\ call[r].read = Len(call[r].told) /\ call[r].at = "ended"
                 /\ Set(r, [call[r] EXCEPT !.end = "done"])
           /\ UNCHANGED <<cache, now>>

\* The client goes: the task of the batch goes on.
Leave(r) == /\ r \in Streams /\ call[r].at # "idle" /\ call[r].end = "none"
            /\ Set(r, [call[r] EXCEPT !.end = "left"])
            /\ UNCHANGED <<cache, now>>

\* A cancelled job ends at its await, at on_progress or before its result; the
\* threads of its workers go on.
Cancel(r) == /\ r \in Jobs /\ call[r].at # "idle" /\ call[r].end = "none"
             /\ Set(r, [call[r] EXCEPT !.at = "ended", !.end = "cancelled"])
             /\ UNCHANGED <<cache, now>>

Tick == now < MaxTime /\ now' = now + 1 /\ UNCHANGED <<cache, call>>

Run(r) == Gathered(r) \/ GatherRaises(r) \/ Tell(r) \/ Read(r)

Next == \/ \E r \in Readers : Ask(r) \/ WorkerSteps(r) \/ Run(r) \/ Leave(r) \/ Cancel(r)
        \/ Tick

-----------------------------------------------------------------------------
\* What a look-up says: rows that each have roles and an address, one of a key,
\* those a reader needs most first, or one error.
Honest(result) ==
    \/ result = NoEmail
    \/ /\ result.kind = "rows" /\ result.rows # <<>>
       /\ \A i \in DOMAIN result.rows : result.rows[i].roles # <<>> /\ result.rows[i].email # 0
       /\ \A i, j \in DOMAIN result.rows : i < j =>
             Key(result.rows[i]) # Key(result.rows[j]) /\ ~Before(result.rows[j], result.rows[i])

InOrder(r) == \A k \in DOMAIN call[r].told :
    call[r].told[k].asn = call[r].asked[k] /\ Honest(call[r].told[k].result)

Whole(r) == call[r].end = "done" =>
    Len(call[r].told) = Len(call[r].asked) /\ (r \in Streams => call[r].read = Len(call[r].told))

Settles(r) == call[r].at # "idle" ~>
    call[r].end # "none" \/ (r \in Streams /\ call[r].at = "raised")

\* A look-up that says it is done has told every ASN, in order, once, and every
\* look-up ends, whatever its workers and the other readers do; only a stream
\* whose batch raised is left waiting for a None nobody puts
\* (lookup_stream.run_batch has no finally).
LookupServed == /\ [](\A r \in Readers : InOrder(r) /\ Whole(r))
                /\ \A r \in Readers : Settles(r)
=============================================================================
