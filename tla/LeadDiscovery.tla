---------------------------- MODULE LeadDiscovery ----------------------------
(***************************************************************************)
(* Lead discovery (app/lead_discovery.py) composed with the contacts it    *)
(* feeds: plan, sources, extraction, RDAP, scoring, import, reviews and    *)
(* feedback, with the checkpoints of the jobs (app/lead_checkpoint.py),    *)
(* failures of what it calls, cancels and restarts.                        *)
(*                                                                         *)
(* Jobs record a checkpoint and resume from it; the other runs (scheduled, *)
(* or started by a route) record nothing and die with the process.         *)
(***************************************************************************)
EXTENDS Contacts

CONSTANTS
    ASNs,        \* networks, numbered in the order of asn_targets
    Registered,  \* addresses RDAP has for each network
    MaxFaults    \* bound: failures, cancels and restarts

ASSUME DiscoveryConstants ==
    /\ ASNs \subseteq Nat
    /\ Registered \in [ASNs -> SUBSET Emails] /\ MaxFaults \in Nat

VARIABLES
    run,      \* the local variables of each run
    jobs,     \* the runs that are background jobs
    saved,    \* checkpoint_json of each job
    auto,     \* auto_import of each run
    faults

vars == <<contactVars, run, jobs, saved, auto, faults>>

\* PHASE_ORDER; 0 is no checkpoint.
Planned == 1
SourcesDone == 2
WebExtracted == 3
RdapProgress == 4
Scored == 5

\* networks: of the sources; pages: addresses on the pages found
\* web: leads of the extraction; targets, looked: asn_targets, rdap_done_asns
\* found: all_candidates; shunned: the preferences of this attempt
Empty == [phase |-> 0, networks |-> {}, pages |-> {}, web |-> {},
          targets |-> {}, looked |-> {}, found |-> {}, leads |-> {}]

Fresh == [cp |-> Empty, pc |-> "idle", shunned |-> {}]

Ended == {"done", "failed", "cancelled", "lost"}
Working == {"plan", "sources", "extract", "targets", "rdap", "score",
            "import", "importing", "review", "saving", "feedback", "learning"}

TypeOK ==
    /\ ContactsTypeOK
    /\ DOMAIN run = Runs /\ DOMAIN saved = Runs /\ jobs \subseteq Runs
    /\ \A r \in Runs :
          /\ run[r].pc \in Working \cup Ended \cup {"idle", "down"}
          /\ run[r].shunned \subseteq Emails
          /\ run[r].cp.phase \in 0..Scored
          /\ run[r].cp.looked \subseteq run[r].cp.targets
          /\ run[r].cp.targets \subseteq ASNs
          /\ run[r].cp.leads \subseteq run[r].cp.found
          /\ run[r].cp.found \subseteq Emails
    /\ \A r \in Runs : saved[r].phase \in 0..Scored
    /\ auto \in [Runs -> BOOLEAN]
    /\ faults \in 0..MaxFaults

Fault == faults < MaxFaults /\ faults' = faults + 1
NoFault == faults' = faults

Become(r, pc, cp) == run' = [run EXCEPT ![r].pc = pc, ![r].cp = cp]

\* persist: the new fields over the old ones, and to the row when it is a job.
\* RecordedLate is a bug to rule out: the candidates stay the old ones.
RecordedLate(old, new) == [new EXCEPT !.found = old.found]
Recorded(old, new) == new

Persist(r, pc, cp) ==
    /\ Become(r, pc, cp)
    /\ saved' = IF r \in jobs THEN [saved EXCEPT ![r] = Recorded(@, cp)] ELSE saved

\* A job that is done clears its checkpoint.
Finish(r) == /\ Become(r, "done", run[r].cp)
             /\ saved' = [saved EXCEPT ![r] = Empty]

Local == UNCHANGED <<contactVars, jobs, auto>>

At(r, pc) == run[r].pc = pc

-----------------------------------------------------------------------------

\* The gates `phase_at_least`: where an attempt with checkpoint cp begins.
\* StartAtTargets is a bug to rule out: a gate that is off by one.
StartAtTargets(cp) ==
    IF cp.phase \in WebExtracted..Scored THEN "targets"
    ELSE <<"plan", "sources", "extract">>[cp.phase + 1]
StartAt(cp) == CASE cp.phase = 0            -> "plan"
                 [] cp.phase = Planned      -> "sources"
                 [] cp.phase = SourcesDone  -> "extract"
                 [] cp.phase = WebExtracted -> "targets"
                 [] cp.phase \in {RdapProgress, Scored} -> "rdap"

Begin(r, cp) ==
    run' = [run EXCEPT ![r] = [cp |-> cp, pc |-> StartAt(cp), shunned |-> Elems(avoid)]]

Start(r) == /\ At(r, "idle") /\ Idle(r)
            /\ Begin(r, Empty)
            /\ NoFault /\ UNCHANGED <<contactVars, jobs, saved, auto>>

Resume(r) == /\ At(r, "down")
             /\ Begin(r, saved[r])
             /\ NoFault /\ UNCHANGED <<contactVars, jobs, saved, auto>>

\* An LLM call that fails in the plan or the score, or a checkpoint that is
\* not written, ends the run.
Fail(r) == /\ run[r].pc \in {"plan", "sources", "extract", "rdap", "score"}
           /\ Fault /\ Become(r, "failed", run[r].cp)
           /\ Local /\ UNCHANGED saved

Plan(r) == /\ At(r, "plan")
           /\ Persist(r, "sources", [run[r].cp EXCEPT !.phase = Planned])
           /\ NoFault /\ Local

\* Every source that fails counts as one that found nothing.
Sources(r) ==
    /\ At(r, "sources")
    /\ \E networks \in SUBSET ASNs, pages \in SUBSET Emails :
          Persist(r, "extract", [run[r].cp EXCEPT !.phase = SourcesDone,
                                    !.networks = networks, !.pages = pages])
    /\ NoFault /\ Local

\* The leads hold every address of the pages, or nothing when the LLM fails.
Extract(r) ==
    /\ At(r, "extract")
    /\ \/ /\ NoFault
          /\ Persist(r, "targets", [run[r].cp EXCEPT !.phase = WebExtracted, !.web = run[r].cp.pages])
       \/ /\ Fault
          /\ Persist(r, "targets", [run[r].cp EXCEPT !.phase = WebExtracted])
    /\ Local

\* _merge_asn_targets.  Neither is recorded before the first ASN is.
Targets(r) ==
    LET cp == run[r].cp IN
    /\ At(r, "targets")
    /\ Become(r, IF cp.networks = {} /\ cp.web = {} THEN "failed" ELSE "rdap",
              [cp EXCEPT !.targets = cp.networks, !.found = cp.web])
    /\ NoFault /\ Local /\ UNCHANGED saved

\* LeftAll is a bug to rule out: what is looked up is not skipped.
LeftAll(cp) == cp.targets
Left(cp) == cp.targets \ cp.looked
First(S) == CHOOSE a \in S : \A b \in S : a <= b

\* lookup_asn answers with error rows, it does not fail.
Rdap(r) ==
    LET cp == run[r].cp IN
    /\ At(r, "rdap") /\ Left(cp) # {}
    /\ \E rows \in {Registered[First(Left(cp))], {}} :
          Persist(r, "rdap", [cp EXCEPT !.phase = RdapProgress,
                                 !.looked = @ \cup {First(Left(cp))}, !.found = @ \cup rows])
    /\ NoFault /\ Local

LookedUp(r) ==
    LET cp == run[r].cp IN
    /\ At(r, "rdap") /\ Left(cp) = {}
    /\ Become(r, IF cp.phase = Scored THEN "import" ELSE "score", cp)
    /\ NoFault /\ Local /\ UNCHANGED saved

\* filter_avoided_candidates, then score_leads.
Candidates(r) == run[r].cp.found \ run[r].shunned

Score(r) ==
    /\ At(r, "score")
    /\ \/ /\ Candidates(r) = {}
          /\ Finish(r)
       \/ /\ Candidates(r) # {}
          /\ \E leads \in SUBSET Candidates(r) :
                Persist(r, "import", [run[r].cp EXCEPT !.phase = Scored,
                                         !.found = Candidates(r), !.leads = leads])
    /\ NoFault /\ Local

-----------------------------------------------------------------------------
(* The last three calls, none of which is recorded: each runs in a thread, *)
(* which is the worker r of Contacts.                                      *)

Calls(r, c) == /\ Idle(r) /\ Set(r, c)
               /\ UNCHANGED <<blocked, contacts, reviews, avoid, requests, ever, byHand, spurned>>

ImportLeads(r) ==
    LET leads == run[r].cp.leads IN
    /\ At(r, "import")
    /\ IF auto[r] /\ leads # {}
       THEN /\ \E rows \in Orders(leads) : Calls(r, Import(rows, TRUE, {}))
            /\ Become(r, "importing", run[r].cp)
       ELSE Become(r, "review", run[r].cp) /\ UNCHANGED contactVars
    /\ NoFault /\ UNCHANGED <<jobs, saved, auto>>

SaveReviews(r) ==
    LET leads == run[r].cp.leads IN
    /\ At(r, "review")
    /\ IF leads # {}
       THEN /\ \E rows \in Orders(leads) :
                  Calls(r, Saving(rows, IF auto[r] THEN "imported" ELSE "pending"))
            /\ Become(r, "saving", run[r].cp) /\ UNCHANGED saved
       ELSE Finish(r) /\ UNCHANGED contactVars
    /\ NoFault /\ UNCHANGED <<jobs, auto>>

\* record_search_feedback saves only when it learned something.
Feedback(r) ==
    /\ At(r, "feedback")
    /\ \/ /\ Calls(r, [Returned(FALSE) EXCEPT !.at = "learn"])
          /\ Become(r, "learning", run[r].cp) /\ UNCHANGED saved
       \/ Finish(r) /\ UNCHANGED contactVars
    /\ NoFault /\ UNCHANGED <<jobs, auto>>

\* A failed import or save raises out of the run; failed feedback does not.
\* AnsweredWell is a bug to rule out: every answer is taken for a success.
AnsweredWell(r) ==
    /\ run[r].pc \in {"importing", "saving"} /\ Idle(r)
    /\ Become(r, IF At(r, "importing") THEN "review" ELSE "feedback", run[r].cp)
    /\ NoFault /\ Local /\ UNCHANGED saved

Answered(r) ==
    /\ Idle(r)
    /\ \/ /\ run[r].pc \in {"importing", "saving"}
          /\ Become(r, CASE ~call[r].ok -> "failed"
                         [] At(r, "importing") /\ call[r].ok -> "review"
                         [] At(r, "saving") /\ call[r].ok -> "feedback", run[r].cp)
          /\ UNCHANGED saved
       \/ At(r, "learning") /\ Finish(r)
    /\ NoFault /\ Local

-----------------------------------------------------------------------------

\* A job is cancelled, or the client of a stream leaves, between two events;
\* the thread that is awaited goes on.
Cancel(r) ==
    /\ run[r].pc \in Working
    /\ Fault /\ Become(r, "cancelled", run[r].cp)
    /\ Local /\ UNCHANGED saved

\* A database that goes away fails the transaction a thread is in.
DatabaseFails(w) ==
    /\ ~Idle(w) /\ Fault
    /\ Set(w, IF call[w].at \in {"learn", "teach"} THEN After(call[w]) ELSE Failed(call[w]))
    /\ UNCHANGED <<blocked, contacts, reviews, avoid, requests, ever, byHand, spurned, run, jobs, saved, auto>>

\* The process dies: open transactions roll back, and only jobs come back.
Restart ==
    /\ Fault
    /\ call' = [w \in Workers |-> Returned(FALSE)]
    /\ run' = [r \in Runs |-> IF run[r].pc \notin Working THEN run[r]
                              ELSE [Fresh EXCEPT !.pc = IF r \in jobs THEN "down" ELSE "lost"]]
    /\ UNCHANGED <<blocked, contacts, reviews, avoid, requests, ever, byHand, spurned, jobs, saved, auto>>

Init ==
    /\ ContactsInit
    /\ run = [r \in Runs |-> Fresh]
    /\ jobs \in SUBSET Runs /\ saved = [r \in Runs |-> Empty]
    /\ auto \in [Runs -> BOOLEAN]
    /\ faults = 0

Advance(r) ==
    \/ Plan(r) \/ Sources(r) \/ Extract(r) \/ Targets(r) \/ Rdap(r) \/ LookedUp(r)
    \/ Score(r) \/ ImportLeads(r) \/ SaveReviews(r) \/ Feedback(r) \/ Answered(r)

Threads(w) == Work(w) /\ UNCHANGED <<run, jobs, saved, auto, faults>>

Next ==
    \/ \E r \in Runs : Start(r) \/ Advance(r) \/ Fail(r) \/ Resume(r) \/ Cancel(r)
    \/ \E w \in Workers : Threads(w) \/ DatabaseFails(w)
    \/ \E u \in Users : Ask(u) /\ UNCHANGED <<run, jobs, saved, auto, faults>>
    \/ Restart

Spec == Init /\ [][Next]_vars

\* The event loop and the pool run what is ready; startup resumes the jobs.
FairSpec ==
    /\ Spec
    /\ \A r \in Runs : WF_vars(Advance(r)) /\ WF_vars(Resume(r))
    /\ \A w \in Workers : WF_vars(Threads(w))

-----------------------------------------------------------------------------
(* Properties.                                                             *)

\* The checkpoints of the jobs only move forward, over restarts and failures.
Search == INSTANCE LeadSearch WITH
    Jobs <- Runs, LastPhase <- Scored,
    phase  <- [r \in Runs |-> IF At(r, "done") THEN Scored + 1 ELSE saved[r].phase],
    looked <- [r \in Runs |-> saved[r].looked],
    found  <- [r \in Runs |-> saved[r].web \cup saved[r].found],
    leads  <- [r \in Runs |-> saved[r].leads]

ImplementsLeadSearch == Search!Spec

\* A run that ends as done has given every lead a review, and with auto_import
\* has made it a contact, unless the filter refused it.
LeadsArrive ==
    \A r \in Runs : At(r, "done") =>
        \A e \in run[r].cp.leads :
            /\ \E i \in DOMAIN reviews : reviews[i].email = e
            /\ auto[r] => e \in ever \cup blocked

\* A run that started ends, whatever it waits for: its own calls, the rows
\* other imports have locked, a restart.
RunsEnd ==
    \A r \in Runs : run[r].pc \in Working \cup {"down"} ~> run[r].pc \in Ended
=============================================================================
