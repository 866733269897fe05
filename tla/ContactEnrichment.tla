-------------------------- MODULE ContactEnrichment --------------------------
(***************************************************************************)
(* Enrichment of one contact (app/contact_enrichment.py): the other        *)
(* addresses of its organization, found on the web and by RDAP, scored and *)
(* imported, while the user works on his contacts.  A run is a job, which  *)
(* starts over when the process does, or a tool of the agent, which does   *)
(* not.  Nothing is recorded on the way.                                   *)
(*                                                                         *)
(* The event loop makes its database calls one by one: the user's threads  *)
(* come between any two.  Of the three social links of the anchor one is   *)
(* kept.                                                                   *)
(***************************************************************************)
EXTENDS Contacts

CONSTANTS
    Anchor,      \* the address of the contact
    Related,     \* addresses of its domain or with its organization's name
    ASNs,
    Registered,  \* addresses RDAP has for each network
    MaxFaults    \* bound: failures, cancels and restarts

VARIABLES
    run,      \* the local variables of each run
    link,     \* of the row contact_id: "none", "user", "scraped", or "gone" with it
    faults,
    own,      \* history: the user's link is there and no patch was under way
    steady,   \* history: contacts since the run began
    warned    \* history: addresses rejected since before the run began

enrichVars == <<contactVars, run, link, faults, own, steady, warned>>

\* What the sources answer is chosen where it is used.
\* blank: the link was empty when the anchor was read
\* base: the link update_contact_social_fields has read
\* shunned, known: preferences and addresses read at the start
Fresh == [pc |-> "idle", job |-> FALSE, auto |-> FALSE, blank |-> FALSE,
          base |-> "none", shunned |-> {}, known |-> {}, targets |-> {}, found |-> {}, leads |-> {}]

Working == {"anchor", "prefs", "known", "sources", "profiles", "social", "patch",
            "signals", "extract", "rdap", "score", "import", "importing"}
Ended == {"done", "failed", "cancelled", "lost"}

At(r, pc) == run[r].pc = pc
Become(r, pc) == run' = [run EXCEPT ![r].pc = pc]
Held == {e \in Emails : contacts[e] # "none"}
NoFault == faults' = faults
Fault == faults < MaxFaults /\ faults' = faults + 1
Local == NoFault /\ UNCHANGED <<contactVars, link, own, steady, warned>>

-----------------------------------------------------------------------------

\* A background job, or the tool enrich_contact.
Start(r) == /\ At(r, "idle")
            /\ \E job, auto \in BOOLEAN :
                  run' = [run EXCEPT ![r] = [Fresh EXCEPT !.pc = "anchor", !.job = job, !.auto = auto]]
            /\ steady' = [steady EXCEPT ![r] = Held]
            /\ warned' = [warned EXCEPT ![r] = spurned]
            /\ NoFault /\ UNCHANGED <<contactVars, link, own>>

\* get_contact: no contact, no run.
ReadAnchor(r) == /\ At(r, "anchor")
                 /\ run' = [run EXCEPT ![r].pc = IF link = "gone" THEN "failed" ELSE "prefs",
                                       ![r].blank = link = "none"]
                 /\ Local

ReadPrefs(r) == /\ At(r, "prefs")
                /\ run' = [run EXCEPT ![r].pc = "known", ![r].shunned = Elems(avoid)]
                /\ Local

\* list_contact_emails.
ReadKnown(r) == /\ At(r, "known")
                /\ run' = [run EXCEPT ![r].pc = "sources", ![r].known = Held]
                /\ Local

\* PeeringDB, the anchor's own ASN, web search and forums.
Sources(r) == At(r, "sources") /\ Become(r, "profiles") /\ Local

\* Web Unlocker and the social channels; one that raises is skipped.
Profiles(r) == /\ At(r, "profiles")
               /\ \/ Become(r, "signals")
                  \/ run[r].blank /\ Become(r, "social")
               /\ Local

\* update_contact_social_fields: a link that is there by now stays.
\* MergedStale is a bug to rule out: the anchor is the one read at the start.
MergedStale(base) == "scraped"
Merged(base) == IF base = "none" THEN "scraped" ELSE base

ReadLink(r) == /\ At(r, "social")
               /\ run' = [run EXCEPT ![r].pc = IF link = "gone" \/ Merged(link) = link
                                               THEN "signals" ELSE "patch",
                                     ![r].base = link]
               /\ Local

WriteLink(r) == /\ At(r, "patch")
                /\ link' = IF link = "gone" THEN link ELSE Merged(run[r].base)
                /\ Become(r, "signals")
                /\ NoFault /\ UNCHANGED <<contactVars, own, steady, warned>>

\* The ASNs named by the pages, after those of the sources.
Signals(r) == /\ At(r, "signals")
              /\ \E targets \in SUBSET ASNs :
                    run' = [run EXCEPT ![r].pc = "extract", ![r].targets = targets]
              /\ Local

New(r, S) == (S \ run[r].known) \ {Anchor}

\* _email_related_to_contact.
Wanted(r, S) == New(r, S) \cap Related

\* An extraction that fails finds nothing.
Extract(r) == /\ At(r, "extract")
              /\ \E web \in SUBSET Emails :
                    run' = [run EXCEPT ![r].pc = "rdap", ![r].found = Wanted(r, web)]
              /\ Local

Rdap(r) == /\ At(r, "rdap")
           /\ IF run[r].targets = {} THEN Become(r, "score")
              ELSE LET a == CHOOSE a \in run[r].targets : TRUE IN
                   \E rows \in {Registered[a], {}} :
                      run' = [run EXCEPT ![r].targets = @ \ {a},
                                         ![r].found = @ \cup New(r, rows)]
           /\ Local

\* CandidatesAll is a bug to rule out: the preferences are not asked.
CandidatesAll(r) == New(r, run[r].found)
Candidates(r) == New(r, run[r].found) \ run[r].shunned

Score(r) == /\ At(r, "score")
            /\ \/ Candidates(r) = {} /\ Become(r, "done")
               \/ /\ Candidates(r) # {}
                  /\ \E leads \in SUBSET Candidates(r) :
                        run' = [run EXCEPT ![r].pc = "import", ![r].leads = leads]
            /\ Local

\* The import runs in a thread, the worker r of Contacts.
ImportLeads(r) ==
    /\ At(r, "import")
    /\ IF run[r].auto /\ run[r].leads # {}
       THEN /\ Idle(r) /\ Become(r, "importing")
            /\ \E rows \in Orders(run[r].leads) : Set(r, Import(rows, TRUE, {}))
            /\ UNCHANGED <<blocked, contacts, reviews, avoid, requests, ever, byHand, spurned>>
       ELSE Become(r, "done") /\ UNCHANGED contactVars
    /\ NoFault /\ UNCHANGED <<link, own, steady, warned>>

Answered(r) == /\ At(r, "importing") /\ Idle(r)
               /\ Become(r, IF call[r].ok THEN "done" ELSE "failed")
               /\ Local

-----------------------------------------------------------------------------

\* A call that raises: a source, a look-up that times out, the model at the
\* score, the database.
Fail(r) == /\ run[r].pc \in Working \ {"importing"}
           /\ Fault /\ Become(r, "failed")
           /\ UNCHANGED <<contactVars, link, own, steady, warned>>

\* A job that is cancelled or a reader who leaves; a thread goes on.
Cancel(r) == /\ run[r].pc \in Working
             /\ Fault /\ Become(r, "cancelled")
             /\ UNCHANGED <<contactVars, link, own, steady, warned>>

Restart ==
    /\ Fault
    /\ call' = [w \in Workers |-> Returned(FALSE)]
    /\ run' = [r \in Runs |->
          IF run[r].pc \notin Working THEN run[r]
          ELSE [Fresh EXCEPT !.pc = IF run[r].job THEN "anchor" ELSE "lost",
                             !.job = run[r].job, !.auto = run[r].auto]]
    /\ UNCHANGED <<blocked, contacts, reviews, avoid, requests, ever, byHand, spurned,
                   link, own, steady, warned>>

\* What the histories and the row of the anchor make of a step on the contacts.
Follow == /\ link' = IF contacts'[Anchor] = "none" THEN "gone" ELSE link
          /\ steady' = [r \in Runs |-> steady[r] \cap {e \in Emails : contacts'[e] # "none"}]
          /\ warned' = [r \in Runs |-> warned[r] \cap spurned']
          /\ UNCHANGED <<run, faults, own>>

\* update_contact, with a link or without.
EditLink(u) ==
    /\ Idle(u) /\ Request /\ link # "gone"
    /\ \E new \in {"none", "user"} :
          /\ link' = new
          /\ own' = (new = "user" /\ \A r \in Runs : ~At(r, "patch"))
    /\ UNCHANGED <<blocked, contacts, reviews, avoid, call, ever, byHand, spurned,
                   run, faults, steady, warned>>

Init == /\ ContactsInit
        /\ run = [r \in Runs |-> Fresh]
        /\ link = "none" /\ faults = 0 /\ own = FALSE
        /\ steady = [r \in Runs |-> {}] /\ warned = [r \in Runs |-> {}]

Advance(r) ==
    \/ Start(r) \/ ReadAnchor(r) \/ ReadPrefs(r) \/ ReadKnown(r) \/ Sources(r) \/ Profiles(r)
    \/ ReadLink(r) \/ WriteLink(r) \/ Signals(r) \/ Extract(r) \/ Rdap(r) \/ Score(r)
    \/ ImportLeads(r) \/ Answered(r)

Next == \/ \E r \in Runs : Advance(r) \/ Fail(r) \/ Cancel(r)
        \/ \E w \in Workers : Work(w) /\ Follow
        \/ \E u \in Users : (Ask(u) /\ Follow) \/ EditLink(u)
        \/ Restart

-----------------------------------------------------------------------------
\* An enrichment brings no address that has been a contact or was rejected all
\* the time since it began, over restarts too; when it ends as done with
\* auto_import every lead has been a contact or was refused by the filter; and
\* it leaves a link the user gave, unless he gave it between the read and the
\* write of the patch (enrich_contact_stream, update_contact_social_fields).
EnrichmentOnlyAdds ==
    /\ \A r \in Runs : run[r].leads \cap (steady[r] \cup warned[r]) = {}
    /\ \A r \in Runs : At(r, "done") /\ run[r].auto => run[r].leads \subseteq ever \cup blocked
    /\ own => link \in {"user", "gone"}
=============================================================================
