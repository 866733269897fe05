----------------------------- MODULE MCServices -----------------------------
(***************************************************************************)
(* Six parts of the program that do not share state, checked in one run: a *)
(* behaviour is one of LlmClient, AsnLookup, JobEvents, AgentTools,        *)
(* ContactEnrichment or LoginLimiter, the others rest as they began.       *)
(***************************************************************************)
EXTENDS AsnLookup

CONSTANTS MaxRetries, MaxPieces, MaxCalls,
          QueueSize, MaxOnWire, MaxUpdates, MaxBreaks,
          Addresses, Present, Refusable, MaxRows, MaxCards, MaxConfirms, MaxDeeds,
          Emails, Known, Leads, Filters, Runs, Users, AvoidLimit, MaxRequests,
          Anchor, Related, ASNs, Registered, MaxFaults,
          Keys, Requests, MaxFailures, Window, MaxKeys, MaxClock, MaxGuesses,
          e1, e2, e3   \* addresses

ASSUME ToolConstants == /\ Present \in Seq(Addresses) /\ Refusable \subseteq Addresses
                        /\ IsFiniteSet(Addresses) /\ MaxRows \in Nat
ASSUME LoginConstants == /\ MaxFailures \in Nat \ {0} /\ Window \in Nat \ {0}
                         /\ IsFiniteSet(Requests)
ASSUME LlmConstants == MaxRetries \in Nat /\ MaxPieces \in Nat /\ MaxCalls \in Nat
ASSUME LookupConstants == /\ Streams \cap Jobs = {} /\ BatchSize \in Nat \ {0}
                          /\ Lists \in [Streams \cup Jobs -> Seq(Nat)]
ASSUME EnrichConstants ==
    /\ IsFiniteSet(Emails) /\ Leads \subseteq Known /\ Known \subseteq Emails
    /\ Filters \subseteq SUBSET Emails /\ Runs \cap Users = {}
    /\ AvoidLimit \in Nat \ {0} /\ MaxRequests \in Nat
    /\ Registered \in [ASNs -> SUBSET Emails]

VARIABLES part,
          at, attempt, answer, text, reasoned, calls, status, emitted, whole, shown, outcome,
          row, updates, canceller, stream, subscribed, queue, wire, breaks,
          created, tracker, timer, connected, poll, missed,
          rows, prefs, blocklist, mail, cards, loop, deeds,
          blocked, contacts, reviews, avoid, inside, requests, ever, byHand, spurned,
          run, link, faults, own, steady, warned,
          failures, clock, login, guesses, uncounted

\* Contacts of a registry: a role that is asked for early and one that is asked
\* for late, a second address, one without an address, one twice.
Noc   == [roles |-> <<"noc">>, email |-> 1]
Abuse == [roles |-> <<"abuse", "noc">>, email |-> 2]
Mute  == [roles |-> <<"abuse">>, email |-> 0]
MCEntities == {<<>>, <<Noc, Mute, Abuse, Noc>>}

\* A stream asks for two batches, a job for one ASN of the first.
MCLists == [r \in Streams \cup Jobs |-> IF r \in Streams THEN <<1, 2, 3>> ELSE <<2>>]

MCRirs == <<"ripe">>
MCPresent == <<1, 2>>

\* The anchor e1 and a lead e2 are contacts, e3 is to be found, and may be what
\* the filter refuses.
MCRegistered == [a \in ASNs |-> {e2, e3}]
MCFilters == {{}, {e3}}

Llm    == INSTANCE LlmClient
Events == INSTANCE JobEvents
Tools  == INSTANCE AgentTools
Enrich == INSTANCE ContactEnrichment WITH call <- inside
Logins == INSTANCE LoginLimiter

llm == <<at, attempt, answer, text, reasoned, calls, status, emitted, whole, shown, outcome>>
events == <<row, updates, canceller, stream, subscribed, queue, wire, breaks,
            created, tracker, timer, connected, poll, missed>>
tools == <<rows, prefs, blocklist, mail, cards, loop, deeds>>
enrich == <<blocked, contacts, reviews, avoid, inside, requests, ever, byHand, spurned,
            run, link, faults, own, steady, warned>>
logins == <<failures, clock, login, guesses, uncounted>>
vars == <<part, llm, asnVars, events, tools, enrich, logins>>

MCInit == /\ part \in {"llm", "lookup", "events", "tools", "enrich", "logins"}
          /\ Llm!Init /\ Init /\ Events!Init /\ Tools!Init /\ Enrich!Init /\ Logins!Init
          /\ part = "enrich" \/ blocked = {}

Of(name, rest) == part = name /\ UNCHANGED <<part, rest>>
OfLlm    == Of("llm", <<asnVars, events, tools, enrich, logins>>)
OfLookup == Of("lookup", <<llm, events, tools, enrich, logins>>)
OfEvents == Of("events", <<llm, asnVars, tools, enrich, logins>>)
OfTools  == Of("tools", <<llm, asnVars, events, enrich, logins>>)
OfEnrich == Of("enrich", <<llm, asnVars, events, tools, logins>>)
OfLogins == Of("logins", <<llm, asnVars, events, tools, enrich>>)

MCNext == \/ OfLlm /\ Llm!Next
          \/ OfLookup /\ Next
          \/ OfEvents /\ Events!Next
          \/ OfTools /\ Tools!Next
          \/ OfEnrich /\ Enrich!Next
          \/ OfLogins /\ Logins!Next

\* Connections, reads and sleeps end, each at its timeout; a provider that
\* reasons ends some time.
LlmFairness == /\ WF_llm(OfLlm /\ Llm!Attempt)
               /\ WF_llm(OfLlm /\ Llm!Deliver)

\* Threads and tasks go on; a registry answers, or its timeout is an error.
LookupFairness == \A r \in Streams \cup Jobs :
    WF_asnVars(OfLookup /\ WorkerSteps(r)) /\ WF_asnVars(OfLookup /\ Run(r))

\* The generator, the connection and the page go on; a poll that is made again
\* and again is answered some time.
EventsFairness == /\ WF_events(OfEvents /\ Events!Subscribe)
                  /\ WF_events(OfEvents /\ Events!Send)
                  /\ WF_events(OfEvents /\ Events!Receive)
                  /\ WF_events(OfEvents /\ Events!Track)
                  /\ WF_events(OfEvents /\ Events!PollAgain)
                  /\ WF_events(OfEvents /\ Events!TakeAnswer)
                  /\ SF_events(OfEvents /\ Events!Answer)

Spec == MCInit /\ [][MCNext]_vars /\ LlmFairness /\ LookupFairness /\ EventsFairness

\* A request to the model shows pieces of one answer only, and ends with the
\* whole of it or an error (stream_chat of app/pi_llm_client.py).
ImplementsLlmReply == Llm!ImplementsLlmReply

\* The page learns that a job ended, but for the events it names
\* (_publish_job_event, iter_job_events of app/background_jobs.py).
EndIsShown == Events!EndIsShown

\* What a tool of the agent destroys was confirmed and is offered for undo, but
\* for what it names (_run_tool of app/agent_chat.py, POST /api/pi/confirm-tool).
DestroyedIsOffered == Tools!DestroyedIsOffered

\* An enrichment adds contacts and links where there were none
\* (enrich_contact_stream of app/contact_enrichment.py).
EnrichmentOnlyAdds == Enrich!EnrichmentOnlyAdds

\* Log-ins that meet verify no more wrong passwords than the limiter allows and
\* one for each beside the last (login of app/main.py, app/rate_limit.py).
GuessesBounded == Logins!GuessesBounded
=============================================================================
