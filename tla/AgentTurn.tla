------------------------------ MODULE AgentTurn ------------------------------
(***************************************************************************)
(* One turn of the built-in Pi agent: agent_chat_stream of                 *)
(* app/agent_chat.py with its guardrails, the parallel batches of          *)
(* app/pi_parallel_tools.py and the recovery from a context that is too    *)
(* long.                                                                   *)
(*                                                                         *)
(* The loop asks the model, takes its answer through PiDecisions, screens  *)
(* the calls, runs the rest in workers and puts one tool message per call  *)
(* under the assistant message that made it.  A call is <<round, place>>.  *)
(***************************************************************************)
EXTENDS PiDecisions, FiniteSets, SequencesExt, FiniteSetsExt

CONSTANTS AskedTurns,      \* the messages the user may send, of Turns
          MaxRounds,       \* MAX_TOOL_ROUNDS, 12 in the code
          MaxAsks,         \* MAX_LLM_CALLS_PER_TURN, 30 in the code
          ToolBudget       \* MAX_EXECUTED_TOOL_CALLS_PER_TURN, 8 in the code

ASSUME TurnAssumption ==
    /\ AskedTurns \subseteq Turns
    /\ {MaxRounds, MaxAsks, ToolBudget, MaxBatch, MaxQueries} \subseteq Nat \ {0}
    /\ MaxNudges \in Nat

VARIABLES turn,        \* the user's message
          pc,          \* where agent_chat_stream is
          round,       \* round_index
          asks,        \* llm_call_count
          nudges,      \* llm_nudge_count
          recovered,   \* overflow_retried
          messages,    \* messages, after the system prompt
          batch,       \* prepared_calls, by name
          allowed,     \* allowed_calls still to be run, by place
          running,     \* the workers at work, by call
          open,        \* the calls announced by a tool_start without tool_result
          executed,    \* executed_tool_names, with the calls
          force,       \* should_force_summary
          stopAsked,   \* cancel_check() answers TRUE
          ending,      \* how the stream ended
          dropped      \* ghost: the calls whose messages an overflow took away

control == <<turn, pc, round, asks, nudges, recovered>>
tools   == <<batch, allowed, running, open, executed, force>>
vars    == <<control, messages, tools, stopAsked, ending, dropped>>

-----------------------------------------------------------------------------
(* Messages and calls. *)

UserMessage == [role |-> "user", calls |-> {}]
Assistant(calls) == [role |-> "assistant", calls |-> calls]
ToolMessage(call) == [role |-> "tool", calls |-> {call}]

Call(place) == <<round, place>>
Calls(places) == {Call(places[k]) : k \in DOMAIN places}
Names(places) == [k \in DOMAIN places |-> batch[places[k]]]

BatchNames  == {batch[i] : i \in DOMAIN batch}
ExecutedNames == {executed[i].name : i \in DOMAIN executed}

-----------------------------------------------------------------------------
(* Guardrails. *)

ForceSummaryConfigTools ==
    {"get_import_filters", "update_import_filters", "get_search_config",
     "list_schedules", "create_schedule", "update_schedule"}

AfterDiscoverTools ==
    {"web_search", "get_search_config", "get_lead_preferences", "list_contacts",
     "get_stats", "get_contact", "enrich_contact"}

ParallelSafeTools ==
    {"list_contacts", "get_contact", "get_stats", "list_contact_notes",
     "get_lead_preferences", "get_import_filters", "get_search_config",
     "list_schedules", "get_workbench", "list_email_templates", "preview_email",
     "list_lead_reviews"}

\* can_parallelize_tool_batch
Parallel(names) == Len(names) >= 2 /\ \A i \in DOMAIN names : names[i] \in ParallelSafeTools

\* As if a lead search asked for no summary.
ForcesUnlessSearch(name, count) ==
    \/ name = "lookup_asns" /\ turn.asn
    \/ name \in ForceSummaryConfigTools
    \/ count >= ToolBudget

\* _should_force_summary_after_tool, after the count-th tool of the turn.
ForcesSummary(name, count) ==
    \/ name = "discover_leads"
    \/ name = "lookup_asns" /\ turn.asn
    \/ name \in ForceSummaryConfigTools
    \/ count >= ToolBudget

\* The reason an explicit ASN look-up gives for any other tool.
MustLookup(name) == turn.asn /\ name # "lookup_asns" /\ Len(executed) < ToolBudget

\* _tool_block_reason
Blocked(name) ==
    \/ Len(executed) >= ToolBudget
    \/ turn.asn /\ name = "lookup_asns" /\ name \in ExecutedNames
    \/ MustLookup(name)
    \/ name = "discover_leads" /\ name \in ExecutedNames
    \/ /\ name \in AfterDiscoverTools
       /\ \/ "discover_leads" \in ExecutedNames
          \/ "discover_leads" \in BatchNames /\ turn.leads

\* allow_asn_lookup_correction: the model is given another round to look up.
Correctable(name) ==
    MustLookup(name) /\ "lookup_asns" \notin ExecutedNames \cup BatchNames

-----------------------------------------------------------------------------
Init ==
    /\ turn \in AskedTurns
    /\ pc = "start" /\ round = 0 /\ asks = 0 /\ nudges = 0 /\ recovered = FALSE
    /\ messages = <<>>
    /\ batch = <<>> /\ allowed = <<>> /\ running = {} /\ open = {}
    /\ executed = <<>> /\ force = FALSE
    /\ stopAsked = FALSE /\ ending = "none" /\ dropped = {}

\* The last events: what is said, then 'done'.
End(how) == ending' = how /\ pc' = "over"

\* As if the wait for the workers listened to cancel_check() too.
StopAnywhere ==
    /\ pc \in {"start", "round", "ask", "gather"} /\ stopAsked
    /\ End("stopped")
    /\ UNCHANGED <<turn, round, asks, nudges, recovered, messages, tools, stopAsked, dropped>>

\* cancel_check() at the start, at a round and before a request.
Stop == /\ pc \in {"start", "round", "ask"} /\ stopAsked
        /\ End("stopped")
        /\ UNCHANGED <<turn, round, asks, nudges, recovered, messages, tools,
                       stopAsked, dropped>>

\* The stored thread is compressed and becomes the messages, then the user's.
Start == /\ pc = "start" /\ ~stopAsked
         /\ pc' = "round"
         /\ messages' = <<UserMessage>>
         /\ UNCHANGED <<turn, round, asks, nudges, recovered, tools, stopAsked,
                        ending, dropped>>

StartRound == /\ pc = "round" /\ ~stopAsked
              /\ pc' = "ask" /\ nudges' = 0
              /\ UNCHANGED <<turn, round, asks, recovered, messages, tools,
                             stopAsked, ending, dropped>>

\* One more request, unless the turn has made its share.
Ask == /\ pc = "ask" /\ ~stopAsked
       /\ IF asks >= MaxAsks
          THEN End("reply") /\ UNCHANGED <<asks, recovered>>
          ELSE /\ pc' = "wait" /\ asks' = asks + 1 /\ recovered' = FALSE
               /\ UNCHANGED ending
       /\ UNCHANGED <<turn, round, nudges, messages, tools, stopAsked, dropped>>

\* The context is too long: once per request the thread is compressed and read
\* again.  What this turn did is not in it yet, so its messages are gone.
Overflow == /\ pc = "wait" /\ turn.thread /\ ~recovered
            /\ recovered' = TRUE
            /\ messages' = <<UserMessage>>
            /\ dropped' = dropped \cup UNION {messages[i].calls : i \in DOMAIN messages}
            /\ UNCHANGED <<turn, pc, round, asks, nudges, tools, stopAsked, ending>>

\* Any other error of the model, or a second overflow.
ModelError == /\ pc = "wait"
              /\ End("error")
              /\ UNCHANGED <<turn, round, asks, nudges, recovered, messages, tools,
                             stopAsked, dropped>>

\* The decisions the answers of the model can lead to.
DecisionTable == UNION {{<<t, n>>} \X Decisions(t, n) : t \in AskedTurns, n \in 0..MaxNudges}

DecisionsNow == {e[2] : e \in {e \in DecisionTable : e[1] = <<turn, nudges>>}}

\* The model's answer, through decide_turn.
Answer ==
    /\ pc = "wait"
    /\ \E d \in DecisionsNow :
        CASE d.kind = "retry" ->
                /\ pc' = "ask" /\ nudges' = nudges + 1
                /\ messages' = Append(messages, UserMessage)
                /\ UNCHANGED <<batch, ending>>
          [] d.kind = "fail"  -> End("error") /\ UNCHANGED <<nudges, messages, batch>>
          [] d.kind = "final" -> End("reply") /\ UNCHANGED <<nudges, messages, batch>>
          [] d.kind = "calls" ->
                /\ pc' = "screen"
                /\ batch' = d.calls
                /\ messages' = Append(messages,
                                      Assistant({<<round, i>> : i \in DOMAIN d.calls}))
                /\ UNCHANGED <<nudges, ending>>
    /\ UNCHANGED <<turn, round, asks, recovered, allowed, running, open,
                   executed, force, stopAsked, dropped>>

\* As if a blocked call were only left out.
ScreenSilently ==
    /\ pc = "screen"
    /\ allowed' = InOrder({i \in DOMAIN batch : ~Blocked(batch[i])})
    /\ force' = (Len(allowed') < Len(batch))
    /\ pc' = IF Parallel(Names(allowed')) THEN "all" ELSE "each"
    /\ UNCHANGED <<turn, round, asks, nudges, recovered, messages, batch, running, open,
                   executed, stopAsked, ending, dropped>>

\* Blocked calls are answered at once; the others are to be run, all together
\* when every one of them only reads, else one after the other.
Screen ==
    /\ pc = "screen"
    /\ LET refused == {i \in DOMAIN batch : Blocked(batch[i])}
           answers == InOrder(refused)
           passed  == InOrder(DOMAIN batch \ refused)
       IN /\ messages' = messages \o [k \in DOMAIN answers |-> ToolMessage(Call(answers[k]))]
          /\ allowed' = passed
          /\ force' = \E i \in refused : ~Correctable(batch[i])
          /\ pc' = IF Parallel(Names(passed)) THEN "all" ELSE "each"
    /\ UNCHANGED <<turn, round, asks, nudges, recovered, batch, running, open,
                   executed, stopAsked, ending, dropped>>

-----------------------------------------------------------------------------
(* Tools. *)

\* A worker ends, with its result or an error, whoever still reads the stream.
WorkerEnds == \E call \in running :
    /\ running' = running \ {call}
    /\ UNCHANGED <<control, messages, batch, allowed, open, executed, force, stopAsked,
                   ending, dropped>>

StartAll == /\ pc = "all"
            /\ open' = Calls(allowed) /\ running' = Calls(allowed)
            /\ pc' = "gather"
            /\ UNCHANGED <<turn, round, asks, nudges, recovered, messages, batch, allowed,
                           executed, force, stopAsked, ending, dropped>>

\* The result of the first allowed call is told and becomes its tool message.
Take == /\ running = {}
        /\ open' = open \ {Call(Head(allowed))}
        /\ allowed' = Tail(allowed)
        /\ messages' = Append(messages, ToolMessage(Call(Head(allowed))))
        /\ force' = (force \/ ForcesSummary(batch[Head(allowed)], Len(executed')))
        /\ UNCHANGED <<turn, pc, round, asks, nudges, recovered, batch, running, stopAsked,
                       ending, dropped>>

Count(place) ==
    executed' = Append(executed, [name |-> batch[place], call |-> Call(place)])

\* All have ended: their results in the order of the calls.
Gather == pc = "gather" /\ allowed # <<>> /\ Count(Head(allowed)) /\ Take

\* One after the other: counted when it starts.
StartOne == /\ pc = "each" /\ allowed # <<>> /\ open = {}
            /\ Count(Head(allowed))
            /\ open' = {Call(Head(allowed))} /\ running' = open'
            /\ UNCHANGED <<control, messages, batch, allowed, force, stopAsked, ending,
                           dropped>>

TakeOne == pc = "each" /\ open # {} /\ UNCHANGED executed /\ Take

\* As if the summary were asked for from the user's message alone.
NextRoundAfresh ==
    /\ pc \in {"each", "gather"} /\ allowed = <<>>
    /\ IF force \/ round = MaxRounds - 1
       THEN pc' = "summary" /\ messages' = <<UserMessage, UserMessage>> /\ UNCHANGED round
       ELSE pc' = "round" /\ round' = round + 1 /\ UNCHANGED messages
    /\ batch' = <<>>
    /\ UNCHANGED <<turn, asks, nudges, recovered, allowed, running, open, executed, force,
                   stopAsked, ending, dropped>>

\* A forced summary, the last round's, or the next round.
NextRound ==
    /\ pc \in {"each", "gather"} /\ allowed = <<>>
    /\ IF force \/ round = MaxRounds - 1
       THEN pc' = "summary" /\ messages' = Append(messages, UserMessage) /\ UNCHANGED round
       ELSE pc' = "round" /\ round' = round + 1 /\ UNCHANGED messages
    /\ batch' = <<>>
    /\ UNCHANGED <<turn, asks, nudges, recovered, allowed, running, open, executed, force,
                   stopAsked, ending, dropped>>

\* A request without tools; when it fails a fixed text is said instead.
Summarize == /\ pc = "summary"
             /\ End("reply")
             /\ UNCHANGED <<turn, round, asks, nudges, recovered, messages, tools,
                            stopAsked, dropped>>

-----------------------------------------------------------------------------
(* The others: the user or a job's cancel asks to stop; the reader goes, by *)
(* closing the generator or by cancelling the task that reads it.  Workers  *)
(* are tasks of their own and go on.                                        *)

AskToStop == /\ ending = "none" /\ ~stopAsked
             /\ stopAsked' = TRUE
             /\ UNCHANGED <<control, messages, tools, ending, dropped>>

Leave == /\ ending = "none"
         /\ End("left")
         /\ UNCHANGED <<turn, round, asks, nudges, recovered, messages, tools,
                        stopAsked, dropped>>

Loop == \/ Stop \/ Start \/ StartRound \/ Ask \/ Overflow \/ ModelError \/ Answer
        \/ Screen \/ StartAll \/ Gather \/ StartOne \/ TakeOne \/ NextRound \/ Summarize

Next == Loop \/ WorkerEnds \/ AskToStop \/ Leave

Spec == Init /\ [][Next]_vars

\* The loop takes its steps, the model answers or fails (its requests have a
\* timeout) and so do the tools; nobody has to stop the turn or leave it.
FairSpec == Spec /\ WF_vars(Loop) /\ WF_vars(WorkerEnds)

-----------------------------------------------------------------------------
Message == [role : {"user", "assistant", "tool"}, calls : SUBSET (Nat \X Nat)]

\* The state is well formed.
TypeOK ==
    /\ turn \in AskedTurns
    /\ pc \in {"start", "round", "ask", "wait", "screen", "all", "gather", "each",
               "summary", "over"}
    /\ round \in 0..(MaxRounds - 1) /\ asks \in 0..MaxAsks /\ nudges \in 0..MaxNudges
    /\ recovered \in BOOLEAN /\ force \in BOOLEAN /\ stopAsked \in BOOLEAN
    /\ messages \in Seq(Message)
    /\ \A k \in DOMAIN allowed : allowed[k] \in DOMAIN batch
    /\ running \subseteq open
    /\ ending \in {"none", "reply", "error", "stopped", "left"}
    /\ ending = "none" <=> pc # "over"

\* In every request each call of an assistant message has exactly one tool
\* message, and they follow it before anything else: the provider refuses a
\* request that breaks this (agent_chat_stream puts the refused calls' messages
\* first, and the results of a parallel batch as they are gathered).
Following(i) == SubSeq(messages, i + 1, Min({Len(messages), i + Cardinality(messages[i].calls)}))

WellFormed == pc \in {"wait", "summary"} =>
    /\ \A i \in DOMAIN messages : messages[i].role = "assistant" =>
          /\ ToSet(Following(i)) = {ToolMessage(c) : c \in messages[i].calls}
          /\ Len(Following(i)) = Cardinality(messages[i].calls)
    /\ \A i \in DOMAIN messages : messages[i].role = "tool" =>
          Cardinality({j \in DOMAIN messages : messages[j] = messages[i]}) = 1

\* Every tool that ran is before the model in every request, the last summary
\* among them, unless an overflow took its message away.
ResultsKept == pc \in {"wait", "summary"} =>
    \A k \in DOMAIN executed :
        \/ executed[k].call \in dropped
        \/ \E i \in DOMAIN messages : messages[i] = ToolMessage(executed[k].call)

\* The guardrails, over the whole turn: once the budget is reached no later
\* round runs a tool, none does after a lead search, and a turn that asks for
\* the roles of an ASN runs nothing but the look-up.
RoundOf(k) == executed[k].call[1]

BudgetKept == \A k \in DOMAIN executed :
    k > ToolBudget => RoundOf(k) = RoundOf(ToolBudget)

DiscoverIsLast == \A j, k \in DOMAIN executed :
    executed[j].name = "discover_leads" => RoundOf(k) <= RoundOf(j)

LookupOnly == turn.asn => ExecutedNames \subseteq {"lookup_asns"}

Guardrails == BudgetKept /\ DiscoverIsLast /\ LookupOnly

\* What the reader sees is a TurnStream: results for all that was announced, and
\* one end, which comes.
Stream == INSTANCE TurnStream WITH
    open <- Cardinality(open), MaxOpen <- Max({MaxBatch, MaxQueries})

ImplementsTurnStream == Stream!Spec
=============================================================================
