----------------------------- MODULE PiDecisions -----------------------------
(***************************************************************************)
(* What one answer of the model makes the Pi loop do: app/pi_decisions.py  *)
(* with the call parsing of app/pi_tool_calls.py and the heuristics of     *)
(* app/pi_reply_heuristics.py.                                             *)
(*                                                                         *)
(* A text is the class the heuristics put it in, a call its name with the  *)
(* keys of its arguments, and the user's message the answers to the        *)
(* questions the code asks of it.                                          *)
(***************************************************************************)
EXTENDS Integers, Sequences, FiniteSets

CONSTANTS MaxNudges,       \* _MAX_LLM_NUDGES, 2 in the code
          MaxQueries,      \* the searches a fallback may hold, 8 in the code
          MaxBatch,        \* the calls of one answer (the provider's bound)
          RawCalls         \* the calls the model may write, as the parser sees them

\* pi_tool_calls.KNOWN_TOOL_NAMES.
KnownTools ==
    {"list_contacts", "import_leads", "get_contact", "get_stats",
     "update_contact", "mark_contact_sent", "delete_contacts",
     "add_contact_note", "list_contact_notes", "get_lead_preferences",
     "reset_lead_preferences", "dedupe_contacts", "get_import_filters",
     "update_import_filters", "list_schedules", "create_schedule",
     "update_schedule", "get_search_config", "shodan_search", "web_search",
     "fetch_web_pages", "search_hosting_forums", "lookup_asns",
     "discover_leads", "enrich_contact", "collect_linkedin_profiles",
     "collect_x_profiles", "collect_facebook_profiles", "get_workbench",
     "list_email_templates", "preview_email", "queue_emails",
     "list_lead_reviews", "import_lead_reviews"}

ListAliases == {"search_contacts", "list_contact", "find_contacts"}
DeleteAliases == {"delete_contact", "remove_contacts", "bulk_delete_contacts"}

-----------------------------------------------------------------------------
(* Calls.  raw.name is the normalised name, "" when there is none; raw.keys *)
(* the argument keys, a "q" among them not being empty; raw.nested the name *)
(* the argument text holds when the provider put the whole call there.      *)

ByKeys(keys) ==
    LET has(k) == k \in keys IN
    CASE has("contact_ids") \/ has("ids") -> "delete_contacts"
      [] has("queries") -> "web_search"
      [] has("query") /\ ~has("q") /\ has("max_results") -> "web_search"
      [] has("text") \/ has("asns") -> "lookup_asns"
      [] has("contact_id") /\ (has("auto_import") \/ has("min_score")) -> "enrich_contact"
      [] has("contact_id") /\ has("note") -> "add_contact_note"
      [] has("contact_id") /\ has("sent") -> "mark_contact_sent"
      [] has("contact_id") /\ ~has("q") -> "get_contact"
      [] has("rows") -> "import_leads"
      [] has("keywords") \/ has("keyword") \/ has("q") -> "list_contacts"
      [] has("limit") /\ ~has("query") -> "list_contacts"
      [] OTHER -> "unknown"

\* The order of _infer_tool_name: a known name wins, then an alias, then the
\* first rule the arguments satisfy; a strange name without such arguments is
\* kept, and _run_tool answers it with an error.
InferToolName(name, keys) ==
    CASE name \in KnownTools -> name
      [] name \in ListAliases -> "list_contacts"
      [] name \in DeleteAliases -> "delete_contacts"
      [] OTHER -> IF ByKeys(keys) = "unknown" /\ name # "" THEN name ELSE ByKeys(keys)

\* _parse_tool_call looks into the argument text when the call has no name.
Parse(raw) == InferToolName(IF raw.name = "" THEN raw.nested ELSE raw.name, raw.keys)

\* Places in their order.
InOrder(S) == CHOOSE s \in [1..Cardinality(S) -> S] :
                 \A i, j \in DOMAIN s : i < j => s[i] < s[j]

\* _prepare_tool_calls: the calls with a name, in their order.
Prepare(calls) ==
    LET named == InOrder({i \in DOMAIN calls : Parse(calls[i]) # "unknown"})
    IN  [k \in DOMAIN named |-> Parse(calls[named[k]])]

-----------------------------------------------------------------------------
(* An answer: the finish reason, the structured calls, the calls written    *)
(* into the text, the text before them and whether the model reasoned.      *)

Texts == {"none", "fragment", "promise", "plain"}

\* A piece of JSON is no text for the user.
Meaningful(text) == IF text = "fragment" THEN "none" ELSE text

RawContent(reply) == reply.text # "none" \/ reply.written # <<>>

\* _assistant_response_empty
Empty(reply) == ~RawContent(reply) /\ reply.calls = <<>> /\ ~reply.reasoned

Promises(reply) == Meaningful(reply.text) = "promise"

\* _parse_inline_tool_calls finds the first call of the text, and none when
\* nothing names it and it has no arguments.
Inline(reply) ==
    IF reply.written # <<>> /\ reply.written[1] # [name |-> "", keys |-> {}, nested |-> ""]
    THEN <<reply.written[1]>> ELSE <<>>

\* The answers the model may give.  Calls are either structured or written,
\* or structured ones of no use beside written ones.
Replies ==
    LET seqs == UNION {[1..n -> RawCalls] : n \in 0..MaxBatch}
        ones == {s \in seqs : Len(s) <= 1}
    IN  {r \in [finish : {"stop", "tool_calls", "content_filter",
                          "insufficient_system_resource"},
                calls : seqs, written : ones, text : Texts, reasoned : BOOLEAN] :
            /\ r.written # <<>> => Prepare(r.calls) = <<>> /\ Len(r.calls) <= 1
            /\ r.reasoned => r.calls = <<>> /\ r.text = "none"
            /\ r.text # "none" => Len(r.calls) <= 1}

-----------------------------------------------------------------------------
(* The user's message: asn and leads (the two turn tests of agent_chat),    *)
(* continues (_user_requests_continuation), known (the history holds a      *)
(* request to go on with) and the words that choose the fallback searches.  *)

Turns == {t \in [asn : BOOLEAN, leads : BOOLEAN, continues : BOOLEAN, known : BOOLEAN,
                 words : {"none", "abuse", "contacts", "operators"}, thread : BOOLEAN] :
             ~(t.asn /\ t.leads)}

Queries(words) == CASE words = "operators" -> 11 [] words = "abuse" -> 1
                    [] words = "contacts" -> 3   [] OTHER -> 0

AtMost(n, limit) == IF n < limit THEN n ELSE limit

\* _user_requests_continuation
Continues(asked) == asked.continues

\* _infer_continuation_query has something to go on with.
Continuable(asked) == Continues(asked) /\ asked.known

FallbackCalls(asked) ==
    CASE Continuable(asked) -> <<"discover_leads">>
      [] Continues(asked) /\ ~asked.known -> <<"list_contacts">>
      [] OTHER -> [i \in 1..AtMost(Queries(asked.words), MaxQueries) |-> "list_contacts"]

-----------------------------------------------------------------------------
(* decide_turn. *)

Retry == [kind |-> "retry", calls |-> <<>>]
Fail  == [kind |-> "fail", calls |-> <<>>]
Final == [kind |-> "final", calls |-> <<>>]
Use(names) == [kind |-> "calls", calls |-> names]

\* tried: the nudges already given.  Another try while there is one left, else the rest.
RetryElse(tried, rest) == IF tried < MaxNudges THEN Retry ELSE rest

FallbackElseFail(asked) ==
    IF FallbackCalls(asked) # <<>> THEN Use(FallbackCalls(asked)) ELSE Fail

\* A text and no call.
DecideText(reply, asked, tried) ==
    LET act == Promises(reply) \/ Continues(asked) IN
    IF ~act THEN Final
    ELSE RetryElse(tried, IF FallbackCalls(asked) # <<>> THEN Use(FallbackCalls(asked))
                           ELSE IF Continues(asked) THEN Fail ELSE Final)

\* Calls, of which at least one must survive.
DecideCalls(reply, calls, asked, tried) ==
    LET tries == <<Prepare(calls), Prepare(reply.written), Prepare(Inline(reply))>>
        good == InOrder({k \in DOMAIN tries : tries[k] # <<>>})
    IN  IF good # <<>> THEN Use(tries[good[1]])
        ELSE RetryElse(tried, FallbackElseFail(asked))

\* The tests in the code's order: the first that holds decides.
Decide(reply, asked, tried) ==
    LET calls == IF reply.calls = <<>> THEN Inline(reply) ELSE reply.calls IN
    IF Empty(reply) THEN RetryElse(tried, Fail)
    ELSE IF reply.finish = "content_filter" THEN Fail
    ELSE IF reply.finish = "insufficient_system_resource" THEN RetryElse(tried, Fail)
    ELSE IF reply.finish = "tool_calls" /\ reply.calls = <<>>
         THEN RetryElse(tried, FallbackElseFail(asked))
    ELSE IF calls # <<>> THEN DecideCalls(reply, calls, asked, tried)
    ELSE IF Meaningful(reply.text) # "none" THEN DecideText(reply, asked, tried)
    ELSE RetryElse(tried, Fail)

\* What the loop may be told to do next.
Decisions(asked, tried) == {Decide(r, asked, tried) : r \in Replies}
=============================================================================
