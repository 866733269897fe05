------------------------------ MODULE LlmClient ------------------------------
(***************************************************************************)
(* stream_chat of app/pi_llm_client.py with app/pi_stream_parser.py: one   *)
(* request to the model, its attempts and what is put together from the    *)
(* chunks of a streamed answer.                                            *)
(*                                                                         *)
(* Text is counted in pieces, a call in the fragments of its name and of   *)
(* its arguments.  Keep-alives and lines that are not JSON change nothing  *)
(* and are left out; the chunks of an answer have the shape of the API and *)
(* a body that is cut raises an error of the transport.                    *)
(***************************************************************************)
EXTENDS Integers, Sequences

CONSTANTS MaxRetries,   \* MAX_RETRIES, 3 in the code
          MaxPieces,    \* bound: the pieces of text of an answer
          MaxCalls      \* bound: the calls of an answer

VARIABLES at,         \* "idle", "connect", "read", "sleep" or "over"
          attempt,    \* attempt, from 0
          answer,     \* what the provider sends in this attempt
          text,       \* content_parts, joined
          reasoned,   \* reasoning_parts is not empty
          calls,      \* tool_calls, by index: the fragments of each
          status,     \* tool_status_emitted
          emitted,    \* emitted_any
          whole,      \* the provider has sent the complete message
          shown,      \* the text given to the reader, in all attempts
          outcome     \* the last event

parts == <<text, reasoned, calls, status, emitted, whole>>
llmVars == <<at, attempt, answer, parts, shown, outcome>>

Nothing == [names |-> 0, arguments |-> 0]
Answers == [text : 0..MaxPieces, reasons : BOOLEAN, calls : 0..MaxCalls]
NoAnswer == [text |-> 0, reasons |-> FALSE, calls |-> 0]
Open == [kind |-> "none", text |-> <<>>, calls |-> {}]

\* Each attempt starts with empty parts.
FreshParts == /\ text' = 0 /\ reasoned' = FALSE /\ calls' = <<>>
              /\ status' = FALSE /\ emitted' = FALSE /\ whole' = FALSE

Init == /\ at = "idle" /\ attempt = 0 /\ answer = NoAnswer
        /\ text = 0 /\ reasoned = FALSE /\ calls = <<>>
        /\ status = FALSE /\ emitted = FALSE /\ whole = FALSE
        /\ shown = <<>> /\ outcome = Open

End(kind) == at' = "over" /\ outcome' = [Open EXCEPT !.kind = kind]

\* Another attempt while there is one left, else the error.
RetryElseFail ==
    IF attempt < MaxRetries
    THEN at' = "sleep" /\ UNCHANGED outcome
    ELSE End("error")

-----------------------------------------------------------------------------
(* The request. *)

Request == /\ at = "idle"
           /\ at' = "connect" /\ FreshParts
           /\ UNCHANGED <<attempt, answer, shown, outcome>>

\* _settings raises when there is no key; the loop that reads gets the error.
NoKey == /\ at = "connect" /\ attempt = 0
         /\ End("error")
         /\ UNCHANGED <<attempt, answer, parts, shown>>

\* The status is good: the body is read.
Answered == /\ at = "connect"
            /\ at' = "read" /\ answer' \in Answers
            /\ UNCHANGED <<attempt, parts, shown, outcome>>

\* 429 and the server errors.
Busy == /\ at = "connect"
        /\ RetryElseFail
        /\ UNCHANGED <<attempt, answer, parts, shown>>

\* Any other status from 400.
Refused == /\ at = "connect"
           /\ End("error")
           /\ UNCHANGED <<attempt, answer, parts, shown>>

\* The sleep ends, at most _BACKOFF_CAP seconds later.
Wake == /\ at = "sleep"
        /\ at' = "connect" /\ attempt' = attempt + 1 /\ FreshParts
        /\ UNCHANGED <<answer, shown, outcome>>

\* As if what the reader was given did not matter.
BrokenAnyway == /\ at \in {"connect", "read"}
                /\ RetryElseFail
                /\ UNCHANGED <<attempt, answer, parts, shown>>

\* The connection fails, is cut or times out: no retry once the reader has been
\* given anything.
Broken == /\ at \in {"connect", "read"}
          /\ IF emitted THEN End("error") ELSE RetryElseFail
          /\ UNCHANGED <<attempt, answer, parts, shown>>

-----------------------------------------------------------------------------
(* Chunks. *)

Reading == at = "read" /\ ~whole

\* content
Piece == /\ Reading /\ text < answer.text
         /\ text' = text + 1 /\ emitted' = TRUE
         /\ shown' = Append(shown, <<attempt, text + 1>>)
         /\ UNCHANGED <<at, attempt, answer, reasoned, calls, status, whole, outcome>>

\* reasoning_content: reasoning_start comes first unless there is text already
\* or a status was told.
Reasoning == /\ Reading /\ answer.reasons
             /\ reasoned' = TRUE /\ emitted' = TRUE
             /\ status' = (status \/ text = 0)
             /\ UNCHANGED <<at, attempt, answer, text, calls, whole, shown, outcome>>

\* merge_tool_call_delta: a fragment is added to the call of its index, a name
\* before arguments; only the first call is told to the reader, as a status.
Fragment ==
    /\ Reading
    /\ \E i \in 1..answer.calls :
          /\ i <= Len(calls) + 1
          /\ \/ i > Len(calls) /\ calls' = Append(calls, [Nothing EXCEPT !.names = 1])
             \/ /\ i <= Len(calls) /\ calls[i].arguments = 0
                /\ calls' = [calls EXCEPT ![i].arguments = @ + 1]
    /\ status' = TRUE /\ emitted' = (emitted \/ ~status)
    /\ UNCHANGED <<at, attempt, answer, text, reasoned, whole, shown, outcome>>

Longer(n, m) == IF n > m THEN n ELSE m

\* apply_complete_message: the longer text wins and the calls are replaced.
\* Nothing is told to the reader.
Complete == /\ Reading
            /\ whole' = TRUE
            /\ text' = Longer(answer.text, text)
            /\ reasoned' = (reasoned \/ answer.reasons)
            /\ calls' = [i \in 1..answer.calls |-> [names |-> 1, arguments |-> 1]]
            /\ UNCHANGED <<at, attempt, answer, status, emitted, shown, outcome>>

Sent == \/ whole
        \/ /\ text = answer.text /\ Len(calls) = answer.calls
           /\ \A i \in DOMAIN calls : calls[i].arguments = 1

\* The body ends: assemble_message.
Assemble == /\ at = "read" /\ Sent
            /\ at' = "over"
            /\ outcome' = [kind |-> "message",
                           text |-> [i \in 1..text |-> <<attempt, i>>],
                           calls |-> {calls[i] : i \in DOMAIN calls} \ {Nothing}]
            /\ UNCHANGED <<attempt, answer, parts, shown>>

\* The reader closes the generator.
Leave == /\ at \in {"connect", "read", "sleep"}
         /\ End("left")
         /\ UNCHANGED <<attempt, answer, parts, shown>>

Attempt == NoKey \/ Answered \/ Busy \/ Refused \/ Wake \/ Broken
Deliver == Piece \/ Fragment \/ Complete \/ Assemble

Next == Request \/ Attempt \/ Deliver \/ Reasoning \/ Leave

-----------------------------------------------------------------------------
\* A request keeps the promises of LlmReply: what the reader was given is never
\* taken back by another attempt, and the message is whole.
Reply == INSTANCE LlmReply WITH
    asked <- at # "idle", Answers <- 0..MaxRetries

ImplementsLlmReply == Reply!Spec
=============================================================================
