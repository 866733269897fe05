------------------------------ MODULE LlmReply ------------------------------
(***************************************************************************)
(* What a request to the model promises its reader: text that grows and    *)
(* comes from one answer only, then one end: the whole of that answer, an  *)
(* error, or the reader is gone.  A piece of text is <<answer, place>>.    *)
(***************************************************************************)
EXTENDS Naturals, Sequences

CONSTANT Answers     \* the answers the provider may begin

VARIABLES asked,     \* the request is made
          shown,     \* the pieces of text the reader was given
          outcome    \* how it ended

vars == <<asked, shown, outcome>>

Open == [kind |-> "none", text |-> <<>>, calls |-> {}]
Whole == [names |-> 1, arguments |-> 1]

\* The first n pieces of answer a.
Pieces(a, n) == [i \in 1..n |-> <<a, i>>]
OfOne(text) == \E a \in Answers : text = Pieces(a, Len(text))

Init == asked = FALSE /\ shown = <<>> /\ outcome = Open

Request == ~asked /\ asked' = TRUE /\ UNCHANGED <<shown, outcome>>

Extends(longer) == /\ Len(shown) <= Len(longer)
                   /\ SubSeq(longer, 1, Len(shown)) = shown

Show == /\ asked /\ outcome = Open
        /\ Extends(shown') /\ Len(shown') = Len(shown) + 1
        /\ OfOne(shown')
        /\ UNCHANGED <<asked, outcome>>

\* The message continues what was shown, and each of its calls is whole: its
\* name and its arguments, once each.
Message == /\ asked /\ outcome = Open
           /\ outcome'.kind = "message"
           /\ Extends(outcome'.text) /\ OfOne(outcome'.text)
           /\ outcome'.calls \subseteq {Whole}
           /\ UNCHANGED <<asked, shown>>

GiveUp == /\ asked /\ outcome = Open
          /\ outcome' \in {[Open EXCEPT !.kind = k] : k \in {"error", "left"}}
          /\ UNCHANGED <<asked, shown>>

Next == Request \/ Show \/ Message \/ GiveUp

Spec == Init /\ [][Next]_vars /\ (asked ~> outcome # Open)
=============================================================================
