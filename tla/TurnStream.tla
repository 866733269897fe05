------------------------------ MODULE TurnStream ------------------------------
(***************************************************************************)
(* What the reader of a Pi turn is promised, whatever the model and the    *)
(* tools do: every tool it is told of is followed by its result, and the   *)
(* stream ends, once, with no tool left open; the user is told the turn    *)
(* was stopped only when somebody asked for it.                            *)
(***************************************************************************)
EXTENDS Naturals

CONSTANT MaxOpen     \* the tools that may be open at a time

VARIABLES open,      \* the tools announced whose result has not been sent
          ending,    \* "none", or how the stream ended
          stopAsked  \* somebody asked the turn to stop

vars == <<open, ending, stopAsked>>

Init == open = 0 /\ ending = "none" /\ stopAsked = FALSE

Announce == /\ ending = "none" /\ open < MaxOpen
            /\ open' \in (open + 1)..MaxOpen
            /\ UNCHANGED <<ending, stopAsked>>

Result == /\ ending = "none" /\ open > 0
          /\ open' = open - 1
          /\ UNCHANGED <<ending, stopAsked>>

AskToStop == /\ ending = "none" /\ ~stopAsked
             /\ stopAsked' = TRUE
             /\ UNCHANGED <<open, ending>>

\* The last event is 'done': a reply, an error or the word that it stopped.
Done == /\ ending = "none" /\ open = 0
        /\ ending' \in {"reply", "error"} \cup (IF stopAsked THEN {"stopped"} ELSE {})
        /\ UNCHANGED <<open, stopAsked>>

\* Nobody reads the stream any more.
Leave == /\ ending = "none"
         /\ ending' = "left"
         /\ UNCHANGED <<open, stopAsked>>

Next == Announce \/ Result \/ AskToStop \/ Done \/ Leave

Spec == Init /\ [][Next]_vars /\ <>(ending # "none")
=============================================================================
