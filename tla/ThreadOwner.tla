----------------------------- MODULE ThreadOwner -----------------------------
(***************************************************************************)
(* What the 409 answers of the Pi routes promise: a thread has at most one *)
(* turn at a time, and a turn gives the thread back before another takes   *)
(* it.  PiThreads implements it.                                           *)
(***************************************************************************)
CONSTANT Turns
VARIABLE owners     \* the turns that hold the thread

Init == owners = {}

Take(t) == owners = {} /\ owners' = {t}

Free == owners' = {}

Next == (\E t \in Turns : Take(t)) \/ Free

Spec == Init /\ [][Next]_owners
=============================================================================
