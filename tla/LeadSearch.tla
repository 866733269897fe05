----------------------------- MODULE LeadSearch -----------------------------
(***************************************************************************)
(* What the checkpoints of a lead discovery job promise over any number of *)
(* restarts: the search only moves forward.  What a recorded phase found   *)
(* is never forgotten, a recorded ASN is not looked up again, and a scored *)
(* search is not scored again.  LeadDiscovery implements it.               *)
(***************************************************************************)
EXTENDS Naturals

CONSTANTS Jobs, LastPhase
VARIABLES phase,    \* the recorded phase of each job: 0 before the first,
              \* LastPhase + 1 when it is over
          looked,   \* the ASNs recorded as looked up
          found,    \* the addresses recorded
          leads     \* the scored leads

vars == <<phase, looked, found, leads>>

Init ==
    /\ phase = [j \in Jobs |-> 0] /\ looked = [j \in Jobs |-> {}]
    /\ found = [j \in Jobs |-> {}] /\ leads = [j \in Jobs |-> {}]

Others(j) == \A k \in Jobs \ {j} :
    /\ phase'[k] = phase[k] /\ looked'[k] = looked[k]
    /\ found'[k] = found[k] /\ leads'[k] = leads[k]

\* New addresses come with a new phase or a new ASN.
Collect(j) ==
    /\ phase[j] <= phase'[j] /\ phase'[j] < LastPhase
    /\ looked[j] \subseteq looked'[j] /\ found[j] \subseteq found'[j]
    /\ phase'[j] # phase[j] \/ looked'[j] # looked[j]
    /\ leads'[j] = leads[j]
    /\ Others(j)

Score(j) ==
    /\ phase[j] < LastPhase /\ phase'[j] = LastPhase
    /\ looked'[j] = looked[j]
    /\ found'[j] \subseteq found[j] /\ leads'[j] \subseteq found'[j]
    /\ Others(j)

\* The record goes when the search is over.
Finish(j) ==
    /\ phase[j] <= LastPhase /\ phase'[j] = LastPhase + 1
    /\ looked'[j] = {} /\ found'[j] = {} /\ leads'[j] = {}
    /\ Others(j)

Next == \E j \in Jobs : Collect(j) \/ Score(j) \/ Finish(j)

Spec == Init /\ [][Next]_vars
=============================================================================
