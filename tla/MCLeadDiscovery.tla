--------------------------- MODULE MCLeadDiscovery ---------------------------
(* LeadDiscovery with its bounds, for TLC. *)
EXTENDS LeadDiscovery

CONSTANTS e1, e2

\* The first network has an address of its own, the second shares it.
MCRegistered == [a \in ASNs |-> {e1}]

MCFilters == {{}, {e2}}
=============================================================================
