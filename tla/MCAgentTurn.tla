----------------------------- MODULE MCAgentTurn -----------------------------
(* AgentTurn with its bounds, for TLC. *)
EXTENDS AgentTurn

Raw(name, keys) == [name |-> name, keys |-> keys, nested |-> ""]

\* A search, a look-up named by its arguments only, an alias of a tool that only
\* reads, a tool that only reads named inside its arguments, a tool that writes
\* and a call of no use.
MCRawCalls == {Raw("discover_leads", {"query"}), Raw("", {"asns"}),
               Raw("search_contacts", {"q"}),
               [name |-> "", keys |-> {"contact_id"}, nested |-> "get_stats"],
               Raw("import_leads", {"rows"}), Raw("", {})}

Plain == [asn |-> FALSE, leads |-> FALSE, continues |-> FALSE, known |-> FALSE,
          words |-> "none", thread |-> TRUE]

MCAskedTurns == {Plain, [Plain EXCEPT !.asn = TRUE, !.words = "contacts"],
                 [Plain EXCEPT !.leads = TRUE],
                 [Plain EXCEPT !.continues = TRUE, !.thread = FALSE],
                 [Plain EXCEPT !.continues = TRUE, !.known = TRUE]}
=============================================================================
