----------------------------- MODULE LoopVerdict -----------------------------
(***************************************************************************)
(* What the connector-loop rule promises, in the words of its description: *)
(* "Connectors form a pipeline cycle".  A caller asks about the graph of a *)
(* configuration, and the verdict that follows is "loop" if and only if    *)
(* that graph has a loop.  How the search finds out is ConnectorLoop's     *)
(* business (rules/static/connector_loop.go).                              *)
(***************************************************************************)
CONSTANT Pipeline

VARIABLES graph,    \* the pipelines of the configuration and what each feeds
          verdict   \* "pending", "loop" or "clean"

vars == <<graph, verdict>>

\* A graph gives every pipeline it knows the pipelines it feeds.
IsGraph(g) == DOMAIN g \subseteq Pipeline /\ g \in [DOMAIN g -> SUBSET DOMAIN g]

\* Data circulates: some pipelines each feed another one of them.
HasLoop(g) ==
  \E S \in SUBSET DOMAIN g : S # {} /\ \A u \in S : g[u] \cap S # {}

Answer(g) == IF HasLoop(g) THEN "loop" ELSE "clean"

\* The answer takes its time or, when there is nothing to search, none.
Init == IsGraph(graph) /\ verdict \in {"pending", Answer(graph)}

Ask ==
  /\ verdict # "pending"
  /\ IsGraph(graph')
  /\ verdict' \in {"pending", Answer(graph')}

Decide ==
  /\ verdict = "pending"
  /\ verdict' = Answer(graph)
  /\ UNCHANGED graph

Next == Ask \/ Decide

Spec == Init /\ [][Next]_vars
==============================================================================
