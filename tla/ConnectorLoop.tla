---------------------------- MODULE ConnectorLoop ----------------------------
(***************************************************************************)
(* The search of rules/static/connector_loop.go for cycles in the graph    *)
(* that connectors lay over the pipelines: a depth-first search with       *)
(* colours, over Go maps, so in no particular order.  The recursion dfs(u) *)
(* is the path of the calls under way, each with the successors its loop   *)
(* has still to look at; the reconstruction of a cycle, which walks up the *)
(* parents until it meets the pipeline it started from, is stepwise too,   *)
(* because nothing in it says that this pipeline is ever met.              *)
(*                                                                         *)
(* Successors are sets: a pipeline that two connectors lead to is looked   *)
(* at twice by the code, which then reports the same cycle twice.          *)
(***************************************************************************)
EXTENDS Naturals, Sequences

CONSTANTS Pipeline,     \* the names of pipelines
          NoPipeline    \* a name that the map parent does not have

ASSUME NoPipelineAssumption == NoPipeline \notin Pipeline

VARIABLES adj,      \* the graph of the configuration under evaluation
          color,    \* per pipeline: not visited, in the current path, finished
          parent,   \* per pipeline: from which one it was reached
          path,     \* the calls of dfs that have not returned, outermost first
          rest,     \* per pipeline: the successors its call has yet to look at
          walk,     \* the cycle being reconstructed, <<>> when there is none
          cycles,   \* the cycles found
          finish,   \* history: when each call of dfs returned, 0 before
          clock     \* history: how many have

searchVars == <<adj, color, parent, path, rest, walk, cycles, finish, clock>>

Colors == {"white", "gray", "black"}
IsGraph(g) == DOMAIN g \subseteq Pipeline /\ g \in [DOMAIN g -> SUBSET DOMAIN g]

EndOf(s) == s[Len(s)]

SearchInit(g) ==
  /\ adj = g
  /\ color = [p \in Pipeline |-> "white"]
  /\ parent = [p \in Pipeline |-> NoPipeline]
  /\ path = <<>>
  /\ rest = [p \in Pipeline |-> {}]
  /\ walk = <<>>
  /\ cycles = {}
  /\ finish = [p \in Pipeline |-> 0]
  /\ clock = 0

LoopInit == \E S \in SUBSET Pipeline : \E g \in [S -> SUBSET S] : SearchInit(g)

Done == path = <<>> /\ \A p \in DOMAIN adj : color[p] = "black"

\* Mutation: the cycles of the last evaluation stay in the list.
BeginKeepsCycles(g) ==
  /\ Done
  /\ adj' = g
  /\ color' = [p \in Pipeline |-> "white"]
  /\ parent' = [p \in Pipeline |-> NoPipeline]
  /\ path' = <<>>
  /\ rest' = [p \in Pipeline |-> {}]
  /\ walk' = <<>>
  /\ finish' = [p \in Pipeline |-> 0]
  /\ clock' = 0
  /\ UNCHANGED cycles

\* A new evaluation builds its graph and starts from nothing.
Begin(g) ==
  /\ Done
  /\ adj' = g
  /\ color' = [p \in Pipeline |-> "white"]
  /\ parent' = [p \in Pipeline |-> NoPipeline]
  /\ path' = <<>>
  /\ rest' = [p \in Pipeline |-> {}]
  /\ walk' = <<>>
  /\ cycles' = {}
  /\ finish' = [p \in Pipeline |-> 0]
  /\ clock' = 0

\* dfs(u) is called: it marks u and ranges over its successors.
Enter(u) ==
  /\ color' = [color EXCEPT ![u] = "gray"]
  /\ path' = Append(path, u)

\* The outer loop comes to a pipeline that no search has reached.
Visit(u) ==
  /\ path = <<>>
  /\ u \in DOMAIN adj
  /\ color[u] = "white"
  /\ Enter(u)
  /\ rest' = [rest EXCEPT ![u] = adj[u]]
  /\ UNCHANGED <<adj, parent, walk, cycles, finish, clock>>

\* The innermost call looks at its next successor.
Look(v) ==
  /\ path # <<>>
  /\ walk = <<>>
  /\ v \in rest[EndOf(path)]

\* Mutation: dfs is called before the parent is known.
DescendWithoutParent(v) ==
  /\ Look(v)
  /\ color[v] = "white"
  /\ Enter(v)
  /\ rest' = [rest EXCEPT ![EndOf(path)] = @ \ {v}, ![v] = adj[v]]
  /\ UNCHANGED <<adj, parent, walk, cycles, finish, clock>>

Descend(v) ==
  /\ Look(v)
  /\ color[v] = "white"
  /\ parent' = [parent EXCEPT ![v] = EndOf(path)]
  /\ Enter(v)
  /\ rest' = [rest EXCEPT ![EndOf(path)] = @ \ {v}, ![v] = adj[v]]
  /\ UNCHANGED <<adj, walk, cycles, finish, clock>>

\* Mutation: any pipeline seen before is taken to be in the current path.
MeetVisited(v) ==
  /\ Look(v)
  /\ color[v] # "white"
  /\ rest' = [rest EXCEPT ![EndOf(path)] = @ \ {v}]
  /\ walk' = <<EndOf(path), v>>
  /\ UNCHANGED <<adj, color, parent, path, cycles, finish, clock>>

\* v is in the current path: the edge closes a cycle, whose last two
\* pipelines are the caller and v.
MeetGray(v) ==
  /\ Look(v)
  /\ color[v] = "gray"
  /\ rest' = [rest EXCEPT ![EndOf(path)] = @ \ {v}]
  /\ walk' = <<EndOf(path), v>>
  /\ UNCHANGED <<adj, color, parent, path, cycles, finish, clock>>

MeetBlack(v) ==
  /\ Look(v)
  /\ color[v] = "black"
  /\ rest' = [rest EXCEPT ![EndOf(path)] = @ \ {v}]
  /\ UNCHANGED <<adj, color, parent, path, walk, cycles, finish, clock>>

\* for cur := u; cur != v; cur = parent[cur]
WalkUp ==
  /\ walk # <<>>
  /\ Head(walk) # EndOf(walk)
  /\ walk' = <<parent[Head(walk)]>> \o walk
  /\ UNCHANGED <<adj, color, parent, path, rest, cycles, finish, clock>>

\* Mutation: the cycle is listed from the caller back to the start.
ReportCycleUnreversed ==
  /\ walk # <<>>
  /\ Head(walk) = EndOf(walk)
  /\ cycles' = cycles \cup {[i \in 1 .. Len(walk) |-> walk[Len(walk) + 1 - i]]}
  /\ walk' = <<>>
  /\ UNCHANGED <<adj, color, parent, path, rest, finish, clock>>

ReportCycle ==
  /\ walk # <<>>
  /\ Head(walk) = EndOf(walk)
  /\ cycles' = cycles \cup {walk}
  /\ walk' = <<>>
  /\ UNCHANGED <<adj, color, parent, path, rest, finish, clock>>

\* Mutation: the loop over the successors is left after the first one.
ReturnEarly ==
  /\ path # <<>>
  /\ walk = <<>>
  /\ rest[EndOf(path)] # adj[EndOf(path)] \/ rest[EndOf(path)] = {}
  /\ color' = [color EXCEPT ![EndOf(path)] = "black"]
  /\ path' = SubSeq(path, 1, Len(path) - 1)
  /\ clock' = clock + 1
  /\ finish' = [finish EXCEPT ![EndOf(path)] = clock + 1]
  /\ UNCHANGED <<adj, parent, rest, walk, cycles>>

\* The innermost call has seen all successors and returns.
Return ==
  /\ path # <<>>
  /\ walk = <<>>
  /\ rest[EndOf(path)] = {}
  /\ color' = [color EXCEPT ![EndOf(path)] = "black"]
  /\ path' = SubSeq(path, 1, Len(path) - 1)
  /\ clock' = clock + 1
  /\ finish' = [finish EXCEPT ![EndOf(path)] = clock + 1]
  /\ UNCHANGED <<adj, parent, rest, walk, cycles>>

SearchStep ==
  \/ \E u \in Pipeline : Visit(u) \/ Descend(u) \/ MeetGray(u) \/ MeetBlack(u)
  \/ WalkUp \/ ReportCycle \/ Return

LoopNext ==
  SearchStep \/ \E S \in SUBSET Pipeline : \E g \in [S -> SUBSET S] : Begin(g)

LoopSpec == LoopInit /\ [][LoopNext]_searchVars
------------------------------------------------------------------------------
SearchTypeOK ==
  /\ IsGraph(adj)
  /\ color \in [Pipeline -> Colors]
  /\ parent \in [Pipeline -> Pipeline \cup {NoPipeline}]
  /\ path \in Seq(DOMAIN adj)
  /\ rest \in [Pipeline -> SUBSET DOMAIN adj]
  /\ walk \in Seq(DOMAIN adj)
  /\ cycles \subseteq Seq(DOMAIN adj)
  /\ finish \in [Pipeline -> Nat]
  /\ clock \in Nat

\* The graph has the edges of the walk w and w returns to where it began.
IsCycle(w) ==
  /\ Len(w) >= 2
  /\ w[1] = EndOf(w)
  /\ \A i \in 1 .. Len(w) - 1 : w[i] \in DOMAIN adj /\ w[i + 1] \in adj[w[i]]

\* Every loop reported to the user is one: the walk up the parents met the
\* pipeline it was looking for and followed edges of the graph all the way
\* (connector_loop.go:64-72), in whatever order the maps were ranged over.
ReportedAreCycles == \A w \in cycles : IsCycle(w)

\* The walk up the parents never leaves the calls under way: it cannot run
\* past the root, where parent has no entry and the loop would not end.
WalkStaysOnPath ==
  \A i \in 1 .. Len(walk) : \E j \in 1 .. Len(path) : walk[i] = path[j]

\* What is reported, and the way to it, are part of the graph.
SearchIsSound == WalkStaysOnPath /\ ReportedAreCycles

\* When the search ends without a report, the pipelines have returned in an
\* order in which each one comes after all that it feeds: nothing can go
\* round, so no loop was missed.
CleanIsOrdered ==
  Done /\ cycles = {} =>
    \A u \in DOMAIN adj : \A v \in adj[u] : finish[v] < finish[u]
------------------------------------------------------------------------------
\* The search implements what the rule promises.
Verdict == IF ~Done THEN "pending" ELSE IF cycles = {} THEN "clean" ELSE "loop"

Promise == INSTANCE LoopVerdict WITH graph <- adj, verdict <- Verdict

VerdictIsRight == Promise!Spec
==============================================================================
