---------------------------- MODULE Reachability ----------------------------
(***************************************************************************)
(* Graphs as internal/plan and internal/config walk them: a graph is a     *)
(* function from its nodes to sets of nodes, the needs of steps or the     *)
(* subagents of agents.  What the code finds by a depth-first visit is     *)
(* written as the least set that the edges do not leave.                   *)
(***************************************************************************)
Closed(graph, S) == \A x \in S : graph[x] \subseteq S

(* Everything that a path of at least one edge leads to from a.            *)
Reach(graph, a) ==
  LET D == {S \in SUBSET DOMAIN graph : graph[a] \subseteq S /\ Closed(graph, S)}
  IN  {b \in DOMAIN graph : \A S \in D : b \in S}

Reaches(graph, a, b) == b \in Reach(graph, a)
Acyclic(graph) == \A a \in DOMAIN graph : ~Reaches(graph, a, a)
=============================================================================
