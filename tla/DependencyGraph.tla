--------------------------- MODULE DependencyGraph ---------------------------
(***************************************************************************)
(* What internal/controller/cycles.go computes, on a graph of workloads    *)
(* given as a set of edges <<dependent, dependency>>.                      *)
(*                                                                         *)
(* dfs explores the graph from a neighbour of startKey with a visited set  *)
(* that already holds startKey and that is shared by all the neighbours of *)
(* startKey.  It therefore finds the target exactly when the target can be *)
(* reached from one of these neighbours without leaving startKey again.    *)
(***************************************************************************)

\* The nodes of a set of edges.
Nodes(edges) == {e[1] : e \in edges} \cup {e[2] : e \in edges}

\* target is reached from node along edges: it is in every set of nodes that
\* holds node and is closed under the edges.
Reaches(edges, node, target) ==
  \A C \in SUBSET (Nodes(edges) \cup {node}) :
     (node \in C /\ \A e \in edges : e[1] \in C => e[2] \in C) => target \in C

\* dfs(graph, neighbor, newDepKey, visited, path) != nil for some neighbour of
\* start, neighbours equal to newDepKey (a mutual dependency) left out.
CycleThrough(edges, newDepKey, start) ==
  \E e \in edges : /\ e[1] = start
                   /\ e[2] # newDepKey
                   /\ Reaches({f \in edges : f[1] # start}, e[2], newDepKey)

\* DetectCycle: the dependencies of newDepKey are tried one by one, a
\* dependency on itself is skipped.
HasCycle(edges, newDepKey, dependsOn) ==
  \E start \in dependsOn : start # newDepKey /\ CycleThrough(edges, newDepKey, start)
=============================================================================
