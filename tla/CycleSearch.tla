----------------------------- MODULE CycleSearch -----------------------------
(***************************************************************************)
(* The search of internal/controller/cycles.go, step by step: DetectCycle  *)
(* tries the dependencies of the new WorkloadDependency one by one and dfs *)
(* explores the graph of the namespace from each of them.  The reconciler  *)
(* only uses the verdict, which the other modules take from HasCycle of    *)
(* DependencyGraph; this module shows that the search computes it.         *)
(*                                                                         *)
(* The call stack is kept as two sequences: path[i] is the node of frame i *)
(* (startKey first) and left[i] the neighbours its loop has still to look  *)
(* at.  The loops run over slices whose order is the order of a List and   *)
(* of what users wrote, so a loop takes its elements in any order.         *)
(***************************************************************************)
EXTENDS DependencyGraph, Naturals, Sequences

CONSTANT Keys   \* workloadKey: kind/namespace/name

VARIABLES
  edges,      \* graph: <<dependent, dependency>>
  newDepKey,  \* the dependent of the new WorkloadDependency
  dependsOn,  \* its dependencies
  untried,    \* the dependencies the outer loop has still to try
  path,       \* the nodes of the calls in progress, from startKey on
  left,       \* what the loop of each call has still to look at
  visited,    \* the map all the calls for one startKey share
  verdict     \* "searching", "cycle" or "none"

question == <<edges, newDepKey, dependsOn>>
vars == <<edges, newDepKey, dependsOn, untried, path, left, visited, verdict>>

\* graph[node]
Neighbours(node) == {k \in Keys : <<node, k>> \in edges}

\* Other WorkloadDependencies may have the same dependent, so that dependsOn
\* need not be all the neighbours of newDepKey.
Init == /\ edges \in SUBSET (Keys \X Keys)
        /\ newDepKey \in Keys
        /\ dependsOn \in (SUBSET Neighbours(newDepKey)) \ {{}}
        /\ untried = dependsOn
        /\ path = <<>>
        /\ left = <<>>
        /\ visited = {}
        /\ verdict = "searching"

Searching == verdict = "searching"
Top == Len(path)

\* A dependency of a workload on itself is passed over.
SkipSelf == /\ Searching
            /\ path = <<>>
            /\ newDepKey \in untried
            /\ untried' = untried \ {newDepKey}
            /\ UNCHANGED <<question, path, left, visited, verdict>>

\* Mutant: one visited map for all the dependencies.
Start_Shared(k) == /\ Searching
                   /\ path = <<>>
                   /\ k \in untried \ {newDepKey}
                   /\ untried' = untried \ {k}
                   /\ path' = <<k>>
                   /\ left' = <<Neighbours(k)>>
                   /\ visited' = visited \cup {k}
                   /\ UNCHANGED <<question, verdict>>

\* Mutant: the outer loop does not advance.
Start_Again(k) == /\ Searching
                  /\ path = <<>>
                  /\ k \in untried \ {newDepKey}
                  /\ path' = <<k>>
                  /\ left' = <<Neighbours(k)>>
                  /\ visited' = {k}
                  /\ UNCHANGED <<question, untried, verdict>>

\* The next startKey is explored with a visited map of its own.
Start(k) == /\ Searching
            /\ path = <<>>
            /\ k \in untried \ {newDepKey}
            /\ untried' = untried \ {k}
            /\ path' = <<k>>
            /\ left' = <<Neighbours(k)>>
            /\ visited' = {k}
            /\ UNCHANGED <<question, verdict>>

\* Mutant: dfs does not ask whether its node was visited.
Descend_Revisit(k) == /\ Searching
                      /\ path # <<>>
                      /\ k \in left[Top] \ {newDepKey}
                      /\ path' = Append(path, k)
                      /\ left' = Append([left EXCEPT ![Top] = @ \ {k}], Neighbours(k))
                      /\ visited' = visited \cup {k}
                      /\ UNCHANGED <<question, untried, verdict>>

\* The innermost loop takes a neighbour that is not the target and was not
\* visited: dfs calls itself.
Descend(k) == /\ Searching
              /\ path # <<>>
              /\ k \in left[Top] \ (visited \cup {newDepKey})
              /\ path' = Append(path, k)
              /\ left' = Append([left EXCEPT ![Top] = @ \ {k}], Neighbours(k))
              /\ visited' = visited \cup {k}
              /\ UNCHANGED <<question, untried, verdict>>

\* A visited neighbour, and the target as a neighbour of startKey (a mutual
\* dependency), are passed over.
Pass(k) == /\ Searching
           /\ path # <<>>
           /\ k \in left[Top]
           /\ k \in visited \/ (k = newDepKey /\ Top = 1)
           /\ left' = [left EXCEPT ![Top] = @ \ {k}]
           /\ UNCHANGED <<question, untried, path, visited, verdict>>

\* Mutant: a mutual dependency is reported too.
Report_Mutual == /\ Searching
                 /\ path # <<>>
                 /\ newDepKey \in left[Top]
                 /\ verdict' = "cycle"
                 /\ UNCHANGED <<question, untried, path, left, visited>>

\* The target is a neighbour of a node other than startKey.
Report == /\ Searching
          /\ Top > 1
          /\ newDepKey \in left[Top]
          /\ verdict' = "cycle"
          /\ UNCHANGED <<question, untried, path, left, visited>>

\* A loop is over: the call returns nil, or the next startKey is tried.
Return == /\ Searching
          /\ path # <<>>
          /\ left[Top] = {}
          /\ path' = SubSeq(path, 1, Top - 1)
          /\ left' = SubSeq(left, 1, Top - 1)
          /\ UNCHANGED <<question, untried, visited, verdict>>

\* The outer loop is over: DetectCycle returns nil.
Exhausted == /\ Searching
             /\ path = <<>>
             /\ untried = {}
             /\ verdict' = "none"
             /\ UNCHANGED <<question, untried, path, left, visited>>

Next == \/ SkipSelf
        \/ \E k \in Keys : Start(k) \/ Descend(k) \/ Pass(k)
        \/ Report
        \/ Return
        \/ Exhausted

Spec == Init /\ [][Next]_vars

\* The search is a plain function call: it keeps running.
Fairness == WF_vars(Next)
-----------------------------------------------------------------------------
\* What DetectCycle returns: newDepKey, the nodes of the calls, newDepKey.
Reported == <<newDepKey>> \o path \o <<newDepKey>>

\* The variables have their types, and the calls of dfs in progress are for
\* pairwise different workloads: the recursion is never deeper than there are
\* workloads, whatever cycles the graph has.
TypeOK == /\ edges \in SUBSET (Keys \X Keys)
          /\ newDepKey \in Keys
          /\ dependsOn \in SUBSET Keys
          /\ untried \in SUBSET dependsOn
          /\ path \in Seq(Keys)
          /\ left \in Seq(SUBSET Keys)
          /\ Len(left) = Len(path)
          /\ \A i, j \in 1..Len(path) : i # j => path[i] # path[j]
          /\ visited \in SUBSET Keys
          /\ verdict \in {"searching", "cycle", "none"}

\* The path in the CycleDetected event and in the message of the status is a
\* cycle of at least three workloads: it leaves the new dependent by one of the new dependencies,
\* follows dependencies, meets no workload twice and ends where it began.
ReportIsCycle ==
  verdict = "cycle" =>
    /\ Len(path) > 1
    /\ path[1] \in dependsOn
    /\ \A i \in 1..(Len(Reported) - 1) : <<Reported[i], Reported[i+1]>> \in edges
    /\ \A i, j \in 1..(Len(Reported) - 1) : i # j => Reported[i] # Reported[j]

\* The verdict is the reachability the rest of the model uses, although the
\* calls share one visited map and it holds startKey from the beginning: no
\* cycle is missed and none is invented, in whatever order the neighbours come.
VerdictIsRight ==
  /\ verdict = "cycle" => HasCycle(edges, newDepKey, dependsOn)
  /\ verdict = "none" => ~HasCycle(edges, newDepKey, dependsOn)

\* The search ends on every graph, those with cycles that do not go through
\* the new dependent included.
Terminates == <>(verdict # "searching")
=============================================================================
