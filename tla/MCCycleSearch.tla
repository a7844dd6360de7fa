---------------------------- MODULE MCCycleSearch ----------------------------
(* CycleSearch on all the graphs of four workloads: two besides the new      *)
(* dependent and a startKey, so that two branches of a search can meet.      *)
EXTENDS CycleSearch

CONSTANTS a, b, c, d

FourKeys == {a, b, c, d}

\* The keys are alike, so one of them stands for the new dependent.  Only the
\* new dependent and one other workload may depend on themselves: the search
\* treats such an edge alike at every node that is not newDepKey.
OneNew == Init /\ newDepKey = a /\ \A k \in {c, d} : <<k, k>> \notin edges

MCSpec == OneNew /\ [][Next]_vars /\ Fairness
=============================================================================
