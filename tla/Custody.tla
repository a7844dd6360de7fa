------------------------------- MODULE Custody --------------------------------
(***************************************************************************)
(* What klink promises of replicas, without caches, phases, windows and    *)
(* jobs: it is their custodian.  The only things it ever does to a         *)
(* workload are to take all its replicas, remembering how many, and to     *)
(* give back exactly the number it remembers.  A number is never forgotten *)
(* otherwise, and never made up.                                           *)
(***************************************************************************)
EXTENDS Naturals

CONSTANTS WDs, Workloads, Dependent

VARIABLES
  count,    \* count[x]: the replicas of workload x
  kept,     \* kept[w]: what w has to give back to its dependent, 0 if nothing
  acting    \* klink is in the middle of a reconcile

vars == <<count, kept, acting>>

Init ==
  /\ count \in [Workloads -> Nat]
  /\ kept = [w \in WDs |-> 0]
  /\ acting = FALSE

\* Users and autoscalers set replicas as they like, even in the middle of a reconcile.
Scale ==
  /\ count' \in [Workloads -> Nat]
  /\ UNCHANGED <<kept, acting>>

\* A reconcile begins: it takes, it gives back, or it leaves everything as it is.
TakeReplicas(w) ==
  /\ count[Dependent[w]] > 0
  /\ count' = [count EXCEPT ![Dependent[w]] = 0]
  /\ kept' = [kept EXCEPT ![w] = count[Dependent[w]]]

GiveBack(w) ==
  /\ kept[w] > 0
  /\ count' = [count EXCEPT ![Dependent[w]] = kept[w]]
  /\ kept' = [kept EXCEPT ![w] = 0]

Begin ==
  /\ ~acting /\ acting' = TRUE
  /\ \/ \E w \in WDs : TakeReplicas(w) \/ GiveBack(w)
     \/ UNCHANGED <<count, kept>>

\* A reconcile ends: what it did is on record.
End ==
  /\ acting /\ acting' = FALSE
  /\ UNCHANGED <<count, kept>>

Next == Scale \/ Begin \/ End

Spec == Init /\ [][Next]_vars
=============================================================================
