-------------------------- MODULE CycleSearchProofs --------------------------
(***************************************************************************)
(* DetectCycle returns the right verdict, and a real cycle with it, on     *)
(* every graph: the proof of ReportIsCycle and VerdictIsRight for any set  *)
(* of workloads.                                                           *)
(*                                                                         *)
(* The argument is the classic one about a depth-first search with a       *)
(* visited map.  A visited node whose call has returned has only visited   *)
(* neighbours, and so has a node whose call is in progress, as far as its  *)
(* loop has come (DoneInv).  When the call for startKey returns, the       *)
(* visited nodes are thus a set that is closed under the edges that do not *)
(* leave startKey, and the target is not in it: it cannot be reached.      *)
(* Conversely, the nodes of the calls in progress are reached from one     *)
(* another (ReachInv).                                                     *)
(***************************************************************************)
EXTENDS CycleSearch, SequenceTheorems, TLAPS

OnPath(k) == \E i \in 1..Len(path) : path[i] = k

Without(start) == {f \in edges : f[1] # start}

StackInv == /\ newDepKey \notin visited
            /\ Len(path) > 0 => path[1] \in dependsOn
            /\ \A i \in 1..Len(path) : /\ path[i] \in visited
                                       /\ left[i] \subseteq Neighbours(path[i])
            /\ \A i \in 1..(Len(path) - 1) : <<path[i], path[i+1]>> \in edges

DoneInv == Len(path) > 0 =>
             /\ \A v \in visited : OnPath(v) \/ Neighbours(v) \subseteq visited
             /\ Neighbours(path[1]) \ left[1] \subseteq visited \cup {newDepKey}
             /\ \A i \in 2..Len(path) : Neighbours(path[i]) \ left[i] \subseteq visited

ReachInv == \A i \in 2..Len(path) : Reaches(Without(path[1]), path[2], path[i])

TriedInv == \A k \in dependsOn \ untried :
              \/ k = newDepKey
              \/ Len(path) > 0 /\ k = path[1]
              \/ ~CycleThrough(edges, newDepKey, k)

VerdictInv == /\ verdict = "cycle" => Len(path) > 1 /\ newDepKey \in left[Len(path)]
              /\ verdict = "none" => Len(path) = 0 /\ untried = {}

FirstEdge == \A k \in dependsOn : <<newDepKey, k>> \in edges

Inv == TypeOK /\ StackInv /\ DoneInv /\ ReachInv /\ TriedInv /\ VerdictInv /\ FirstEdge
-----------------------------------------------------------------------------
\* A node is reached from itself.
LEMMA ReachesSelf == ASSUME NEW E, NEW k PROVE Reaches(E, k, k)
  BY DEF Reaches

\* What is reached from a node reaches on along an edge.
LEMMA ReachesNext ==
  ASSUME NEW E, NEW k, NEW l, NEW m, Reaches(E, k, l), <<l, m>> \in E
  PROVE  Reaches(E, k, m)
<1>1. SUFFICES ASSUME NEW C \in SUBSET (Nodes(E) \cup {k}),
                      k \in C, \A e \in E : e[1] \in C => e[2] \in C
               PROVE  m \in C
  BY DEF Reaches
<1>2. l \in C
  BY <1>1 DEF Reaches
<1>3. <<l, m>>[1] = l /\ <<l, m>>[2] = m
  OBVIOUS
<1> QED
  BY <1>1, <1>2, <1>3

\* What the two operations on a frame stack do, frame by frame.
LEMMA ShortenFacts ==
  ASSUME NEW S, NEW s \in Seq(S), NEW n \in 1..Len(s), NEW e \in S
  PROVE  /\ [s EXCEPT ![n] = e] \in Seq(S)
         /\ Len([s EXCEPT ![n] = e]) = Len(s)
         /\ [s EXCEPT ![n] = e][n] = e
         /\ \A i \in 1..Len(s) : i # n => [s EXCEPT ![n] = e][i] = s[i]
<1>1. DOMAIN s = 1..Len(s)
  BY LenProperties
<1>2. [s EXCEPT ![n] = e] \in Seq(S) /\ Len([s EXCEPT ![n] = e]) = Len(s)
  BY ExceptSeq
<1>3. \A i \in 1..Len(s) : i # n => [s EXCEPT ![n] = e][i] = s[i]
  BY <1>1
<1> QED
  BY <1>1, <1>2, <1>3

\* What is left of the stack when dfs returns.
LEMMA FrontFacts ==
  ASSUME NEW S, NEW s \in Seq(S), NEW n \in Nat, Len(s) = n + 1
  PROVE  /\ SubSeq(s, 1, n) \in Seq(S)
         /\ Len(SubSeq(s, 1, n)) = n
         /\ \A i \in 1..n : SubSeq(s, 1, n)[i] = s[i]
<1>1. SubSeq(s, 1, n) \in Seq(S)
  OBVIOUS
<1>2. Len(SubSeq(s, 1, n)) = n
  OBVIOUS
<1>3. \A i \in 1..n : SubSeq(s, 1, n)[i] = s[i]
  OBVIOUS
<1> QED
  BY <1>1, <1>2, <1>3

\* A call of dfs puts one frame on the stack.
LEMMA PushFacts ==
  ASSUME TypeOK, NEW k \in Keys, Descend(k)
  PROVE  /\ path' \in Seq(Keys)
         /\ left' \in Seq(SUBSET Keys)
         /\ Len(path) \in Nat \ {0}
         /\ Len(left) = Len(path)
         /\ Len(path') = Len(path) + 1
         /\ Len(left') = Len(path) + 1
         /\ \A i \in 1..Len(path) : path'[i] = path[i]
         /\ path'[Len(path) + 1] = k
         /\ \A i \in 1..(Len(path) - 1) : left'[i] = left[i]
         /\ left'[Len(path)] = left[Len(path)] \ {k}
         /\ left'[Len(path) + 1] = Neighbours(k)
<1> DEFINE shorter == [left EXCEPT ![Len(path)] = left[Len(path)] \ {k}]
<1>1. path \in Seq(Keys) /\ left \in Seq(SUBSET Keys) /\ Len(left) = Len(path)
  BY DEF TypeOK
<1>2. path # <<>> /\ path' = Append(path, k) /\ left' = Append(shorter, Neighbours(k))
  BY DEF Descend, Top
<1>3. Len(path) \in Nat \ {0}
  BY <1>1, <1>2, EmptySeq
<1>4. Neighbours(k) \in SUBSET Keys
  BY DEF Neighbours
<1>5. /\ shorter \in Seq(SUBSET Keys)
      /\ Len(shorter) = Len(path)
      /\ \A i \in 1..(Len(path) - 1) : shorter[i] = left[i]
      /\ shorter[Len(path)] = left[Len(path)] \ {k}
  <2>1. Len(path) \in 1..Len(left)
    BY <1>1, <1>3
  <2>2. left[Len(path)] \ {k} \in SUBSET Keys
    BY <1>1, <2>1, ElementOfSeq
  <2> QED
    BY <1>1, <1>3, <2>1, <2>2, ShortenFacts
<1> HIDE DEF shorter
<1>6. /\ Append(path, k) \in Seq(Keys)
      /\ Len(Append(path, k)) = Len(path) + 1
      /\ \A i \in 1..Len(path) : Append(path, k)[i] = path[i]
      /\ Append(path, k)[Len(path) + 1] = k
  BY <1>1, AppendProperties
<1>7. /\ Append(shorter, Neighbours(k)) \in Seq(SUBSET Keys)
      /\ Len(Append(shorter, Neighbours(k))) = Len(shorter) + 1
      /\ \A i \in 1..Len(shorter) : Append(shorter, Neighbours(k))[i] = shorter[i]
      /\ Append(shorter, Neighbours(k))[Len(shorter) + 1] = Neighbours(k)
  BY <1>4, <1>5, AppendProperties
<1> QED
  BY <1>1, <1>2, <1>3, <1>5, <1>6, <1>7

\* A return takes one frame off.
LEMMA PopFacts ==
  ASSUME TypeOK, Return
  PROVE  /\ path' \in Seq(Keys)
         /\ left' \in Seq(SUBSET Keys)
         /\ Len(path) \in Nat \ {0}
         /\ Len(left) = Len(path)
         /\ Len(path') = Len(path) - 1
         /\ Len(left') = Len(path) - 1
         /\ \A i \in 1..(Len(path) - 1) : path'[i] = path[i] /\ left'[i] = left[i]
<1>1. path \in Seq(Keys) /\ left \in Seq(SUBSET Keys) /\ Len(left) = Len(path)
  BY DEF TypeOK
<1>2. /\ path # <<>>
      /\ path' = SubSeq(path, 1, Len(path) - 1)
      /\ left' = SubSeq(left, 1, Len(path) - 1)
  BY DEF Return, Top
<1>3. Len(path) \in Nat \ {0}
  BY <1>1, <1>2, EmptySeq
<1>4. Len(path) - 1 \in Nat /\ Len(path) = (Len(path) - 1) + 1
  BY <1>3
<1>5. /\ SubSeq(path, 1, Len(path) - 1) \in Seq(Keys)
      /\ Len(SubSeq(path, 1, Len(path) - 1)) = Len(path) - 1
      /\ \A i \in 1..(Len(path) - 1) : SubSeq(path, 1, Len(path) - 1)[i] = path[i]
  BY <1>1, <1>4, FrontFacts, Zenon
<1>6. /\ SubSeq(left, 1, Len(path) - 1) \in Seq(SUBSET Keys)
      /\ Len(SubSeq(left, 1, Len(path) - 1)) = Len(path) - 1
      /\ \A i \in 1..(Len(path) - 1) : SubSeq(left, 1, Len(path) - 1)[i] = left[i]
  BY <1>1, <1>4, FrontFacts, Zenon
<1> QED
  BY <1>1, <1>2, <1>3, <1>5, <1>6

\* A step of a loop that passes over a neighbour only shortens its frame.
LEMMA PassFacts ==
  ASSUME TypeOK, NEW k \in Keys, Pass(k)
  PROVE  /\ left' \in Seq(SUBSET Keys)
         /\ Len(path) \in Nat \ {0}
         /\ Len(left) = Len(path)
         /\ Len(left') = Len(path)
         /\ path' = path
         /\ \A i \in 1..(Len(path) - 1) : left'[i] = left[i]
         /\ left'[Len(path)] = left[Len(path)] \ {k}
<1>1. path \in Seq(Keys) /\ left \in Seq(SUBSET Keys) /\ Len(left) = Len(path)
  BY DEF TypeOK
<1>2. /\ path # <<>> /\ path' = path
      /\ left' = [left EXCEPT ![Len(path)] = left[Len(path)] \ {k}]
  BY DEF Pass, Top
<1>3. Len(path) \in Nat \ {0}
  BY <1>1, <1>2, EmptySeq
<1>4. Len(path) \in 1..Len(left)
  BY <1>1, <1>3
<1>5. left[Len(path)] \ {k} \in SUBSET Keys
  BY <1>1, <1>4, ElementOfSeq
<1> QED
  BY <1>1, <1>2, <1>3, <1>4, <1>5, ShortenFacts
-----------------------------------------------------------------------------
\* The first frame of a startKey.
LEMMA StartFacts ==
  ASSUME NEW k \in Keys, Start(k)
  PROVE  /\ path' \in Seq(Keys) /\ left' \in Seq(SUBSET Keys)
         /\ Len(path') = 1 /\ Len(left') = 1
         /\ path'[1] = k /\ left'[1] = Neighbours(k)
         /\ visited' = {k}
<1>1. path' = <<k>> /\ left' = <<Neighbours(k)>> /\ visited' = {k}
  BY DEF Start
<1>2. Neighbours(k) \in SUBSET Keys
  BY DEF Neighbours
<1> QED
  BY <1>1, <1>2

\* The search begins with an empty stack and nothing visited.
LEMMA InitInv == Init => Inv
<1> SUFFICES ASSUME Init PROVE Inv
  OBVIOUS
<1>1. path = <<>> /\ left = <<>> /\ Len(path) = 0 /\ Len(left) = 0
  BY DEF Init
<1>2. TypeOK
  <2>1. path \in Seq(Keys) /\ left \in Seq(SUBSET Keys)
    BY <1>1
  <2>2. dependsOn \in SUBSET Keys /\ untried \in SUBSET dependsOn
    BY Zenon DEF Init, Neighbours
  <2>3. /\ edges \in SUBSET (Keys \X Keys) /\ newDepKey \in Keys
        /\ visited = {} /\ verdict = "searching"
    BY DEF Init
  <2>4. \A i, j \in 1..Len(path) : i # j => path[i] # path[j]
    BY <1>1
  <2> QED
    BY <1>1, <2>1, <2>2, <2>3, <2>4 DEF TypeOK
<1>3. StackInv /\ DoneInv /\ ReachInv
  BY <1>1 DEF Init, StackInv, DoneInv, ReachInv
<1>4. TriedInv /\ VerdictInv
  BY <1>1 DEF Init, TriedInv, VerdictInv
<1>5. FirstEdge
  BY DEF Init, FirstEdge, Neighbours
<1> QED
  BY <1>2, <1>3, <1>4, <1>5 DEF Inv

\* dfs is not called for a workload that is visited, so the calls in progress differ.
LEMMA TypeStep == TypeOK /\ StackInv /\ [Next]_vars => TypeOK'
<1> SUFFICES ASSUME TypeOK, StackInv, [Next]_vars PROVE TypeOK'
  OBVIOUS
<1>1. CASE SkipSelf
  BY <1>1 DEF SkipSelf, TypeOK, question
<1>2. ASSUME NEW k \in Keys, Start(k) PROVE TypeOK'
  <2>1. UNCHANGED <<edges, newDepKey, dependsOn, verdict>> /\ untried' \in SUBSET dependsOn
    BY <1>2 DEF Start, TypeOK, question
  <2> QED
    BY <1>2, <2>1, StartFacts DEF TypeOK
<1>3. ASSUME NEW k \in Keys, Descend(k) PROVE TypeOK'
  <2>1. /\ UNCHANGED <<edges, newDepKey, dependsOn, untried, verdict>>
        /\ visited' \in SUBSET Keys
    BY <1>3 DEF Descend, TypeOK, question
  <2>2. \A i, j \in 1..Len(path') : i # j => path'[i] # path'[j]
    <3>1. \A i \in 1..Len(path) : path[i] # k
      BY <1>3 DEF Descend, StackInv
    <3>2. \A i \in 1..Len(path') : i \in 1..Len(path) \/ i = Len(path) + 1
      BY <1>3, PushFacts
    <3> QED
      BY <1>3, <3>1, <3>2, PushFacts DEF TypeOK
  <2> QED
    BY <1>3, <2>1, <2>2, PushFacts DEF TypeOK
<1>4. ASSUME NEW k \in Keys, Pass(k) PROVE TypeOK'
  <2>1. UNCHANGED <<edges, newDepKey, dependsOn, untried, path, visited, verdict>>
    BY <1>4 DEF Pass, question
  <2> QED
    BY <1>4, <2>1, PassFacts DEF TypeOK
<1>5. CASE Report
  BY <1>5 DEF Report, TypeOK, question
<1>6. CASE Return
  <2>1. UNCHANGED <<edges, newDepKey, dependsOn, untried, visited, verdict>>
    BY <1>6 DEF Return, question
  <2>2. \A i \in 1..Len(path') : i \in 1..Len(path) /\ path'[i] = path[i]
    BY <1>6, PopFacts
  <2> QED
    BY <1>6, <2>1, <2>2, PopFacts DEF TypeOK
<1>7. CASE Exhausted
  BY <1>7 DEF Exhausted, TypeOK, question
<1>8. CASE UNCHANGED vars
  BY <1>8 DEF vars, TypeOK
<1> QED
  BY <1>1, <1>2, <1>3, <1>4, <1>5, <1>6, <1>7, <1>8 DEF Next

\* The neighbours of a node do not change: no step changes the graph.
LEMMA SameQuestion ==
  ASSUME [Next]_vars
  PROVE  /\ edges' = edges /\ newDepKey' = newDepKey /\ dependsOn' = dependsOn
         /\ \A k : Neighbours(k)' = Neighbours(k)
         /\ \A k : Without(k)' = Without(k)
<1>1. edges' = edges /\ newDepKey' = newDepKey /\ dependsOn' = dependsOn
  BY Zenon DEF Next, vars, question, SkipSelf, Start, Descend, Pass, Report, Return, Exhausted
<1> QED
  BY <1>1 DEF Neighbours, Without
-----------------------------------------------------------------------------
\* The calls in progress are visited, and each was made along an edge from the one before.
LEMMA StackStep == TypeOK /\ StackInv /\ [Next]_vars => StackInv'
<1> SUFFICES ASSUME TypeOK, StackInv, [Next]_vars PROVE StackInv'
  OBVIOUS
<1> USE SameQuestion
<1>1. CASE SkipSelf
  BY <1>1 DEF SkipSelf, StackInv
<1>2. ASSUME NEW k \in Keys, Start(k) PROVE StackInv'
  <2>1. k \in dependsOn /\ k # newDepKey
    BY <1>2 DEF Start, TypeOK
  <2> QED
    BY <1>2, <2>1, StartFacts DEF StackInv
<1>3. ASSUME NEW k \in Keys, Descend(k) PROVE StackInv'
  <2>1. /\ visited' = visited \cup {k} /\ k # newDepKey
        /\ k \in left[Len(path)]
    BY <1>3 DEF Descend, Top
  <2>2. \A i \in 1..Len(path') : i \in 1..Len(path) \/ i = Len(path) + 1
    BY <1>3, PushFacts
  <2>3. \A i \in 1..Len(path) : i = Len(path) \/ i \in 1..(Len(path) - 1)
    BY <1>3, PushFacts
  <2>4. \A i \in 1..Len(path') : /\ path'[i] \in visited'
                                 /\ left'[i] \subseteq Neighbours(path'[i])
    BY <1>3, <2>1, <2>2, <2>3, PushFacts DEF StackInv
  <2>5. \A i \in 1..(Len(path') - 1) : <<path'[i], path'[i+1]>> \in edges
    <3>1. <<path[Len(path)], k>> \in edges
      <4>1. Len(path) \in 1..Len(path)
        BY <1>3, PushFacts
      <4> QED
        BY <2>1, <4>1 DEF StackInv, Neighbours
    <3>2. ASSUME NEW i \in 1..(Len(path) - 1)
          PROVE  <<path'[i], path'[i+1]>> \in edges
      <4>1. Len(path) \in Nat
        BY <1>3, PushFacts
      <4>2. i \in 1..Len(path) /\ i + 1 \in 1..Len(path)
        BY <4>1
      <4>3. path'[i] = path[i] /\ path'[i + 1] = path[i + 1]
        BY <1>3, <4>2, PushFacts
      <4> QED
        BY <4>3 DEF StackInv
    <3>3. \A i \in 1..(Len(path') - 1) : i = Len(path) \/ i \in 1..(Len(path) - 1)
      BY <1>3, PushFacts
    <3>4. Len(path) \in 1..Len(path)
      BY <1>3, PushFacts
    <3> QED
      BY <1>3, <3>1, <3>2, <3>3, <3>4, PushFacts, Zenon
  <2>6. Len(path') > 0 /\ path'[1] \in dependsOn
    BY <1>3, PushFacts DEF StackInv
  <2> QED
    BY <2>1, <2>4, <2>5, <2>6 DEF StackInv
<1>4. ASSUME NEW k \in Keys, Pass(k) PROVE StackInv'
  <2>1. visited' = visited /\ path' = path
    BY <1>4 DEF Pass
  <2>2. \A i \in 1..Len(path) : left'[i] \subseteq left[i]
    <3>1. \A i \in 1..Len(path) : i = Len(path) \/ i \in 1..(Len(path) - 1)
      BY <1>4, PassFacts
    <3> QED
      BY <1>4, <3>1, PassFacts
  <2> QED
    BY <2>1, <2>2 DEF StackInv
<1>5. CASE Report
  BY <1>5 DEF Report, StackInv
<1>6. CASE Return
  <2>1. visited' = visited
    BY <1>6 DEF Return
  <2>2. \A i \in 1..Len(path') : /\ i \in 1..Len(path)
                                 /\ path'[i] = path[i] /\ left'[i] = left[i]
    BY <1>6, PopFacts
  <2>3. \A i \in 1..(Len(path') - 1) : /\ i \in 1..(Len(path) - 1)
                                       /\ path'[i+1] = path[i+1]
    BY <1>6, PopFacts
  <2>4. Len(path') > 0 => Len(path) > 0 /\ path'[1] = path[1]
    BY <1>6, PopFacts
  <2>5. \A i \in 1..(Len(path') - 1) : i \in 1..Len(path')
    BY <1>6, PopFacts
  <2> QED
    BY <2>1, <2>2, <2>3, <2>4, <2>5, Zenon DEF StackInv
<1>7. CASE Exhausted
  BY <1>7 DEF Exhausted, StackInv
<1>8. CASE UNCHANGED vars
  BY <1>8 DEF vars, StackInv
<1> QED
  BY <1>1, <1>2, <1>3, <1>4, <1>5, <1>6, <1>7, <1>8 DEF Next

\* A call that returns leaves no neighbour unvisited.
LEMMA DoneStep == TypeOK /\ StackInv /\ DoneInv /\ [Next]_vars => DoneInv'
<1> SUFFICES ASSUME TypeOK, StackInv, DoneInv, [Next]_vars PROVE DoneInv'
  OBVIOUS
<1> USE SameQuestion
<1>1. CASE SkipSelf
  BY <1>1 DEF SkipSelf, DoneInv, OnPath
<1>2. ASSUME NEW k \in Keys, Start(k) PROVE DoneInv'
  BY <1>2, StartFacts DEF DoneInv, OnPath
<1>3. ASSUME NEW k \in Keys, Descend(k) PROVE DoneInv'
  <2>1. visited' = visited \cup {k}
    BY <1>3 DEF Descend
  <2>2. \A v \in visited' : OnPath(v)' \/ Neighbours(v) \subseteq visited'
    <3>1. OnPath(k)'
      BY <1>3, PushFacts DEF OnPath
    <3>2. ASSUME NEW v, OnPath(v) PROVE OnPath(v)'
      BY <1>3, <3>2, PushFacts DEF OnPath
    <3>3. Len(path) > 0
      BY <1>3, PushFacts
    <3> QED
      BY <2>1, <3>1, <3>2, <3>3 DEF DoneInv
  <2>3. \A i \in 1..Len(path) : left[i] \ left'[i] \subseteq {k}
    <3>1. \A i \in 1..Len(path) : i = Len(path) \/ i \in 1..(Len(path) - 1)
      BY <1>3, PushFacts
    <3> QED
      BY <1>3, <3>1, PushFacts
  <2>4. Neighbours(path'[1]) \ left'[1] \subseteq visited' \cup {newDepKey}
    BY <1>3, <2>1, <2>3, PushFacts DEF DoneInv
  <2>5. \A i \in 2..Len(path') : Neighbours(path'[i]) \ left'[i] \subseteq visited'
    <3>1. \A i \in 2..Len(path') : i \in 2..Len(path) \/ i = Len(path) + 1
      BY <1>3, PushFacts
    <3>2. ASSUME NEW i \in 2..Len(path)
          PROVE  Neighbours(path'[i]) \ left'[i] \subseteq visited'
      <4>1. i \in 1..Len(path) /\ Len(path) > 0
        BY <1>3, PushFacts
      <4> QED
        BY <1>3, <2>1, <2>3, <4>1, PushFacts DEF DoneInv
    <3> QED
      BY <1>3, <3>1, <3>2, PushFacts
  <2> QED
    BY <2>2, <2>4, <2>5 DEF DoneInv
<1>4. ASSUME NEW k \in Keys, Pass(k) PROVE DoneInv'
  <2>1. /\ visited' = visited /\ path' = path
        /\ k \in visited \/ (k = newDepKey /\ Len(path) = 1)
    BY <1>4 DEF Pass, Top
  <2>2. \A i \in 1..Len(path) : left[i] \ left'[i] \subseteq {k}
    <3>1. \A i \in 1..Len(path) : i = Len(path) \/ i \in 1..(Len(path) - 1)
      BY <1>4, PassFacts
    <3> QED
      BY <1>4, <3>1, PassFacts
  <2>3. \A v : OnPath(v)' <=> OnPath(v)
    BY <2>1 DEF OnPath
  <2>4. Neighbours(path'[1]) \ left'[1] \subseteq visited' \cup {newDepKey}
    BY <1>4, <2>1, <2>2, PassFacts DEF DoneInv
  <2>5. ASSUME NEW i \in 2..Len(path)
        PROVE  Neighbours(path'[i]) \ left'[i] \subseteq visited'
    <3>1. i \in 1..Len(path) /\ Len(path) # 1 /\ Len(path) > 0
      BY <1>4, PassFacts
    <3> QED
      BY <2>1, <2>2, <3>1 DEF DoneInv
  <2>6. Len(path) > 0
    BY <1>4, PassFacts
  <2> QED
    BY <2>1, <2>3, <2>4, <2>5, <2>6 DEF DoneInv
<1>5. CASE Report
  BY <1>5 DEF Report, DoneInv, OnPath
<1>6. CASE Return
  <2> SUFFICES ASSUME Len(path') > 0 PROVE DoneInv'
    BY DEF DoneInv
  <2>1. visited' = visited /\ left[Len(path)] = {}
    BY <1>6 DEF Return, Top
  <2>2. /\ Len(path) \in Nat \ {0, 1} /\ Len(path') = Len(path) - 1
        /\ Len(path) \in 2..Len(path)
    BY <1>6, PopFacts
  <2>3. \A i \in 1..Len(path') : /\ i \in 1..Len(path)
                                 /\ path'[i] = path[i] /\ left'[i] = left[i]
    BY <1>6, PopFacts
  <2>4. Neighbours(path[Len(path)]) \subseteq visited
    BY <2>1, <2>2 DEF DoneInv
  <2>5. \A v \in visited' : OnPath(v)' \/ Neighbours(v) \subseteq visited'
    <3>1. SUFFICES ASSUME NEW v \in visited, OnPath(v), v # path[Len(path)] PROVE OnPath(v)'
      BY <2>1, <2>2, <2>4 DEF DoneInv
    <3>2. PICK i \in 1..Len(path) : path[i] = v
      BY <3>1 DEF OnPath
    <3>3. i \in 1..Len(path')
      BY <2>2, <3>1, <3>2
    <3> QED
      BY <2>3, <3>2, <3>3 DEF OnPath
  <2>6. Neighbours(path'[1]) \ left'[1] \subseteq visited' \cup {newDepKey}
    <3>1. 1 \in 1..Len(path')
      BY <2>2
    <3> QED
      BY <2>1, <2>2, <2>3, <3>1 DEF DoneInv
  <2>7. ASSUME NEW i \in 2..Len(path')
        PROVE  Neighbours(path'[i]) \ left'[i] \subseteq visited'
    <3>1. i \in 1..Len(path') /\ i \in 2..Len(path) /\ Len(path) > 0
      BY <2>2
    <3> QED
      BY <2>1, <2>3, <3>1 DEF DoneInv
  <2> QED
    BY <2>5, <2>6, <2>7 DEF DoneInv
<1>7. CASE Exhausted
  BY <1>7 DEF Exhausted, DoneInv, OnPath
<1>8. CASE UNCHANGED vars
  BY <1>8 DEF vars, DoneInv, OnPath
<1> QED
  BY <1>1, <1>2, <1>3, <1>4, <1>5, <1>6, <1>7, <1>8 DEF Next

\* Every call in progress is for a workload that the first one reaches.
LEMMA ReachStep == TypeOK /\ StackInv /\ ReachInv /\ [Next]_vars => ReachInv'
<1> SUFFICES ASSUME TypeOK, StackInv, ReachInv, [Next]_vars PROVE ReachInv'
  OBVIOUS
<1> USE SameQuestion
<1>1. CASE path' = path
  BY <1>1 DEF ReachInv
<1>2. ASSUME NEW k \in Keys, Start(k) PROVE ReachInv'
  BY <1>2, StartFacts DEF ReachInv
<1>3. ASSUME NEW k \in Keys, Descend(k) PROVE ReachInv'
  <2>1. k \in left[Len(path)] /\ Len(path) \in 1..Len(path)
    BY <1>3, PushFacts DEF Descend, Top
  <2>2. <<path[Len(path)], k>> \in edges
    BY <2>1 DEF StackInv, Neighbours
  <2>3. path'[1] = path[1]
    BY <1>3, PushFacts
  <2>4. CASE Len(path) = 1
    <3>1. Len(path') = 2 /\ path'[Len(path) + 1] = k
      BY <1>3, <2>4, PushFacts
    <3>2. path'[2] = k
      BY <2>4, <3>1
    <3>3. \A i \in 2..Len(path') : i = 2
      BY <3>1
    <3> QED
      BY <3>2, <3>3, ReachesSelf DEF ReachInv
  <2>5. CASE Len(path) # 1
    <3>1. /\ Len(path) \in 2..Len(path) /\ 2 \in 1..Len(path)
          /\ 1 \in 1..Len(path) /\ Len(path) \in 1..Len(path)
      <4>1. Len(path) \in Nat \ {0}
        BY <1>3, PushFacts
      <4>2. \A n \in Nat \ {0} : n # 1 => /\ n \in 2..n /\ 2 \in 1..n
                                           /\ 1 \in 1..n /\ n \in 1..n
        OBVIOUS
      <4> QED
        BY <2>5, <4>1, <4>2
    <3>2. path[Len(path)] # path[1]
      BY <2>5, <3>1 DEF TypeOK
    <3>3. <<path[Len(path)], k>> \in Without(path[1])
      BY <2>2, <3>2 DEF Without
    <3>4. Reaches(Without(path[1]), path[2], path[Len(path)])
      BY <3>1 DEF ReachInv
    <3>5. Reaches(Without(path[1]), path[2], k)
      BY <3>3, <3>4, ReachesNext
    <3>6. path'[2] = path[2]
      BY <1>3, <3>1, PushFacts
    <3>7. \A i \in 2..Len(path') :
             \/ i \in 2..Len(path) /\ path'[i] = path[i]
             \/ path'[i] = k
      BY <1>3, PushFacts
    <3> QED
      BY <2>3, <3>5, <3>6, <3>7 DEF ReachInv
  <2> QED
    BY <2>4, <2>5
<1>4. CASE Return
  <2>1. \A i \in 2..Len(path') : /\ i \in 2..Len(path) /\ path'[i] = path[i]
                                 /\ path'[1] = path[1] /\ path'[2] = path[2]
    BY <1>4, PopFacts
  <2> QED
    BY <2>1 DEF ReachInv
<1> QED
  BY <1>1, <1>2, <1>3, <1>4
     DEF Next, vars, SkipSelf, Pass, Report, Exhausted

\* A search from start that comes to its end misses no cycle through start:
\* the visited nodes are closed under the edges that do not leave start.
LEMMA NothingMissed ==
  ASSUME TypeOK, StackInv, DoneInv, Len(path) = 1, left[1] = {}
  PROVE  ~CycleThrough(edges, newDepKey, path[1])
<1>1. SUFFICES ASSUME NEW e \in edges, e[1] = path[1], e[2] # newDepKey,
                      Reaches(Without(path[1]), e[2], newDepKey)
               PROVE  FALSE
  BY Zenon DEF CycleThrough, Without
<1> DEFINE E == Without(path[1])
           C == visited \cap (Nodes(E) \cup {e[2]})
<1>2. e[2] \in Keys /\ e = <<e[1], e[2]>>
  BY DEF TypeOK
<1>3. e[2] \in Neighbours(path[1])
  BY <1>1, <1>2 DEF Neighbours
<1>4. e[2] \in C
  BY <1>1, <1>3 DEF DoneInv
<1>5. ASSUME NEW f \in E, f[1] \in C PROVE f[2] \in C
  <2>1. f \in edges /\ f[1] # path[1]
    BY DEF Without
  <2>2. f[2] \in Keys /\ f = <<f[1], f[2]>>
    BY <2>1 DEF TypeOK
  <2>3. f[2] \in Neighbours(f[1])
    BY <2>1, <2>2 DEF Neighbours
  <2>4. ~OnPath(f[1])
    BY <2>1 DEF OnPath
  <2>5. f[2] \in visited
    BY <1>5, <2>3, <2>4 DEF DoneInv
  <2>6. f[2] \in Nodes(E)
    BY <1>5 DEF Nodes
  <2> QED
    BY <2>5, <2>6
<1>6. C \in SUBSET (Nodes(E) \cup {e[2]})
  OBVIOUS
<1>7. newDepKey \in C
  <2> HIDE DEF C, E
  <2>1. Reaches(E, e[2], newDepKey)
    BY <1>1 DEF E
  <2> QED
    BY <1>4, <1>5, <1>6, <2>1 DEF Reaches
<1> QED
  BY <1>7 DEF StackInv

\* A dependency that has been tried without a report has no cycle through it.
LEMMA TriedStep == TypeOK /\ StackInv /\ DoneInv /\ TriedInv /\ [Next]_vars => TriedInv'
<1> SUFFICES ASSUME TypeOK, StackInv, DoneInv, TriedInv, [Next]_vars PROVE TriedInv'
  OBVIOUS
<1> USE SameQuestion
<1>1. CASE path' = path /\ untried' = untried
  BY <1>1 DEF TriedInv
<1>2. CASE SkipSelf
  BY <1>2 DEF SkipSelf, TriedInv
<1>3. ASSUME NEW k \in Keys, Start(k) PROVE TriedInv'
  <2>1. Len(path) = 0 /\ untried' = untried \ {k}
    BY <1>3 DEF Start
  <2> QED
    BY <1>3, <2>1, StartFacts DEF TriedInv
<1>4. ASSUME NEW k \in Keys, Descend(k) PROVE TriedInv'
  <2>1. untried' = untried /\ Len(path') > 0 /\ path'[1] = path[1]
    BY <1>4, PushFacts DEF Descend
  <2> QED
    BY <2>1 DEF TriedInv
<1>5. CASE Return
  <2>1. untried' = untried /\ left[Len(path)] = {}
    BY <1>5 DEF Return, Top
  <2>2. CASE Len(path) = 1
    BY <2>1, <2>2, NothingMissed DEF TriedInv
  <2>3. CASE Len(path) # 1
    <3>1. Len(path') > 0 /\ path'[1] = path[1]
      BY <1>5, <2>3, PopFacts
    <3> QED
      BY <2>1, <3>1 DEF TriedInv
  <2> QED
    BY <2>2, <2>3
<1> QED
  BY <1>1, <1>2, <1>3, <1>4, <1>5
     DEF Next, vars, Pass, Report, Exhausted

\* The verdict is given where DetectCycle returns, and not before.
LEMMA VerdictStep == TypeOK /\ VerdictInv /\ [Next]_vars => VerdictInv'
<1> SUFFICES ASSUME TypeOK, VerdictInv, [Next]_vars PROVE VerdictInv'
  OBVIOUS
<1>1. CASE Report
  BY <1>1, SameQuestion DEF Report, Top, Searching, VerdictInv
<1>2. CASE Exhausted
  <2>1. path' = path /\ path = <<>> /\ untried' = untried /\ untried = {} /\ verdict' = "none"
    BY <1>2 DEF Exhausted
  <2> QED
    BY <2>1 DEF VerdictInv
<1>3. CASE UNCHANGED vars
  BY <1>3 DEF vars, VerdictInv
<1>4. CASE verdict' = verdict /\ Searching
  BY <1>4 DEF Searching, VerdictInv
<1> QED
  BY <1>1, <1>2, <1>3, <1>4, Zenon DEF Next, SkipSelf, Start, Descend, Pass, Return

\* Every step of the search keeps Inv.
LEMMA InvHolds == Spec => []Inv
<1>1. FirstEdge /\ [Next]_vars => FirstEdge'
  BY SameQuestion DEF FirstEdge
<1>2. Inv /\ [Next]_vars => Inv'
  BY <1>1, TypeStep, StackStep, DoneStep, ReachStep, TriedStep, VerdictStep DEF Inv
<1> QED
  BY InitInv, <1>2, PTL DEF Spec

\* The search is never deeper than there are workloads, whatever cycles the graph has:
\* a call of dfs that is in progress is in visited, and is not made again.
THEOREM TheSearchIsShallow == Spec => []TypeOK
  BY InvHolds, PTL DEF Inv
-----------------------------------------------------------------------------
\* The path DetectCycle returns, which the reconciler puts into the
\* CycleDetected event, is a cycle of at least three different workloads
\* through the new dependent, on every graph.
THEOREM TheReportIsACycle == Spec => []ReportIsCycle
<1>1. Inv => ReportIsCycle
  <2> SUFFICES ASSUME Inv, verdict = "cycle"
               PROVE  /\ Len(path) > 1
                      /\ path[1] \in dependsOn
                      /\ \A i \in 1..(Len(Reported) - 1) :
                            <<Reported[i], Reported[i+1]>> \in edges
                      /\ \A i, j \in 1..(Len(Reported) - 1) :
                            i # j => Reported[i] # Reported[j]
    BY DEF ReportIsCycle
  <2> DEFINE n == Len(path)
  <2>1. n \in Nat /\ n > 1 /\ newDepKey \in left[n] /\ path \in Seq(Keys) /\ newDepKey \in Keys
    BY DEF Inv, TypeOK, VerdictInv
  <2>2. path[1] \in dependsOn
    BY <2>1 DEF Inv, StackInv
  <2>3. /\ Len(Reported) = n + 2
        /\ Reported[1] = newDepKey
        /\ Reported[n + 2] = newDepKey
        /\ \A i \in 2..(n + 1) : Reported[i] = path[i - 1]
    BY <2>1 DEF Reported
  <2>4. <<newDepKey, path[1]>> \in edges
    BY <2>2 DEF Inv, FirstEdge
  <2>5. <<path[n], newDepKey>> \in edges
    <3>1. n \in 1..n
      BY <2>1
    <3> QED
      BY <2>1, <3>1 DEF Inv, StackInv, Neighbours
  <2> HIDE DEF n
  <2>6. ASSUME NEW i \in 1..(Len(Reported) - 1)
        PROVE  <<Reported[i], Reported[i+1]>> \in edges
    <3>1. CASE i = 1
      <4>1. 2 \in 2..(n + 1) /\ i + 1 = 2 /\ 2 - 1 = 1
        BY <2>1, <3>1
      <4>2. Reported[i] = newDepKey /\ Reported[i + 1] = path[1]
        BY <2>3, <3>1, <4>1
      <4> QED
        BY <2>4, <4>2
    <3>2. CASE i = n + 1
      <4>1. i \in 2..(n + 1) /\ i + 1 = n + 2 /\ i - 1 = n
        BY <2>1, <3>2
      <4>2. Reported[i] = path[n] /\ Reported[i + 1] = newDepKey
        BY <2>3, <4>1
      <4> QED
        BY <2>5, <4>2
    <3>3. CASE i \in 2..n
      <4>1. /\ Reported[i] = path[i - 1]
            /\ Reported[i + 1] = path[(i - 1) + 1]
            /\ i - 1 \in 1..(n - 1)
        BY <2>1, <2>3, <3>3
      <4> QED
        BY <4>1 DEF Inv, StackInv, n
    <3> QED
      BY <2>1, <2>3, <3>1, <3>2, <3>3
  <2>7. \A i \in 1..n : path[i] # newDepKey
    BY DEF Inv, StackInv, n
  <2>8. ASSUME NEW i \in 1..(Len(Reported) - 1), NEW j \in 1..(Len(Reported) - 1), i # j
        PROVE  Reported[i] # Reported[j]
    <3>1. \A l \in 1..(n + 1) : l = 1 \/ (l \in 2..(n + 1) /\ l - 1 \in 1..n)
      BY <2>1
    <3>2. i \in 1..(n + 1) /\ j \in 1..(n + 1)
      BY <2>1, <2>3
    <3>3. CASE i = 1 \/ j = 1
      BY <2>3, <2>7, <2>8, <3>1, <3>2, <3>3
    <3>4. CASE i # 1 /\ j # 1
      <4>1. /\ i - 1 \in 1..n /\ j - 1 \in 1..n /\ i - 1 # j - 1
            /\ Reported[i] = path[i - 1] /\ Reported[j] = path[j - 1]
        BY <2>3, <2>8, <3>1, <3>2, <3>4
      <4> QED
        BY <4>1 DEF Inv, TypeOK, n
    <3> QED
      BY <3>3, <3>4
  <2> QED
    BY <2>1, <2>2, <2>6, <2>8, Zenon DEF n
<1> QED
  BY InvHolds, <1>1, PTL

\* DetectCycle answers as HasCycle says, for every graph, every order in which
\* List and the users' specs present it, and every set of dependencies.
THEOREM TheVerdictIsRight == Spec => []VerdictIsRight
<1>1. Inv => VerdictIsRight
  <2> SUFFICES ASSUME Inv PROVE VerdictIsRight
    OBVIOUS
  <2>1. ASSUME verdict = "cycle" PROVE HasCycle(edges, newDepKey, dependsOn)
    <3>1. Len(path) \in Nat /\ Len(path) > 1 /\ newDepKey \in left[Len(path)]
      BY <2>1 DEF Inv, TypeOK, VerdictInv
    <3>2. /\ 1 \in 1..Len(path) /\ 2 \in 1..Len(path) /\ 1 \in 1..(Len(path) - 1)
          /\ Len(path) \in 1..Len(path) /\ Len(path) \in 2..Len(path)
      BY <3>1
    <3>3. path[1] \in dependsOn /\ path[1] # newDepKey /\ path[2] # newDepKey
      BY <3>1, <3>2 DEF Inv, StackInv
    <3>4. <<path[1], path[1 + 1]>> \in edges
      BY <3>2 DEF Inv, StackInv
    <3>5. path[Len(path)] # path[1]
      BY <3>1, <3>2 DEF Inv, TypeOK
    <3>6. <<path[Len(path)], newDepKey>> \in Without(path[1])
      BY <3>1, <3>2, <3>5 DEF Inv, StackInv, Neighbours, Without
    <3>7. Reaches(Without(path[1]), path[2], newDepKey)
      <4>1. Reaches(Without(path[1]), path[2], path[Len(path)])
        BY <3>2 DEF Inv, ReachInv
      <4> QED
        BY <3>6, <4>1, ReachesNext
    <3>8. CycleThrough(edges, newDepKey, path[1])
      <4> DEFINE e == <<path[1], path[1 + 1]>>
      <4>1. e \in edges /\ e[1] = path[1] /\ e[2] = path[2]
        BY <3>4
      <4> HIDE DEF e
      <4> QED
        BY <3>3, <3>7, <4>1 DEF CycleThrough, Without
    <3> QED
      BY <3>3, <3>8 DEF HasCycle
  <2>2. ASSUME verdict = "none" PROVE ~HasCycle(edges, newDepKey, dependsOn)
    BY <2>2 DEF Inv, VerdictInv, TriedInv, HasCycle
  <2> QED
    BY <2>1, <2>2 DEF VerdictIsRight
<1> QED
  BY InvHolds, <1>1, PTL
=============================================================================
