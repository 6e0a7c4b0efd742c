---------------------------- MODULE RolloutProofs ---------------------------
(***************************************************************************)
(* A rollout follows the dependencies, leaves alone what opted out, bumps  *)
(* exactly whom it must and accounts for what it did, for any project.     *)
(***************************************************************************)
EXTENDS MCRollout, FiniteSetTheorems, TLAPS

-----------------------------------------------------------------------------
(* Kahn's algorithm.  Induction is by a least counterexample.              *)

LEMMA LeastNat ==
  ASSUME NEW T \in SUBSET Nat, T # {}
  PROVE  \E n \in T : \A m \in T : n <= m
<1>1. PICK n \in T : \A m \in T : ~(<<m, n>> \in OpToRel(<, Nat))
  BY NatLessThanWellFounded, WFMin
<1>2. ASSUME NEW m \in T, m < n PROVE FALSE
  <2>1. <<m, n>> \in OpToRel(<, Nat)
    BY <1>2 DEF OpToRel
  <2> QED
    BY <1>1, <2>1
<1>3. n \in Nat /\ \A m \in T : m \in Nat /\ ~(m < n)
  BY <1>2
<1>4. \A m \in T : n <= m
  BY <1>3
<1> QED
  BY <1>4

\* The services drained in a wave are some of those pending.
LEMMA ReadyPending ==
  ASSUME NEW pending, NEW graph
  PROVE  Ready(pending, graph) \subseteq pending /\ (pending # {} => Ready(pending, graph) # {})
BY DEF Ready

\* Pending is the function that its recursive definition describes.
LEMMA PendingDefined ==
  ASSUME NEW nodes, NEW graph, Cardinality(nodes) \in Nat
  PROVE  LET pending == Pending(nodes, graph)
         IN  pending = [n \in 0 .. Cardinality(nodes) |->
                          IF n = 0 THEN nodes ELSE pending[n - 1] \ Ready(pending[n - 1], graph)]
<1> DEFINE N == Cardinality(nodes)
           Advance(P) == P \ Ready(P, graph)
           IsUpTo(f, m) == f = [n \in 0 .. m |-> IF n = 0 THEN nodes ELSE Advance(f[n - 1])]
           Bad == {m \in Nat : ~\E f : IsUpTo(f, m)}
<1>1. Pending(nodes, graph) = CHOOSE f : IsUpTo(f, N)
  BY DEF Pending
<1> HIDE DEF Advance
<1>2. Bad = {}
  <2> SUFFICES ASSUME Bad # {} PROVE FALSE
    OBVIOUS
  <2>1. PICK m \in Bad : \A k \in Bad : m <= k
    BY LeastNat
  <2>2. CASE m = 0
    <3>1. IsUpTo([n \in 0 .. 0 |-> nodes], 0)
      OBVIOUS
    <3> QED
      BY <2>2, <3>1
  <2>3. CASE m # 0
    <3>1. m - 1 \in Nat /\ m - 1 \notin Bad
      <4>1. m \in Nat /\ m - 1 \in Nat /\ ~(m <= m - 1)
        BY <2>1, <2>3
      <4> HIDE DEF Bad
      <4> QED
        BY <2>1, <4>1
    <3>2. PICK g : IsUpTo(g, m - 1)
      BY <3>1
    <3> DEFINE f == [n \in 0 .. m |-> IF n < m THEN g[n] ELSE Advance(g[m - 1])]
    <3>3. ASSUME NEW n \in 0 .. m PROVE f[n] = IF n = 0 THEN nodes ELSE Advance(f[n - 1])
      <4>1. CASE n = m
        BY <2>1, <2>3, <3>1, <4>1
      <4>2. CASE n < m
        BY <2>1, <2>3, <3>1, <3>2, <4>2
      <4> QED
        BY <2>1, <4>1, <4>2
    <3>4. IsUpTo(f, m)
      BY <3>3
    <3> QED
      BY <2>1, <3>4
  <2> QED
    BY <2>2, <2>3
<1>3. \E f : IsUpTo(f, N)
  BY <1>2
<1>4. IsUpTo(Pending(nodes, graph), N)
  <2> HIDE DEF IsUpTo, N
  <2> QED
    BY <1>1, <1>3
<1> QED
  BY <1>4 DEF Advance

\* The pending services dwindle, wave by wave, and are all drained in the end.
LEMMA Waves ==
  ASSUME NEW nodes, NEW graph, IsFiniteSet(nodes)
  PROVE  LET N == Cardinality(nodes)
             pending == Pending(nodes, graph)
         IN  /\ N \in Nat /\ DOMAIN pending = 0 .. N
             /\ pending[0] = nodes
             /\ \A n \in 1 .. N : pending[n] = pending[n - 1] \ Ready(pending[n - 1], graph)
             /\ \A m, n \in 0 .. N : m <= n => pending[n] \subseteq pending[m]
             /\ pending[N] = {}
<1> DEFINE N == Cardinality(nodes)
           pending == Pending(nodes, graph)
<1>1. N \in Nat
  BY FS_CardinalityType
<1>2. pending = [n \in 0 .. N |-> IF n = 0 THEN nodes ELSE pending[n - 1] \ Ready(pending[n - 1], graph)]
  BY <1>1, PendingDefined
<1> HIDE DEF N, pending
<1>3. DOMAIN pending = 0 .. N
  BY <1>2
<1>4. pending[0] = nodes /\ \A n \in 1 .. N : pending[n] = pending[n - 1] \ Ready(pending[n - 1], graph)
  <2> DEFINE next(n) == IF n = 0 THEN nodes ELSE pending[n - 1] \ Ready(pending[n - 1], graph)
  <2>1. pending = [n \in 0 .. N |-> next(n)]
    BY <1>2
  <2> HIDE DEF next
  <2>2. \A n \in 0 .. N : pending[n] = next(n)
    BY <2>1
  <2>3. 0 \in 0 .. N /\ \A n \in 1 .. N : n \in 0 .. N /\ n # 0
    BY <1>1
  <2>4. next(0) = nodes
    BY DEF next
  <2>5. ASSUME NEW n \in 1 .. N PROVE next(n) = pending[n - 1] \ Ready(pending[n - 1], graph)
    BY <2>3 DEF next
  <2> QED
    BY <2>2, <2>3, <2>4, <2>5
<1>5. \A m, n \in 0 .. N : m <= n => pending[n] \subseteq pending[m]
  <2> DEFINE Bad == {n \in 0 .. N : \E m \in 0 .. n : ~(pending[n] \subseteq pending[m])}
  <2>1. Bad = {}
    <3> SUFFICES ASSUME Bad # {} PROVE FALSE
      OBVIOUS
    <3>1. Bad \in SUBSET Nat
      BY <1>1
    <3>2. PICK n \in Bad : \A k \in Bad : n <= k
      BY <3>1, LeastNat
    <3>3. PICK m \in 0 .. n : ~(pending[n] \subseteq pending[m])
      BY <3>2
    <3>4. n \in 1 .. N /\ m \in 0 .. n - 1
      BY <1>1, <3>2, <3>3
    <3>5. n - 1 \in 0 .. N /\ n - 1 \notin Bad
      BY <1>1, <3>2, <3>4
    <3>6. pending[n - 1] \subseteq pending[m]
      BY <3>4, <3>5
    <3> QED
      BY <1>4, <3>3, <3>4, <3>6
  <2> QED
    BY <1>1, <2>1
<1>6. \A n \in 0 .. N : IsFiniteSet(pending[n]) /\ Cardinality(pending[n]) <= N - n
  <2> DEFINE Bad == {n \in 0 .. N : ~(IsFiniteSet(pending[n]) /\ Cardinality(pending[n]) <= N - n)}
  <2>1. Bad = {}
    <3> SUFFICES ASSUME Bad # {} PROVE FALSE
      OBVIOUS
    <3>1. Bad \in SUBSET Nat
      BY <1>1
    <3>2. PICK n \in Bad : \A k \in Bad : n <= k
      BY <3>1, LeastNat
    <3>3. n # 0
      BY <1>1, <1>4, <3>2 DEF N
    <3>4. n \in 1 .. N /\ n - 1 \in 0 .. N /\ n - 1 \notin Bad
      BY <1>1, <3>2, <3>3
    <3> DEFINE P == pending[n - 1]
    <3>5. IsFiniteSet(P) /\ Cardinality(P) <= N - (n - 1) /\ Cardinality(P) \in Nat
      BY <3>4, FS_CardinalityType
    <3>6. pending[n] = P \ Ready(P, graph)
      BY <1>4, <3>4
    <3>7. IsFiniteSet(pending[n]) /\ Cardinality(pending[n]) \in Nat /\ Cardinality(pending[n]) <= Cardinality(P)
          /\ (Cardinality(pending[n]) = Cardinality(P) => pending[n] = P)
      <4>1. pending[n] \in SUBSET P
        BY <3>6
      <4> QED
        BY <3>5, <4>1, FS_Subset, FS_CardinalityType
    <3>8. CASE P = {}
      <4>1. pending[n] = {}
        BY <3>6, <3>8
      <4>2. IsFiniteSet({}) /\ Cardinality({}) = 0
        BY FS_EmptySet
      <4>3. IsFiniteSet(pending[n]) /\ Cardinality(pending[n]) <= N - n
        BY <1>1, <3>4, <4>1, <4>2
      <4> QED
        BY <3>2, <4>3
    <3>9. CASE P # {}
      <4>1. pending[n] # P
        BY <3>6, <3>9, ReadyPending
      <4>2. Cardinality(pending[n]) <= N - n
        BY <1>1, <3>4, <3>5, <3>7, <4>1
      <4> QED
        BY <3>2, <3>7, <4>2
    <3> QED
      BY <3>8, <3>9
  <2> QED
    BY <2>1
<1>7. pending[N] = {}
  <2>1. IsFiniteSet(pending[N]) /\ Cardinality(pending[N]) <= 0 /\ Cardinality(pending[N]) \in Nat
    BY <1>1, <1>6, FS_CardinalityType
  <2> QED
    BY <2>1, FS_EmptySet
<1> QED
  BY <1>1, <1>3, <1>4, <1>5, <1>7 DEF N, pending

\* No service is left out of the order, and each comes after those it depends on, unless
\* it is on a cycle or behind one: the promise of topological_order.
LEMMA OrderSound ==
  ASSUME NEW nodes, NEW graph, IsFiniteSet(nodes)
  PROVE  LET place == TopologicalOrder(nodes, graph)
         IN  /\ DOMAIN place = nodes /\ \A s \in nodes : place[s] \in Nat
             /\ \A s, t \in nodes :
                  /\ t \in DependsOn(graph, s) \ {s}
                  /\ ~\E circle \in SUBSET nodes :
                        s \in circle /\ \A u \in circle : (DependsOn(graph, u) \cap circle) \ {u} # {}
                  => place[t] < place[s]
<1> DEFINE N == Cardinality(nodes)
           pending == Pending(nodes, graph)
           place == TopologicalOrder(nodes, graph)
           until(s) == {n \in 0 .. N : s \in pending[n]}
<1>1. /\ N \in Nat /\ DOMAIN pending = 0 .. N
      /\ pending[0] = nodes
      /\ \A n \in 1 .. N : pending[n] = pending[n - 1] \ Ready(pending[n - 1], graph)
      /\ \A m, n \in 0 .. N : m <= n => pending[n] \subseteq pending[m]
      /\ pending[N] = {}
  BY Waves
<1>2. place = [s \in nodes |-> Cardinality(until(s))]
  BY <1>1 DEF TopologicalOrder
<1> HIDE DEF N, pending, place
<1>3. ASSUME NEW s PROVE IsFiniteSet(until(s)) /\ Cardinality(until(s)) \in Nat
  <2>1. IsFiniteSet(0 .. N)
    BY <1>1, FS_Interval
  <2>2. until(s) \in SUBSET (0 .. N)
    OBVIOUS
  <2> QED
    BY <2>1, <2>2, FS_Subset, FS_CardinalityType
<1>4. ASSUME NEW s \in nodes, NEW t \in nodes, t \in DependsOn(graph, s) \ {s},
             ~\E circle \in SUBSET nodes :
                s \in circle /\ \A u \in circle : (DependsOn(graph, u) \cap circle) \ {u} # {}
      PROVE  Cardinality(until(t)) < Cardinality(until(s))
  <2> DEFINE gone == {n \in 0 .. N : s \notin pending[n]}
  <2>1. gone \in SUBSET Nat /\ N \in gone
    BY <1>1
  <2>2. PICK k \in gone : \A m \in gone : k <= m
    BY <2>1, LeastNat
  <2>3. k \in 1 .. N /\ k - 1 \in 0 .. N /\ s \in pending[k - 1]
    BY <1>1, <1>4, <2>2
  <2> DEFINE P == pending[k - 1]
  <2>4. s \in Ready(P, graph)
    BY <1>1, <2>2, <2>3
  <2>5. P \subseteq nodes
    BY <1>1, <2>3
  <2>6. t \notin P
    <3>1. {u \in P : (DependsOn(graph, u) \cap P) \ {u} = {}} # {}
      BY <1>4, <2>3, <2>5
    <3> QED
      BY <1>4, <2>4, <3>1 DEF Ready
  <2>7. \A m \in 0 .. N : t \in pending[m] => m < k - 1
    BY <1>1, <2>3, <2>6
  <2>8. \A m \in 0 .. N : m <= k - 1 => s \in pending[m]
    BY <1>1, <2>3
  <2>9. until(t) \in SUBSET until(s)
    BY <1>1, <2>3, <2>7, <2>8
  <2>10. k - 1 \in until(s) /\ k - 1 \notin until(t)
    BY <2>3, <2>6
  <2> HIDE DEF until
  <2>11. Cardinality(until(t)) <= Cardinality(until(s)) /\ Cardinality(until(t)) # Cardinality(until(s))
    BY <1>3, <2>9, <2>10, FS_Subset
  <2> QED
    BY <1>3, <2>11
<1> HIDE DEF until
<1> QED
  BY <1>2, <1>3, <1>4 DEF place

-----------------------------------------------------------------------------
(* What holds between the steps of a rollout.                              *)

\* What Init says of the project, which does not change.
ProjectOK ==
  /\ depends \in [Services -> SUBSET Dependency]
  /\ \A s \in Services : s \notin DependsOn(depends, s)
  /\ ran \subseteq Containers /\ trigger \in Containers

\* The plan is the one of the code, in its order.
PlanOK ==
  /\ plan \in {{}, Planned} /\ jobs = {c \in plan : OneShot(c)}
  /\ plan # {} => order = TopologicalOrder({c[1] : c \in Planned}, Graph)
  /\ targets = plan \ landed
  /\ plan # {} <=> pc \in {"execute", "restart"} \/ (pc = "done" /\ tried # {})

\* The steps were taken one by one; only the last can be of one that did not land.
StepsOK ==
  /\ landed \subseteq tried /\ tried \subseteq plan
  /\ updated = {c[1] : c \in landed}
  /\ pc \in {"plan", "plain", "execute", "restart"} =>
       tried = landed /\ aborted = "none" /\ notCompleted = {}
  /\ pc = "restart" => targets = {}

\* A rollout ends with all landed, or with the foremost target failed.
EndOK ==
  pc = "done" =>
    \/ plan = {} /\ notCompleted = {trigger} /\ aborted \in {"none", "error"}
    \/ plan # {} /\ aborted = "none" /\ targets = {} /\ notCompleted = {}
    \/ /\ plan # {} /\ aborted # "none" /\ notCompleted = targets
       /\ \E c \in targets :
            /\ Foremost(c) /\ tried = landed \cup {c}
            /\ aborted \in {"failed", "timedout"} => c \in jobs
            /\ aborted \in {"rolledback", "deferred"} =>
                 serving[c] = "previous" /\ (c \notin stopped \cup started => running[c])

\* Bumped are some of those who asked for it, and all unless a daemon call fails.
BumpsOK ==
  /\ restarted \subseteq bumped
  /\ bumps \cup bumped # {} => plan # {} /\ targets = {} /\ pc # "execute"
  /\ bumps \cup bumped \subseteq RestartsFor(updated)
  /\ plan # {} /\ targets = {} /\ pc # "execute" /\ ~CanFail => bumps \cup bumped = RestartsFor(updated)

\* A container is as it was until its turn, and as it was left since.
ServingOK ==
  /\ \A c \in Containers \ tried : serving[c] = "previous"
  /\ \A c \in landed : serving[c] = "replacement"
  /\ \A c \in Containers \ (stopped \cup started) :
       /\ c \notin tried \cup bumped => (running[c] <=> c \in ran)
       /\ c \in landed => (running[c] <=> c \notin jobs)

RolloutIInv ==
  TypeOK /\ ProjectOK /\ PlanOK /\ StepsOK /\ EndOK /\ BumpsOK /\ ServingOK /\ DependenciesFirst

LEMMA ServicesPlanned ==
  /\ \A c \in Containers : c[1] \in Services
  /\ {c[1] : c \in Planned} \subseteq Services /\ IsFiniteSet({c[1] : c \in Planned})
  /\ {c[1] : c \in Planned} \subseteq DOMAIN Graph
<1>1. \A c \in Containers : c[1] \in Services
  BY RolloutAssumption DEF Containers
<1>2. \A c \in Planned : c \in Containers /\ c \in Members
  BY DEF Planned, Eligible
<1>3. {c[1] : c \in Planned} \subseteq Services
  BY <1>1, <1>2
<1>4. IsFiniteSet({c[1] : c \in Planned})
  BY <1>3, ServicesAssumption, FS_Subset
<1>5. {c[1] : c \in Planned} \subseteq DOMAIN Graph
  BY <1>2 DEF Graph
<1> QED
  BY <1>1, <1>3, <1>4, <1>5

\* The order of the plan puts dependencies first.
LEMMA PlanOrder ==
  ASSUME ProjectOK, PlanOK, plan # {}
  PROVE  /\ plan = Planned /\ DOMAIN order = {c[1] : c \in plan}
         /\ \A c \in plan : order[c[1]] \in Nat
         /\ \A c, d \in plan :
              d[1] \in DependsOn(depends, c[1]) /\ Acyclic(c[1]) => order[d[1]] < order[c[1]]
<1> DEFINE nodes == {c[1] : c \in Planned}
<1>1. plan = Planned /\ order = TopologicalOrder(nodes, Graph)
  BY DEF PlanOK
<1>2. nodes \subseteq Services /\ IsFiniteSet(nodes) /\ nodes \subseteq DOMAIN Graph
  BY ServicesPlanned
<1>3. \A u \in nodes : DependsOn(Graph, u) = DependsOn(depends, u) /\ u \notin DependsOn(depends, u)
  <2>1. \A u \in DOMAIN Graph : Graph[u] = depends[u]
    BY DEF Graph
  <2> QED
    BY <1>2, <2>1 DEF DependsOn, ProjectOK
<1>4. \A c \in plan : c[1] \in nodes
  BY <1>1
<1> HIDE DEF nodes
<1>5. /\ DOMAIN order = nodes /\ \A s \in nodes : order[s] \in Nat
      /\ \A s, t \in nodes :
           /\ t \in DependsOn(Graph, s) \ {s}
           /\ ~\E circle \in SUBSET nodes :
                 s \in circle /\ \A u \in circle : (DependsOn(Graph, u) \cap circle) \ {u} # {}
           => order[t] < order[s]
  BY <1>1, <1>2, OrderSound
<1>6. ASSUME NEW c \in plan, NEW d \in plan, d[1] \in DependsOn(depends, c[1]), Acyclic(c[1])
      PROVE  order[d[1]] < order[c[1]]
  <2>1. d[1] \in DependsOn(Graph, c[1]) \ {c[1]}
    BY <1>3, <1>4, <1>6
  <2>2. ASSUME NEW circle \in SUBSET nodes, c[1] \in circle,
               \A u \in circle : (DependsOn(Graph, u) \cap circle) \ {u} # {}
        PROVE  FALSE
    <3>1. \A u \in circle : DependsOn(depends, u) \cap circle # {}
      BY <1>3, <2>2
    <3> QED
      BY <1>1, <1>6, <2>2, <3>1 DEF Acyclic, nodes
  <2> QED
    BY <1>4, <1>5, <2>1, <2>2
<1> QED
  BY <1>1, <1>4, <1>5, <1>6 DEF nodes

\* Nothing in the plan, nor what is to be bumped, is what opted out or is left over.
LEMMA Candidates ==
  /\ \A c \in Planned : /\ c \in Containers /\ c \in Members /\ (OneShot(c) <=> c \notin ran)
                        /\ label[c] \in {"enabled", "unlabelled"}
  /\ \A S : \A c \in RestartsFor(S) :
       /\ c \in Containers /\ c \in ran /\ label[c] \in {"enabled", "unlabelled"} /\ c[1] \notin S
       /\ \E d \in depends[c[1]] : d.restart /\ d.service \in S
<1>1. \A c \in Planned : /\ c \in Containers /\ c \in Members /\ (OneShot(c) <=> c \notin ran)
                        /\ label[c] \in {"enabled", "unlabelled"}
  BY DEF Planned, Eligible, OptedIn
<1>2. ASSUME NEW S, NEW c \in RestartsFor(S)
      PROVE  /\ c \in Containers /\ c \in ran /\ label[c] \in {"enabled", "unlabelled"} /\ c[1] \notin S
             /\ \E d \in depends[c[1]] : d.restart /\ d.service \in S
  <2>1. c \in Containers /\ Bumpable(c) /\ c[1] \in RestartDependents(Graph, S)
    BY <1>2 DEF RestartsFor
  <2>2. c[1] \in DOMAIN Graph => Graph[c[1]] = depends[c[1]]
    BY DEF Graph
  <2> QED
    BY <2>1, <2>2 DEF Bumpable, RestartDependents
<1> QED
  BY <1>1, <1>2

\* Planning.
LEMMA PlanStep ==
  ASSUME RolloutIInv, Plan \/ PlanFails
  PROVE  RolloutIInv'
<1> USE DEF RolloutIInv, project, containers, planned, report, history
<1>1. /\ pc = "plan" /\ plan = {} /\ targets = {} /\ landed = {} /\ tried = {} /\ updated = {} /\ jobs = {}
      /\ bumps = {} /\ bumped = {} /\ restarted = {} /\ aborted = "none"
      /\ UNCHANGED <<project, containers, bumps, updated, landed, restarted, history>>
  <2>1. pc = "plan" /\ UNCHANGED <<project, containers, bumps, updated, landed, restarted, history>>
    BY DEF Plan, PlanFails
  <2>2. plan = {} /\ tried = {} /\ landed = {} /\ aborted = "none"
    BY <2>1 DEF PlanOK, StepsOK
  <2>3. bumps = {} /\ bumped = {} /\ restarted = {}
    BY <2>2 DEF BumpsOK
  <2> QED
    BY <2>1, <2>2, <2>3 DEF PlanOK, StepsOK
<1>2. ProjectOK' /\ ServingOK' /\ DependenciesFirst'
  BY <1>1 DEF ProjectOK, ServingOK, DependenciesFirst
<1>3. Planned' = Planned /\ \A c \in Containers : OneShot(c)' = OneShot(c)
  BY <1>1 DEF Planned, Eligible, OneShot, Graph, Members, SameImage, OptedIn, Current
<1>4. Graph' = Graph
  BY <1>1 DEF Graph, Members
<1>5. CASE Plain /\ pc' = "plain" /\ UNCHANGED <<planned, targets, notCompleted, aborted>>
  <2>1. TypeOK' /\ PlanOK'
    BY <1>1, <1>5 DEF TypeOK, PlanOK
  <2>2. StepsOK' /\ EndOK' /\ BumpsOK'
    BY <1>1, <1>5 DEF StepsOK, EndOK, BumpsOK
  <2> QED
    BY <1>2, <2>1, <2>2
<1>6. CASE /\ pc' = "done" /\ notCompleted' = {trigger} /\ aborted' \in {"none", "error"}
           /\ UNCHANGED <<planned, targets>>
  <2>1. TypeOK' /\ PlanOK'
    BY <1>1, <1>6 DEF TypeOK, PlanOK, ProjectOK, Aborts
  <2>2. StepsOK' /\ EndOK' /\ BumpsOK'
    BY <1>1, <1>6 DEF StepsOK, EndOK, BumpsOK
  <2> QED
    BY <1>2, <2>1, <2>2
<1>7. CASE /\ trigger \in Planned /\ pc' = "execute"
           /\ plan' = Planned /\ jobs' = {c \in Planned : OneShot(c)}
           /\ order' = TopologicalOrder({c[1] : c \in Planned}, Graph)
           /\ targets' = {c \in Planned : c[1] \in DOMAIN order'}
           /\ UNCHANGED <<notCompleted, aborted>>
  <2>1. DOMAIN order' = {c[1] : c \in Planned}
    BY <1>7, ServicesPlanned, OrderSound
  <2>2. targets' = Planned
    BY <1>7, <2>1
  <2>3. \A c \in Planned : c \in Containers
    BY Candidates
  <2>4. PlanOK'
    <3>1. plan' # {} /\ plan' = Planned' /\ jobs' = {c \in plan' : OneShot(c)'}
      BY <1>3, <1>7, <2>3
    <3>2. order' = TopologicalOrder({c[1] : c \in Planned}, Graph)' /\ targets' = plan' \ landed'
      BY <1>1, <1>3, <1>4, <1>7, <2>2
    <3> QED
      BY <1>7, <3>1, <3>2 DEF PlanOK
  <2>5. TypeOK'
    BY <1>1, <1>7, <2>2, <2>3 DEF TypeOK
  <2>6. StepsOK' /\ EndOK' /\ BumpsOK'
    BY <1>1, <1>7, <2>2 DEF StepsOK, EndOK, BumpsOK
  <2> QED
    BY <1>2, <2>4, <2>5, <2>6
<1> QED
  BY <1>1, <1>5, <1>6, <1>7 DEF Plan, PlanFails
\* What is derived from the project and its plan stays with them.
LEMMA ProjectStays ==
  ASSUME UNCHANGED <<project, planned>>
  PROVE  /\ Planned' = Planned /\ Graph' = Graph
         /\ \A c \in Containers : OneShot(c)' = OneShot(c)
         /\ \A c, d : Before(c, d)' = Before(c, d)
         /\ \A c \in Containers : Acyclic(c[1])' = Acyclic(c[1])
         /\ updated' = updated => RestartsFor(updated)' = RestartsFor(updated)
         /\ ProjectOK => ProjectOK'
         /\ PlanOK /\ UNCHANGED <<targets, landed, pc, tried>> => PlanOK'
<1> USE DEF project, planned
<1>1. Graph' = Graph
  BY DEF Graph, Members
<1>2. Planned' = Planned /\ \A c \in Containers : OneShot(c)' = OneShot(c)
  BY DEF Planned, Eligible, OneShot, Graph, Members, SameImage, OptedIn, Current
<1>3. \A c, d : Before(c, d)' = Before(c, d)
  BY DEF Before
<1>4. \A c \in Containers : Acyclic(c[1])' = Acyclic(c[1])
  BY DEF Acyclic
<1>5. updated' = updated => RestartsFor(updated)' = RestartsFor(updated)
  BY DEF RestartsFor, Bumpable, Members, Graph
<1>6. ProjectOK => ProjectOK'
  BY DEF ProjectOK
<1>7. PlanOK /\ UNCHANGED <<targets, landed, pc, tried>> => PlanOK'
  <2> SUFFICES ASSUME PlanOK, UNCHANGED <<targets, landed, pc, tried>> PROVE PlanOK'
    OBVIOUS
  <2>1. jobs' = {c \in plan' : OneShot(c)'}
    <3>1. \A c \in plan : c \in Containers
      BY Candidates DEF PlanOK
    <3> QED
      BY <1>2, <3>1 DEF PlanOK
  <2> QED
    BY <1>1, <1>2, <2>1 DEF PlanOK
<1> QED
  BY <1>1, <1>2, <1>3, <1>4, <1>5, <1>6, <1>7

\* When a target's turn comes, those it depends on have landed.
LEMMA TurnComes ==
  ASSUME RolloutIInv, NEW c \in Containers, Step(c), landed \subseteq landed'
  PROVE  DependenciesFirst'
<1> USE DEF RolloutIInv
<1>1. /\ pc = "execute" /\ Foremost(c) /\ c \in targets /\ tried' = tried \cup {c}
      /\ UNCHANGED <<project, planned>>
  BY DEF Step, Foremost, planned
<1>2. plan # {} /\ plan' = plan /\ depends' = depends /\ c \in plan /\ plan \subseteq Containers
  BY <1>1 DEF PlanOK, project, planned, TypeOK
<1>3. ASSUME NEW b \in tried', NEW d \in plan', d[1] \in DependsOn(depends', b[1]), d \notin landed'
      PROVE  ~Acyclic(b[1])'
  <2>1. b \in Containers /\ Acyclic(b[1])' = Acyclic(b[1])
    <3>1. b \in Containers
      BY <1>1, <1>2 DEF StepsOK
    <3> QED
      BY <1>1, <3>1, ProjectStays
  <2>2. CASE b \in tried
    BY <1>2, <1>3, <2>1, <2>2 DEF DependenciesFirst
  <2>3. CASE b = c
    <3>1. d \in targets /\ d[1] \in DependsOn(depends, c[1])
      BY <1>2, <1>3, <2>3 DEF PlanOK
    <3>2. c[1] \in Services
      BY ServicesPlanned
    <3>3. d # c
      BY <3>1, <3>2 DEF ProjectOK
    <3>4. order[c[1]] < order[d[1]] \/ order[c[1]] = order[d[1]]
      BY <1>1, <3>1, <3>3 DEF Foremost, Before
    <3>5. order[c[1]] \in Nat /\ order[d[1]] \in Nat /\ (Acyclic(c[1]) => order[d[1]] < order[c[1]])
      BY <1>2, <1>3, <3>1, PlanOrder
    <3> QED
      BY <2>1, <2>3, <3>4, <3>5
  <2> QED
    BY <1>1, <1>3, <2>2, <2>3
<1> QED
  BY <1>3 DEF DependenciesFirst

LEMMA CompleteStep ==
  ASSUME RolloutIInv, NEW c \in Containers, Complete(c)
  PROVE  RolloutIInv'
<1> USE DEF RolloutIInv, project, containers, planned, report, history
<1>1. /\ pc = "execute" /\ Foremost(c) /\ c \in targets /\ tried' = tried \cup {c}
      /\ running' = [running EXCEPT ![c] = (c \notin jobs)]
      /\ serving' = [serving EXCEPT ![c] = "replacement"]
      /\ landed' = landed \cup {c} /\ updated' = updated \cup {c[1]} /\ targets' = targets \ {c}
      /\ UNCHANGED <<project, planned, bumps, restarted, bumped, stopped, started, pc, aborted, notCompleted>>
  BY DEF Complete, Step, Foremost
<1>2. plan # {} /\ c \in plan /\ tried = landed /\ aborted = "none" /\ notCompleted = {}
      /\ bumps = {} /\ bumped = {} /\ restarted = {}
  BY <1>1 DEF PlanOK, StepsOK, BumpsOK
<1>3. DependenciesFirst'
  BY <1>1, TurnComes DEF Complete
<1>4. ProjectOK'
  BY <1>1, ProjectStays
<1>5. c \in Containers /\ c[1] \in Services
  BY ServicesPlanned
<1>6. TypeOK'
  BY <1>1, <1>5 DEF TypeOK
<1>7. PlanOK'
  <2>1. \A d \in plan : d \in Containers /\ OneShot(d)' = OneShot(d)
    BY <1>1, ProjectStays DEF TypeOK
  <2> QED
    BY <1>1, <1>2, <2>1, ProjectStays DEF PlanOK
<1>8. StepsOK' /\ EndOK'
  BY <1>1, <1>2 DEF StepsOK, EndOK
<1>9. BumpsOK'
  BY <1>1, <1>2 DEF BumpsOK
<1>10. ServingOK'
  BY <1>1, <1>2, ZenonT(60) DEF ServingOK, TypeOK
<1> QED
  BY <1>3, <1>4, <1>6, <1>7, <1>8, <1>9, <1>10

\* The failing step, whichever way it failed.
LEMMA FailEffects ==
  ASSUME RolloutIInv, NEW c \in Containers, Fail(c)
  PROVE  /\ pc = "execute" /\ Foremost(c) /\ c \in targets /\ tried' = tried \cup {c}
         /\ UNCHANGED <<project, planned, bumps, restarted, bumped, stopped, started, targets, updated, landed>>
         /\ pc' = "done" /\ aborted' \in Aborts \ {"none"} /\ notCompleted' = plan \ landed
         /\ \E run \in BOOLEAN : running' = [running EXCEPT ![c] = run]
         /\ \E serves \in {"previous", "replacement"} : serving' = [serving EXCEPT ![c] = serves]
         /\ aborted' \in {"failed", "timedout"} => c \in jobs
         /\ aborted' \in {"rolledback", "deferred"} =>
              c \notin jobs /\ serving'[c] = "previous" /\ (running'[c] \/ running'[c] = running[c])
<1> DEFINE Effects(reason, run, serves) ==
             /\ pc = "execute" /\ Foremost(c) /\ c \in targets /\ tried' = tried \cup {c}
             /\ UNCHANGED <<project, planned, bumps, restarted, bumped, stopped, started, targets, updated, landed>>
             /\ pc' = "done" /\ aborted' = reason /\ notCompleted' = plan \ landed
             /\ running' = [running EXCEPT ![c] = run] /\ running'[c] = run
             /\ serving' = [serving EXCEPT ![c] = serves] /\ serving'[c] = serves
<1>1. \A reason, run, serves : Abort(c, reason, run, serves) => Effects(reason, run, serves)
  BY DEF Abort, Step, Foremost, RolloutIInv, TypeOK
<1>2. running[c] \in BOOLEAN
  BY DEF RolloutIInv, TypeOK
<1>3. CASE c \in jobs /\ Abort(c, "failed", FALSE, "replacement")
  <2>1. Effects("failed", FALSE, "replacement")
    BY <1>1, <1>3
  <2> QED
    BY <1>3, <2>1 DEF Aborts
<1>4. CASE c \in jobs /\ Abort(c, "timedout", TRUE, "replacement")
  <2>1. Effects("timedout", TRUE, "replacement")
    BY <1>1, <1>4
  <2> QED
    BY <1>4, <2>1 DEF Aborts
<1>5. CASE c \notin jobs /\ Abort(c, "rolledback", TRUE, "previous")
  <2>1. Effects("rolledback", TRUE, "previous")
    BY <1>1, <1>5
  <2> QED
    BY <1>5, <2>1 DEF Aborts
<1>6. CASE c \notin jobs /\ Abort(c, "deferred", running[c], "previous")
  <2>1. Effects("deferred", running[c], "previous")
    BY <1>1, <1>6
  <2> QED
    BY <1>2, <1>6, <2>1 DEF Aborts
<1>7. ASSUME NEW run \in BOOLEAN, NEW serves \in {"previous", "replacement"}, Abort(c, "error", run, serves)
      PROVE  Effects("error", run, serves) /\ aborted' = "error"
  BY <1>1, <1>7
<1>8. ASSUME NEW run \in BOOLEAN, NEW serves \in {"previous", "replacement"}, Effects("error", run, serves)
      PROVE  /\ \E r \in BOOLEAN : running' = [running EXCEPT ![c] = r]
             /\ \E v \in {"previous", "replacement"} : serving' = [serving EXCEPT ![c] = v]
             /\ aborted' \in Aborts \ {"none"}
  BY <1>8 DEF Aborts
<1>9. CASE Abort(c, "error", running[c], "previous") \/
           (\E serves \in {"previous", "replacement"} : Abort(c, "error", FALSE, serves)) \/
           Abort(c, "error", TRUE, "replacement")
  <2>1. PICK run \in BOOLEAN, serves \in {"previous", "replacement"} : Abort(c, "error", run, serves)
    BY <1>2, <1>9
  <2>2. Effects("error", run, serves)
    BY <1>7, <2>1
  <2> QED
    BY <1>8, <2>2
<1> QED
  BY <1>3, <1>4, <1>5, <1>6, <1>9 DEF Fail

LEMMA FailStep ==
  ASSUME RolloutIInv, NEW c \in Containers, Fail(c)
  PROVE  RolloutIInv'
<1> USE DEF RolloutIInv, project, containers, planned, report, history
<1>1. /\ pc = "execute" /\ Foremost(c) /\ c \in targets /\ tried' = tried \cup {c}
      /\ UNCHANGED <<project, planned, bumps, restarted, bumped, stopped, started, targets, updated, landed>>
      /\ pc' = "done" /\ aborted' \in Aborts \ {"none"} /\ notCompleted' = plan \ landed
      /\ \E run \in BOOLEAN : running' = [running EXCEPT ![c] = run]
      /\ \E serves \in {"previous", "replacement"} : serving' = [serving EXCEPT ![c] = serves]
      /\ aborted' \in {"failed", "timedout"} => c \in jobs
      /\ aborted' \in {"rolledback", "deferred"} =>
           c \notin jobs /\ serving'[c] = "previous" /\ (running'[c] \/ running'[c] = running[c])
  BY FailEffects
<1>2. plan # {} /\ c \in plan /\ tried = landed /\ c \notin landed /\ targets # {}
      /\ bumps = {} /\ bumped = {} /\ restarted = {}
  BY <1>1 DEF PlanOK, StepsOK, BumpsOK
<1>3. DependenciesFirst'
  <2>1. Step(c)
    BY DEF Fail, Abort
  <2> QED
    BY <1>1, <2>1, TurnComes
<1>4. ProjectOK'
  BY <1>1, ProjectStays
<1>5. TypeOK'
  <2>1. running' \in [Containers -> BOOLEAN] /\ serving' \in [Containers -> {"previous", "replacement"}]
    BY <1>1 DEF TypeOK
  <2> QED
    BY <1>1, <1>2, <2>1 DEF TypeOK, Aborts
<1>6. PlanOK'
  <2>1. \A d \in plan : d \in Containers /\ OneShot(d)' = OneShot(d)
    BY <1>1, ProjectStays DEF TypeOK
  <2> QED
    BY <1>1, <1>2, <2>1, ProjectStays DEF PlanOK
<1>7. StepsOK' /\ BumpsOK'
  BY <1>1, <1>2 DEF StepsOK, BumpsOK
<1>8. EndOK'
  <2>1. Foremost(c)'
    BY <1>1 DEF Foremost, Before
  <2>2. aborted' \in {"rolledback", "deferred"} =>
          serving'[c] = "previous" /\ (c \notin stopped \cup started => running'[c])
    <3> SUFFICES ASSUME aborted' \in {"rolledback", "deferred"}, c \notin stopped \cup started
                 PROVE  running'[c]
      BY <1>1
    <3>1. c \notin jobs /\ c \in Planned
      BY <1>1, <1>2 DEF PlanOK
    <3>2. c \in ran
      BY <1>2, <3>1, Candidates DEF PlanOK
    <3>3. running[c]
      BY <1>2, <3>2 DEF ServingOK
    <3> QED
      BY <1>1, <3>3
  <2>3. notCompleted' = targets' /\ aborted' # "none" /\ c \in targets' /\ tried' = landed' \cup {c} /\ plan' # {}
    BY <1>1, <1>2 DEF PlanOK
  <2>4. aborted' \in {"failed", "timedout"} => c \in jobs'
    BY <1>1
  <2> QED
    BY <1>1, <2>1, <2>2, <2>3, <2>4 DEF EndOK
<1>9. ServingOK'
  <2>1. \A d \in Containers \ {c} : running'[d] = running[d] /\ serving'[d] = serving[d]
    BY <1>1 DEF TypeOK
  <2> QED
    BY <1>1, <1>2, <2>1 DEF ServingOK, TypeOK, StepsOK
<1> QED
  BY <1>3, <1>4, <1>5, <1>6, <1>7, <1>8, <1>9

LEMMA RestartStep ==
  ASSUME RolloutIInv, NEW c \in Containers, Restart(c)
  PROVE  RolloutIInv'
<1> USE DEF RolloutIInv, project, containers, planned, report, history
<1>1. /\ pc = "restart" /\ c \in bumps /\ bumps' = bumps \ {c}
      /\ UNCHANGED <<project, serving, pc, planned, targets, updated, landed, aborted, notCompleted,
                     tried, stopped, started>>
      /\ \/ /\ bumped' = bumped \cup {c} /\ restarted' \in {restarted, restarted \cup {c}}
            /\ \E run \in BOOLEAN : running' = [running EXCEPT ![c] = run]
         \/ CanFail /\ UNCHANGED <<running, restarted, bumped>>
  BY DEF Restart
<1>2. /\ plan # {} /\ targets = {} /\ c \in RestartsFor(updated) /\ c \notin landed
      /\ tried = landed
  <2>1. plan # {} /\ targets = {} /\ c \in RestartsFor(updated) /\ tried = landed
    BY <1>1 DEF BumpsOK, StepsOK
  <2>2. c[1] \notin updated
    BY <2>1, Candidates
  <2> QED
    BY <2>1, <2>2 DEF StepsOK
<1>3. ProjectOK' /\ PlanOK' /\ RestartsFor(updated)' = RestartsFor(updated)
  BY <1>1, ProjectStays
<1>4. DependenciesFirst'
  <2>1. \A b \in tried : Acyclic(b[1])' = Acyclic(b[1])
    BY <1>1, ProjectStays DEF TypeOK
  <2> QED
    BY <1>1, <2>1 DEF DependenciesFirst
<1>5. TypeOK'
  <2>1. running' \in [Containers -> BOOLEAN]
    BY <1>1 DEF TypeOK
  <2> QED
    BY <1>1, <2>1 DEF TypeOK
<1>6. StepsOK' /\ EndOK'
  BY <1>1 DEF StepsOK, EndOK
<1>7. BumpsOK'
  BY <1>1, <1>2, <1>3 DEF BumpsOK
<1>8. ServingOK'
  <2>1. c \in bumped' \/ (running' = running /\ bumped' = bumped)
    BY <1>1
  <2>2. \A d \in Containers \ {c} : running'[d] = running[d] /\ (d \in bumped' <=> d \in bumped)
    BY <1>1 DEF TypeOK
  <2> QED
    BY <1>1, <1>2, <2>1, <2>2 DEF ServingOK, TypeOK
<1> QED
  BY <1>3, <1>4, <1>5, <1>6, <1>7, <1>8

LEMMA OtherSteps ==
  ASSUME RolloutIInv, AllLanded \/ Finish \/ UNCHANGED vars \/ \E c \in Containers : Disturb(c)
  PROVE  RolloutIInv'
<1> USE DEF RolloutIInv, project, containers, planned, report, history
<1>1. UNCHANGED <<project, planned, updated, landed, aborted, notCompleted, tried, restarted, bumped, targets, serving>>
  BY DEF AllLanded, Finish, vars, Disturb
<1>2. ProjectOK' /\ RestartsFor(updated)' = RestartsFor(updated)
  BY <1>1, ProjectStays
<1>3. \A d \in plan : OneShot(d)' = OneShot(d)
  BY <1>1, ProjectStays DEF TypeOK
<1>4. DependenciesFirst'
  <2>1. \A b \in tried : Acyclic(b[1])' = Acyclic(b[1])
    BY <1>1, ProjectStays DEF TypeOK
  <2> QED
    BY <1>1, <2>1 DEF DependenciesFirst
<1>5. CASE AllLanded
  <2>1. pc = "execute" /\ targets = {} /\ pc' = "restart" /\ bumps' = RestartsFor(updated) /\ UNCHANGED <<running, stopped, started>>
    BY <1>5 DEF AllLanded
  <2>2. PlanOK'
    BY <1>1, <1>3, <2>1, ProjectStays DEF PlanOK
  <2>3. StepsOK' /\ EndOK' /\ ServingOK'
    BY <1>1, <2>1 DEF StepsOK, EndOK, ServingOK
  <2>4. plan # {} /\ bumped = {}
    <3>1. plan # {}
      BY <2>1 DEF PlanOK
    <3> QED
      BY <2>1, <3>1 DEF BumpsOK
  <2>5. BumpsOK'
    BY <1>1, <1>2, <2>1, <2>4 DEF BumpsOK
  <2>6. TypeOK'
    <3>1. RestartsFor(updated) \subseteq Containers
      BY Candidates
    <3> QED
      BY <1>1, <2>1, <3>1 DEF TypeOK
  <2> QED
    BY <1>2, <1>4, <2>2, <2>3, <2>5, <2>6
<1>6. CASE Finish
  <2>1. pc = "restart" /\ bumps = {} /\ pc' = "done" /\ UNCHANGED <<running, stopped, started, bumps>>
    BY <1>6 DEF Finish
  <2>2. plan # {} /\ landed = tried /\ targets = {} /\ plan = landed /\ aborted = "none" /\ notCompleted = {}
    BY <2>1 DEF PlanOK, StepsOK
  <2>3. PlanOK'
    BY <1>1, <1>3, <2>1, <2>2, ProjectStays DEF PlanOK
  <2>4. StepsOK' /\ EndOK' /\ ServingOK'
    BY <1>1, <2>1, <2>2 DEF StepsOK, EndOK, ServingOK
  <2>5. BumpsOK' /\ TypeOK'
    BY <1>1, <1>2, <2>1 DEF BumpsOK, TypeOK
  <2> QED
    BY <1>2, <1>4, <2>3, <2>4, <2>5
<1>7. CASE UNCHANGED vars
  <2>1. PlanOK'
    BY <1>7, ProjectStays DEF vars
  <2>2. TypeOK' /\ StepsOK' /\ ServingOK'
    BY <1>7 DEF vars, TypeOK, StepsOK, ServingOK
  <2>3. EndOK' /\ BumpsOK'
    BY <1>2, <1>7 DEF vars, EndOK, BumpsOK, Foremost, Before
  <2> QED
    BY <1>2, <1>4, <2>1, <2>2, <2>3
<1>8. ASSUME NEW c \in Containers, Disturb(c) PROVE RolloutIInv'
  <2>1. /\ pc \in {"execute", "restart"} /\ UNCHANGED <<pc, bumps>>
        /\ running' = [running EXCEPT ![c] = ~running[c]]
        /\ stopped \cup started \subseteq stopped' \cup started' /\ c \in stopped' \cup started'
    BY <1>8 DEF Disturb
  <2>2. PlanOK'
    BY <1>1, <2>1, ProjectStays
  <2>3. TypeOK' /\ StepsOK'
    BY <1>1, <2>1 DEF TypeOK, StepsOK
  <2>4. EndOK' /\ BumpsOK'
    BY <1>1, <1>2, <2>1 DEF EndOK, BumpsOK
  <2>5. ServingOK'
    <3>1. \A d \in Containers \ (stopped' \cup started') : d \notin stopped \cup started /\ running'[d] = running[d]
      BY <2>1 DEF TypeOK
    <3> QED
      BY <1>1, <3>1 DEF ServingOK
  <2> QED
    BY <1>2, <1>4, <2>2, <2>3, <2>4, <2>5
<1> QED
  BY <1>5, <1>6, <1>7, <1>8

LEMMA RolloutInvariant == Spec => []RolloutIInv
<1>1. Init => RolloutIInv
  <2> SUFFICES ASSUME Init PROVE RolloutIInv
    OBVIOUS
  <2>1. depends \in [Services -> SUBSET Dependency]
    BY RolloutAssumption DEF Init, Dependency, DeclarableOn
  <2>2. TypeOK
    BY <2>1 DEF Init, TypeOK, Aborts
  <2>3. ProjectOK
    BY <2>1 DEF Init, ProjectOK
  <2>4. PlanOK /\ StepsOK /\ EndOK /\ BumpsOK /\ ServingOK /\ DependenciesFirst
    BY DEF Init, PlanOK, StepsOK, EndOK, BumpsOK, ServingOK, DependenciesFirst
  <2> QED
    BY <2>2, <2>3, <2>4 DEF RolloutIInv
<1>2. RolloutIInv /\ [Next]_vars => RolloutIInv'
  BY PlanStep, CompleteStep, FailStep, RestartStep, OtherSteps DEF Next
<1> QED
  BY <1>1, <1>2, PTL DEF Spec
-----------------------------------------------------------------------------
(* What a rollout promises.                                                *)

\* The order of plan and execute in rollout.rs is sound for any project, cyclic or not: no
\* update is begun before the targets its container directly depends on have landed.
THEOREM InOrder == Spec => []OrderInv
<1> QED
  BY RolloutInvariant, PTL DEF RolloutIInv, OrderInv

\* New code never runs ahead of its migration: whatever the references, image ids and
\* labels, every one-shot that a container waits for has been run anew before its update.
THEOREM MigratedFirst == Spec => []SchemaFirst
<1>1. ASSUME RolloutIInv PROVE SchemaFirst
  <2> USE <1>1 DEF RolloutIInv
  <2> SUFFICES ASSUME NEW c \in tried, NEW m \in Members, NEW d \in Graph[c[1]],
                      d.service = m[1], d.condition = "completed",
                      ref[m] = ref[trigger] \/ (id[m] = id[trigger] /\ ref[m] # "digest"),
                      label[m] \in {"enabled", "unlabelled"}, m \notin ran \cup landed
               PROVE  ~Acyclic(c[1])
    BY DEF SchemaFirst
  <2>1. c \in Planned /\ plan = Planned /\ m \in Containers
    BY DEF StepsOK, PlanOK, Members
  <2>2. c[1] \in DOMAIN Graph /\ Graph[c[1]] = depends[c[1]] /\ c[1] \in Services
    <3>1. c \in Containers /\ c \in Members
      BY <2>1, Candidates
    <3> QED
      BY <3>1, ServicesPlanned DEF Graph
  <2>3. OneShot(m)
    <3>1. d \in UNION Range(Graph)
      BY <2>2 DEF Range
    <3> QED
      BY <3>1 DEF OneShot, AwaitedForCompletion
  <2>4. m \in Planned
    BY <2>1, <2>3 DEF Planned, Eligible, SameImage, OptedIn, Current
  <2>5. m[1] \in DependsOn(depends, c[1])
    BY <2>2 DEF DependsOn, ProjectOK
  <2> QED
    BY <2>1, <2>4, <2>5 DEF DependenciesFirst
<1> QED
  BY <1>1, RolloutInvariant, PTL

\* What opted out, only watches, is left over or was found stopped is touched neither by
\* the plan nor by restart_candidates, whichever dependency would ask for it.
THEOREM OthersLeftAlone == Spec => []LeftAlone
<1>1. ASSUME RolloutIInv, NEW c \in tried \cup bumped
      PROVE  label[c] \in {"enabled", "unlabelled"} /\ (c \in ran \/ OneShot(c))
  <2>1. c \in Planned \/ c \in RestartsFor(updated)
    BY <1>1 DEF RolloutIInv, PlanOK, StepsOK, BumpsOK
  <2> QED
    BY <2>1, Candidates
<1>2. RolloutIInv => LeftAlone
  BY <1>1 DEF LeftAlone
<1> QED
  BY <1>2, RolloutInvariant, PTL

\* execute restarts the dependents of what it updated and nobody else, and none before
\* every target has landed.
THEOREM BumpsExact == Spec => []BumpedExactly
<1>1. ASSUME RolloutIInv PROVE BumpedExactly
  <2> USE <1>1 DEF RolloutIInv
  <2> DEFINE asked == {c \in ran : /\ label[c] \in {"enabled", "unlabelled"}
                                   /\ c \notin landed
                                   /\ \E d \in depends[c[1]], l \in landed :
                                        d.restart /\ d.service = l[1]}
             updatedWith == {c \in ran : \E l \in landed : c[1] = l[1]}
  <2>1. bumped # {} => plan \subseteq landed
    BY DEF BumpsOK, PlanOK
  <2>2. ASSUME NEW c \in RestartsFor(updated) PROVE c \in asked \ updatedWith
    <3>1. /\ c \in ran /\ label[c] \in {"enabled", "unlabelled"} /\ c[1] \notin updated
          /\ \E d \in depends[c[1]] : d.restart /\ d.service \in updated
      BY Candidates
    <3>2. updated = {l[1] : l \in landed}
      BY DEF StepsOK
    <3> QED
      BY <3>1, <3>2
  <2>3. ASSUME NEW c \in asked \ updatedWith PROVE c \in RestartsFor(updated)
    <3>1. c \in Containers /\ c \in ran /\ label[c] \in {"enabled", "unlabelled"}
      BY DEF ProjectOK
    <3>2. c \in Members /\ Bumpable(c)
      BY <3>1 DEF Members, Bumpable
    <3>3. c[1] \in DOMAIN Graph /\ Graph[c[1]] = depends[c[1]]
      BY <3>1, <3>2, ServicesPlanned DEF Graph
    <3>4. c[1] \notin updated /\ \E d \in depends[c[1]] : d.restart /\ d.service \in updated
      BY DEF StepsOK
    <3> QED
      BY <3>1, <3>2, <3>3, <3>4 DEF RestartsFor, RestartDependents
  <2>4. RestartsFor(updated) = asked \ updatedWith
    BY <2>2, <2>3
  <2>5. bumped \subseteq RestartsFor(updated)
    BY DEF BumpsOK
  <2>6. pc = "done" /\ aborted = "none" /\ ~CanFail /\ tried # {} => bumped = RestartsFor(updated)
    <3> SUFFICES ASSUME pc = "done", aborted = "none", ~CanFail, tried # {}
                 PROVE  bumped = RestartsFor(updated)
      OBVIOUS
    <3>1. plan # {}
      BY DEF PlanOK
    <3>2. targets = {} /\ bumps = {}
      BY <3>1 DEF EndOK, TypeOK
    <3> QED
      BY <3>1, <3>2 DEF BumpsOK
  <2> HIDE DEF asked, updatedWith
  <2>7. /\ bumped # {} => plan \subseteq landed
        /\ bumped \subseteq asked \ updatedWith
        /\ pc = "done" /\ aborted = "none" /\ ~CanFail /\ tried # {} => bumped = asked \ updatedWith
    BY <2>1, <2>4, <2>5, <2>6
  <2> QED
    BY <2>7 DEF BumpedExactly, asked, updatedWith
<1> QED
  BY <1>1, RolloutInvariant, PTL

\* The report of a rollout, and what rollout_verdicts and the scheduler make of it, is
\* true of every container that nobody else has touched.
THEOREM ReportAccounts == Spec => []Accounted
<1>1. ASSUME RolloutIInv, pc = "done"
      PROVE  /\ landed \cap notCompleted = {}
             /\ tried # {} => ImageTargets = plan
             /\ Remembered = "landed" =>
                  ImageTargets # {} /\ \A c \in ImageTargets : serving[c] = "replacement"
  <2> USE <1>1 DEF RolloutIInv
  <2>1. \/ plan = {} /\ landed = {} /\ tried = {} /\ restarted = {}
        \/ plan # {} /\ aborted = "none" /\ landed = plan /\ notCompleted = {}
        \/ plan # {} /\ aborted # "none" /\ notCompleted = plan \ landed
    BY DEF EndOK, PlanOK, StepsOK, BumpsOK
  <2>2. landed \cap notCompleted = {} /\ (tried # {} => ImageTargets = plan)
    BY <2>1 DEF StepsOK, ImageTargets
  <2>3. ASSUME Remembered = "landed" PROVE ImageTargets # {} /\ \A c \in ImageTargets : serving[c] = "replacement"
    <3>1. aborted = "none" /\ Touched # {}
      BY <2>3 DEF Remembered
    <3>2. plan # {} /\ landed = plan /\ notCompleted = {}
      BY <2>1, <3>1 DEF Touched
    <3> QED
      BY <3>2 DEF ImageTargets, ServingOK
  <2> QED
    BY <2>2, <2>3
<1>2. ASSUME RolloutIInv, pc = "done", NEW c \in Containers \ (stopped \cup started),
             c \notin Claimed \cup (bumped \ restarted)
      PROVE  (running[c] <=> c \in ran) /\ serving[c] = "previous"
  <2>1. c \notin tried \cup bumped
    BY <1>2 DEF RolloutIInv, Claimed, Touched, EndOK, PlanOK, StepsOK
  <2> QED
    BY <1>2, <2>1 DEF RolloutIInv, ServingOK
<1>3. ASSUME RolloutIInv, pc = "done", NEW c \in Containers \ (stopped \cup started), c \in ImageTargets \ jobs
      PROVE  /\ RolloutVerdicts[c] = "updated" => running[c] /\ serving[c] = "replacement"
             /\ RolloutVerdicts[c] = "not updated" => (running[c] <=> c \in ran) /\ serving[c] = "previous"
             /\ RolloutVerdicts[c] = "failed" => c \notin landed
             /\ RolloutVerdicts[c] \in {"updated", "not updated", "failed"}
  <2> USE <1>3 DEF RolloutIInv
  <2>1. RolloutVerdicts[c] = IF c \in landed THEN "updated" ELSE IF c = FailedAt THEN "failed" ELSE "not updated"
    BY DEF RolloutVerdicts
  <2>2. ASSUME RolloutVerdicts[c] = "updated" PROVE running[c] /\ serving[c] = "replacement"
    <3>1. c \in landed
      BY <2>1, <2>2
    <3> QED
      BY <3>1 DEF ServingOK
  <2>3. ASSUME RolloutVerdicts[c] = "not updated" PROVE (running[c] <=> c \in ran) /\ serving[c] = "previous"
    <3>1. c \notin landed /\ c # FailedAt /\ c \in notCompleted
      BY <2>1, <2>3 DEF ImageTargets
    <3>2. CASE c \notin tried
      <4>1. bumped = {} \/ c \notin bumped
        <5>1. notCompleted # {}
          BY <3>1
        <5>2. plan = {} \/ targets # {}
          BY <3>1 DEF EndOK
        <5> QED
          BY <5>2 DEF BumpsOK
      <4> QED
        BY <3>2, <4>1 DEF ServingOK
    <3>3. CASE c \in tried
      <4>1. plan # {} /\ plan = Planned /\ c \in Planned
        BY <3>3 DEF StepsOK, PlanOK
      <4>2. PICK f \in targets :
              /\ Foremost(f) /\ tried = landed \cup {f}
              /\ aborted \in {"failed", "timedout"} => f \in jobs
              /\ aborted \in {"rolledback", "deferred"} =>
                   serving[f] = "previous" /\ (f \notin stopped \cup started => running[f])
        BY <3>1, <4>1 DEF EndOK
      <4>3. c = f /\ aborted # "none"
        BY <3>1, <3>3, <4>1, <4>2 DEF EndOK
      <4>4. aborted # "error"
        <5> SUFFICES ASSUME aborted = "error" PROVE FALSE
          OBVIOUS
        <5>1. FailedAt = CHOOSE g \in targets : Foremost(g)
          BY <4>2 DEF FailedAt
        <5>2. FailedAt \in targets /\ Foremost(FailedAt)
          BY <4>2, <5>1
        <5>3. FailedAt # f => Before(f, FailedAt) /\ Before(FailedAt, f)
          BY <4>2, <5>2 DEF Foremost
        <5>4. FailedAt # f => FALSE
          <6>1. f \in plan /\ FailedAt \in plan /\ plan \subseteq Containers
            BY <4>2, <5>2 DEF PlanOK, TypeOK
          <6>2. order[f[1]] \in Nat /\ order[FailedAt[1]] \in Nat
            BY <4>1, <6>1, PlanOrder
          <6>3. /\ f[1] \in Nat /\ FailedAt[1] \in Nat /\ f[2] \in Nat /\ FailedAt[2] \in Nat
            <7>1. \A g \in Containers : g[1] \in Services /\ g[2] \in {1, 2}
              BY RolloutAssumption DEF Containers
            <7>2. Services \subseteq Nat /\ {1, 2} \subseteq Nat
              BY ServicesAssumption
            <7>3. \A g \in Containers : g[1] \in Nat /\ g[2] \in Nat
              BY <7>1, <7>2
            <7> QED
              BY <6>1, <7>3
          <6> QED
            BY <5>3, <6>2, <6>3 DEF Before
        <5> QED
          BY <3>1, <4>3, <5>4
      <4>5. c \in ran
        <5>1. c \notin jobs
          OBVIOUS
        <5> QED
          BY <4>1, <5>1, Candidates DEF PlanOK
      <4>6. aborted \in {"rolledback", "deferred"}
        BY <4>2, <4>3, <4>4 DEF TypeOK, Aborts
      <4> QED
        BY <4>2, <4>3, <4>5, <4>6
    <3> QED
      BY <3>2, <3>3
  <2> QED
    BY <2>1, <2>2, <2>3
<1>4. RolloutIInv => Accounted
  BY <1>1, <1>2, <1>3 DEF Accounted
<1> QED
  BY <1>4, RolloutInvariant, PTL
=============================================================================
