------------------------------ MODULE Compose ------------------------------
(***************************************************************************)
(* The dependency graph of a compose project, as compose.rs reads it from  *)
(* the containers' labels.  A service is a number and its name sorts as    *)
(* the number does.  A graph maps a service to its dependencies, at most   *)
(* one per service depended on; a service without a container has none.    *)
(***************************************************************************)
EXTENDS Naturals, FiniteSets, Functions

CONSTANT Services

ASSUME ServicesAssumption == Services \subseteq Nat /\ IsFiniteSet(Services)

Condition == {"started", "healthy", "completed"}
Dependency == [service : Services, condition : Condition, restart : BOOLEAN]

DependsOn(graph, s) ==
  IF s \in DOMAIN graph THEN {d.service : d \in graph[s]} ELSE {}

\* The one-shots: some service waits for their completion.
AwaitedForCompletion(graph) ==
  {d.service : d \in {e \in UNION Range(graph) : e.condition = "completed"}}

\* Mutants: dependents come first; and a cycle is never drained.
ReadyDependents(pending, graph) ==
  LET awaited == UNION {DependsOn(graph, t) \ {t} : t \in pending}
  IN IF pending \subseteq awaited THEN pending ELSE pending \ awaited

ReadyOnly(pending, graph) ==
  {s \in pending : (DependsOn(graph, s) \cap pending) \ {s} = {}}

\* The next wave: what depends on nothing pending, or else the rest of a cycle.
Ready(pending, graph) ==
  LET free == {s \in pending : (DependsOn(graph, s) \cap pending) \ {s} = {}}
  IN IF free = {} THEN pending ELSE free

\* Kahn over the subgraph induced by `nodes`: what is pending after so many waves.
Pending(nodes, graph) ==
  LET pending[n \in 0 .. Cardinality(nodes)] ==
        IF n = 0 THEN nodes ELSE pending[n - 1] \ Ready(pending[n - 1], graph)
  IN pending

\* The place of each service in the order, which is its wave; ties are broken by name.
TopologicalOrder(nodes, graph) ==
  LET pending == Pending(nodes, graph)
  IN [s \in nodes \ pending[Cardinality(nodes)] |->
        Cardinality({n \in DOMAIN pending : s \in pending[n]})]

\* Mutant: a service that was updated itself is bumped as well.
RestartAlways(graph, updated) ==
  {s \in DOMAIN graph : \E d \in graph[s] : d.restart /\ d.service \in updated}

\* The services to bump because they asked to be restarted with one of `updated`.
RestartDependents(graph, updated) ==
  {s \in DOMAIN graph \ updated : \E d \in graph[s] : d.restart /\ d.service \in updated}
=============================================================================
