----------------------- MODULE ServiceDependencyGraph -----------------------
(***************************************************************************)
(* The registered-service dependency graph of                              *)
(* src/service-management/domain/dependency-graph.ts, as pure operators.   *)
(*                                                                         *)
(* A graph is a function deps from service ids to the set of ids each one  *)
(* declares as direct dependencies.  Ids are naturals: the code compares   *)
(* them as strings and only ever uses that order to break ties.            *)
(***************************************************************************)
EXTENDS Naturals, Sequences, FiniteSets, SequencesExt

\* directDependentsOf: the edges of deps turned round.
DirectDependents(deps) ==
    [s \in DOMAIN deps |-> {t \in DOMAIN deps : s \in deps[t]}]

\* Variant: one hop only, as if the stack were never refilled.
OneHopClosure(edges, start) == edges[start] \ {start}

\* computeClosure: everything reachable from start along edges, start itself
\* left out.  The stack of the code visits each node once; round n below has
\* every node at most n + 1 edges away.
ComputeClosure(edges, start) ==
    LET Visited[n \in Nat] ==
            (edges[start] \cup
                IF n = 0 THEN {} ELSE UNION {edges[x] : x \in Visited[n - 1]})
            \ {start}
    IN  Visited[Cardinality(DOMAIN edges)]

TransitiveDependenciesOf(deps, s) == ComputeClosure(deps, s)
TransitiveDependentsOf(deps, s) == ComputeClosure(DirectDependents(deps), s)

\* The ids of S in ascending order (queue.sort(), [...queue].sort()).
SortedIds(S) ==
    CHOOSE ids \in [1..Cardinality(S) -> S] : \A i, j \in DOMAIN ids : i < j => ids[i] < ids[j]

\* Kahn's algorithm in batches over the subgraph induced by closure: a round
\* emits, sorted, every node whose remaining in-degree has dropped to zero.
KahnBatches(deps, closure) ==
    LET Done[n \in Nat] ==
            IF n = 0 THEN {}
            ELSE {c \in closure : deps[c] \cap closure \subseteq Done[n - 1]}
    IN  FlattenSeq([n \in 1..Cardinality(closure) |-> SortedIds(Done[n] \ Done[n - 1])])

\* topologicalSort(ids, direction): the closure of ids in that direction,
\* dependencies first, or the reverse of that order.
TopologicalDependenciesFirst(deps, ids) ==
    KahnBatches(deps, ids \cup UNION {TransitiveDependenciesOf(deps, s) : s \in ids})

\* Variant: the reverse() forgotten.
UnreversedDependentsFirst(deps, ids) ==
    KahnBatches(deps, ids \cup UNION {TransitiveDependentsOf(deps, s) : s \in ids})

TopologicalDependentsFirst(deps, ids) ==
    Reverse(KahnBatches(deps,
                ids \cup UNION {TransitiveDependentsOf(deps, s) : s \in ids}))

\* Variant: only a graph without any root is taken for cyclic.
RootlessOnly(deps) == KahnBatches(deps, DOMAIN deps) = <<>> /\ DOMAIN deps # {}

\* detectCycles: Kahn over the whole graph must visit every node.
DetectCycles(deps) == Len(KahnBatches(deps, DOMAIN deps)) # Cardinality(DOMAIN deps)

\* createDependencyGraph: why a configuration is refused, or "ok".
CreateDependencyGraph(deps) ==
    IF \E s \in DOMAIN deps : ~(deps[s] \subseteq DOMAIN deps)
    THEN "unknown_dependency"
    ELSE IF DetectCycles(deps) THEN "circular_dependency" ELSE "ok"
=============================================================================
