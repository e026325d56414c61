----------------------- MODULE DependencyGraphInputs ------------------------
(***************************************************************************)
(* Every configuration over a small set of ids, checked against reference  *)
(* definitions that do not mention the algorithms of the code.  A step     *)
(* restarts the manager with one declared dependency added or removed.     *)
(***************************************************************************)
EXTENDS ServiceDependencyGraph

CONSTANTS Ids,            \* registered service ids
          Unknown,        \* an id that no service has
          Misconfigured   \* the one service that may declare Unknown (a bound)

IdsAssumption ==
    /\ Ids \subseteq Nat /\ IsFiniteSet(Ids)
    /\ Unknown \in Nat \ Ids
    /\ Misconfigured \in Ids

VARIABLE deps

GraphInit == deps = [s \in Ids |-> {}]

Reconfigure ==
    \E s \in Ids, t \in Ids \cup {Unknown} :
        /\ t = Unknown => s = Misconfigured
        /\ deps' = [deps EXCEPT ![s] = IF t \in @ THEN @ \ {t} ELSE @ \cup {t}]

GraphSpec == GraphInit /\ [][Reconfigure]_deps
-----------------------------------------------------------------------------
Closed(edges, X) == \A x \in X : edges[x] \subseteq X

\* The least set that holds start's neighbours and is closed under edges.
Reachable(edges, start) ==
    {t \in DOMAIN edges : \A X \in SUBSET DOMAIN edges :
                              edges[start] \subseteq X /\ Closed(edges, X) => t \in X}

KnownDeps == \A s \in Ids : deps[s] \subseteq Ids
Acyclic == \A s \in Ids : s \notin Reachable(deps, s)

\* createDependencyGraph accepts a configuration exactly when every declared
\* dependency is registered and no service depends on itself, however
\* indirectly (FR-021: unknown targets, self-dependencies and circular graphs
\* reject startup).
AcceptsExactlyTheDags ==
    CreateDependencyGraph(deps) =
        IF ~KnownDeps THEN "unknown_dependency"
        ELSE IF Acyclic THEN "ok" ELSE "circular_dependency"

\* computeClosure returns exactly the services reachable from the start, in
\* both directions.
ClosureIsReachability ==
    KnownDeps =>
        \A s \in Ids :
            /\ TransitiveDependenciesOf(deps, s) = Reachable(deps, s) \ {s}
            /\ TransitiveDependentsOf(deps, s) =
                   Reachable(DirectDependents(deps), s) \ {s}

Precedes(seq, a, b) ==
    \E i, j \in DOMAIN seq : i < j /\ seq[i] = a /\ seq[j] = b

Lists(seq, S) == ToSet(seq) = S /\ Len(seq) = Cardinality(S)

\* On an accepted graph the two orders list the closure of any request once
\* each; the first puts every dependency before its dependents and the second
\* every dependent before its dependencies.
OrdersRespectDependencies ==
    CreateDependencyGraph(deps) = "ok" =>
        \A ids \in SUBSET Ids :
            LET up   == TopologicalDependenciesFirst(deps, ids)
                down == TopologicalDependentsFirst(deps, ids)
            IN  /\ Lists(up, ids \cup UNION {Reachable(deps, s) : s \in ids})
                /\ Lists(down, ids \cup
                       UNION {Reachable(DirectDependents(deps), s) : s \in ids})
                /\ \A a \in Ids : \A b \in deps[a] :
                      /\ a \in ToSet(up) => Precedes(up, b, a)
                      /\ b \in ToSet(down) => Precedes(down, a, b)

\* dependency-graph.ts computes what the definitions above say, for every
\* configuration it can be given.
GraphFunctionsAreExact ==
    AcceptsExactlyTheDags /\ ClosureIsReachability /\ OrdersRespectDependencies
=============================================================================
