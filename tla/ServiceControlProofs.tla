------------------------ MODULE ServiceControlProofs ------------------------
(***************************************************************************)
(* Orchestrations keep the order of the dependency graph, whatever changes *)
(* between their snapshots and their commands, and a shutdown waits for    *)
(* every scheduler loop: for any services and acyclic dependencies, any    *)
(* callers, any loops and any faults and crashes.                          *)
(*                                                                         *)
(* The invariant of an orchestration (OrchestrationOK) says what the steps *)
(* it has left owe to the graph (SoundSteps): a service is stopped when    *)
(* its dependents were found down or will have been stopped, nothing is    *)
(* stopped once something was started, a service is started when its       *)
(* dependencies were found ready or will have been waited for.  The plans  *)
(* have it by the order that topologicalSort gives (OrdersOfServices, from *)
(* DependencyGraphProofs), and every step leaves it to the steps after it  *)
(* (StepsAdvance).  It speaks of the status that the adapters report, st:  *)
(* a caller that is alone counts on the real one; one that is not counts   *)
(* on what remains when st is all stopped (Down), that is, on its own      *)
(* observations.                                                           *)
(*                                                                         *)
(* Between a request for shutdown and the loops it stops lie promise       *)
(* reactions, which run in any order.  The invariant follows what is still *)
(* owed by them: a loop that runs on after the request has its stop queued *)
(* (StopInv), and the end of a loop was acted upon or its observer is      *)
(* queued (ObserverInv).  A timer or a tick runs only when nothing is      *)
(* queued.                                                                 *)
(***************************************************************************)
EXTENDS ServiceOrchestration, ApplicationLifecycle, DependencyGraphProofs

-----------------------------------------------------------------------------
(* The graph of the services.                                               *)

\* Tabulated is how TLC is to compute a function, not another function.
LEMMA TabulatedIsIdentity ==
  ASSUME NEW f
  PROVE  Tabulated(f) = f
<1>1. \E g \in {f} : g = f
  OBVIOUS
<1> QED
  BY <1>1 DEF Tabulated

\* The reverse graph: the direct dependents of every service.
Rev == DirectDependents(Deps)

\* The graph that createDependencyGraph accepted has no cycle.
LEMMA ServiceGraph ==
  /\ Services \subseteq Nat /\ IsFiniteSet(Services)
  /\ Deps \in [Services -> SUBSET Services] /\ CreateDependencyGraph(Deps) = "ok"
  /\ \A s \in Services : s \notin Reachable(Deps, s)
  /\ Rev \in [Services -> SUBSET Services]
  /\ \A s, d \in Services : d \in Rev[s] <=> s \in Deps[d]
<1>1. /\ Services \subseteq Nat /\ IsFiniteSet(Services)
      /\ Deps \in [Services -> SUBSET Services] /\ CreateDependencyGraph(Deps) = "ok"
  BY OrchestrationAssumption DEF OrchestrationAssumption
<1>2. ~DetectCycles(Deps)
  BY <1>1 DEF CreateDependencyGraph
<1>3. \A s \in Services : s \notin Reachable(Deps, s)
  BY <1>1, <1>2, CyclesAreDetected
<1>4. /\ Rev \in [Services -> SUBSET Services]
      /\ \A s, d \in Services : d \in Rev[s] <=> s \in Deps[d]
  BY <1>1, DependentsAreReversed DEF Rev
<1> QED
  BY <1>1, <1>3, <1>4

\* Transitive dependencies and dependents are what is reachable.
LEMMA ClosuresOfServices ==
  ASSUME NEW s \in Services
  PROVE  /\ Dependencies[s] = Reachable(Deps, s) \ {s} /\ Dependencies[s] \in SUBSET Services
         /\ Dependents[s] = Reachable(Rev, s) \ {s} /\ Dependents[s] \in SUBSET Services
<1>1. ASSUME NEW e \in [Services -> SUBSET Services]
      PROVE  ComputeClosure(e, s) = Reachable(e, s) \ {s} /\ Reachable(e, s) \in SUBSET Services
  BY <1>1, ServiceGraph, ClosureOfEdges, ReachableIsClosed
<1>2. ComputeClosure(Deps, s) = Reachable(Deps, s) \ {s} /\ Reachable(Deps, s) \in SUBSET Services
  BY <1>1, ServiceGraph
<1>3. ComputeClosure(Rev, s) = Reachable(Rev, s) \ {s} /\ Reachable(Rev, s) \in SUBSET Services
  BY <1>1, ServiceGraph
<1>4. Dependencies[s] = ComputeClosure(Deps, s) /\ Dependents[s] = ComputeClosure(Rev, s)
  BY TabulatedIsIdentity
  DEF Dependencies, Dependents, TransitiveDependenciesOf, TransitiveDependentsOf, Rev
<1> QED
  BY <1>2, <1>3, <1>4

\* Reversing the edges of a graph makes no cycle.
LEMMA NoServiceDependsOnItself ==
  \A s \in Services : s \notin Deps[s] /\ s \notin Rev[s]
<1>1. ASSUME NEW s \in Services PROVE s \notin Deps[s]
  <2>1. Deps[s] \subseteq Reachable(Deps, s)
    BY ServiceGraph, ReachableIsClosed
  <2> QED
    BY <2>1, ServiceGraph
<1> QED
  BY <1>1, ServiceGraph

LEMMA DirectDependentsAreDependents ==
  ASSUME NEW s \in Services
  PROVE  Rev[s] \subseteq Dependents[s]
<1>1. Rev[s] \subseteq Reachable(Rev, s)
  <2>1. ASSUME NEW e \in [Services -> SUBSET Services] PROVE e[s] \subseteq Reachable(e, s)
    BY <2>1, ReachableIsClosed
  <2> QED
    BY <2>1, ServiceGraph
<1> QED
  BY <1>1, ClosuresOfServices, NoServiceDependsOnItself

\* topologicalSort puts dependencies, or dependents, first.
LEMMA OrdersOfServices ==
  ASSUME NEW ids \in SUBSET Services
  PROVE  /\ DependenciesFirst[ids] \in Seq(Services) /\ DependentsFirst[ids] \in Seq(Services)
         /\ ToSet(DependenciesFirst[ids]) = ids \cup UNION {Reachable(Deps, s) : s \in ids}
         /\ ids \subseteq ToSet(DependentsFirst[ids])
         /\ \A k \in 1..Len(DependenciesFirst[ids]) : \A b \in Deps[DependenciesFirst[ids][k]] :
                \E i \in 1..(k - 1) : DependenciesFirst[ids][i] = b
         /\ \A k \in 1..Len(DependentsFirst[ids]) : \A d \in Rev[DependentsFirst[ids][k]] :
                \E i \in 1..(k - 1) : DependentsFirst[ids][i] = d
<1> DEFINE up == TopologicalDependenciesFirst(Deps, ids)
           down == TopologicalDependentsFirst(Deps, ids)
           U == ids \cup UNION {Reachable(Deps, s) : s \in ids}
           L == ids \cup UNION {Reachable(DirectDependents(Deps), s) : s \in ids}
<1>1. DependenciesFirst[ids] = up /\ DependentsFirst[ids] = down
  BY TabulatedIsIdentity DEF DependenciesFirst, DependentsFirst
<1>2. /\ up \in Seq(Services) /\ down \in Seq(Services) /\ Lists(up, U) /\ Lists(down, L)
      /\ \A a \in Services : \A b \in Deps[a] :
            /\ a \in ToSet(up) => Precedes(up, b, a)
            /\ b \in ToSet(down) => Precedes(down, a, b)
  <2>1. SortedRequest(Deps, ids) /\ DOMAIN Deps = Services
    BY ServiceGraph, OrdersOfRequest
  <2> QED
    BY <2>1 DEF SortedRequest
<1> HIDE DEF up, down
<1>3. ToSet(up) = U /\ ToSet(down) = L
  BY <1>2 DEF Lists
<1>4. /\ \A k \in 1..Len(up) : up[k] \in Services /\ up[k] \in ToSet(up)
      /\ \A k \in 1..Len(down) : down[k] \in Services /\ down[k] \in ToSet(down)
  BY <1>2 DEF ToSet
<1> HIDE DEF U, L
<1>5. ASSUME NEW k \in 1..Len(up), NEW b \in Deps[up[k]] PROVE \E i \in 1..(k - 1) : up[i] = b
  <2>1. Precedes(up, b, up[k])
    BY <1>2, <1>4
  <2> QED
    BY <1>2, <2>1, ListedOnce
<1>6. ASSUME NEW k \in 1..Len(down), NEW d \in Rev[down[k]]
      PROVE  \E i \in 1..(k - 1) : down[i] = d
  <2>1. d \in Services /\ down[k] \in Deps[d]
    BY <1>4, ServiceGraph
  <2>2. Precedes(down, d, down[k])
    BY <1>2, <1>4, <2>1
  <2> QED
    BY <1>2, <2>2, ListedOnce
<1>7. ids \subseteq L
  BY DEF L
<1> QED
  BY <1>1, <1>2, <1>3, <1>5, <1>6, <1>7 DEF U

\* The services an orchestration may touch: for a start the target and what it
\* needs, otherwise at least the target and what needs it.
LEMMA Candidates ==
  ASSUME NEW t \in Services, NEW op
  PROVE  /\ CandidateServiceIds(t, op) \in Seq(Services)
         /\ CandidateServiceIds(t, op) # <<>>
         /\ op = "start" => ToSet(CandidateServiceIds(t, op)) = Dependencies[t] \cup {t}
         /\ op # "start" => Dependents[t] \cup {t} \subseteq ToSet(CandidateServiceIds(t, op))
<1> DEFINE C == CandidateServiceIds(t, op)
<1>1. Dependencies[t] \cup {t} \in SUBSET Services /\ Dependents[t] \cup {t} \in SUBSET Services
  BY ClosuresOfServices
<1>2. C \in Seq(Services) /\ t \in ToSet(C)
  <2>1. CASE op = "start"
    BY <1>1, <2>1, OrdersOfServices DEF CandidateServiceIds
  <2>2. CASE op # "start"
    BY <1>1, <2>2, OrdersOfServices DEF CandidateServiceIds
  <2> QED
    BY <2>1, <2>2
<1>3. C # <<>>
  BY <1>2 DEF ToSet
<1>4. ASSUME op = "start" PROVE ToSet(C) = Dependencies[t] \cup {t}
  <2>1. ToSet(C) = (Dependencies[t] \cup {t}) \cup UNION {Reachable(Deps, s) : s \in Dependencies[t] \cup {t}}
    BY <1>1, <1>4, OrdersOfServices DEF CandidateServiceIds
  <2>2. ASSUME NEW s \in Dependencies[t] \cup {t}
        PROVE  Reachable(Deps, s) \subseteq Dependencies[t] \cup {t}
    <3>1. s = t \/ s \in Reachable(Deps, t)
      BY ClosuresOfServices
    <3>2. Reachable(Deps, s) \subseteq Reachable(Deps, t)
      BY <3>1, ServiceGraph, ReachableIsTransitive
    <3> QED
      BY <3>2, ClosuresOfServices
  <2> QED
    BY <2>1, <2>2
<1>5. ASSUME op # "start" PROVE Dependents[t] \cup {t} \subseteq ToSet(C)
  BY <1>1, <1>5, OrdersOfServices DEF CandidateServiceIds
<1> QED
  BY <1>2, <1>3, <1>4, <1>5
-----------------------------------------------------------------------------
(* What the steps an orchestration has left owe to the graph.               *)

\* A service is stopped, or restarted, when its dependents have been found
\* down, or will have been stopped.
StopsAreOrdered(q, st) ==
    \A k \in 1..Len(q) : q[k].operation \in {"stop", "restart"} =>
        \A d \in Rev[q[k].serviceId] :
            st[d] # "running" \/ \E i \in 1..(k - 1) : q[i] = Control(d, "stop")

\* Nothing is stopped once something has been started.
StopsComeFirst(q) ==
    \A k \in 1..Len(q) : \A i \in 1..(k - 1) :
        q[i].operation \in {"start", "restart"} => q[k].operation \notin {"stop", "restart"}

\* A service is started when its dependencies were found ready, or will be.
StartsAreOrdered(q, ready) ==
    \A k \in 1..Len(q) : q[k].operation = "start" =>
        \A b \in Deps[q[k].serviceId] : b \in ready \/ \E i \in 1..(k - 1) : q[i] = Wait(b)

\* Starting t starts what t needs, where it was seen stopped.
StartsWhatIsNeeded(q, t, snap) ==
    \A k \in 1..Len(q) :
        /\ q[k].operation \in {"start", "none"}
        /\ q[k].operation = "start" =>
              /\ q[k].serviceId \in Dependencies[t] \cup {t}
              /\ q[k].serviceId \in DOMAIN snap /\ snap[q[k].serviceId] = "stopped"

\* Stopping t leaves nothing that needs t running.
StopsWhatNeeds(q, t, st) ==
    /\ \A k \in 1..Len(q) : q[k].operation \in {"stop", "none"}
    /\ \A s \in Dependents[t] \cup {t} :
          st[s] # "running" \/ \E k \in 1..Len(q) : q[k] = Control(s, "stop")

SoundSteps(q, t, op, snap, ready, st) ==
    /\ q \in Seq(Step)
    /\ StopsAreOrdered(q, st) /\ StopsComeFirst(q)
    /\ op = "start" => StartsAreOrdered(q, ready) /\ StartsWhatIsNeeded(q, t, snap)
    /\ op = "stop" => StopsWhatNeeds(q, t, st)

\* The snapshots that the plan was made from still tell what is stopped.
SoundSnapshot(snap, st) ==
    /\ DOMAIN snap \in SUBSET Services
    /\ \A s \in DOMAIN snap : snap[s] \in RuntimeStates /\ (snap[s] = "stopped" => st[s] = "stopped")

\* The steps of a plan and their fields.
LEMMA StepTypes ==
  ASSUME NEW s \in Services, NEW op \in Operations \cup {"none"}
  PROVE  /\ Control(s, op) \in Step /\ Control(s, op).operation = op /\ Control(s, op).serviceId = s
         /\ Wait(s) \in Step /\ Wait(s).operation = "none" /\ Wait(s).serviceId = s
         /\ Control(s, op).kind = "control" /\ Wait(s).kind = "wait_for_readiness"
BY DEF Control, Wait, Step

\* planStop: whatever is not stopped is stopped, dependents first.
LEMMA PlanStopIsSound ==
  ASSUME NEW t \in Services, NEW snap, NEW st, SoundSnapshot(snap, st),
         ToSet(CandidateServiceIds(t, "stop")) \subseteq DOMAIN snap, NEW ready
  PROVE  LET q == PlanStop(CandidateServiceIds(t, "stop"), snap)
         IN  q # <<>> /\ SoundSteps(q, t, "stop", snap, ready, st)
<1> DEFINE order == CandidateServiceIds(t, "stop")
           n == Len(order)
           q == PlanStop(order, snap)
           op(s) == IF snap[s] = "stopped" THEN "none" ELSE "stop"
<1>1. order \in Seq(Services) /\ order # <<>> /\ Dependents[t] \cup {t} \subseteq ToSet(order)
  BY Candidates
<1>2. \A k \in 1..n : \A d \in Rev[order[k]] : \E i \in 1..(k - 1) : order[i] = d
  BY ClosuresOfServices, OrdersOfServices DEF CandidateServiceIds
<1> HIDE DEF order
<1>3. /\ n \in Nat \ {0} /\ DOMAIN order = 1..n
      /\ \A k \in 1..n : order[k] \in Services /\ order[k] \in ToSet(order)
  BY <1>1 DEF ToSet
<1>4. q = [i \in 1..n |-> Control(order[i], op(order[i]))]
  BY <1>3 DEF PlanStop
<1> HIDE DEF n, q
<1>5. \A k \in 1..n : /\ q[k] = Control(order[k], op(order[k])) /\ q[k] \in Step
                      /\ q[k].operation = op(order[k]) /\ q[k].serviceId = order[k]
  <2>1. \A s : op(s) \in Operations \cup {"none"}
    BY DEF Operations
  <2> HIDE DEF op
  <2> QED
    BY <1>3, <1>4, <2>1, StepTypes
<1>6. q \in Seq(Step) /\ Len(q) = n /\ q # <<>>
  BY <1>3, <1>4, <1>5
<1>7. ASSUME NEW s \in ToSet(order)
      PROVE  st[s] # "running" \/ op(s) = "stop"
  BY <1>7 DEF SoundSnapshot, order
<1>8. StopsAreOrdered(q, st)
  <2> SUFFICES ASSUME NEW k \in 1..Len(q), NEW d \in Rev[q[k].serviceId]
               PROVE  st[d] # "running" \/ \E i \in 1..(k - 1) : q[i] = Control(d, "stop")
    BY DEF StopsAreOrdered
  <2>1. PICK i \in 1..(k - 1) : order[i] = d
    BY <1>2, <1>5, <1>6 DEF n
  <2>2. i \in 1..n
    BY <1>6
  <2> QED
    BY <1>3, <1>5, <1>7, <2>1, <2>2
<1>9. StopsComeFirst(q)
  <2> SUFFICES ASSUME NEW k \in 1..Len(q), NEW i \in 1..(k - 1)
               PROVE  q[i].operation \notin {"start", "restart"}
    BY DEF StopsComeFirst
  <2>1. i \in 1..n
    BY <1>3, <1>6
  <2> QED
    BY <1>5, <2>1
<1>10. StopsWhatNeeds(q, t, st)
  <2>1. \A k \in 1..Len(q) : q[k].operation \in {"stop", "none"}
    BY <1>5, <1>6
  <2>2. ASSUME NEW s \in Dependents[t] \cup {t}
        PROVE  st[s] # "running" \/ \E k \in 1..Len(q) : q[k] = Control(s, "stop")
    <3>1. PICK k \in 1..n : order[k] = s
      BY <1>1, <1>3 DEF ToSet
    <3> QED
      BY <1>3, <1>5, <1>6, <1>7, <3>1
  <2> QED
    BY <2>1, <2>2 DEF StopsWhatNeeds
<1> QED
  BY <1>6, <1>8, <1>9, <1>10 DEF SoundSteps, q, order

\* c is a followed by b.
Joined(c, a, b) ==
    /\ Len(c) = Len(a) + Len(b)
    /\ Len(a) \in Nat /\ Len(b) \in Nat
    /\ \A k \in 1..Len(a) : c[k] = a[k]
    /\ \A k \in 1..Len(b) : c[Len(a) + k] = b[k]

LEMMA ConcatJoins ==
  ASSUME NEW S, NEW a \in Seq(S), NEW b \in Seq(S)
  PROVE  a \o b \in Seq(S) /\ Joined(a \o b, a, b)
BY DEF Joined

\* What is flattened holds nothing else than what its parts hold.
LEMMA FlattenSeqType ==
  ASSUME NEW T, NEW bs \in Seq(Seq(T))
  PROVE  FlattenSeq(bs) \in Seq(T)
<1>1. CASE Len(bs) = 0
  BY <1>1 DEF FlattenSeq
<1>2. CASE Len(bs) # 0
  <2>1. PICK fl \in [1..Len(bs) -> Seq(T)] :
            /\ fl[1] = bs[1]
            /\ \A i \in 1..(Len(bs) - 1) : fl[i + 1] = fl[i] \o bs[i + 1]
            /\ FlattenSeq(bs) = fl[Len(bs)]
    BY <1>2, FlattenSeqAppends
  <2>2. Len(bs) \in 1..Len(bs)
    BY <1>2
  <2> QED
    BY <2>1, <2>2
<1> QED
  BY <1>1, <1>2

\* planRestart: active dependents are stopped before the target is restarted.
LEMMA PlanRestartIsSound ==
  ASSUME NEW t \in Services, NEW snap, NEW st, SoundSnapshot(snap, st),
         Dependents[t] \subseteq DOMAIN snap, NEW ready
  PROVE  LET q == PlanRestart(t, PlanOrder(t, "restart", snap))
         IN  q # <<>> /\ SoundSteps(q, t, "restart", snap, ready, st)
<1> DEFINE active == {s \in Dependents[t] : snap[s] # "stopped"}
           so == PlanOrder(t, "restart", snap)
           n == Len(so)
           T == {Control(s, "start") : s \in Services} \cup {Wait(s) : s \in Services}
           A == [i \in DOMAIN so |-> Control(so[i], "stop")]
           M == <<Control(t, "restart"), Wait(t)>>
           bs == [i \in DOMAIN so |->
                     <<Control(Reverse(so)[i], "start"), Wait(Reverse(so)[i])>>]
           B == FlattenSeq(bs)
           q == PlanRestart(t, so)
<1>1. active \in SUBSET Services
  BY ClosuresOfServices
<1>0. so = DependentsFirst[active]
  BY DEF PlanOrder
<1> HIDE DEF active
<1>2. /\ so \in Seq(Services) /\ active \subseteq ToSet(so)
      /\ \A k \in 1..n : \A d \in Rev[so[k]] : \E i \in 1..(k - 1) : so[i] = d
  <2> DEFINE d == DependentsFirst[active]
  <2>1. /\ d \in Seq(Services) /\ active \subseteq ToSet(d)
        /\ \A k \in 1..Len(d) : \A x \in Rev[d[k]] : \E i \in 1..(k - 1) : d[i] = x
    BY <1>1, OrdersOfServices
  <2> HIDE DEF d, so
  <2>2. so = d
    BY <1>0 DEF d
  <2> QED
    BY <2>1, <2>2
<1> HIDE DEF so
<1>3. n \in Nat /\ DOMAIN so = 1..n /\ \A k \in 1..n : so[k] \in Services
  BY <1>2
<1> HIDE DEF n
<1>4. B \in Seq(T)
  <2>1. \A i \in 1..n : Reverse(so)[i] \in Services
    <3>1. \A i \in 1..n : (n - i) + 1 \in 1..n /\ Reverse(so)[i] = so[(n - i) + 1]
      BY <1>3 DEF Reverse, n
    <3> QED
      BY <1>3, <3>1
  <2>2. ASSUME NEW i \in 1..n PROVE bs[i] \in Seq(T)
    <3>1. bs[i] = <<Control(Reverse(so)[i], "start"), Wait(Reverse(so)[i])>>
      BY <1>3
    <3>2. Control(Reverse(so)[i], "start") \in T /\ Wait(Reverse(so)[i]) \in T
      BY <2>1
    <3> HIDE DEF T, bs
    <3> QED
      BY <3>1, <3>2
  <2>3. bs \in [1..n -> Seq(T)]
    <3>1. bs = [i \in 1..n |-> bs[i]]
      BY <1>3
    <3> HIDE DEF bs, T
    <3> QED
      BY <2>2, <3>1
  <2>4. bs \in Seq(Seq(T))
    <3> HIDE DEF bs, T
    <3> QED
      BY <1>3, <2>3
  <2> HIDE DEF bs, T
  <2> QED
    BY <2>4, FlattenSeqType
<1>5. \A x \in T : x \in Step /\ x.operation \in {"start", "none"}
  <2>1. \A s \in Services : /\ Control(s, "start") \in Step /\ Control(s, "start").operation = "start"
                            /\ Wait(s) \in Step /\ Wait(s).operation = "none"
    BY StepTypes DEF Operations
  <2> QED
    BY <2>1
<1> HIDE DEF T
<1>6. /\ A \in Seq(Step) /\ Len(A) = n
      /\ \A k \in 1..n : A[k] = Control(so[k], "stop") /\ A[k].operation = "stop"
                         /\ A[k].serviceId = so[k]
  <2>1. ASSUME NEW k \in 1..n
        PROVE  /\ A[k] = Control(so[k], "stop") /\ A[k].operation = "stop"
               /\ A[k].serviceId = so[k] /\ A[k] \in Step
    <3>1. A[k] = Control(so[k], "stop")
      BY <1>3
    <3> QED
      BY <1>3, <3>1, StepTypes DEF Operations
  <2>2. A = [i \in 1..n |-> A[i]]
    BY <1>3
  <2> HIDE DEF A
  <2> QED
    BY <1>3, <2>1, <2>2
<1>7. /\ M \in Seq(Step) /\ Len(M) = 2 /\ M[1].operation = "restart" /\ M[1].serviceId = t
      /\ M[2].operation = "none"
  <2>1. /\ Control(t, "restart") \in Step /\ Wait(t) \in Step
        /\ Control(t, "restart").operation = "restart" /\ Wait(t).operation = "none"
        /\ Control(t, "restart").serviceId = t
    BY StepTypes DEF Operations
  <2> QED
    BY <2>1
<1>8. B \in Seq(Step) /\ \A k \in 1..Len(B) : B[k].operation \in {"start", "none"}
  <2>1. Len(B) \in Nat /\ B \in [1..Len(B) -> T]
    <3> HIDE DEF B
    <3> QED
      BY <1>4
  <2> HIDE DEF B
  <2>2. \A k \in 1..Len(B) : B[k] \in Step /\ B[k].operation \in {"start", "none"}
    BY <1>5, <2>1
  <2>3. B = [k \in 1..Len(B) |-> B[k]]
    BY <2>1
  <2> QED
    BY <2>1, <2>2, <2>3
<1>9. q = A \o M \o B
  BY DEF PlanRestart
<1> HIDE DEF A, M, B, q
<1>10. Len(B) \in Nat
  BY <1>8
<1>11. /\ q \in Seq(Step) /\ Len(q) = n + 2 + Len(B) /\ q # <<>>
       /\ \A k \in 1..n : q[k] = A[k]
       /\ q[n + 1] = M[1] /\ q[n + 2] = M[2]
       /\ \A k \in 1..Len(B) : q[n + 2 + k] = B[k]
  <2> DEFINE P == A \o M
  <2>1. /\ P \in Seq(Step) /\ Len(P) = n + 2 /\ \A k \in 1..n : P[k] = A[k]
        /\ \A k \in 1..2 : P[n + k] = M[k]
    <3>1. A \in Seq(Step) /\ M \in Seq(Step) /\ Len(A) = n /\ Len(M) = 2
      BY <1>6, <1>7
    <3>2. A \o M \in Seq(Step) /\ Joined(A \o M, A, M)
      BY <3>1, ConcatJoins
    <3> QED
      BY <3>1, <3>2 DEF Joined, P
  <2>2. q = P \o B
    BY <1>9
  <2> HIDE DEF P
  <2>3. /\ q \in Seq(Step) /\ Len(q) = n + 2 + Len(B)
        /\ \A k \in 1..(n + 2) : q[k] = P[k]
        /\ \A k \in 1..Len(B) : q[n + 2 + k] = B[k]
    <3>1. P \in Seq(Step) /\ B \in Seq(Step) /\ Len(P) = n + 2
      BY <1>8, <2>1
    <3>2. P \o B \in Seq(Step) /\ Joined(P \o B, P, B)
      BY <3>1, ConcatJoins
    <3> QED
      BY <2>2, <3>1, <3>2 DEF Joined
  <2> QED
    BY <1>3, <1>10, <2>1, <2>3
<1>12. ASSUME NEW k \in 1..Len(q)
       PROVE  \/ k \in 1..n /\ q[k] = Control(so[k], "stop") /\ q[k].operation = "stop"
                 /\ q[k].serviceId = so[k]
              \/ k = n + 1 /\ q[k].operation = "restart" /\ q[k].serviceId = t
              \/ k > n + 1 /\ q[k].operation \in {"start", "none"}
  <2>1. CASE k <= n
    BY <1>3, <1>6, <1>11, <2>1
  <2>2. CASE k = n + 1 \/ k = n + 2
    BY <1>3, <1>7, <1>11, <2>2
  <2>3. CASE k > n + 2
    <3>0. k \in 1..(n + 2 + Len(B))
      BY <1>11
    <3>1. k - (n + 2) \in 1..Len(B) /\ n + 2 + (k - (n + 2)) = k
      BY <1>3, <1>10, <2>3, <3>0
    <3>2. q[k] = B[k - (n + 2)]
      BY <1>11, <3>1
    <3> QED
      BY <1>3, <1>8, <2>3, <3>1, <3>2
  <2> QED
    BY <1>3, <2>1, <2>2, <2>3
<1>13. StopsAreOrdered(q, st)
  <2> SUFFICES ASSUME NEW k \in 1..Len(q), q[k].operation \in {"stop", "restart"},
                      NEW d \in Rev[q[k].serviceId]
               PROVE  st[d] # "running" \/ \E i \in 1..(k - 1) : q[i] = Control(d, "stop")
    BY DEF StopsAreOrdered
  <2>1. CASE k \in 1..n
    <3>1. q[k].serviceId = so[k]
      BY <1>12, <1>3, <2>1
    <3>2. PICK i \in 1..(k - 1) : so[i] = d
      BY <1>2, <2>1, <3>1
    <3>3. i \in 1..n /\ i \in 1..Len(q)
      BY <1>3, <1>10, <1>11, <2>1
    <3> QED
      BY <1>6, <1>11, <3>2, <3>3
  <2>2. CASE k \notin 1..n
    <3>1. k = n + 1 /\ d \in Rev[t]
      BY <1>3, <1>12, <2>2
    <3>2. d \in Dependents[t]
      BY <3>1, DirectDependentsAreDependents
    <3>3. CASE snap[d] = "stopped"
      BY <3>2, <3>3 DEF SoundSnapshot
    <3>4. CASE snap[d] # "stopped"
      <4>1. d \in ToSet(so)
        BY <1>2, <3>2, <3>4 DEF active
      <4>2. PICK i \in 1..n : so[i] = d
        BY <1>3, <4>1 DEF ToSet
      <4> QED
        BY <1>3, <1>6, <1>11, <3>1, <4>2
    <3> QED
      BY <3>3, <3>4
  <2> QED
    BY <2>1, <2>2
<1>14. StopsComeFirst(q)
  <2> SUFFICES ASSUME NEW k \in 1..Len(q), NEW i \in 1..(k - 1),
                      q[i].operation \in {"start", "restart"},
                      q[k].operation \in {"stop", "restart"}
               PROVE  FALSE
    BY DEF StopsComeFirst
  <2>1. i \in 1..Len(q) /\ i < k
    BY <1>3, <1>10, <1>11
  <2>2. i >= n + 1
    BY <1>3, <1>12, <2>1
  <2>3. k <= n + 1
    BY <1>3, <1>12
  <2> QED
    BY <1>3, <2>1, <2>2, <2>3
<1> QED
  BY <1>11, <1>13, <1>14 DEF SoundSteps, q, so, active

\* The first j services of a start order are each waited for, and started, if
\* they were down, after what they depend on was.
StartedSoFar(q, order, j, snap) ==
    /\ q \in Seq(Step)
    /\ \A k \in 1..Len(q) :
          /\ q[k].operation \in {"start", "none"}
          /\ q[k].operation = "start" =>
                q[k].serviceId \in ToSet(order) /\ snap[q[k].serviceId] # "running"
    /\ StartsAreOrdered(q, {})
    /\ \A i \in 1..j : \E k \in 1..Len(q) : q[k] = Wait(order[i])

StartPart(s, snap) ==
    IF snap[s] = "running" THEN <<Wait(s)>> ELSE <<Control(s, "start"), Wait(s)>>

\* What planStart plans for one service ...
LEMMA StartPartType ==
  ASSUME NEW s \in Services, NEW snap
  PROVE  /\ StartPart(s, snap) \in Seq(Step) /\ Len(StartPart(s, snap)) \in 1..2
         /\ StartPart(s, snap)[Len(StartPart(s, snap))] = Wait(s)
         /\ \A k \in 1..Len(StartPart(s, snap)) :
               /\ StartPart(s, snap)[k].operation \in {"start", "none"}
               /\ StartPart(s, snap)[k].operation = "start" =>
                     StartPart(s, snap)[k].serviceId = s /\ snap[s] # "running"
<1>1. /\ Control(s, "start") \in Step /\ Wait(s) \in Step
      /\ Control(s, "start").operation = "start" /\ Wait(s).operation = "none"
      /\ Control(s, "start").serviceId = s
  BY StepTypes DEF Operations
<1>2. CASE snap[s] = "running"
  <2>1. StartPart(s, snap) = <<Wait(s)>>
    BY <1>2 DEF StartPart
  <2> QED
    BY <1>1, <2>1
<1>3. CASE snap[s] # "running"
  <2> DEFINE p == <<Control(s, "start"), Wait(s)>>
  <2>1. StartPart(s, snap) = p
    BY <1>3 DEF StartPart
  <2>2. p \in Seq(Step) /\ Len(p) = 2 /\ p[1] = Control(s, "start") /\ p[2] = Wait(s)
    BY <1>1
  <2>3. \A k \in 1..2 : k = 1 \/ k = 2
    OBVIOUS
  <2> HIDE DEF p
  <2> QED
    BY <1>1, <1>3, <2>1, <2>2, <2>3
<1> QED
  BY <1>2, <1>3

\* ... goes behind what it planned for the services before it.
LEMMA StartOneMore ==
  ASSUME NEW order \in Seq(Services), NEW snap,
         \A k \in 1..Len(order) : \A b \in Deps[order[k]] : \E i \in 1..(k - 1) : order[i] = b,
         NEW j \in Nat, j + 1 <= Len(order), NEW q, StartedSoFar(q, order, j, snap)
  PROVE  StartedSoFar(q \o StartPart(order[j + 1], snap), order, j + 1, snap)
<1> DEFINE s == order[j + 1]
           p == StartPart(s, snap)
           r == q \o p
<1>1. j + 1 \in 1..Len(order) /\ s \in Services /\ s \in ToSet(order)
  BY DEF ToSet
<1>2. /\ p \in Seq(Step) /\ Len(p) \in 1..2 /\ p[Len(p)] = Wait(s)
      /\ \A k \in 1..Len(p) :
            /\ p[k].operation \in {"start", "none"}
            /\ p[k].operation = "start" => p[k].serviceId = s /\ snap[s] # "running"
  BY <1>1, StartPartType
<1>3. r \in Seq(Step) /\ Joined(r, q, p)
  BY <1>2, ConcatJoins DEF StartedSoFar
<1>4. \A b \in Deps[s] : \E i \in 1..j : order[i] = b
  <2>1. (j + 1) - 1 = j
    OBVIOUS
  <2> QED
    BY <1>1, <2>1
<1> HIDE DEF s, p, r
<1>5. ASSUME NEW k \in 1..Len(r)
      PROVE  \/ k \in 1..Len(q) /\ r[k] = q[k]
             \/ k > Len(q) /\ \E m \in 1..Len(p) : r[k] = p[m]
  <2>1. CASE k <= Len(q)
    BY <1>3, <2>1 DEF Joined
  <2>2. CASE k > Len(q)
    <3>1. k - Len(q) \in 1..Len(p) /\ Len(q) + (k - Len(q)) = k
      BY <1>3, <2>2 DEF Joined
    <3> QED
      BY <1>3, <2>2, <3>1 DEF Joined
  <2> QED
    BY <1>3, <2>1, <2>2 DEF Joined
<1>6. ASSUME NEW k \in 1..Len(r)
      PROVE  /\ r[k].operation \in {"start", "none"}
             /\ r[k].operation = "start" =>
                   r[k].serviceId \in ToSet(order) /\ snap[r[k].serviceId] # "running"
  BY <1>1, <1>2, <1>5 DEF StartedSoFar
<1>7. ASSUME NEW k \in 1..Len(r), r[k].operation = "start", NEW b \in Deps[r[k].serviceId]
      PROVE  \E i \in 1..(k - 1) : r[i] = Wait(b)
  <2>1. CASE k \in 1..Len(q) /\ r[k] = q[k]
    <3>1. PICK i \in 1..(k - 1) : q[i] = Wait(b)
      BY <1>7, <2>1 DEF StartedSoFar, StartsAreOrdered
    <3>2. i \in 1..Len(q)
      BY <1>3, <2>1 DEF Joined
    <3> QED
      BY <1>3, <3>1, <3>2 DEF Joined
  <2>2. CASE k > Len(q) /\ \E m \in 1..Len(p) : r[k] = p[m]
    <3>1. b \in Deps[s]
      BY <1>2, <1>7, <2>2
    <3>2. PICK i \in 1..j : order[i] = b
      BY <1>4, <3>1
    <3>3. PICK m \in 1..Len(q) : q[m] = Wait(b)
      BY <3>2 DEF StartedSoFar
    <3>4. m \in 1..(k - 1)
      BY <1>3, <2>2 DEF Joined
    <3> QED
      BY <1>3, <3>3, <3>4 DEF Joined
  <2> QED
    BY <1>5, <2>1, <2>2
<1>8. ASSUME NEW i \in 1..(j + 1) PROVE \E k \in 1..Len(r) : r[k] = Wait(order[i])
  <2>1. CASE i = j + 1
    <3>1. Len(p) \in 1..Len(p) /\ Len(q) + Len(p) \in 1..Len(r)
      <4>1. Len(r) = Len(q) + Len(p) /\ Len(q) \in Nat /\ Len(p) \in 1..2
        BY <1>2, <1>3 DEF Joined
      <4>2. \A a \in Nat, b \in 1..2 : b \in 1..b /\ a + b \in 1..(a + b)
        OBVIOUS
      <4> QED
        BY <4>1, <4>2
    <3>2. r[Len(q) + Len(p)] = p[Len(p)]
      BY <1>3, <3>1 DEF Joined
    <3> QED
      BY <1>2, <2>1, <3>1, <3>2 DEF s
  <2>2. CASE i # j + 1
    <3>1. i \in 1..j
      BY <2>2
    <3>2. PICK k \in 1..Len(q) : q[k] = Wait(order[i])
      BY <3>1 DEF StartedSoFar
    <3>3. k \in 1..Len(r)
      <4>1. Len(r) = Len(q) + Len(p) /\ Len(q) \in Nat /\ Len(p) \in Nat
        BY <1>3 DEF Joined
      <4> QED
        BY <4>1
    <3> QED
      BY <1>3, <3>2, <3>3 DEF Joined
  <2> QED
    BY <2>1, <2>2
<1>9. StartsAreOrdered(r, {})
  BY <1>7 DEF StartsAreOrdered
<1> QED
  BY <1>3, <1>6, <1>8, <1>9 DEF StartedSoFar, r, p, s

\* planStart: each service is waited for before what needs it is started.
LEMMA PlanStartIsSound ==
  ASSUME NEW t \in Services, NEW snap, NEW st, SoundSnapshot(snap, st),
         ToSet(CandidateServiceIds(t, "start")) \subseteq DOMAIN snap,
         \A s \in DOMAIN snap : snap[s] \notin {"failed", "unknown"}
  PROVE  LET q == PlanStart(CandidateServiceIds(t, "start"), snap)
         IN  q # <<>> /\ SoundSteps(q, t, "start", snap, {}, st)
<1> DEFINE order == CandidateServiceIds(t, "start")
           n == Len(order)
           bs == [i \in 1..n |-> StartPart(order[i], snap)]
           q == PlanStart(order, snap)
<1>1. order \in Seq(Services) /\ order # <<>> /\ ToSet(order) = Dependencies[t] \cup {t}
  BY Candidates
<1>2. \A k \in 1..n : \A b \in Deps[order[k]] : \E i \in 1..(k - 1) : order[i] = b
  <2> DEFINE ids == Dependencies[t] \cup {t}
  <2>1. ids \in SUBSET Services
    BY ClosuresOfServices
  <2>2. order = DependenciesFirst[ids]
    BY DEF CandidateServiceIds
  <2> HIDE DEF ids, order
  <2> QED
    <3>1. \A k \in 1..Len(DependenciesFirst[ids]) : \A b \in Deps[DependenciesFirst[ids][k]] :
              \E i \in 1..(k - 1) : DependenciesFirst[ids][i] = b
      BY <2>1, OrdersOfServices
    <3> QED
      BY <2>2, <3>1
<1> HIDE DEF order
<1>3. n \in Nat \ {0} /\ DOMAIN order = 1..n /\ \A i \in 1..n : order[i] \in Services
  BY <1>1
<1>4. q = FlattenSeq(bs)
  BY <1>3 DEF PlanStart, StartPart
<1>5. bs \in Seq(Seq(Step)) /\ Len(bs) = n /\ \A i \in 1..n : bs[i] = StartPart(order[i], snap)
  <2>1. \A i \in 1..n : StartPart(order[i], snap) \in Seq(Step)
    BY <1>3, StartPartType
  <2>2. bs \in [1..n -> Seq(Step)] /\ \A i \in 1..n : bs[i] = StartPart(order[i], snap)
    BY <2>1
  <2> HIDE DEF bs
  <2> QED
    BY <1>3, <2>2
<1> HIDE DEF bs, q
<1>0. PICK fl \in [1..Len(bs) -> Seq(Step)] :
          /\ fl[1] = bs[1]
          /\ \A i \in 1..(Len(bs) - 1) : fl[i + 1] = fl[i] \o bs[i + 1]
          /\ FlattenSeq(bs) = fl[Len(bs)]
  BY <1>3, <1>5, FlattenSeqAppends
<1>6. /\ fl \in [1..n -> Seq(Step)] /\ fl[1] = bs[1]
      /\ \A i \in 1..(n - 1) : fl[i + 1] = fl[i] \o bs[i + 1]
      /\ FlattenSeq(bs) = fl[n]
  BY <1>0, <1>5
<1> DEFINE P == {j \in Nat : j + 1 <= n => StartedSoFar(fl[j + 1], order, j + 1, snap)}
<1> HIDE DEF n
<1>7. 0 \in P
  <2>1. StartedSoFar(<<>>, order, 0, snap)
    BY DEF StartedSoFar, StartsAreOrdered
  <2>2. 0 + 1 <= n /\ 0 \in Nat
    BY <1>3
  <2>3. StartedSoFar(<<>> \o StartPart(order[0 + 1], snap), order, 0 + 1, snap)
    BY <1>1, <1>2, <2>1, <2>2, StartOneMore DEF n
  <2>4. fl[1] \in Seq(Step) /\ fl[1] = StartPart(order[1], snap)
    BY <1>3, <1>5, <1>6
  <2>5. <<>> \o fl[1] = fl[1]
    BY <2>4
  <2> QED
    BY <2>3, <2>4, <2>5
<1>8. ASSUME NEW j \in Nat, j \in P PROVE j + 1 \in P
  <2>1. ASSUME (j + 1) + 1 <= n
        PROVE  StartedSoFar(fl[(j + 1) + 1], order, (j + 1) + 1, snap)
    <3> DEFINE m == j + 1
    <3>1. m \in Nat /\ m + 1 <= n /\ m \in 1..(n - 1) /\ m + 1 \in 1..n /\ j + 1 <= n
      BY <1>3, <2>1
    <3>2. StartedSoFar(fl[m], order, m, snap)
      BY <1>8, <3>1
    <3> HIDE DEF m, P
    <3>3. StartedSoFar(fl[m] \o StartPart(order[m + 1], snap), order, m + 1, snap)
      BY <1>1, <1>2, <3>1, <3>2, StartOneMore DEF n
    <3>4. fl[m + 1] = fl[m] \o StartPart(order[m + 1], snap)
      BY <1>5, <1>6, <3>1
    <3> QED
      BY <3>3, <3>4 DEF m
  <2> QED
    BY <2>1
<1> HIDE DEF P
<1>9. Nat \subseteq P
  BY <1>7, <1>8, InductionOnSet
<1>10. StartedSoFar(q, order, n, snap)
  <2>1. n - 1 \in P /\ (n - 1) + 1 = n
    BY <1>3, <1>9
  <2>2. (n - 1) + 1 <= n => StartedSoFar(fl[(n - 1) + 1], order, (n - 1) + 1, snap)
    BY <2>1 DEF P
  <2> QED
    BY <1>3, <1>4, <1>6, <2>1, <2>2
<1>11. q # <<>>
  <2>1. 1 \in 1..n
    BY <1>3
  <2> QED
    BY <1>10, <2>1 DEF StartedSoFar
<1>12. StartsWhatIsNeeded(q, t, snap)
  <2>1. \A s \in ToSet(order) : snap[s] # "running" => snap[s] = "stopped"
    BY DEF SoundSnapshot, RuntimeStates, order
  <2> QED
    BY <1>1, <1>10, <2>1 DEF StartsWhatIsNeeded, StartedSoFar, order
<1>13. StopsAreOrdered(q, st) /\ StopsComeFirst(q)
  BY <1>10 DEF StartedSoFar, StopsAreOrdered, StopsComeFirst
<1> QED
  BY <1>10, <1>11, <1>12, <1>13 DEF SoundSteps, StartedSoFar, q, order

-----------------------------------------------------------------------------
(* The inductive invariant of an orchestration o while the adapters report  *)
(* st.                                                                      *)

\* o is a record of these fields.
HasFields(o) ==
    o = [pc |-> o.pc, target |-> o.target, op |-> o.op, authority |-> o.authority,
         todo |-> o.todo, checked |-> o.checked, snap |-> o.snap, polls |-> o.polls,
         ready |-> o.ready, started |-> o.started, outcome |-> o.outcome]

\* The outcomes of an orchestration that has run no step.
Refusals == {"dependency_unavailable", "read_failed", "plan_refused"}

\* What was asked, and what was done so far.
AskedOK(o) ==
    /\ o.pc \in {"idle", "validate", "snapshot", "execute", "done"}
    /\ o.polls \in 0..MaxAttempts
    /\ o.ready \subseteq Services /\ o.started \subseteq Services
    /\ o.pc # "idle" =>
          /\ o.target \in Services /\ o.op \in Operations /\ o.authority \in Authorities
          /\ o.authority = "scheduled" => o.op # "restart"
    /\ o.pc \in {"idle", "validate", "snapshot"} => o.ready = {} /\ o.started = {}
    /\ o.pc # "done" => o.outcome = "none"
    /\ o.outcome \in Refusals => o.started = {}

\* What a scheduled start found about the availability of its dependencies.
CheckedOK(o) ==
    /\ DOMAIN o.checked \in SUBSET Services
    /\ \A s \in DOMAIN o.checked : o.checked[s] \in {"available", "manual"}
    /\ o.authority = "scheduled" /\ o.op = "start" =>
          /\ o.pc \in {"snapshot", "execute"} => Dependencies[o.target] \subseteq DOMAIN o.checked
          /\ o.started \ {o.target} \subseteq DOMAIN o.checked
    /\ o.pc = "validate" =>
          /\ o.authority = "scheduled" /\ o.op = "start"
          /\ o.todo \in Seq(Services) /\ o.todo # <<>>
          /\ Dependencies[o.target] \subseteq DOMAIN o.checked \cup ToSet(o.todo)

\* What the snapshots tell.
SnapshotOK(o, st) ==
    /\ DOMAIN o.snap \in SUBSET Services
    /\ o.pc \in {"idle", "validate"} => DOMAIN o.snap = {}
    /\ o.op = "start" => \A s \in o.started : s \in DOMAIN o.snap /\ o.snap[s] = "stopped"
    /\ o.pc = "snapshot" =>
          /\ o.todo \in Seq(Services) /\ o.todo # <<>>
          /\ ToSet(CandidateServiceIds(o.target, o.op)) \subseteq DOMAIN o.snap \cup ToSet(o.todo)
          /\ SoundSnapshot(o.snap, st)

\* What is left to do, and what a successful stop has done.
ExecutionOK(o, st) ==
    /\ o.pc = "execute" =>
          /\ o.todo # <<>>
          /\ SoundSteps(o.todo, o.target, o.op, o.snap, o.ready, st)
    /\ o.pc = "done" /\ o.outcome = "successful" /\ o.op = "stop" =>
          \A s \in Dependents[o.target] \cup {o.target} : st[s] # "running"

OrchestrationOK(o, st) ==
    HasFields(o) /\ AskedOK(o) /\ CheckedOK(o) /\ SnapshotOK(o, st) /\ ExecutionOK(o, st)

\* One orchestration at a time, whoever asks for it.
OneCaller == \A c, d \in Callers : c = d

\* A plan speaks of registered services only.
LEMMA StepsNameServices ==
  ASSUME NEW q \in Seq(Step), NEW k \in 1..Len(q)
  PROVE  q[k] \in Step /\ q[k].serviceId \in Services
<1>1. q[k] \in Step
  OBVIOUS
<1> QED
  BY <1>1 DEF Step

\* Nothing that was not running runs, and what was stopped still is.
Quieter(st, st2) ==
    \A s \in Services : (st2[s] = "running" => st[s] = "running")
                        /\ (st[s] = "stopped" => st2[s] = "stopped")

\* What services do by themselves disturbs no orchestration.
LEMMA QuietChange ==
  ASSUME NEW o, NEW st, OrchestrationOK(o, st), NEW st2, Quieter(st, st2)
  PROVE  OrchestrationOK(o, st2)
<1>1. SnapshotOK(o, st2)
  BY DEF OrchestrationOK, SnapshotOK, SoundSnapshot, Quieter
<1>2. ASSUME o.pc = "execute"
      PROVE  SoundSteps(o.todo, o.target, o.op, o.snap, o.ready, st2)
  <2>1. SoundSteps(o.todo, o.target, o.op, o.snap, o.ready, st) /\ o.target \in Services
    BY <1>2 DEF OrchestrationOK, ExecutionOK, AskedOK
  <2>2. \A k \in 1..Len(o.todo) : o.todo[k].serviceId \in Services
    BY <2>1, StepsNameServices DEF SoundSteps
  <2>3. StopsAreOrdered(o.todo, st2)
    <3> SUFFICES ASSUME NEW k \in 1..Len(o.todo), o.todo[k].operation \in {"stop", "restart"},
                        NEW d \in Rev[o.todo[k].serviceId]
                 PROVE  st2[d] # "running" \/ \E i \in 1..(k - 1) : o.todo[i] = Control(d, "stop")
      BY DEF StopsAreOrdered
    <3>1. d \in Services
      BY <2>2, ServiceGraph
    <3>2. st[d] # "running" \/ \E i \in 1..(k - 1) : o.todo[i] = Control(d, "stop")
      BY <2>1 DEF SoundSteps, StopsAreOrdered
    <3> QED
      BY <3>1, <3>2 DEF Quieter
  <2>4. ASSUME o.op = "stop" PROVE StopsWhatNeeds(o.todo, o.target, st2)
    <3>1. StopsWhatNeeds(o.todo, o.target, st)
      BY <2>1, <2>4 DEF SoundSteps
    <3>2. \A s \in Dependents[o.target] \cup {o.target} : s \in Services
      BY <2>1, ClosuresOfServices
    <3> QED
      BY <3>1, <3>2 DEF StopsWhatNeeds, Quieter
  <2> QED
    BY <2>1, <2>3, <2>4 DEF SoundSteps
<1>3. ExecutionOK(o, st2)
  <2>1. ASSUME o.pc = "done", o.outcome = "successful", o.op = "stop",
               NEW s \in Dependents[o.target] \cup {o.target}
        PROVE  st2[s] # "running"
    <3>1. o.target \in Services /\ st[s] # "running"
      BY <2>1 DEF OrchestrationOK, AskedOK, ExecutionOK
    <3> QED
      BY <3>1, ClosuresOfServices DEF Quieter
  <2> QED
    BY <1>2, <2>1 DEF OrchestrationOK, ExecutionOK
<1> QED
  BY <1>1, <1>3 DEF OrchestrationOK

\* What step h changes: nothing runs that did not but what it starts, what it
\* stops does not run, and what it waits for is ready.
StepEffect(h, ready, ready2, st, st2) ==
    /\ ready \subseteq ready2
    /\ \A b \in Services : h = Wait(b) => b \in ready2
    /\ \A s \in Services : st2[s] = "running" =>
          \/ st[s] = "running" /\ h # Control(s, "stop")
          \/ h.operation \in {"start", "restart"}

\* Once the first step is done the rest is sound, and a stop that has nothing
\* left has stopped what it was to stop.
LEMMA StepsAdvance ==
  ASSUME NEW q, NEW t \in Services, NEW op \in Operations, NEW snap, NEW ready, NEW st,
         q # <<>>, SoundSteps(q, t, op, snap, ready, st),
         NEW ready2, NEW st2, StepEffect(Head(q), ready, ready2, st, st2)
  PROVE  /\ Tail(q) # <<>> => SoundSteps(Tail(q), t, op, snap, ready2, st2)
         /\ Tail(q) = <<>> /\ op = "stop" =>
               \A s \in Dependents[t] \cup {t} : st2[s] # "running"
<1> DEFINE r == Tail(q)
<1>0. /\ \A b \in Services : Head(q) = Wait(b) => b \in ready2
      /\ \A b \in ready : b \in ready2
      /\ \A s \in Services : st2[s] = "running" =>
            \/ st[s] = "running" /\ Head(q) # Control(s, "stop")
            \/ Head(q).operation \in {"start", "restart"}
  BY DEF StepEffect
<1>1. /\ q \in Seq(Step) /\ r \in Seq(Step) /\ Len(q) \in Nat \ {0} /\ Len(r) = Len(q) - 1
      /\ Head(q) = q[1] /\ \A k \in 1..Len(r) : r[k] = q[k + 1] /\ k + 1 \in 1..Len(q)
  BY DEF SoundSteps
<1> HIDE DEF r
<1>2. 1 \in 1..Len(q) /\ \A k \in 1..Len(q) : q[k].serviceId \in Services
  BY <1>1, StepsNameServices
<1>3. ASSUME NEW k \in 1..Len(r), NEW i \in 1..k PROVE q[i] = Head(q) \/ \E j \in 1..(k - 1) : r[j] = q[i]
  <2>1. CASE i = 1
    BY <1>1, <2>1
  <2>2. CASE i # 1
    <3>1. i - 1 \in 1..(k - 1) /\ i - 1 \in 1..Len(r) /\ (i - 1) + 1 = i
      BY <1>1, <2>2
    <3> QED
      BY <1>1, <3>1
  <2> QED
    BY <2>1, <2>2
<1>4. StopsComeFirst(r)
  <2> SUFFICES ASSUME NEW k \in 1..Len(r), NEW i \in 1..(k - 1),
                      r[i].operation \in {"start", "restart"}
               PROVE  r[k].operation \notin {"stop", "restart"}
    BY DEF StopsComeFirst
  <2>1. i \in 1..Len(r) /\ k + 1 \in 1..Len(q) /\ i + 1 \in 1..((k + 1) - 1)
    BY <1>1
  <2>2. q[i + 1].operation \in {"start", "restart"} => q[k + 1].operation \notin {"stop", "restart"}
    BY <2>1 DEF SoundSteps, StopsComeFirst
  <2> QED
    BY <1>1, <2>1, <2>2
<1>5. StopsAreOrdered(r, st2)
  <2> SUFFICES ASSUME NEW k \in 1..Len(r), r[k].operation \in {"stop", "restart"},
                      NEW d \in Rev[r[k].serviceId]
               PROVE  st2[d] # "running" \/ \E i \in 1..(k - 1) : r[i] = Control(d, "stop")
    BY DEF StopsAreOrdered
  <2>1. k + 1 \in 1..Len(q) /\ q[k + 1] = r[k] /\ 1 \in 1..((k + 1) - 1) /\ (k + 1) - 1 = k
    BY <1>1
  <2>2. d \in Services
    BY <1>2, <2>1, ServiceGraph
  <2>3. Head(q).operation \notin {"start", "restart"}
    <3>1. q[1].operation \in {"start", "restart"} => q[k + 1].operation \notin {"stop", "restart"}
      BY <2>1 DEF SoundSteps, StopsComeFirst
    <3> QED
      BY <1>1, <2>1, <3>1
  <2>4. st[d] # "running" \/ \E i \in 1..((k + 1) - 1) : q[i] = Control(d, "stop")
    BY <2>1 DEF SoundSteps, StopsAreOrdered
  <2>5. CASE st[d] # "running"
    BY <1>0, <2>2, <2>3, <2>5
  <2>6. CASE \E i \in 1..k : q[i] = Control(d, "stop")
    BY <1>0, <1>3, <2>2, <2>3, <2>6
  <2> QED
    BY <2>1, <2>4, <2>5, <2>6
<1>6. ASSUME op = "start" PROVE StartsAreOrdered(r, ready2) /\ StartsWhatIsNeeded(r, t, snap)
  <2>1. StartsAreOrdered(q, ready) /\ StartsWhatIsNeeded(q, t, snap)
    BY <1>6 DEF SoundSteps
  <2>2. StartsWhatIsNeeded(r, t, snap)
    BY <1>1, <2>1 DEF StartsWhatIsNeeded
  <2>3. ASSUME NEW k \in 1..Len(r), r[k].operation = "start", NEW b \in Deps[r[k].serviceId]
        PROVE  b \in ready2 \/ \E i \in 1..(k - 1) : r[i] = Wait(b)
    <3>1. k + 1 \in 1..Len(q) /\ q[k + 1] = r[k] /\ (k + 1) - 1 = k
      BY <1>1
    <3>2. b \in Services
      BY <1>2, <2>3, <3>1, ServiceGraph
    <3>3. b \in ready \/ \E i \in 1..((k + 1) - 1) : q[i] = Wait(b)
      BY <2>1, <2>3, <3>1 DEF StartsAreOrdered
    <3> QED
      BY <1>0, <1>3, <3>1, <3>2, <3>3
  <2> QED
    BY <2>2, <2>3 DEF StartsAreOrdered
<1>7. ASSUME op = "stop", NEW s \in Dependents[t] \cup {t}
      PROVE  st2[s] # "running" \/ \E k \in 1..Len(r) : r[k] = Control(s, "stop")
  <2>1. StopsWhatNeeds(q, t, st)
    BY <1>7 DEF SoundSteps
  <2>2. Head(q).operation \notin {"start", "restart"}
    BY <1>1, <1>2, <2>1 DEF StopsWhatNeeds
  <2>3. s \in Services
    BY <1>7, ClosuresOfServices
  <2>4. CASE st[s] # "running"
    BY <1>0, <2>2, <2>3, <2>4
  <2>5. ASSUME NEW k \in 1..Len(q), q[k] = Control(s, "stop")
        PROVE  st2[s] # "running" \/ \E j \in 1..Len(r) : r[j] = Control(s, "stop")
    <3>1. CASE k = 1
      BY <1>0, <1>1, <2>2, <2>3, <2>5, <3>1
    <3>2. CASE k # 1
      <4>1. k - 1 \in 1..Len(r) /\ (k - 1) + 1 = k
        BY <1>1, <3>2
      <4> QED
        BY <1>1, <2>5, <4>1
    <3> QED
      BY <3>1, <3>2
  <2> QED
    BY <1>7, <2>1, <2>4, <2>5 DEF StopsWhatNeeds
<1>8. ASSUME op = "stop" PROVE StopsWhatNeeds(r, t, st2)
  <2>1. \A k \in 1..Len(r) : r[k].operation \in {"stop", "none"}
    BY <1>1, <1>8 DEF SoundSteps, StopsWhatNeeds
  <2> QED
    BY <1>7, <1>8, <2>1 DEF StopsWhatNeeds
<1>9. SoundSteps(r, t, op, snap, ready2, st2)
  BY <1>1, <1>4, <1>5, <1>6, <1>8 DEF SoundSteps
<1>10. ASSUME r = <<>>, op = "stop", NEW s \in Dependents[t] \cup {t} PROVE st2[s] # "running"
  <2>1. Len(r) = 0
    BY <1>10
  <2> QED
    BY <1>7, <1>10, <2>1
<1> QED
  BY <1>9, <1>10 DEF r

\* o holds these fields, and no others.
Is(o, pc, target, op, authority, todo, checked, snap, polls, ready, started, outcome) ==
    /\ HasFields(o) /\ o.pc = pc /\ o.target = target /\ o.op = op
    /\ o.authority = authority /\ o.todo = todo /\ o.checked = checked
    /\ o.snap = snap /\ o.polls = polls /\ o.ready = ready
    /\ o.started = started /\ o.outcome = outcome

\* Replacing one field leaves the others.
LEMMA FieldUpdates ==
  ASSUME NEW pc, NEW target, NEW op, NEW authority, NEW todo, NEW checked, NEW snap,
         NEW polls, NEW ready, NEW started, NEW outcome, NEW v, NEW o,
         Is(o, pc, target, op, authority, todo, checked, snap, polls, ready, started, outcome)
  PROVE  /\ Is([o EXCEPT !.pc = v],
               v, target, op, authority, todo, checked, snap, polls, ready, started, outcome)
         /\ Is([o EXCEPT !.target = v],
               pc, v, op, authority, todo, checked, snap, polls, ready, started, outcome)
         /\ Is([o EXCEPT !.op = v],
               pc, target, v, authority, todo, checked, snap, polls, ready, started, outcome)
         /\ Is([o EXCEPT !.authority = v],
               pc, target, op, v, todo, checked, snap, polls, ready, started, outcome)
         /\ Is([o EXCEPT !.todo = v],
               pc, target, op, authority, v, checked, snap, polls, ready, started, outcome)
         /\ Is([o EXCEPT !.checked = v],
               pc, target, op, authority, todo, v, snap, polls, ready, started, outcome)
         /\ Is([o EXCEPT !.snap = v],
               pc, target, op, authority, todo, checked, v, polls, ready, started, outcome)
         /\ Is([o EXCEPT !.polls = v],
               pc, target, op, authority, todo, checked, snap, v, ready, started, outcome)
         /\ Is([o EXCEPT !.ready = v],
               pc, target, op, authority, todo, checked, snap, polls, v, started, outcome)
         /\ Is([o EXCEPT !.started = v],
               pc, target, op, authority, todo, checked, snap, polls, ready, v, outcome)
BY DEF Is, HasFields

\* Finish and Proceed change these fields.
LEMMA FinishedFields ==
  ASSUME NEW o, HasFields(o), NEW outcome
  PROVE  LET n == Finish(o, outcome)
         IN  /\ HasFields(n) /\ n.pc = "done" /\ n.todo = <<>> /\ n.outcome = outcome
             /\ n.target = o.target /\ n.op = o.op /\ n.authority = o.authority
             /\ n.checked = o.checked /\ n.snap = o.snap /\ n.polls = o.polls
             /\ n.ready = o.ready /\ n.started = o.started
<1> DEFINE a == [o EXCEPT !.pc = "done"]
           b == [a EXCEPT !.todo = <<>>]
           n == [b EXCEPT !.outcome = outcome]
<1>1. a = [pc |-> "done", target |-> o.target, op |-> o.op, authority |-> o.authority,
           todo |-> o.todo, checked |-> o.checked, snap |-> o.snap, polls |-> o.polls,
           ready |-> o.ready, started |-> o.started, outcome |-> o.outcome]
  BY DEF HasFields
<1> HIDE DEF a
<1>2. b = [pc |-> "done", target |-> o.target, op |-> o.op, authority |-> o.authority,
           todo |-> <<>>, checked |-> o.checked, snap |-> o.snap, polls |-> o.polls,
           ready |-> o.ready, started |-> o.started, outcome |-> o.outcome]
  BY <1>1
<1> HIDE DEF b
<1>3. n = [pc |-> "done", target |-> o.target, op |-> o.op, authority |-> o.authority,
           todo |-> <<>>, checked |-> o.checked, snap |-> o.snap, polls |-> o.polls,
           ready |-> o.ready, started |-> o.started, outcome |-> outcome]
  BY <1>2
<1>4. n = Finish(o, outcome)
  BY DEF Finish, a, b
<1> HIDE DEF n
<1> QED
  BY <1>3, <1>4 DEF HasFields

LEMMA ProceedingFields ==
  ASSUME NEW o, HasFields(o), Tail(o.todo) # <<>>
  PROVE  LET n == Proceed(o)
         IN  /\ HasFields(n) /\ n.pc = o.pc /\ n.todo = Tail(o.todo) /\ n.outcome = o.outcome
             /\ n.target = o.target /\ n.op = o.op /\ n.authority = o.authority
             /\ n.checked = o.checked /\ n.snap = o.snap /\ n.polls = 0
             /\ n.ready = o.ready /\ n.started = o.started
BY DEF HasFields, Proceed

\* An orchestration that fails owes nothing more.
LEMMA FailureIsSound ==
  ASSUME NEW o, NEW st, OrchestrationOK(o, st), o.pc # "idle", NEW st2,
         NEW outcome \in {"failed"} \cup Refusals,
         outcome \in Refusals => o.started = {}
  PROVE  OrchestrationOK(Finish(o, outcome), st2)
<1> DEFINE n == Finish(o, outcome)
<1>1. HasFields(o) /\ AskedOK(o) /\ CheckedOK(o) /\ SnapshotOK(o, st)
  BY DEF OrchestrationOK
<1>2. /\ HasFields(n) /\ n.pc = "done" /\ n.todo = <<>> /\ n.outcome = outcome
      /\ n.target = o.target /\ n.op = o.op /\ n.authority = o.authority
      /\ n.checked = o.checked /\ n.snap = o.snap /\ n.polls = o.polls
      /\ n.ready = o.ready /\ n.started = o.started
  BY <1>1, FinishedFields
<1> HIDE DEF n
<1>3. AskedOK(n)
  BY <1>1, <1>2 DEF AskedOK
<1>4. CheckedOK(n)
  BY <1>1, <1>2 DEF CheckedOK
<1>5. SnapshotOK(n, st2)
  BY <1>1, <1>2 DEF SnapshotOK
<1>6. ExecutionOK(n, st2)
  BY <1>2 DEF ExecutionOK, Refusals
<1> QED
  BY <1>2, <1>3, <1>4, <1>5, <1>6 DEF OrchestrationOK, n

\* One step done: what o became, p, goes on with the rest or is successful.
LEMMA ProceedIsSound ==
  ASSUME NEW o, NEW st, OrchestrationOK(o, st), o.pc = "execute",
         NEW p, HasFields(p), p.pc = "execute", p.todo = o.todo, p.outcome = o.outcome,
         p.target = o.target, p.op = o.op, p.authority = o.authority,
         p.checked = o.checked, p.snap = o.snap,
         p.polls \in 0..MaxAttempts, p.ready \subseteq Services,
         NEW st2, StepEffect(Head(o.todo), o.ready, p.ready, st, st2),
         p.started \subseteq Services,
         \A s \in p.started \ o.started :
             Head(o.todo).operation = "start" /\ s = Head(o.todo).serviceId
  PROVE  OrchestrationOK(Proceed(p), st2)
<1> DEFINE n == Proceed(p)
<1>1. /\ HasFields(o) /\ AskedOK(o) /\ CheckedOK(o) /\ SnapshotOK(o, st)
      /\ o.todo # <<>> /\ SoundSteps(o.todo, o.target, o.op, o.snap, o.ready, st)
      /\ o.target \in Services /\ o.op \in Operations
  BY DEF OrchestrationOK, ExecutionOK, AskedOK
<1>2. /\ Tail(o.todo) # <<>> => SoundSteps(Tail(o.todo), o.target, o.op, o.snap, p.ready, st2)
      /\ Tail(o.todo) = <<>> /\ o.op = "stop" =>
            \A s \in Dependents[o.target] \cup {o.target} : st2[s] # "running"
  BY <1>1, StepsAdvance
<1>3. /\ HasFields(n) /\ n.outcome = (IF Tail(o.todo) = <<>> THEN "successful" ELSE o.outcome)
      /\ n.pc = (IF Tail(o.todo) = <<>> THEN "done" ELSE "execute")
      /\ Tail(o.todo) # <<>> => n.todo = Tail(o.todo)
      /\ n.target = o.target /\ n.op = o.op /\ n.authority = o.authority
      /\ n.checked = o.checked /\ n.snap = o.snap /\ n.polls \in {0, p.polls}
      /\ n.ready = p.ready /\ n.started = p.started
  <2>1. CASE Tail(o.todo) = <<>>
    <3>1. n = Finish(p, "successful")
      BY <2>1 DEF Proceed
    <3> HIDE DEF n
    <3> QED
      BY <2>1, <3>1, FinishedFields
  <2>2. CASE Tail(o.todo) # <<>>
    BY <2>2, ProceedingFields
  <2> QED
    BY <2>1, <2>2
<1> HIDE DEF n
<1>4. AskedOK(n)
  <2>1. n.polls \in 0..MaxAttempts
    BY <1>3, OrchestrationAssumption DEF OrchestrationAssumption
  <2>2. n.outcome \notin Refusals
    BY <1>1, <1>3 DEF AskedOK, Refusals
  <2> QED
    BY <1>1, <1>3, <2>1, <2>2 DEF AskedOK
<1>5. ASSUME o.op = "start", NEW s \in p.started
      PROVE  /\ s \in DOMAIN o.snap /\ o.snap[s] = "stopped"
             /\ o.authority = "scheduled" /\ s # o.target => s \in DOMAIN o.checked
  <2>1. CASE s \in o.started
    BY <1>1, <1>5, <2>1 DEF SnapshotOK, CheckedOK
  <2>2. CASE Head(o.todo).operation = "start" /\ s = Head(o.todo).serviceId
    <3>1. 1 \in 1..Len(o.todo) /\ Head(o.todo) = o.todo[1]
      BY <1>1 DEF SoundSteps
    <3>2. StartsWhatIsNeeded(o.todo, o.target, o.snap)
      BY <1>1, <1>5 DEF SoundSteps
    <3>3. /\ s \in Dependencies[o.target] \cup {o.target}
          /\ s \in DOMAIN o.snap /\ o.snap[s] = "stopped"
      BY <2>2, <3>1, <3>2 DEF StartsWhatIsNeeded
    <3> QED
      BY <1>1, <1>5, <3>3 DEF CheckedOK
  <2> QED
    BY <1>5, <2>1, <2>2
<1>6. CheckedOK(n)
  BY <1>1, <1>3, <1>5 DEF CheckedOK
<1>7. SnapshotOK(n, st2)
  BY <1>1, <1>3, <1>5 DEF SnapshotOK
<1>8. ExecutionOK(n, st2)
  BY <1>2, <1>3 DEF ExecutionOK
<1> QED
  BY <1>3, <1>4, <1>6, <1>7, <1>8 DEF OrchestrationOK, n

\* Sequences: the first element and the others.
LEMMA HeadAndTail ==
  ASSUME NEW S, NEW q \in Seq(S), q # <<>>
  PROVE  Head(q) \in S /\ Tail(q) \in Seq(S) /\ ToSet(q) = {Head(q)} \cup ToSet(Tail(q))
<1>1. /\ Len(q) \in Nat \ {0} /\ Head(q) = q[1] /\ DOMAIN q = 1..Len(q) /\ 1 \in 1..Len(q)
      /\ Tail(q) \in Seq(S) /\ DOMAIN Tail(q) = 1..(Len(q) - 1)
      /\ \A k \in 1..(Len(q) - 1) : Tail(q)[k] = q[k + 1]
      /\ \A k \in 1..Len(q) : q[k] \in S
  OBVIOUS
<1>2. ASSUME NEW k \in 1..Len(q), k # 1 PROVE q[k] \in ToSet(Tail(q))
  <2>1. k - 1 \in 1..(Len(q) - 1) /\ (k - 1) + 1 = k
    BY <1>1, <1>2
  <2>2. k - 1 \in DOMAIN Tail(q) /\ Tail(q)[k - 1] = q[k]
    BY <1>1, <2>1
  <2> QED
    BY <2>2 DEF ToSet
<1>3. ASSUME NEW k \in 1..(Len(q) - 1) PROVE Tail(q)[k] \in ToSet(q)
  <2>1. k + 1 \in DOMAIN q /\ Tail(q)[k] = q[k + 1]
    BY <1>1
  <2> QED
    BY <2>1 DEF ToSet
<1> QED
  BY <1>1, <1>2, <1>3 DEF ToSet

LEMMA TailLengths ==
  ASSUME NEW S, NEW q \in Seq(S)
  PROVE  /\ Len(q) > 1 => q # <<>> /\ Tail(q) # <<>>
         /\ Len(q) = 1 => q # <<>> /\ Tail(q) = <<>>
<1>1. ASSUME Len(q) > 0 PROVE q # <<>> /\ Tail(q) \in Seq(S) /\ Len(Tail(q)) = Len(q) - 1
  BY <1>1
<1>2. Len(q) > 1 => Tail(q) # <<>>
  <2>1. Len(<<>>) = 0
    OBVIOUS
  <2> QED
    BY <1>1, <2>1
<1>3. ASSUME Len(q) = 1 PROVE Tail(q) = <<>>
  <2> DEFINE r == Tail(q)
  <2>1. r \in Seq(S) /\ Len(r) = 0
    BY <1>1, <1>3
  <2> HIDE DEF r
  <2>2. r # <<>> => Len(r) # 0
    BY <2>1, EmptySeq
  <2> QED
    BY <2>1, <2>2 DEF r
<1>4. /\ Len(q) > 1 => Len(q) > 0
      /\ Len(q) = 1 => Len(q) > 0
  <2>1. \A n \in Nat : /\ n > 1 => n > 0
                       /\ n = 1 => n > 0
    OBVIOUS
  <2>2. Len(q) \in Nat
    OBVIOUS
  <2> QED
    BY <2>1, <2>2
<1>5. Len(q) > 0 => q # <<>>
  BY <1>1
<1> QED
  BY <1>2, <1>3, <1>4, <1>5

\* Nothing is owed before a request.
LEMMA IdleIsSound ==
  ASSUME NEW st
  PROVE  OrchestrationOK(Idle, st)
<1>1. HasFields(Idle)
  BY DEF HasFields, Idle
<1>2. /\ Idle.pc = "idle" /\ Idle.todo = <<>> /\ Idle.outcome = "none"
      /\ Idle.target = 0 /\ Idle.op = "none" /\ Idle.authority = "none"
      /\ Idle.checked = <<>> /\ Idle.snap = <<>> /\ Idle.polls = 0
      /\ Idle.ready = {} /\ Idle.started = {}
  BY DEF Idle
<1>3. AskedOK(Idle)
  BY <1>2, OrchestrationAssumption DEF AskedOK, Refusals, OrchestrationAssumption
<1>4. DOMAIN <<>> = {}
  OBVIOUS
<1>5. CheckedOK(Idle)
  BY <1>2, <1>4 DEF CheckedOK
<1>6. SnapshotOK(Idle, st)
  BY <1>2, <1>4 DEF SnapshotOK
<1>7. ExecutionOK(Idle, st)
  BY <1>2 DEF ExecutionOK
<1> QED
  BY <1>1, <1>3, <1>5, <1>6, <1>7 DEF OrchestrationOK

\* What is still to be read before the plan is made.
LEMMA SnapshotBegins ==
  ASSUME NEW n, HasFields(n), n.pc = "snapshot", AskedOK(n),
         DOMAIN n.checked \in SUBSET Services,
         \A s \in DOMAIN n.checked : n.checked[s] \in {"available", "manual"},
         n.authority = "scheduled" /\ n.op = "start" =>
             Dependencies[n.target] \subseteq DOMAIN n.checked,
         n.todo = CandidateServiceIds(n.target, n.op), DOMAIN n.snap = {}, NEW st
  PROVE  OrchestrationOK(n, st)
<1>1. n.target \in Services /\ n.started = {}
  BY DEF AskedOK
<1>2. n.todo \in Seq(Services) /\ n.todo # <<>>
  BY <1>1, Candidates
<1>3. CheckedOK(n)
  BY <1>1 DEF CheckedOK
<1>4. SnapshotOK(n, st)
  BY <1>1, <1>2 DEF SnapshotOK, SoundSnapshot
<1>5. ExecutionOK(n, st)
  BY DEF ExecutionOK
<1> QED
  BY <1>3, <1>4, <1>5 DEF OrchestrationOK

\* An orchestration that was asked for and has not begun.
Requested(s, op, authority) ==
    [Idle EXCEPT !.target = s, !.op = op, !.authority = authority]

\* execute: a request begins with its dependencies' availability, or at once with
\* the snapshots.
LEMMA RequestIsSound ==
  ASSUME NEW s \in Services, NEW op \in Operations, NEW authority \in Authorities,
         authority = "scheduled" => op # "restart", NEW st
  PROVE  /\ op = "start" /\ authority = "scheduled" /\ SortedIds(Dependencies[s]) # <<>> =>
               OrchestrationOK([Requested(s, op, authority) EXCEPT
                   !.pc = "validate", !.todo = SortedIds(Dependencies[s])], st)
         /\ ~(op = "start" /\ authority = "scheduled" /\ SortedIds(Dependencies[s]) # <<>>) =>
               OrchestrationOK([Requested(s, op, authority) EXCEPT
                   !.pc = "snapshot", !.todo = CandidateServiceIds(s, op)], st)
<1> DEFINE todo == SortedIds(Dependencies[s])
           o == Requested(s, op, authority)
           R(pc, q) == [o EXCEPT !.pc = pc, !.todo = q]
<1>1. Is(o, "idle", s, op, authority, <<>>, <<>>, <<>>, 0, {}, {}, "none")
  <2> DEFINE a == [Idle EXCEPT !.target = s]
             b == [a EXCEPT !.op = op]
  <2>1. o = [b EXCEPT !.authority = authority]
    BY DEF Requested
  <2> HIDE DEF o
  <2>2. Is(Idle, "idle", 0, "none", "none", <<>>, <<>>, <<>>, 0, {}, {}, "none")
    BY DEF Is, Idle, HasFields
  <2>3. Is(a, "idle", s, "none", "none", <<>>, <<>>, <<>>, 0, {}, {}, "none")
    BY <2>2, FieldUpdates
  <2> HIDE DEF a
  <2>4. Is(b, "idle", s, op, "none", <<>>, <<>>, <<>>, 0, {}, {}, "none")
    BY <2>3, FieldUpdates
  <2> HIDE DEF b
  <2> QED
    BY <2>1, <2>4, FieldUpdates
<1> HIDE DEF o
<1>2. ASSUME NEW pc, NEW q
      PROVE  Is(R(pc, q), pc, s, op, authority, q, <<>>, <<>>, 0, {}, {}, "none")
  <2> DEFINE a == [o EXCEPT !.pc = pc]
  <2>1. R(pc, q) = [a EXCEPT !.todo = q]
    OBVIOUS
  <2>2. Is(a, pc, s, op, authority, <<>>, <<>>, <<>>, 0, {}, {}, "none")
    BY <1>1, FieldUpdates
  <2> HIDE DEF a, R
  <2>3. Is([a EXCEPT !.todo = q], pc, s, op, authority, q, <<>>, <<>>, 0, {}, {}, "none")
    BY <2>2, FieldUpdates
  <2> QED
    BY <2>1, <2>3
<1> HIDE DEF R
<1>3. todo \in Seq(Services) /\ ToSet(todo) = Dependencies[s]
  <2>1. Dependencies[s] \in SUBSET Services /\ Dependencies[s] \subseteq Nat /\ IsFiniteSet(Dependencies[s])
    BY ClosuresOfServices, ServiceGraph, FS_Subset
  <2>2. todo \in Seq(Dependencies[s]) /\ Lists(todo, Dependencies[s])
    BY <2>1, SortedIdsList
  <2> QED
    BY <2>1, <2>2 DEF Lists
<1>4. DOMAIN <<>> = {}
  OBVIOUS
<1>5. ASSUME NEW pc \in {"validate", "snapshot"}, NEW q
      PROVE  /\ HasFields(R(pc, q)) /\ AskedOK(R(pc, q)) /\ R(pc, q).pc = pc /\ R(pc, q).todo = q
             /\ R(pc, q).target = s /\ R(pc, q).op = op /\ R(pc, q).authority = authority
             /\ R(pc, q).checked = <<>> /\ R(pc, q).snap = <<>> /\ R(pc, q).started = {}
  <2> DEFINE n == R(pc, q)
  <2>1. Is(n, pc, s, op, authority, q, <<>>, <<>>, 0, {}, {}, "none")
    BY <1>2
  <2> HIDE DEF n
  <2>2. AskedOK(n)
    BY <2>1, OrchestrationAssumption DEF Is, AskedOK, Refusals, OrchestrationAssumption
  <2> QED
    BY <2>1, <2>2 DEF Is, n
<1> HIDE DEF todo
<1>6. ASSUME op = "start", authority = "scheduled", todo # <<>>
      PROVE  OrchestrationOK(R("validate", todo), st)
  <2> DEFINE n == R("validate", todo)
  <2>1. /\ HasFields(n) /\ AskedOK(n) /\ n.pc = "validate" /\ n.todo = todo
        /\ n.target = s /\ n.op = op /\ n.authority = authority
        /\ DOMAIN n.checked = {} /\ DOMAIN n.snap = {} /\ n.started = {}
    BY <1>4, <1>5
  <2> HIDE DEF n
  <2>2. CheckedOK(n)
    BY <1>3, <1>6, <2>1 DEF CheckedOK
  <2>3. SnapshotOK(n, st)
    BY <2>1 DEF SnapshotOK
  <2>4. ExecutionOK(n, st)
    BY <2>1 DEF ExecutionOK
  <2> QED
    BY <2>1, <2>2, <2>3, <2>4 DEF OrchestrationOK, n
<1>7. ASSUME ~(op = "start" /\ authority = "scheduled" /\ todo # <<>>)
      PROVE  OrchestrationOK(R("snapshot", CandidateServiceIds(s, op)), st)
  <2> DEFINE n == R("snapshot", CandidateServiceIds(s, op))
  <2>1. /\ HasFields(n) /\ AskedOK(n) /\ n.pc = "snapshot"
        /\ n.todo = CandidateServiceIds(n.target, n.op)
        /\ n.target = s /\ n.op = op /\ n.authority = authority
        /\ DOMAIN n.checked = {} /\ DOMAIN n.snap = {}
    BY <1>4, <1>5
  <2> HIDE DEF n
  <2>2. op = "start" /\ authority = "scheduled" => Dependencies[s] = {}
    BY <1>3, <1>7 DEF ToSet
  <2> QED
    BY <2>1, <2>2, SnapshotBegins DEF n
<1> QED
  BY <1>6, <1>7 DEF todo, o, R

\* validateScheduledDependencyAvailability: a dependency that does not block is
\* recorded; after the last one the snapshots begin.
LEMMA ValidateIsSound ==
  ASSUME NEW o, NEW st, OrchestrationOK(o, st), o.pc = "validate",
         NEW expectation \in Expectations, ~Blocks(expectation)
  PROVE  LET passed == [o EXCEPT !.checked = Checked(o, expectation)]
         IN  /\ Tail(o.todo) # <<>> => OrchestrationOK([passed EXCEPT !.todo = Tail(@)], st)
             /\ Tail(o.todo) = <<>> =>
                   OrchestrationOK([passed EXCEPT !.pc = "snapshot",
                                        !.todo = CandidateServiceIds(o.target, o.op)], st)
<1> DEFINE known == Checked(o, expectation)
           passed == [o EXCEPT !.checked = known]
           R(pc, q) == [passed EXCEPT !.pc = pc, !.todo = q]
<1>1. /\ HasFields(o) /\ AskedOK(o) /\ CheckedOK(o) /\ SnapshotOK(o, st) /\ o.target \in Services
      /\ o.authority = "scheduled" /\ o.op = "start" /\ o.todo \in Seq(Services) /\ o.todo # <<>>
      /\ Dependencies[o.target] \subseteq DOMAIN o.checked \cup ToSet(o.todo)
      /\ DOMAIN o.checked \in SUBSET Services /\ DOMAIN o.snap = {} /\ o.started = {}
      /\ \A s \in DOMAIN o.checked : o.checked[s] \in {"available", "manual"}
  BY DEF OrchestrationOK, AskedOK, CheckedOK, SnapshotOK
<1>2. expectation \in {"available", "manual"}
  BY DEF Blocks, Expectations
<1>3. Head(o.todo) \in Services /\ ToSet(o.todo) = {Head(o.todo)} \cup ToSet(Tail(o.todo))
      /\ Tail(o.todo) \in Seq(Services)
  BY <1>1, HeadAndTail
<1>4. /\ DOMAIN known = DOMAIN o.checked \cup {Head(o.todo)}
      /\ \A s \in DOMAIN known : known[s] \in {"available", "manual"}
  BY <1>1, <1>2 DEF Checked
<1> HIDE DEF known
<1>5. Is(passed, o.pc, o.target, o.op, o.authority, o.todo, known, o.snap, o.polls,
         o.ready, o.started, o.outcome)
  <2>1. Is(o, o.pc, o.target, o.op, o.authority, o.todo, o.checked, o.snap, o.polls,
           o.ready, o.started, o.outcome)
    BY <1>1 DEF Is
  <2> QED
    BY <2>1, FieldUpdates
<1> HIDE DEF passed
<1>6. ASSUME NEW pc, NEW q
      PROVE  Is(R(pc, q), pc, o.target, o.op, o.authority, q, known, o.snap, o.polls,
                o.ready, o.started, o.outcome)
  <2> DEFINE a == [passed EXCEPT !.pc = pc]
  <2>1. R(pc, q) = [a EXCEPT !.todo = q]
    OBVIOUS
  <2>2. Is(a, pc, o.target, o.op, o.authority, o.todo, known, o.snap, o.polls,
           o.ready, o.started, o.outcome)
    BY <1>5, FieldUpdates
  <2> HIDE DEF a, R
  <2>3. Is([a EXCEPT !.todo = q], pc, o.target, o.op, o.authority, q, known, o.snap, o.polls,
           o.ready, o.started, o.outcome)
    BY <2>2, FieldUpdates
  <2> QED
    BY <2>1, <2>3
<1>7. passed.todo = o.todo /\ passed.pc = "validate"
  BY <1>5 DEF Is
<1>8. [passed EXCEPT !.todo = Tail(@)] = R("validate", Tail(o.todo))
  <2> DEFINE q == Tail(o.todo)
             a == [passed EXCEPT !.pc = "validate"]
             n == [passed EXCEPT !.todo = q]
  <2> HIDE DEF q
  <2>1. Is(n, o.pc, o.target, o.op, o.authority, q, known, o.snap, o.polls,
           o.ready, o.started, o.outcome)
    BY <1>5, FieldUpdates
  <2>2. n = R("validate", q)
    <3> DEFINE m == R("validate", q)
    <3>1. Is(m, "validate", o.target, o.op, o.authority, q, known, o.snap, o.polls,
             o.ready, o.started, o.outcome)
      BY <1>6
    <3> HIDE DEF m, n
    <3> QED
      BY <2>1, <3>1 DEF Is, HasFields, m
  <2> QED
    BY <1>7, <2>2 DEF q
<1> HIDE DEF R
<1>9. ASSUME NEW pc \in {"validate", "snapshot"}, NEW q
      PROVE  /\ HasFields(R(pc, q)) /\ AskedOK(R(pc, q)) /\ R(pc, q).pc = pc /\ R(pc, q).todo = q
             /\ R(pc, q).target = o.target /\ R(pc, q).op = o.op
             /\ R(pc, q).authority = o.authority /\ R(pc, q).checked = known
             /\ R(pc, q).snap = o.snap /\ R(pc, q).started = o.started
  <2> DEFINE n == R(pc, q)
  <2>1. Is(n, pc, o.target, o.op, o.authority, q, known, o.snap, o.polls,
           o.ready, o.started, o.outcome)
    BY <1>6
  <2> HIDE DEF n
  <2>2. AskedOK(n)
    BY <1>1, <2>1 DEF Is, AskedOK
  <2> QED
    BY <2>1, <2>2 DEF Is, n
<1>10. ASSUME Tail(o.todo) # <<>> PROVE OrchestrationOK(R("validate", Tail(o.todo)), st)
  <2> DEFINE n == R("validate", Tail(o.todo))
  <2>1. /\ HasFields(n) /\ AskedOK(n) /\ n.pc = "validate" /\ n.todo = Tail(o.todo)
        /\ n.target = o.target /\ n.op = o.op /\ n.authority = o.authority
        /\ n.checked = known /\ n.snap = o.snap /\ n.started = o.started
    BY <1>9
  <2> HIDE DEF n
  <2>2. CheckedOK(n)
    BY <1>1, <1>3, <1>4, <1>10, <2>1 DEF CheckedOK
  <2>3. SnapshotOK(n, st)
    BY <1>1, <2>1 DEF SnapshotOK
  <2>4. ExecutionOK(n, st)
    BY <2>1 DEF ExecutionOK
  <2> QED
    BY <2>1, <2>2, <2>3, <2>4 DEF OrchestrationOK, n
<1>11. ASSUME Tail(o.todo) = <<>>
       PROVE  OrchestrationOK(R("snapshot", CandidateServiceIds(o.target, o.op)), st)
  <2> DEFINE n == R("snapshot", CandidateServiceIds(o.target, o.op))
  <2>1. /\ HasFields(n) /\ AskedOK(n) /\ n.pc = "snapshot"
        /\ n.todo = CandidateServiceIds(n.target, n.op)
        /\ n.target = o.target /\ n.op = o.op /\ n.authority = o.authority
        /\ n.checked = known /\ n.snap = o.snap
    BY <1>9
  <2> HIDE DEF n
  <2>2. ToSet(Tail(o.todo)) = {}
    BY <1>11 DEF ToSet
  <2>3. Dependencies[o.target] \subseteq DOMAIN known
    BY <1>1, <1>3, <1>4, <2>2
  <2> QED
    BY <1>1, <1>3, <1>4, <2>1, <2>3, SnapshotBegins DEF n
<1> QED
  BY <1>8, <1>10, <1>11 DEF passed, known, R

\* The next service of todo is read while the adapters report real.
Captured(o, real) ==
    [s \in DOMAIN o.snap \cup {Head(o.todo)} |->
        IF s = Head(o.todo) THEN real[s] ELSE o.snap[s]]

\* A snapshot never calls stopped what is not, as far as the caller can tell.
LEMMA CaptureIsSound ==
  ASSUME NEW st, NEW real \in [Services -> RuntimeStates],
         \A s \in Services : real[s] = "stopped" => st[s] = "stopped",
         NEW o, OrchestrationOK(o, st), o.pc = "snapshot"
  PROVE  /\ SoundSnapshot(Captured(o, real), st)
         /\ DOMAIN Captured(o, real) = DOMAIN o.snap \cup {Head(o.todo)}
         /\ ToSet(CandidateServiceIds(o.target, o.op)) \subseteq
               DOMAIN Captured(o, real) \cup ToSet(Tail(o.todo))
<1> DEFINE snap == Captured(o, real)
<1>1. /\ o.todo \in Seq(Services) /\ o.todo # <<>> /\ SoundSnapshot(o.snap, st)
      /\ ToSet(CandidateServiceIds(o.target, o.op)) \subseteq DOMAIN o.snap \cup ToSet(o.todo)
  BY DEF OrchestrationOK, SnapshotOK
<1>2. Head(o.todo) \in Services /\ ToSet(o.todo) = {Head(o.todo)} \cup ToSet(Tail(o.todo))
  BY <1>1, HeadAndTail
<1>3. /\ DOMAIN snap = DOMAIN o.snap \cup {Head(o.todo)}
      /\ \A s \in DOMAIN snap : snap[s] = real[s] \/ (s \in DOMAIN o.snap /\ snap[s] = o.snap[s])
  BY DEF Captured
<1> HIDE DEF snap
<1>4. SoundSnapshot(snap, st)
  BY <1>1, <1>2, <1>3 DEF SoundSnapshot
<1> QED
  BY <1>1, <1>2, <1>3, <1>4 DEF snap

\* One more service read, or the last one and the plan refused.
LEMMA SnapshotIsSound ==
  ASSUME NEW st, NEW real \in [Services -> RuntimeStates],
         \A s \in Services : real[s] = "stopped" => st[s] = "stopped",
         NEW o, OrchestrationOK(o, st), o.pc = "snapshot",
         NEW q \in {o.todo, Tail(o.todo)}, q # <<>>,
         NEW n, Is(n, o.pc, o.target, o.op, o.authority, q, o.checked, Captured(o, real), o.polls,
                   o.ready, o.started, o.outcome)
  PROVE  OrchestrationOK(n, st)
<1> DEFINE snap == Captured(o, real)
<1>1. /\ HasFields(o) /\ AskedOK(o) /\ CheckedOK(o) /\ o.started = {}
      /\ o.todo \in Seq(Services) /\ o.todo # <<>>
  BY DEF OrchestrationOK, AskedOK, SnapshotOK
<1>2. Tail(o.todo) \in Seq(Services) /\ ToSet(o.todo) = {Head(o.todo)} \cup ToSet(Tail(o.todo))
  BY <1>1, HeadAndTail
<1>3. /\ SoundSnapshot(snap, st)
      /\ ToSet(CandidateServiceIds(o.target, o.op)) \subseteq DOMAIN snap \cup ToSet(Tail(o.todo))
  BY CaptureIsSound
<1> HIDE DEF snap
<1>4. /\ HasFields(n) /\ n.pc = "snapshot" /\ n.todo = q /\ n.outcome = o.outcome
      /\ n.target = o.target /\ n.op = o.op /\ n.authority = o.authority
      /\ n.checked = o.checked /\ n.snap = snap /\ n.polls = o.polls
      /\ n.ready = o.ready /\ n.started = o.started
  BY DEF Is, snap
<1>5. AskedOK(n)
  BY <1>1, <1>4 DEF AskedOK
<1>6. CheckedOK(n)
  BY <1>1, <1>4 DEF CheckedOK
<1>7. SnapshotOK(n, st)
  BY <1>1, <1>2, <1>3, <1>4 DEF SnapshotOK, SoundSnapshot
<1>8. ExecutionOK(n, st)
  BY <1>4 DEF ExecutionOK
<1> QED
  BY <1>4, <1>5, <1>6, <1>7, <1>8 DEF OrchestrationOK

\* The last service read: a plan that is not refused is sound.
LEMMA PlanIsSound ==
  ASSUME NEW st, NEW real \in [Services -> RuntimeStates],
         \A s \in Services : real[s] = "stopped" => st[s] = "stopped",
         NEW o, OrchestrationOK(o, st), o.pc = "snapshot",
         Tail(o.todo) = <<>>,
         NEW steps, steps = PlanSteps(o.target, o.op, PlanOrder(o.target, o.op, Captured(o, real)),
                                      Captured(o, real)),
         ~PlanRefused(o.op, Captured(o, real), steps),
         NEW n, Is(n, "execute", o.target, o.op, o.authority, steps, o.checked, Captured(o, real),
                   o.polls, o.ready, o.started, o.outcome)
  PROVE  OrchestrationOK(n, st)
<1> DEFINE snap == Captured(o, real)
<1>1. /\ HasFields(o) /\ AskedOK(o) /\ CheckedOK(o) /\ o.started = {} /\ o.ready = {}
      /\ o.target \in Services /\ o.op \in Operations
  BY DEF OrchestrationOK, AskedOK
<1>2. /\ SoundSnapshot(snap, st)
      /\ ToSet(CandidateServiceIds(o.target, o.op)) \subseteq DOMAIN snap
  <2>1. ToSet(Tail(o.todo)) = {}
    BY DEF ToSet
  <2> QED
    BY <2>1, CaptureIsSound
<1>3. steps = PlanSteps(o.target, o.op, PlanOrder(o.target, o.op, snap), snap)
      /\ ~PlanRefused(o.op, snap, steps)
  OBVIOUS
<1>4. /\ HasFields(n) /\ n.pc = "execute" /\ n.todo = steps /\ n.outcome = o.outcome
      /\ n.target = o.target /\ n.op = o.op /\ n.authority = o.authority
      /\ n.checked = o.checked /\ n.snap = snap /\ n.polls = o.polls
      /\ n.ready = o.ready /\ n.started = o.started
  BY DEF Is
<1> HIDE DEF snap
<1>5. steps # <<>> /\ SoundSteps(steps, o.target, o.op, snap, o.ready, st)
  <2>1. CASE o.op = "start"
    <3>1. steps = PlanStart(CandidateServiceIds(o.target, "start"), snap)
      BY <1>3, <2>1 DEF PlanSteps, PlanOrder
    <3>2. \A s \in DOMAIN snap : snap[s] \notin {"failed", "unknown"}
      BY <1>3, <2>1 DEF PlanRefused
    <3>3. ToSet(CandidateServiceIds(o.target, "start")) \subseteq DOMAIN snap
      BY <1>2, <2>1
    <3> QED
      BY <1>1, <1>2, <2>1, <3>1, <3>2, <3>3, PlanStartIsSound
  <2>2. CASE o.op = "stop"
    <3>1. steps = PlanStop(CandidateServiceIds(o.target, "stop"), snap)
      BY <1>3, <2>2 DEF PlanSteps, PlanOrder
    <3>2. ToSet(CandidateServiceIds(o.target, "stop")) \subseteq DOMAIN snap
      BY <1>2, <2>2
    <3> QED
      BY <1>1, <1>2, <2>2, <3>1, <3>2, PlanStopIsSound
  <2>3. CASE o.op = "restart"
    <3>1. steps = PlanRestart(o.target, PlanOrder(o.target, "restart", snap))
      BY <1>3, <2>3 DEF PlanSteps
    <3>2. Dependents[o.target] \subseteq DOMAIN snap
      BY <1>1, <1>2, <2>3, Candidates
    <3> QED
      BY <1>1, <1>2, <2>3, <3>1, <3>2, PlanRestartIsSound
  <2> QED
    BY <1>1, <2>1, <2>2, <2>3 DEF Operations
<1>6. AskedOK(n)
  BY <1>1, <1>4 DEF AskedOK
<1>7. CheckedOK(n)
  <2>1. o.authority = "scheduled" /\ o.op = "start" =>
            Dependencies[o.target] \subseteq DOMAIN o.checked
    BY <1>1 DEF CheckedOK
  <2> QED
    BY <1>1, <1>4, <2>1 DEF CheckedOK
<1>8. SnapshotOK(n, st)
  BY <1>1, <1>2, <1>4 DEF SnapshotOK, SoundSnapshot
<1>9. ExecutionOK(n, st)
  BY <1>4, <1>5 DEF ExecutionOK
<1> QED
  BY <1>4, <1>6, <1>7, <1>8, <1>9 DEF OrchestrationOK

\* The types of everything but the orchestrations.
Types ==
    /\ status \in [Services -> RuntimeStates]
    /\ healthy \subseteq HealthChecked
    /\ faults \in 0..MaxFaults /\ crashes \in 0..MaxCrashes

\* Everything down: of an orchestration that is sound then, what no other
\* caller's commands can disturb.
Down == [s \in Services |-> "stopped"]

\* What a caller may count on before and after a step: on what the adapters
\* report when it is alone, on nothing otherwise.
Views(st, st2) == (st = status /\ st2 = status') \/ (st = Down /\ st2 = Down)

\* One step of caller c, after which it can count on st.
Moves(c, st) ==
    /\ Types'
    /\ \E n : orch' = [orch EXCEPT ![c] = n] /\ OrchestrationOK(n, st)

\* What a view tells: nothing that is stopped seems up, and nothing seems to run
\* but what runs.
LEMMA ViewOfStep ==
  ASSUME NEW st, NEW st2, Views(st, st2), Types
  PROVE  /\ \A s \in Services : status[s] = "stopped" => st[s] = "stopped"
         /\ \A s \in Services : st2[s] = "running" => st = status /\ st2 = status'
         /\ status' = status => st2 = st
BY DEF Views, Down

LEMMA FieldsItHas ==
  ASSUME NEW o, HasFields(o)
  PROVE  Is(o, o.pc, o.target, o.op, o.authority, o.todo, o.checked, o.snap, o.polls,
            o.ready, o.started, o.outcome)
BY DEF Is

-----------------------------------------------------------------------------
(* Every step of a caller keeps its own orchestration sound.                *)

LEMMA RequestStep ==
  ASSUME Types, NEW c \in Callers, NEW st, NEW st2, Views(st, st2), OrchestrationOK(orch[c], st),
          NEW s \in Services,
         NEW op \in Operations, NEW a \in Authorities, Request(c, s, op, a)
  PROVE  Moves(c, st2)
<1> DEFINE todo == SortedIds(Dependencies[s])
           n == IF op = "start" /\ a = "scheduled" /\ todo # <<>>
                THEN [Requested(s, op, a) EXCEPT !.pc = "validate", !.todo = todo]
                ELSE [Requested(s, op, a) EXCEPT !.pc = "snapshot",
                                                 !.todo = CandidateServiceIds(s, op)]
<1>1. /\ a = "scheduled" => op # "restart"
      /\ orch' = [orch EXCEPT ![c] = n]
      /\ UNCHANGED <<status, healthy, faults, crashes>>
  BY DEF Request, Requested
<1>2. OrchestrationOK(n, st)
  BY <1>1, RequestIsSound
<1> HIDE DEF n
<1>3. Types' /\ st2 = st
  BY <1>1, ViewOfStep DEF Types
<1> QED
  BY <1>1, <1>2, <1>3 DEF Moves

LEMMA ValidateStep ==
  ASSUME Types, NEW c \in Callers, NEW st, NEW st2, Views(st, st2), OrchestrationOK(orch[c], st),
          NEW e \in Expectations,
         ValidateDependency(c, e)
  PROVE  Moves(c, st2)
<1> DEFINE o == orch[c]
           passed == [o EXCEPT !.checked = Checked(o, e)]
           n == IF Blocks(e) THEN Finish(o, "dependency_unavailable")
                ELSE IF Tail(o.todo) # <<>>
                THEN [passed EXCEPT !.todo = Tail(@)]
                ELSE [passed EXCEPT !.pc = "snapshot",
                                    !.todo = CandidateServiceIds(o.target, o.op)]
<1>1. /\ o.pc = "validate" /\ orch' = [orch EXCEPT ![c] = n]
      /\ UNCHANGED <<status, healthy, faults, crashes>>
  BY DEF ValidateDependency
<1>2. OrchestrationOK(o, st)
  BY DEF Types
<1> HIDE DEF o
<1>3. o.started = {}
  BY <1>1, <1>2 DEF OrchestrationOK, AskedOK
<1>4. OrchestrationOK(n, st)
  <2>1. CASE Blocks(e)
    BY <1>1, <1>2, <1>3, <2>1, FailureIsSound DEF Refusals
  <2>2. CASE ~Blocks(e)
    BY <1>1, <1>2, <2>2, ValidateIsSound
  <2> QED
    BY <2>1, <2>2
<1> HIDE DEF n
<1>5. Types' /\ st2 = st
  BY <1>1, ViewOfStep DEF Types
<1> QED
  BY <1>1, <1>4, <1>5 DEF Moves

LEMMA CaptureStep ==
  ASSUME Types, NEW c \in Callers, NEW st, NEW st2, Views(st, st2), OrchestrationOK(orch[c], st),
          orch = [d \in Callers |-> orch[d]], CaptureSnapshot(c)
  PROVE  Moves(c, st2)
<1> DEFINE o == orch[c]
           m == [o EXCEPT !.todo = Tail(o.todo)]
           n == [m EXCEPT !.snap = Captured(o, status)]
<1>1. /\ o.pc = "snapshot" /\ Len(o.todo) > 1
      /\ orch' = [orch EXCEPT ![c].todo = Tail(@), ![c].snap = Snapshotted(o)]
      /\ UNCHANGED <<status, healthy, faults, crashes>>
  BY DEF CaptureSnapshot
<1>2. Snapshotted(o) = Captured(o, status)
  BY DEF Snapshotted, Captured
<1>3. orch = [d \in Callers |-> orch[d]] /\ OrchestrationOK(o, st)
      /\ status \in [Services -> RuntimeStates]
  BY DEF Types
<1>4. orch' = [orch EXCEPT ![c] = n]
  BY <1>1, <1>2, <1>3
<1> HIDE DEF o
<1>5. Is(n, o.pc, o.target, o.op, o.authority, Tail(o.todo), o.checked, Captured(o, status),
         o.polls, o.ready, o.started, o.outcome)
  <2> DEFINE q == Tail(o.todo)
             snap == Captured(o, status)
  <2>1. Is(o, o.pc, o.target, o.op, o.authority, o.todo, o.checked, o.snap, o.polls,
           o.ready, o.started, o.outcome)
    BY <1>3, FieldsItHas DEF OrchestrationOK
  <2> HIDE DEF q, snap
  <2>2. Is(m, o.pc, o.target, o.op, o.authority, q, o.checked, o.snap, o.polls,
           o.ready, o.started, o.outcome)
    BY <2>1, FieldUpdates DEF q
  <2> HIDE DEF m
  <2>3. Is([m EXCEPT !.snap = snap], o.pc, o.target, o.op, o.authority, q, o.checked, snap,
           o.polls, o.ready, o.started, o.outcome)
    BY <2>2, FieldUpdates
  <2> QED
    BY <2>3 DEF q, snap
<1>6. Tail(o.todo) # <<>>
  <2>1. o.todo \in Seq(Services) /\ Len(o.todo) > 1
    BY <1>1, <1>3 DEF OrchestrationOK, SnapshotOK
  <2> QED
    BY <2>1, TailLengths
<1> HIDE DEF n
<1>7. OrchestrationOK(n, st)
  BY <1>1, <1>3, <1>5, <1>6, ViewOfStep, SnapshotIsSound
<1>8. Types' /\ st2 = st
  BY <1>1, ViewOfStep DEF Types
<1> QED
  BY <1>4, <1>7, <1>8 DEF Moves

LEMMA PlanStep ==
  ASSUME Types, NEW c \in Callers, NEW st, NEW st2, Views(st, st2), OrchestrationOK(orch[c], st),
          CaptureLastSnapshot(c)
  PROVE  Moves(c, st2)
<1> DEFINE o == orch[c]
           snap == Captured(o, status)
           steps == PlanSteps(o.target, o.op, PlanOrder(o.target, o.op, snap), snap)
           seen == [o EXCEPT !.snap = snap]
           a == [o EXCEPT !.pc = "execute"]
           b == [a EXCEPT !.snap = snap]
           planned == [b EXCEPT !.todo = steps]
           n == IF PlanRefused(o.op, snap, steps) THEN Finish(seen, "plan_refused") ELSE planned
<1>1. /\ o.pc = "snapshot" /\ Len(o.todo) = 1 /\ orch' = [orch EXCEPT ![c] = n]
      /\ UNCHANGED <<status, healthy, faults, crashes>>
  <2>1. snap = Snapshotted(o)
    BY DEF Snapshotted, Captured
  <2>2. planned = [o EXCEPT !.pc = "execute", !.snap = snap, !.todo = steps]
    OBVIOUS
  <2> QED
    BY <2>1, <2>2 DEF CaptureLastSnapshot
<1>2. OrchestrationOK(o, st) /\ status \in [Services -> RuntimeStates]
  BY DEF Types
<1> HIDE DEF o
<1>3. /\ Tail(o.todo) = <<>> /\ o.todo # <<>> /\ o.started = {}
      /\ Is(o, o.pc, o.target, o.op, o.authority, o.todo, o.checked, o.snap, o.polls,
            o.ready, o.started, o.outcome)
  <2>1. o.todo \in Seq(Services) /\ o.started = {} /\ HasFields(o)
    BY <1>1, <1>2 DEF OrchestrationOK, SnapshotOK, AskedOK
  <2> QED
    BY <1>1, <2>1, TailLengths, FieldsItHas
<1> HIDE DEF snap
<1>4. ASSUME PlanRefused(o.op, snap, steps) PROVE OrchestrationOK(n, st)
  <2>1. Is(seen, o.pc, o.target, o.op, o.authority, o.todo, o.checked, snap, o.polls,
           o.ready, o.started, o.outcome)
    BY <1>3, FieldUpdates
  <2>2. n = Finish(seen, "plan_refused")
    BY <1>4
  <2> HIDE DEF seen, n
  <2>3. OrchestrationOK(seen, st)
    BY <1>1, <1>2, <1>3, <2>1, ViewOfStep, SnapshotIsSound DEF snap
  <2>4. seen.pc # "idle" /\ seen.started = {}
    BY <1>1, <1>3, <2>1 DEF Is
  <2> QED
    BY <2>2, <2>3, <2>4, FailureIsSound DEF Refusals
<1>5. ASSUME ~PlanRefused(o.op, snap, steps) PROVE OrchestrationOK(n, st)
  <2>1. n = planned
    BY <1>5
  <2> HIDE DEF steps, n
  <2>2. Is(a, "execute", o.target, o.op, o.authority, o.todo, o.checked, o.snap, o.polls,
           o.ready, o.started, o.outcome)
    BY <1>3, FieldUpdates
  <2> HIDE DEF a
  <2>3. Is(b, "execute", o.target, o.op, o.authority, o.todo, o.checked, snap, o.polls,
           o.ready, o.started, o.outcome)
    BY <2>2, FieldUpdates
  <2> HIDE DEF b
  <2>4. Is(planned, "execute", o.target, o.op, o.authority, steps, o.checked, snap, o.polls,
           o.ready, o.started, o.outcome)
    BY <2>3, FieldUpdates
  <2> HIDE DEF planned
  <2>5. OrchestrationOK(planned, st)
    BY <1>1, <1>2, <1>3, <1>5, <2>4, ViewOfStep, PlanIsSound DEF snap, steps
  <2> QED
    BY <2>1, <2>5
<1>6. OrchestrationOK(n, st)
  BY <1>4, <1>5
<1> HIDE DEF n
<1>7. Types' /\ st2 = st
  BY <1>1, ViewOfStep DEF Types
<1> QED
  BY <1>1, <1>6, <1>7 DEF Moves

LEMMA ReadFailsStep ==
  ASSUME Types, NEW c \in Callers, NEW st, NEW st2, Views(st, st2), OrchestrationOK(orch[c], st),
          ReadFails(c)
  PROVE  Moves(c, st2)
<1> DEFINE o == orch[c]
           n == Finish(o, "read_failed")
<1>1. /\ o.pc \in {"validate", "snapshot"} /\ orch' = [orch EXCEPT ![c] = n]
      /\ faults < MaxFaults /\ faults' = faults + 1
      /\ UNCHANGED <<status, healthy, crashes>>
  BY DEF ReadFails
<1>2. OrchestrationOK(o, st)
  BY DEF Types
<1> HIDE DEF o
<1>3. o.started = {}
  BY <1>1, <1>2 DEF OrchestrationOK, AskedOK
<1>4. OrchestrationOK(n, st)
  BY <1>1, <1>2, <1>3, FailureIsSound DEF Refusals
<1> HIDE DEF n
<1>5. Types' /\ st2 = st
  BY <1>1, ViewOfStep, OrchestrationAssumption DEF Types, OrchestrationAssumption
<1> QED
  BY <1>1, <1>4, <1>5 DEF Moves

\* The step that a running orchestration comes to.
LEMMA NextStep ==
  ASSUME NEW o, NEW st, OrchestrationOK(o, st), o.pc = "execute"
  PROVE  /\ o.todo # <<>> /\ Head(o.todo) \in Step /\ Head(o.todo).serviceId \in Services
         /\ Head(o.todo).kind = "control" =>
               Head(o.todo) = Control(Head(o.todo).serviceId, Head(o.todo).operation)
         /\ \A s \in Services, op \in Operations : Head(o.todo) = Control(s, op) =>
               Head(o.todo).serviceId = s /\ Head(o.todo).operation = op
         /\ \A b \in Services : Head(o.todo) = Wait(b) =>
               Head(o.todo).serviceId = b /\ Head(o.todo).kind = "wait_for_readiness"
         /\ HasFields(o) /\ o.polls \in 0..MaxAttempts
         /\ o.ready \subseteq Services /\ o.started \subseteq Services
<1>1. o.todo # <<>> /\ o.todo \in Seq(Step)
  BY DEF OrchestrationOK, ExecutionOK, SoundSteps
<1>2. Head(o.todo) \in Step
  <2> HIDE DEF Step
  <2> QED
    BY <1>1
<1>3. HasFields(o) /\ o.polls \in 0..MaxAttempts
      /\ o.ready \subseteq Services /\ o.started \subseteq Services
  BY DEF OrchestrationOK, AskedOK
<1> DEFINE h == Head(o.todo)
<1> HIDE DEF h
<1>4. h \in Step
  BY <1>2 DEF h
<1>5. /\ h.serviceId \in Services
      /\ h.kind = "control" => h = Control(h.serviceId, h.operation)
      /\ \A s \in Services, op \in Operations : h = Control(s, op) => h.serviceId = s /\ h.operation = op
      /\ \A b \in Services : h = Wait(b) => h.serviceId = b /\ h.kind = "wait_for_readiness"
  BY <1>4 DEF Step, Control, Wait
<1> QED
  BY <1>1, <1>2, <1>3, <1>5 DEF h

LEMMA ExecuteStep ==
  ASSUME Types, NEW c \in Callers, NEW st, NEW st2, Views(st, st2), OrchestrationOK(orch[c], st),
          ExecuteControl(c)
  PROVE  Moves(c, st2)
<1> DEFINE o == orch[c]
           h == Head(o.todo)
           s == h.serviceId
           started2 == IF h.operation = "start" THEN o.started \cup {s} ELSE o.started
           p == [o EXCEPT !.started = started2]
           n == Proceed(p)
<1>1. /\ o.pc = "execute" /\ h.kind = "control" /\ h.operation # "none"
      /\ status' = [status EXCEPT ![s] = ControlEffect(h.operation)]
      /\ healthy' = IF h.operation = "start" /\ status[s] = "running"
                    THEN healthy ELSE healthy \ {s}
      /\ orch' = [orch EXCEPT ![c] = n]
      /\ UNCHANGED <<faults, crashes>>
  BY DEF ExecuteControl
<1>2. OrchestrationOK(o, st) /\ status \in [Services -> RuntimeStates]
  BY DEF Types
<1> HIDE DEF o
<1>3. /\ o.todo # <<>> /\ h \in Step /\ s \in Services /\ h = Control(s, h.operation)
      /\ \A x \in Services, op \in Operations : h = Control(x, op) => s = x /\ h.operation = op
      /\ \A b \in Services : h = Wait(b) => h.kind = "wait_for_readiness"
      /\ HasFields(o) /\ o.polls \in 0..MaxAttempts
      /\ o.ready \subseteq Services /\ o.started \subseteq Services
  BY <1>1, <1>2, NextStep
<1>4. h.operation \in Operations
  BY <1>1, <1>3 DEF Step
<1>5. Is(p, "execute", o.target, o.op, o.authority, o.todo, o.checked, o.snap, o.polls,
         o.ready, started2, o.outcome)
  <2> HIDE DEF started2
  <2>1. Is(o, "execute", o.target, o.op, o.authority, o.todo, o.checked, o.snap, o.polls,
           o.ready, o.started, o.outcome)
    BY <1>1, <1>3, FieldsItHas
  <2> QED
    BY <2>1, FieldUpdates
<1> HIDE DEF p, h
<1>6. StepEffect(h, o.ready, o.ready, st, st2)
  <2>1. ASSUME NEW x \in Services, status'[x] = "running"
        PROVE  \/ status[x] = "running" /\ h # Control(x, "stop")
               \/ h.operation \in {"start", "restart"}
    <3>1. CASE x = s
      <4>1. status'[x] = ControlEffect(h.operation)
        BY <1>1, <1>2, <3>1
      <4> QED
        BY <1>4, <2>1, <4>1 DEF ControlEffect, Operations
    <3>2. CASE x # s
      <4>1. status'[x] = status[x]
        BY <1>1, <1>2, <3>2
      <4> QED
        BY <1>3, <2>1, <3>2, <4>1 DEF Operations
    <3> QED
      BY <3>1, <3>2
  <2> QED
    <3>1. ASSUME NEW x \in Services, st2[x] = "running"
          PROVE  \/ st[x] = "running" /\ h # Control(x, "stop")
                 \/ h.operation \in {"start", "restart"}
      <4>1. st = status /\ st2 = status'
        BY <3>1, ViewOfStep
      <4> QED
        BY <2>1, <3>1, <4>1
    <3>2. \A b \in Services : h # Wait(b)
      BY <1>1, <1>3
    <3> QED
      BY <3>1, <3>2 DEF StepEffect
<1>7. /\ HasFields(p) /\ p.pc = "execute" /\ p.todo = o.todo /\ p.outcome = o.outcome
      /\ p.target = o.target /\ p.op = o.op /\ p.authority = o.authority
      /\ p.checked = o.checked /\ p.snap = o.snap /\ p.polls = o.polls
      /\ p.ready = o.ready /\ p.started = started2
  BY <1>5 DEF Is
<1>8. p.started \subseteq Services /\ \A x \in p.started \ o.started : h.operation = "start" /\ x = s
  BY <1>3, <1>7
<1>9. OrchestrationOK(n, st2)
  <2> HIDE DEF s, started2
  <2>1. OrchestrationOK(Proceed(p), st2)
    BY <1>1, <1>2, <1>3, <1>6, <1>7, <1>8, ProceedIsSound DEF h, s
  <2> QED
    BY <2>1
<1> HIDE DEF n
<1>10. Types'
  <2>1. status' \in [Services -> RuntimeStates]
    BY <1>1, <1>2 DEF ControlEffect, RuntimeStates
  <2> QED
    BY <1>1, <2>1 DEF Types
<1> QED
  BY <1>1, <1>9, <1>10 DEF Moves

LEMMA ControlFailsStep ==
  ASSUME Types, NEW c \in Callers, NEW st, NEW st2, Views(st, st2), OrchestrationOK(orch[c], st),
          ControlFails(c)
  PROVE  Moves(c, st2)
<1> DEFINE o == orch[c]
           h == Head(o.todo)
           s == h.serviceId
           n == Finish(o, "failed")
<1>1. /\ o.pc = "execute" /\ faults < MaxFaults /\ faults' = faults + 1
      /\ \E result \in {status[s], ControlEffect(h.operation), "unknown"} :
            status' = [status EXCEPT ![s] = result]
      /\ healthy' = healthy \ {s}
      /\ orch' = [orch EXCEPT ![c] = n] /\ crashes' = crashes
  BY DEF ControlFails, CreateFailedResult
<1>2. OrchestrationOK(o, st) /\ status \in [Services -> RuntimeStates]
  BY DEF Types
<1> HIDE DEF o
<1>3. h \in Step /\ s \in Services
  BY <1>1, <1>2, NextStep
<1>4. OrchestrationOK(n, st2)
  <2>1. o.pc # "idle" /\ "failed" \notin Refusals
    BY <1>1 DEF Refusals
  <2> QED
    BY <1>2, <2>1, FailureIsSound
<1> HIDE DEF n, h
<1>5. status' \in [Services -> RuntimeStates]
  BY <1>1, <1>2, <1>3 DEF ControlEffect, RuntimeStates
<1>6. Types'
  <2>1. faults' \in 0..MaxFaults /\ crashes' \in 0..MaxCrashes
    BY <1>1, OrchestrationAssumption DEF Types, OrchestrationAssumption
  <2>2. healthy' \subseteq HealthChecked
    BY <1>1 DEF Types
  <2> QED
    BY <1>5, <2>1, <2>2 DEF Types
<1> QED
  BY <1>1, <1>4, <1>6 DEF Moves

LEMMA SkippedStep ==
  ASSUME Types, NEW c \in Callers, NEW st, NEW st2, Views(st, st2), OrchestrationOK(orch[c], st),
          SkipStep(c)
  PROVE  Moves(c, st2)
<1> DEFINE o == orch[c]
           h == Head(o.todo)
           n == Proceed(o)
<1>1. /\ o.pc = "execute" /\ h.kind = "control" /\ h.operation = "none"
      /\ orch' = [orch EXCEPT ![c] = n]
      /\ UNCHANGED <<status, healthy, faults, crashes>>
  BY DEF SkipStep
<1>2. OrchestrationOK(o, st)
  BY DEF Types
<1> HIDE DEF o
<1>3. /\ HasFields(o) /\ o.polls \in 0..MaxAttempts
      /\ o.ready \subseteq Services /\ o.started \subseteq Services
      /\ \A x \in Services, op \in Operations : h = Control(x, op) => h.operation = op
      /\ \A b \in Services : h = Wait(b) => h.kind = "wait_for_readiness"
  BY <1>1, <1>2, NextStep
<1>4. StepEffect(h, o.ready, o.ready, st, st)
  <2> HIDE DEF h
  <2> QED
    BY <1>1, <1>3 DEF StepEffect, Operations
<1>5. OrchestrationOK(n, st)
  BY <1>1, <1>2, <1>3, <1>4, ProceedIsSound
<1> HIDE DEF n
<1>6. Types' /\ st2 = st
  BY <1>1, ViewOfStep DEF Types
<1> QED
  BY <1>1, <1>5, <1>6 DEF Moves

LEMMA PollReadyStep ==
  ASSUME Types, NEW c \in Callers, NEW st, NEW st2, Views(st, st2), OrchestrationOK(orch[c], st),
          PollReady(c)
  PROVE  Moves(c, st2)
<1> DEFINE o == orch[c]
           h == Head(o.todo)
           s == h.serviceId
           ready2 == o.ready \cup {s}
           p == [o EXCEPT !.ready = ready2]
           n == Proceed(p)
<1>1. /\ o.pc = "execute" /\ h.kind = "wait_for_readiness"
      /\ orch' = [orch EXCEPT ![c] = n]
      /\ UNCHANGED <<status, healthy, faults, crashes>>
  BY DEF PollReady, AtWait
<1>2. OrchestrationOK(o, st)
  BY DEF Types
<1> HIDE DEF o
<1>3. /\ HasFields(o) /\ o.polls \in 0..MaxAttempts /\ s \in Services
      /\ o.ready \subseteq Services /\ o.started \subseteq Services
      /\ \A b \in Services : h = Wait(b) => s = b
  BY <1>1, <1>2, NextStep
<1>4. h.kind = "wait_for_readiness" => \A x \in Services, op \in Operations : h # Control(x, op)
  <2>1. \A x, op : Control(x, op).kind = "control"
    BY DEF Control
  <2> QED
    BY <2>1
<1>5. Is(p, "execute", o.target, o.op, o.authority, o.todo, o.checked, o.snap, o.polls,
         ready2, o.started, o.outcome)
  <2> HIDE DEF ready2
  <2>1. Is(o, "execute", o.target, o.op, o.authority, o.todo, o.checked, o.snap, o.polls,
           o.ready, o.started, o.outcome)
    BY <1>1, <1>3, FieldsItHas
  <2> QED
    BY <2>1, FieldUpdates
<1> HIDE DEF p, h
<1>6. StepEffect(h, o.ready, ready2, st, st)
  BY <1>1, <1>3, <1>4 DEF StepEffect, Operations
<1>7. /\ HasFields(p) /\ p.pc = "execute" /\ p.todo = o.todo /\ p.outcome = o.outcome
      /\ p.target = o.target /\ p.op = o.op /\ p.authority = o.authority
      /\ p.checked = o.checked /\ p.snap = o.snap /\ p.polls = o.polls
      /\ p.ready = ready2 /\ p.started = o.started
  BY <1>5 DEF Is
<1>8. p.ready \subseteq Services /\ p.started \subseteq Services
      /\ StepEffect(Head(o.todo), o.ready, p.ready, st, st)
  BY <1>3, <1>6, <1>7 DEF h
<1> HIDE DEF ready2
<1>9. OrchestrationOK(n, st)
  <2>1. OrchestrationOK(Proceed(p), st)
    BY <1>1, <1>2, <1>3, <1>7, <1>8, ProceedIsSound
  <2> QED
    BY <2>1
<1> HIDE DEF n
<1>10. Types' /\ st2 = st
  BY <1>1, ViewOfStep DEF Types
<1> QED
  BY <1>1, <1>9, <1>10 DEF Moves

\* A wait goes on: only the attempts are counted.
LEMMA PollAgainIsSound ==
  ASSUME NEW o, NEW st, OrchestrationOK(o, st), o.pc = "execute",
         NEW polls \in 0..MaxAttempts,
         NEW n, Is(n, o.pc, o.target, o.op, o.authority, o.todo, o.checked, o.snap, polls,
                   o.ready, o.started, o.outcome)
  PROVE  OrchestrationOK(n, st)
<1>1. HasFields(o) /\ AskedOK(o) /\ CheckedOK(o) /\ SnapshotOK(o, st) /\ ExecutionOK(o, st)
  BY DEF OrchestrationOK
<1>2. /\ HasFields(n) /\ n.pc = "execute" /\ n.todo = o.todo /\ n.outcome = o.outcome
      /\ n.target = o.target /\ n.op = o.op /\ n.authority = o.authority
      /\ n.checked = o.checked /\ n.snap = o.snap /\ n.polls = polls
      /\ n.ready = o.ready /\ n.started = o.started
  BY DEF Is
<1>3. AskedOK(n)
  BY <1>1, <1>2 DEF AskedOK
<1>4. CheckedOK(n)
  BY <1>1, <1>2 DEF CheckedOK
<1>5. SnapshotOK(n, st)
  BY <1>1, <1>2 DEF SnapshotOK
<1>6. ExecutionOK(n, st)
  BY <1>1, <1>2 DEF ExecutionOK
<1> QED
  BY <1>2, <1>3, <1>4, <1>5, <1>6 DEF OrchestrationOK

\* The inductive invariants: of a caller that is alone, and of callers together.
AloneInv ==
    /\ Types /\ orch = [c \in Callers |-> orch[c]]
    /\ \A c \in Callers : OrchestrationOK(orch[c], status)

TogetherInv ==
    /\ Types /\ orch = [c \in Callers |-> orch[c]]
    /\ \A c \in Callers : OrchestrationOK(orch[c], Down)

LEMMA PollNotReadyStep ==
  ASSUME Types, NEW c \in Callers, NEW st, NEW st2, Views(st, st2), OrchestrationOK(orch[c], st),
          PollNotReady(c)
  PROVE  Moves(c, st2)
<1> DEFINE o == orch[c]
           again == [o EXCEPT !.polls = o.polls + 1]
           n == IF o.polls + 1 >= MaxAttempts THEN Finish(o, "failed") ELSE again
<1>1. /\ o.pc = "execute" /\ orch' = [orch EXCEPT ![c] = n]
      /\ UNCHANGED <<status, healthy, faults, crashes>>
  BY DEF PollNotReady, AtWait, NextPoll, CreateFailedResult
<1>2. OrchestrationOK(o, st)
  BY DEF Types
<1> HIDE DEF o
<1>3. HasFields(o) /\ o.polls \in 0..MaxAttempts
  BY <1>1, <1>2, NextStep
<1>4. ASSUME o.polls + 1 >= MaxAttempts PROVE OrchestrationOK(Finish(o, "failed"), st)
  <2>1. o.pc # "idle" /\ "failed" \notin Refusals
    BY <1>1 DEF Refusals
  <2> QED
    BY <1>2, <2>1, FailureIsSound
<1>5. ASSUME ~(o.polls + 1 >= MaxAttempts) PROVE OrchestrationOK(again, st)
  <2> DEFINE polls == o.polls + 1
  <2>1. polls \in 0..MaxAttempts
    BY <1>3, <1>5, OrchestrationAssumption DEF OrchestrationAssumption
  <2>2. Is(o, o.pc, o.target, o.op, o.authority, o.todo, o.checked, o.snap, o.polls,
           o.ready, o.started, o.outcome)
    BY <1>3, FieldsItHas
  <2> HIDE DEF polls
  <2>3. Is([o EXCEPT !.polls = polls], o.pc, o.target, o.op, o.authority, o.todo, o.checked,
           o.snap, polls, o.ready, o.started, o.outcome)
    BY <2>2, FieldUpdates
  <2>4. OrchestrationOK([o EXCEPT !.polls = polls], st)
    BY <1>1, <1>2, <2>1, <2>3, PollAgainIsSound
  <2> QED
    BY <2>4 DEF polls
<1> HIDE DEF again
<1>6. OrchestrationOK(n, st)
  BY <1>4, <1>5
<1> HIDE DEF n
<1>7. Types' /\ st2 = st
  BY <1>1, ViewOfStep DEF Types
<1> QED
  BY <1>1, <1>6, <1>7 DEF Moves

\* A wait that is given up fails the orchestration.
LEMMA WaitFailsStep ==
  ASSUME Types, NEW c \in Callers, NEW st, NEW st2, Views(st, st2), OrchestrationOK(orch[c], st),
          PollTimesOut(c) \/ PollFails(c)
  PROVE  Moves(c, st2)
<1> DEFINE o == orch[c]
           n == Finish(o, "failed")
<1>1. /\ o.pc = "execute" /\ orch' = [orch EXCEPT ![c] = n]
      /\ faults' = faults \/ (faults < MaxFaults /\ faults' = faults + 1)
      /\ UNCHANGED <<status, healthy, crashes>>
  BY DEF PollTimesOut, PollFails, AtWait, CreateFailedResult
<1>2. OrchestrationOK(o, st)
  BY DEF Types
<1> HIDE DEF o
<1>3. OrchestrationOK(n, st)
  <2>1. o.pc # "idle" /\ "failed" \notin Refusals
    BY <1>1 DEF Refusals
  <2> QED
    BY <1>2, <2>1, FailureIsSound
<1> HIDE DEF n
<1>4. Types' /\ st2 = st
  BY <1>1, ViewOfStep, OrchestrationAssumption DEF Types, OrchestrationAssumption
<1> QED
  BY <1>1, <1>3, <1>4 DEF Moves

LEMMA ReturnStep ==
  ASSUME Types, NEW c \in Callers, NEW st, NEW st2, Views(st, st2), OrchestrationOK(orch[c], st),
          Return(c)
  PROVE  Moves(c, st2)
<1>1. orch' = [orch EXCEPT ![c] = Idle] /\ UNCHANGED <<status, healthy, faults, crashes>>
  BY DEF Return
<1>2. Types' /\ OrchestrationOK(Idle, st2)
  BY <1>1, IdleIsSound DEF Types
<1> QED
  BY <1>1, <1>2 DEF Moves

\* What the runtime does by itself only takes services down.
LEMMA RuntimeStep ==
  ASSUME Types, NEW s \in Services, BecomesHealthy(s) \/ ServiceCrashes(s)
  PROVE  Types' /\ orch' = orch /\ Quieter(status, status')
<1>1. /\ orch' = orch /\ faults' = faults /\ healthy' \subseteq HealthChecked
      /\ crashes' \in 0..MaxCrashes
      /\ status' = status \/ (status[s] = "running" /\ status' = [status EXCEPT ![s] = "failed"])
  <2>1. CASE BecomesHealthy(s)
    BY <2>1 DEF BecomesHealthy, Types
  <2>2. CASE ServiceCrashes(s)
    <3>1. /\ status[s] = "running" /\ crashes < MaxCrashes /\ crashes' = crashes + 1
          /\ status' = [status EXCEPT ![s] = "failed"] /\ healthy' = healthy \ {s}
          /\ orch' = orch /\ faults' = faults
      BY <2>2 DEF ServiceCrashes
    <3>2. crashes' \in 0..MaxCrashes
      BY <3>1, OrchestrationAssumption DEF Types, OrchestrationAssumption
    <3>3. healthy' \subseteq HealthChecked
      BY <3>1 DEF Types
    <3> QED
      BY <3>1, <3>2, <3>3
  <2> QED
    BY <2>1, <2>2
<1>2. status' \in [Services -> RuntimeStates] /\ Quieter(status, status')
  BY <1>1 DEF Quieter, RuntimeStates, Types
<1> QED
  BY <1>1, <1>2 DEF Types

\* Every action of a caller, together.
LEMMA CallerMoves ==
  ASSUME Types, orch = [d \in Callers |-> orch[d]], NEW c \in Callers,
         NEW st, NEW st2, Views(st, st2), OrchestrationOK(orch[c], st),
         \/ \E s \in Services, op \in Operations, a \in Authorities : Request(c, s, op, a)
         \/ CallerStep(c) \/ FailingStep(c) \/ Return(c)
  PROVE  Moves(c, st2)
<1>1. ASSUME NEW s \in Services, NEW op \in Operations, NEW a \in Authorities,
             Request(c, s, op, a)
      PROVE  Moves(c, st2)
  BY <1>1, RequestStep
<1>2. ASSUME CallerStep(c) PROVE Moves(c, st2)
  <2>1. ASSUME NEW e \in Expectations, ValidateDependency(c, e) PROVE Moves(c, st2)
    BY <2>1, ValidateStep
  <2>2. CASE CaptureSnapshot(c)
    BY <2>2, CaptureStep
  <2>3. CASE CaptureLastSnapshot(c)
    BY <2>3, PlanStep
  <2>4. CASE ExecuteControl(c)
    BY <2>4, ExecuteStep
  <2>5. CASE SkipStep(c)
    BY <2>5, SkippedStep
  <2>6. CASE PollReady(c)
    BY <2>6, PollReadyStep
  <2>7. CASE PollNotReady(c)
    BY <2>7, PollNotReadyStep
  <2> QED
    BY <1>2, <2>1, <2>2, <2>3, <2>4, <2>5, <2>6, <2>7 DEF CallerStep
<1>3. ASSUME FailingStep(c) PROVE Moves(c, st2)
  <2>1. CASE ReadFails(c)
    BY <2>1, ReadFailsStep
  <2>2. CASE ControlFails(c)
    BY <2>2, ControlFailsStep
  <2>3. CASE PollTimesOut(c) \/ PollFails(c)
    BY <2>3, WaitFailsStep
  <2> QED
    BY <1>3, <2>1, <2>2, <2>3 DEF FailingStep
<1>4. ASSUME Return(c) PROVE Moves(c, st2)
  BY <1>4, ReturnStep
<1> QED
  BY <1>1, <1>2, <1>3, <1>4

\* A step is a caller's or the runtime's.
LEMMA StepsOfOrchestration ==
  ASSUME OrchestrationNext
  PROVE  \/ \E s \in Services : BecomesHealthy(s) \/ ServiceCrashes(s)
         \/ \E c \in Callers :
               \/ \E s \in Services, op \in Operations, a \in Authorities : Request(c, s, op, a)
               \/ CallerStep(c) \/ FailingStep(c) \/ Return(c)
BY DEF OrchestrationNext

\* One caller: its orchestration is sound for what the adapters report.
LEMMA AloneStep ==
  ASSUME OneCaller, AloneInv, [OrchestrationNext]_orchestrationVars
  PROVE  AloneInv'
<1>0. /\ Types /\ orch = [d \in Callers |-> orch[d]]
      /\ \A c \in Callers : OrchestrationOK(orch[c], status)
  BY DEF AloneInv
<1>1. CASE UNCHANGED orchestrationVars
  BY <1>1 DEF orchestrationVars, AloneInv, Types
<1>2. ASSUME NEW s \in Services, BecomesHealthy(s) \/ ServiceCrashes(s) PROVE AloneInv'
  <2>1. Types' /\ orch' = orch /\ Quieter(status, status')
    BY <1>0, <1>2, RuntimeStep
  <2>2. \A c \in Callers : OrchestrationOK(orch[c], status')
    BY <1>0, <2>1, QuietChange
  <2> QED
    BY <1>0, <2>1, <2>2 DEF AloneInv
<1>3. ASSUME NEW c \in Callers,
             \/ \E s \in Services, op \in Operations, a \in Authorities : Request(c, s, op, a)
             \/ CallerStep(c) \/ FailingStep(c) \/ Return(c)
      PROVE  AloneInv'
  <2>1. Moves(c, status')
    BY <1>0, <1>3, CallerMoves DEF Views
  <2>2. PICK n : orch' = [orch EXCEPT ![c] = n] /\ OrchestrationOK(n, status')
    BY <2>1 DEF Moves
  <2>3. \A d \in Callers : d = c
    BY DEF OneCaller
  <2>4. orch' = [d \in Callers |-> orch'[d]] /\ \A d \in Callers : orch'[d] = n
    BY <1>0, <2>2, <2>3
  <2> QED
    BY <2>1, <2>2, <2>4 DEF AloneInv, Moves
<1> QED
  BY <1>1, <1>2, <1>3, StepsOfOrchestration

\* Any callers: each orchestration keeps what does not depend on the others.
LEMMA TogetherStep ==
  ASSUME TogetherInv, [OrchestrationNext]_orchestrationVars
  PROVE  TogetherInv'
<1>0. /\ Types /\ orch = [d \in Callers |-> orch[d]]
      /\ \A c \in Callers : OrchestrationOK(orch[c], Down)
  BY DEF TogetherInv
<1>1. CASE UNCHANGED orchestrationVars
  BY <1>1 DEF orchestrationVars, TogetherInv, Types
<1>2. ASSUME NEW s \in Services, BecomesHealthy(s) \/ ServiceCrashes(s) PROVE TogetherInv'
  <2>1. Types' /\ orch' = orch
    BY <1>0, <1>2, RuntimeStep
  <2> QED
    BY <1>0, <2>1 DEF TogetherInv
<1>3. ASSUME NEW c \in Callers,
             \/ \E s \in Services, op \in Operations, a \in Authorities : Request(c, s, op, a)
             \/ CallerStep(c) \/ FailingStep(c) \/ Return(c)
      PROVE  TogetherInv'
  <2>1. Moves(c, Down)
    BY <1>0, <1>3, CallerMoves DEF Views
  <2>2. PICK n : orch' = [orch EXCEPT ![c] = n] /\ OrchestrationOK(n, Down)
    BY <2>1 DEF Moves
  <2>3. /\ orch' = [d \in Callers |-> orch'[d]]
        /\ \A d \in Callers : OrchestrationOK(orch'[d], Down)
    BY <1>0, <2>2
  <2> QED
    BY <2>1, <2>3 DEF TogetherInv, Moves
<1> QED
  BY <1>1, <1>2, <1>3, StepsOfOrchestration

\* Both invariants hold initially.
LEMMA SoundAtFirst ==
  OrchestrationInit => AloneInv /\ TogetherInv
<1> SUFFICES ASSUME OrchestrationInit PROVE AloneInv /\ TogetherInv
  OBVIOUS
<1>1. \A c \in Callers :
          orch[c] = Idle /\ OrchestrationOK(orch[c], status) /\ OrchestrationOK(orch[c], Down)
  BY IdleIsSound DEF OrchestrationInit
<1>2. Types /\ orch = [c \in Callers |-> orch[c]]
  BY OrchestrationAssumption DEF OrchestrationInit, Types, OrchestrationAssumption
<1> QED
  BY <1>1, <1>2 DEF AloneInv, TogetherInv

\* What an orchestration owes to itself, whoever else starts and stops services.
OrchestrationsAreJustified ==
    /\ OrchestrationTypeOK
    /\ StartsAfterDependenciesReady
    /\ ScheduledStartRespectsAvailability
    /\ StartsOnlyWhatWasDown

\* The command about to be sent is the first of the sound steps that are left.
LEMMA StepAboutToRun ==
  ASSUME NEW st, NEW c \in Callers, OrchestrationOK(orch[c], st),
         NEW op \in Operations, NEW s \in Services, AboutTo(c, op, s)
  PROVE  LET q == orch[c].todo
         IN  /\ SoundSteps(q, orch[c].target, orch[c].op, orch[c].snap, orch[c].ready, st)
             /\ 1 \in 1..Len(q) /\ q[1].operation = op /\ q[1].serviceId = s
<1> DEFINE o == orch[c]
<1>1. OrchestrationOK(o, st) /\ o.pc = "execute" /\ Head(o.todo) = Control(s, op)
  BY DEF AboutTo
<1> HIDE DEF o
<1>2. o.todo # <<>> /\ SoundSteps(o.todo, o.target, o.op, o.snap, o.ready, st)
  BY <1>1 DEF OrchestrationOK, ExecutionOK
<1>3. 1 \in 1..Len(o.todo) /\ Head(o.todo) = o.todo[1]
  BY <1>2 DEF SoundSteps
<1>4. Control(s, op).operation = op /\ Control(s, op).serviceId = s
  BY DEF Control
<1> QED
  BY <1>1, <1>2, <1>3, <1>4 DEF o

\* What follows from the part of the invariant that needs no view of the runtime ...
LEMMA TogetherIsJustified ==
  ASSUME Types, NEW st, \A c \in Callers : OrchestrationOK(orch[c], st)
  PROVE  OrchestrationsAreJustified
<1>2. OrchestrationTypeOK
  <2>1. ASSUME NEW c \in Callers
        PROVE  /\ orch[c].pc \in {"idle", "validate", "snapshot", "execute", "done"}
               /\ orch[c].pc = "execute" => orch[c].todo \in Seq(Step) /\ orch[c].todo # <<>>
               /\ orch[c].pc \in {"validate", "snapshot"} =>
                     orch[c].todo \in Seq(Services) /\ orch[c].todo # <<>>
               /\ DOMAIN orch[c].snap \subseteq Services
               /\ DOMAIN orch[c].checked \subseteq Services
               /\ orch[c].ready \subseteq Services /\ orch[c].started \subseteq Services
               /\ orch[c].polls \in 0..MaxAttempts
    <3> DEFINE o == orch[c]
    <3>1. OrchestrationOK(o, st)
      OBVIOUS
    <3> HIDE DEF o
    <3> QED
      BY <3>1 DEF OrchestrationOK, AskedOK, CheckedOK, SnapshotOK, ExecutionOK, SoundSteps, o
  <2> QED
    BY <2>1 DEF OrchestrationTypeOK, Types
<1>5. StartsAfterDependenciesReady
  <2> SUFFICES ASSUME NEW c \in Callers, NEW s \in Services, AboutTo(c, "start", s),
                      orch[c].op = "start", NEW b \in Deps[s]
               PROVE  b \in orch[c].ready
    BY DEF StartsAfterDependenciesReady
  <2> DEFINE q == orch[c].todo
  <2>1. /\ SoundSteps(q, orch[c].target, orch[c].op, orch[c].snap, orch[c].ready, st)
        /\ 1 \in 1..Len(q) /\ q[1].operation = "start" /\ q[1].serviceId = s
    BY StepAboutToRun DEF Operations
  <2> HIDE DEF q
  <2> QED
    BY <2>1 DEF SoundSteps, StartsAreOrdered
<1>7. ScheduledStartRespectsAvailability
  <2> SUFFICES ASSUME NEW c \in Callers, orch[c].authority = "scheduled", orch[c].op = "start",
                      NEW s \in orch[c].started \ {orch[c].target}
               PROVE  s \in DOMAIN orch[c].checked /\ orch[c].checked[s] \in {"available", "manual"}
    BY DEF ScheduledStartRespectsAvailability
  <2>1. CheckedOK(orch[c])
    BY DEF OrchestrationOK
  <2> QED
    BY <2>1 DEF CheckedOK
<1>8. StartsOnlyWhatWasDown
  <2>1. ASSUME NEW c \in Callers, orch[c].op = "start", NEW s \in orch[c].started
        PROVE  orch[c].snap[s] = "stopped"
    BY <2>1 DEF OrchestrationOK, SnapshotOK
  <2>2. ASSUME NEW c \in Callers,
               orch[c].outcome \in {"dependency_unavailable", "read_failed", "plan_refused"}
        PROVE  orch[c].started = {}
    BY <2>2 DEF OrchestrationOK, AskedOK, Refusals
  <2> QED
    BY <2>1, <2>2 DEF StartsOnlyWhatWasDown
<1> QED
  BY <1>2, <1>5, <1>7, <1>8 DEF OrchestrationsAreJustified

\* ... and from the whole of it.
LEMMA AloneIsOrdered ==
  AloneInv => OrchestrationIsOrdered
<1> SUFFICES ASSUME AloneInv PROVE OrchestrationIsOrdered
  OBVIOUS
<1>1. \A c \in Callers : OrchestrationOK(orch[c], status)
  BY DEF AloneInv
<1>2. StopsDependentsFirst
  <2> SUFFICES ASSUME NEW c \in Callers, NEW s \in Services, NEW op \in {"stop", "restart"},
                      AboutTo(c, op, s), NEW d \in Rev[s]
               PROVE  status[d] # "running"
    BY DEF StopsDependentsFirst, Rev
  <2> DEFINE q == orch[c].todo
  <2>1. /\ SoundSteps(q, orch[c].target, orch[c].op, orch[c].snap, orch[c].ready, status)
        /\ 1 \in 1..Len(q) /\ q[1].operation = op /\ q[1].serviceId = s
    BY <1>1, StepAboutToRun DEF Operations
  <2> HIDE DEF q
  <2> QED
    BY <2>1 DEF SoundSteps, StopsAreOrdered
<1>3. SuccessfulStopLeavesDependentsDown
  BY <1>1 DEF SuccessfulStopLeavesDependentsDown, OrchestrationOK, ExecutionOK
<1>4. OrchestrationsAreJustified
  BY <1>1, TogetherIsJustified DEF AloneInv
<1> QED
  BY <1>2, <1>3, <1>4 DEF OrchestrationIsOrdered, OrchestrationsAreJustified

\* One orchestration at a time stops dependents before what they depend on, starts
\* a service only after it saw its dependencies ready, leaves nothing running that
\* a successful stop was to take down, starts no dependency that the schedules keep
\* down and nothing that was up (orchestrate-registered-service-control.ts).  Two at
\* once do not: nothing keeps the second from starting what the first has stopped.
THEOREM OrchestrationsAreOrdered ==
  ASSUME OneCaller
  PROVE  OrchestrationSpec => []OrchestrationIsOrdered
<1>1. AloneInv /\ [OrchestrationNext]_orchestrationVars => AloneInv'
  BY AloneStep
<1> QED
  BY <1>1, SoundAtFirst, AloneIsOrdered, PTL DEF OrchestrationSpec

\* Any number of orchestrations at once, which share no lock: each still starts a
\* service only after it saw all its dependencies ready, starts no dependency that
\* the schedules keep down, and starts only what its own snapshot saw stopped
\* (orchestrate-registered-service-control.ts, plan-registered-service-orchestration.ts).
THEOREM OrchestrationsKeepTheirWord ==
  OrchestrationSpec => []OrchestrationsAreJustified
<1>1. TogetherInv /\ [OrchestrationNext]_orchestrationVars => TogetherInv'
  BY TogetherStep
<1>2. TogetherInv => OrchestrationsAreJustified
  BY TogetherIsJustified DEF TogetherInv
<1> QED
  BY <1>1, <1>2, SoundAtFirst, PTL DEF OrchestrationSpec
-----------------------------------------------------------------------------
(* The lifecycle of the application.                                        *)

Reactions == {Stop(l) : l \in Loops} \cup {Observe(l) : l \in Loops} \cup {StopBackup}

\* The reactions queued by different loops, or for different purposes, differ.
LEMMA ReactionsDiffer ==
  ASSUME LifecycleAssumption, NEW l \in Loops, NEW m \in Loops
  PROVE  /\ Stop(l) = Stop(m) => l = m
         /\ Observe(l) = Observe(m) => l = m
         /\ Stop(l) # Observe(m) /\ Stop(l) # StopBackup /\ Observe(l) # StopBackup
         /\ Stop(l) \in Reactions /\ Observe(l) \in Reactions /\ StopBackup \in Reactions
  BY DEF Stop, Observe, StopBackup, Reactions, LifecycleAssumption

\* What no step undoes, in one place: the types but for the queue, ...
Plain ==
    /\ server \in {"opening", "listening", "failed", "closing", "closed"}
    /\ requests \in 0..MaxRequests
    /\ phase \in [Loops -> {"new", "cycle", "timer", "done"}]
    /\ stopping \subseteq Loops
    /\ completion \in [Loops -> {"none", "stopped", "failed", "incomplete", "conflict", "blocked"}]
    /\ backup \in {"new", "armed", "stopped"} /\ backupTick \in {"idle", "busy"}
    /\ shutdown \in {"none", "stopping", "completed", "failed"}
    /\ closing \in {"none", "pending", "done", "failed"}
    /\ \A l \in Loops : completion[l] = "none" <=> phase[l] # "done"
    /\ exitCode \in {0, 1}

\* ... and the queue.
LEMMA TypesByParts == TypeOK <=> Plain /\ micro \subseteq Reactions
  BY DEF TypeOK, Plain, Reactions

\* A request for shutdown queues a stop for every loop and loses no reaction.
LEMMA ShutdownRequestInvariant ==
  ASSUME LifecycleAssumption, IInv,
         NEW state \in {"opening", "listening", "failed", "closing", "closed"},
         NEW reactions \in SUBSET micro, RequestShutdown(state, reactions),
         UNCHANGED <<requests, phase, stopping, completion, backup, backupTick>>,
         exitCode' \in {1, exitCode},
         \A l \in Loops : Stop(l) \in micro => Stop(l) \in reactions,
         StopBackup \in micro => StopBackup \in reactions,
         \A l \in Loops : Observe(l) \in micro => Observe(l) \in reactions \/ exitCode' = 1
  PROVE  IInv'
<1>1. Plain /\ micro \subseteq Reactions
  BY TypesByParts DEF IInv
<1>2. \A l \in Loops : Stop(l) \in Reactions
  BY ReactionsDiffer
<1>3. StopBackup \in Reactions
  BY DEF Reactions
<1>4. /\ shutdown' = IF shutdown = "none" THEN "stopping" ELSE shutdown
      /\ micro' = IF shutdown = "none"
                  THEN reactions \cup {Stop(l) : l \in Loops} \cup {StopBackup} ELSE reactions
  BY DEF RequestShutdown
<1>5. Plain'
  BY <1>1 DEF Plain, RequestShutdown
<1>6. micro' \subseteq Reactions
  BY <1>1, <1>2, <1>3, <1>4
<1>7. DrainedWhenSettled'
  BY <1>4 DEF IInv, DrainedWhenSettled, Settled
<1>8. StopInv'
  BY <1>4 DEF IInv, StopInv
<1>9. CauseInv'
  BY <1>4 DEF IInv, CauseInv
<1>10. ObserverInv'
  BY <1>1, <1>4 DEF IInv, ObserverInv, Plain
<1> QED
  BY <1>5, <1>6, <1>7, <1>8, <1>9, <1>10, TypesByParts DEF IInv, TypeOK, Plain, Reactions

\* The end of a loop queues its observer; the stop it answers may leave the queue.
LEMMA CompleteInvariant ==
  ASSUME LifecycleAssumption, IInv, NEW l \in Loops, phase[l] # "done",
         NEW kind \in {"stopped", "failed", "incomplete", "conflict", "blocked"},
         Complete(l, kind), NEW taken \in SUBSET {Stop(l)},
         micro' = (micro \ taken) \cup Observed(l),
         stopping' \in {stopping, stopping \cup {l}},
         kind = "stopped" \/ l \in stopping' => shutdown # "none",
         phase[l] = "new" => kind = "stopped",
         UNCHANGED <<server, requests, backup, backupTick, shutdown, closing, exitCode>>
  PROVE  IInv'
<1>1. Plain /\ micro \subseteq Reactions
  BY TypesByParts DEF IInv
<1>2. /\ phase' = [phase EXCEPT ![l] = "done"]
      /\ completion' = [completion EXCEPT ![l] = kind]
  BY DEF Complete
<1>3. \A m \in Loops : /\ Observe(m) \in micro => Observe(m) \in micro'
                       /\ m # l /\ Stop(m) \in micro => Stop(m) \in micro'
  BY ReactionsDiffer
<1>4. StopBackup \in micro => StopBackup \in micro'
  BY ReactionsDiffer
<1>5. Plain'
  BY <1>1, <1>2 DEF Plain
<1>6. micro' \subseteq Reactions
  BY <1>1, ReactionsDiffer DEF Observed
<1>7. DrainedWhenSettled'
  BY <1>1, <1>2 DEF IInv, DrainedWhenSettled, Settled, Plain
<1>8. StopInv'
  BY <1>1, <1>2, <1>3, <1>4 DEF IInv, StopInv, Plain
<1>9. CauseInv'
  <2>1. Observed(l) \subseteq {Observe(m) : m \in Loops}
    BY DEF Observed
  <2> QED
    BY <1>1, <1>2, <2>1 DEF IInv, CauseInv, Plain
<1>10. ObserverInv'
  BY <1>1, <1>2, <1>3 DEF IInv, ObserverInv, Plain, Observed
<1> QED
  BY <1>5, <1>6, <1>7, <1>8, <1>9, <1>10, TypesByParts DEF IInv, TypeOK, Plain, Reactions
-----------------------------------------------------------------------------
\* No step breaks the invariant.
LEMMA NextInvariant ==
  ASSUME LifecycleAssumption, IInv, Next
  PROVE  IInv'
<1>1. Plain /\ micro \subseteq Reactions
  BY TypesByParts DEF IInv
<1>2. CASE Listening
  <2>1. IF shutdown = "none"
        THEN /\ phase' = [l \in Loops |-> IF phase[l] = "new" THEN "cycle" ELSE phase[l]]
             /\ backup' = IF backup = "new" THEN "armed" ELSE backup
        ELSE UNCHANGED <<phase, backup>>
    BY <1>2 DEF Listening, MayStart
  <2>2. /\ server' = "listening" /\ micro = {}
        /\ UNCHANGED <<requests, stopping, completion, backupTick, shutdown, closing, exitCode, micro>>
    BY <1>2 DEF Listening, MacroTask
  <2>3. \A l \in Loops : phase'[l] = "done" <=> phase[l] = "done"
    BY <1>1, <2>1 DEF Plain
  <2>4. Plain'
    BY <1>1, <2>1, <2>2, <2>3 DEF Plain
  <2>5. DrainedWhenSettled' /\ CauseInv' /\ ObserverInv'
    BY <2>2, <2>3 DEF IInv, DrainedWhenSettled, Settled, CauseInv, ObserverInv
  <2>6. StopInv'
    BY <2>1, <2>2, <2>3 DEF IInv, StopInv
  <2> QED
    BY <1>1, <2>2, <2>4, <2>5, <2>6 DEF IInv, TypeOK, Plain, Reactions
<1>3. CASE ListenFails
  BY <1>3, ShutdownRequestInvariant DEF ListenFails, MacroTask
<1>4. CASE Signal
  <2>1. server \in {"opening", "listening", "failed", "closing", "closed"}
    BY <1>1 DEF Plain
  <2> QED
    BY <1>4, <2>1, ShutdownRequestInvariant DEF Signal, MacroTask
<1>5. CASE UnhandledError
  <2>1. server \in {"opening", "listening", "failed", "closing", "closed"}
    BY <1>1 DEF Plain
  <2> QED
    BY <1>5, <2>1, ShutdownRequestInvariant DEF UnhandledError, MacroTask
<1>6. ASSUME NEW l \in Loops, TimerFires(l) \/ (CycleCompletes(l) /\ l \notin stopping) PROVE IInv'
  <2>1. \E next \in {"cycle", "timer"} : phase' = [phase EXCEPT ![l] = next]
    BY <1>6 DEF TimerFires, CycleCompletes, AfterCycle
  <2>2. /\ phase[l] # "done" /\ UNCHANGED <<server, requests, stopping, completion, backup, backupTick>>
        /\ UNCHANGED <<shutdown, closing, exitCode, micro>>
    BY <1>6 DEF TimerFires, CycleCompletes, AfterCycle
  <2>3. \A m \in Loops : phase'[m] = "done" <=> phase[m] = "done"
    BY <1>1, <2>1, <2>2 DEF Plain
  <2>4. Plain'
    BY <1>1, <2>1, <2>2, <2>3 DEF Plain
  <2>5. DrainedWhenSettled' /\ CauseInv' /\ ObserverInv' /\ StopInv'
    BY <2>2, <2>3 DEF IInv, DrainedWhenSettled, Settled, CauseInv, ObserverInv, StopInv
  <2> QED
    BY <1>1, <2>2, <2>4, <2>5 DEF IInv, TypeOK, Plain, Reactions
<1>7. ASSUME NEW l \in Loops, CycleCompletes(l), l \in stopping PROVE IInv'
  <2>1. Complete(l, "stopped") /\ micro' = micro \cup Observed(l) /\ phase[l] = "cycle"
    BY <1>7 DEF CycleCompletes, AfterCycle, MacroTask
  <2>2. shutdown # "none"
    BY <1>7 DEF IInv, CauseInv
  <2>3. {} \in SUBSET {Stop(l)} /\ micro' = (micro \ {}) \cup Observed(l)
    BY <2>1
  <2>4. UNCHANGED <<server, requests, stopping, backup, backupTick, shutdown, closing, exitCode>>
    BY <1>7 DEF CycleCompletes
  <2>5. stopping' \in {stopping, stopping \cup {l}} /\ phase[l] # "done" /\ phase[l] # "new"
    BY <2>1, <2>4
  <2> QED
    BY <2>1, <2>2, <2>3, <2>4, <2>5, CompleteInvariant
<1>8. ASSUME NEW l \in Loops, CycleFails(l) \/ \E r \in BadResults[l] : CycleEndsLoop(l, r)
      PROVE  IInv'
  <2>1. PICK kind \in {"failed", "incomplete", "conflict", "blocked"} : Complete(l, kind)
    BY <1>8 DEF CycleFails, CycleEndsLoop, LifecycleAssumption
  <2>2. /\ micro' = (micro \ {}) \cup Observed(l) /\ phase[l] = "cycle"
        /\ UNCHANGED <<server, requests, stopping, backup, backupTick, shutdown, closing, exitCode>>
    BY <1>8 DEF CycleFails, CycleEndsLoop, MacroTask
  <2>3. l \in stopping => shutdown # "none"
    BY DEF IInv, CauseInv
  <2>4. /\ kind \in {"stopped", "failed", "incomplete", "conflict", "blocked"} /\ kind # "stopped"
        /\ {} \in SUBSET {Stop(l)} /\ stopping' \in {stopping, stopping \cup {l}}
        /\ (kind = "stopped" \/ l \in stopping') => shutdown # "none"
        /\ phase[l] # "done" /\ phase[l] # "new"
    BY <2>1, <2>2, <2>3
  <2> QED
    BY <2>1, <2>2, <2>4, CompleteInvariant
<1>9. ASSUME NEW l \in Loops, StopLoop(l) \/ CancelFails(l) PROVE IInv'
  <2>1. Stop(l) \in micro /\ shutdown # "none"
    <3>1. Stop(l) \in micro
      BY <1>9 DEF StopLoop, CancelFails
    <3> QED
      BY <3>1, ReactionsDiffer DEF IInv, CauseInv
  <2>2. CASE phase[l] \in {"new", "timer"}
    <3>1. PICK kind \in {"stopped", "failed"} :
              Complete(l, kind) /\ (phase[l] = "new" => kind = "stopped")
      BY <1>9, <2>2 DEF StopLoop, CancelFails, StopsNow
    <3>2. /\ micro' = (micro \ {Stop(l)}) \cup Observed(l) /\ stopping' = stopping \cup {l}
          /\ UNCHANGED <<server, requests, backup, backupTick, shutdown, closing, exitCode>>
      BY <1>9, <2>2 DEF StopLoop, CancelFails, StopsNow
    <3> QED
      BY <2>1, <2>2, <3>1, <3>2, CompleteInvariant
  <2>3. CASE phase[l] \notin {"new", "timer"}
    <3>1. /\ stopping' = IF phase[l] = "done" THEN stopping ELSE stopping \cup {l}
          /\ micro' = micro \ {Stop(l)}
          /\ UNCHANGED <<server, requests, phase, completion, backup, backupTick>>
          /\ UNCHANGED <<shutdown, closing, exitCode>>
      BY <1>9, <2>3 DEF StopLoop, CancelFails, StopsNow
    <3>2. \A m \in Loops : /\ Observe(m) \in micro => Observe(m) \in micro'
                           /\ m # l /\ Stop(m) \in micro => Stop(m) \in micro'
      BY <3>1, ReactionsDiffer
    <3>3. StopBackup \in micro => StopBackup \in micro'
      BY <3>1, ReactionsDiffer
    <3>4. Plain' /\ micro' \subseteq Reactions
      BY <1>1, <3>1 DEF Plain
    <3>5. DrainedWhenSettled' /\ CauseInv' /\ ObserverInv'
      BY <2>1, <3>1, <3>2 DEF IInv, DrainedWhenSettled, Settled, CauseInv, ObserverInv
    <3>6. StopInv'
      BY <3>1, <3>2, <3>3 DEF IInv, StopInv
    <3> QED
      BY <3>4, <3>5, <3>6 DEF IInv, TypeOK, Plain, Reactions
  <2> QED
    BY <2>2, <2>3
<1>10. ASSUME NEW l \in Loops, ObserveCompletion(l) PROVE IInv'
  <2>1. /\ Observe(l) \in micro
        /\ UNCHANGED <<requests, phase, stopping, completion, backup, backupTick>>
    BY <1>10 DEF ObserveCompletion
  <2>2. CASE completion[l] # "stopped"
    <3>1. exitCode' = 1 /\ RequestShutdown(server, micro \ {Observe(l)})
      BY <1>10, <2>2 DEF ObserveCompletion, Abnormal
    <3>2. server \in {"opening", "listening", "failed", "closing", "closed"}
      BY <1>1 DEF Plain
    <3>3. \A m \in Loops : Stop(m) \in micro => Stop(m) \in micro \ {Observe(l)}
      BY ReactionsDiffer
    <3>4. StopBackup \in micro => StopBackup \in micro \ {Observe(l)}
      BY ReactionsDiffer
    <3> QED
      BY <2>1, <3>1, <3>2, <3>3, <3>4, ShutdownRequestInvariant
  <2>3. CASE completion[l] = "stopped"
    <3>1. micro' = micro \ {Observe(l)} /\ UNCHANGED <<exitCode, shutdown, server, closing>>
      BY <1>10, <2>3 DEF ObserveCompletion, Abnormal
    <3>2. shutdown # "none"
      BY <2>3 DEF IInv, CauseInv
    <3>3. \A m \in Loops : /\ m # l /\ Observe(m) \in micro => Observe(m) \in micro'
                           /\ Stop(m) \in micro => Stop(m) \in micro'
      BY <3>1, ReactionsDiffer
    <3>4. StopBackup \in micro => StopBackup \in micro'
      BY <3>1, ReactionsDiffer
    <3>5. Plain' /\ micro' \subseteq Reactions
      BY <1>1, <2>1, <3>1 DEF Plain
    <3>6. DrainedWhenSettled' /\ CauseInv' /\ StopInv'
      BY <2>1, <3>1, <3>2, <3>3, <3>4 DEF IInv, DrainedWhenSettled, Settled, CauseInv, StopInv
    <3>7. ObserverInv'
      BY <2>1, <2>3, <3>1, <3>2, <3>3 DEF IInv, ObserverInv
    <3> QED
      BY <3>5, <3>6, <3>7 DEF IInv, TypeOK, Plain, Reactions
  <2> QED
    BY <2>2, <2>3
<1>11. CASE StopBackupLoop
  <2>1. /\ backup' # "armed" /\ micro' = micro \ {StopBackup} /\ StopBackup \in micro
        /\ backup' \in {"new", "armed", "stopped"}
        /\ UNCHANGED <<server, requests, phase, stopping, completion, backupTick>>
        /\ UNCHANGED <<shutdown, closing, exitCode>>
    BY <1>1, <1>11 DEF StopBackupLoop, Plain
  <2>2. \A m \in Loops : /\ Observe(m) \in micro => Observe(m) \in micro'
                         /\ Stop(m) \in micro => Stop(m) \in micro'
    BY <2>1, ReactionsDiffer
  <2>3. Plain' /\ micro' \subseteq Reactions
    BY <1>1, <2>1 DEF Plain
  <2>4. DrainedWhenSettled' /\ CauseInv' /\ ObserverInv' /\ StopInv'
    BY <2>1, <2>2 DEF IInv, DrainedWhenSettled, Settled, CauseInv, ObserverInv, StopInv
  <2> QED
    BY <2>3, <2>4 DEF IInv, TypeOK, Plain, Reactions
<1>12. CASE BackupTickStarts \/ BackupTickEnds \/ RequestArrives \/ RequestEnds \/ ServerCloses
  <2>1. /\ UNCHANGED <<phase, stopping, completion, backup, shutdown, exitCode, micro>>
        /\ backupTick' \in {"idle", "busy"} /\ closing' \in {closing, "done"}
        /\ server' \in {server, "closed"}
    BY <1>1, <1>12 DEF BackupTickStarts, BackupTickEnds, RequestArrives, RequestEnds,
                       ServerCloses, Plain
  <2>2. requests' \in 0..MaxRequests
    BY <1>1, <1>12 DEF BackupTickStarts, BackupTickEnds, RequestArrives, RequestEnds,
                       ServerCloses, Plain, LifecycleAssumption
  <2> QED
    BY <2>1, <2>2 DEF IInv, TypeOK, DrainedWhenSettled, Settled, StopInv, CauseInv, ObserverInv
<1>13. CASE SettleShutdown
  <2>1. /\ micro = {} /\ shutdown = "stopping" /\ shutdown' \in {"completed", "failed"}
        /\ \A l \in Loops : phase[l] = "done"
        /\ exitCode' \in {1, exitCode}
        /\ UNCHANGED <<server, requests, phase, stopping, completion, backup, backupTick>>
        /\ UNCHANGED <<closing, micro>>
    BY <1>13 DEF SettleShutdown, MacroTask, WorkStopped
  <2> QED
    BY <2>1 DEF IInv, TypeOK, DrainedWhenSettled, Settled, StopInv, CauseInv, ObserverInv
<1> QED
  BY <1>2, <1>3, <1>4, <1>5, <1>6, <1>7, <1>8, <1>9, <1>10, <1>11, <1>12, <1>13 DEF Next, Progress
-----------------------------------------------------------------------------
\* It holds of every state of the process.
LEMMA LifecycleInvariance ==
  ASSUME LifecycleAssumption
  PROVE  Spec => []IInv
<1>1. Init => IInv
  BY DEF Init, IInv, TypeOK, DrainedWhenSettled, Settled, StopInv, CauseInv, ObserverInv,
         LifecycleAssumption
<1>2. IInv /\ [Next]_vars => IInv'
  <2>1. IInv /\ UNCHANGED vars => IInv'
    BY DEF IInv, TypeOK, DrainedWhenSettled, Settled, StopInv, CauseInv, ObserverInv, vars
  <2> QED
    BY <2>1, NextInvariant
<1> QED
  BY <1>1, <1>2, PTL DEF Spec

\* When a shutdown is reported over, no scheduler has a cycle in flight, and a
\* scheduler that ends has the application end, with an exit code that tells an
\* abnormal end even in the middle of a clean shutdown (graceful-shutdown.ts).
THEOREM NoLoopIsLost ==
  ASSUME LifecycleAssumption
  PROVE  Spec => []ShutdownLosesNoLoop
<1>1. IInv => ShutdownLosesNoLoop
  BY DEF IInv, ShutdownLosesNoLoop, ObserverInv, NoSilentSchedulerDeath, MacroTask
<1> QED
  BY <1>1, LifecycleInvariance, PTL

\* From the first shutdown request on no scheduler cycle and no backup tick begins,
\* although the stops are only queued then: timers and ticks wait behind them
\* (graceful-shutdown.ts, the scheduler-loop.ts files).
THEOREM NothingBeginsAfterRequest ==
  ASSUME LifecycleAssumption
  PROVE  Spec => NoWorkAfterShutdownRequest
<1> DEFINE Quiet == shutdown # "none" =>
                        /\ \A l \in Loops : phase'[l] = "cycle" => phase[l] = "cycle"
                        /\ backupTick' = "busy" => backupTick = "busy"
<1>1. IInv /\ Next => Quiet
  <2> SUFFICES ASSUME IInv, Next, shutdown # "none" PROVE Quiet
    OBVIOUS
  <2>1. phase \in [Loops -> {"new", "cycle", "timer", "done"}]
    BY DEF IInv, TypeOK
  <2>2. ASSUME NEW l \in Loops, TimerFires(l) PROVE FALSE
    BY <2>2 DEF TimerFires, MacroTask, IInv, StopInv
  <2>3. ASSUME BackupTickStarts PROVE FALSE
    BY <2>3 DEF BackupTickStarts, MacroTask, IInv, StopInv
  <2>4. \A l \in Loops : phase'[l] = "cycle" => phase[l] = "cycle"
    BY <2>1, <2>2 DEF Next, Progress, Listening, MayStart, ListenFails, Signal, UnhandledError,
        CycleCompletes, AfterCycle, CycleEndsLoop, CycleFails, StopLoop, CancelFails, Complete,
        ObserveCompletion, BackupTickStarts, BackupTickEnds, StopBackupLoop, RequestArrives,
        RequestEnds, ServerCloses, SettleShutdown
  <2>5. backupTick' = "busy" => backupTick = "busy"
    BY <2>3 DEF Next, Progress, Listening, ListenFails, Signal, UnhandledError, TimerFires,
        CycleCompletes, CycleEndsLoop, CycleFails, StopLoop, CancelFails, ObserveCompletion,
        BackupTickEnds, StopBackupLoop, RequestArrives, RequestEnds, ServerCloses, SettleShutdown
  <2> QED
    BY <2>4, <2>5
<1> QED
  BY <1>1, LifecycleInvariance, PTL DEF Spec, NoWorkAfterShutdownRequest
=============================================================================
