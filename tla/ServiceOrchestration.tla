------------------------ MODULE ServiceOrchestration ------------------------
(***************************************************************************)
(* Dependency-aware control of registered services: planning               *)
(* (plan-registered-service-orchestration.ts), execution                   *)
(* (orchestrate-registered-service-control.ts) and the readiness wait      *)
(* (wait-for-registered-service-readiness.ts).                             *)
(*                                                                         *)
(* One Caller is one client of OrchestrateRegisteredServiceControl: the    *)
(* reconciliation scheduler ("scheduled", which never asks for a restart)  *)
(* or the one administrative request that the HTTP mutation gate admits at *)
(* a time ("manual").  Scheduler and request run in one process with no    *)
(* lock between them, so their steps interleave at every await.            *)
(***************************************************************************)
EXTENDS ServiceDependencyGraph

CONSTANTS
    Services,        \* registered service ids, naturals
    Deps,            \* [Services -> SUBSET Services], direct dependencies
    Supported,       \* [Services -> SUBSET Operations], supportedOperations
    HealthChecked,   \* services whose readiness policy has mode "health"
    Callers,         \* concurrent users of the orchestrator
    Speaks,          \* [Callers -> SUBSET Authorities], the authority each acts with
    MaxAttempts,     \* readiness polls: ceil(timeout / pollInterval) + 1
    MaxFaults,       \* bound on failed reads and failed control commands
    MaxCrashes       \* bound on services that die by themselves

Operations == {"start", "stop", "restart"}
Authorities == {"manual", "scheduled"}
RuntimeStates == {"running", "stopped", "failed", "unknown"}
Expectations == {"available", "unavailable", "manual", "disabled"}

ASSUME OrchestrationAssumption ==
    /\ Services \subseteq Nat /\ IsFiniteSet(Services)
    /\ Deps \in [Services -> SUBSET Services]
    /\ CreateDependencyGraph(Deps) = "ok"
    /\ Supported \in [Services -> SUBSET Operations]
    /\ HealthChecked \subseteq Services
    /\ Speaks \in [Callers -> SUBSET Authorities]
    /\ MaxAttempts \in Nat \ {0, 1}
    /\ MaxFaults \in Nat /\ MaxCrashes \in Nat

VARIABLES
    status,        \* [Services -> RuntimeStates], what the adapters report
    healthy,       \* services whose health check passes
    orch,          \* [Callers -> orchestration in progress]
    faults, crashes

orchestrationVars == <<status, healthy, orch, faults, crashes>>
-----------------------------------------------------------------------------
\* What createDispatchingReadinessReader answers for s.
ReadyNow(s) == IF s \in HealthChecked THEN s \in healthy ELSE status[s] = "running"

Control(s, op) == [kind |-> "control", serviceId |-> s, operation |-> op]
Wait(s) == [kind |-> "wait_for_readiness", serviceId |-> s, operation |-> "none"]

\* f itself; TLC computes its values when it compares it, and keeps them.
Tabulated(f) == CHOOSE g \in {f} : g = f

\* The graph object built once at startup (graphPromise).
Dependencies == Tabulated([s \in Services |-> TransitiveDependenciesOf(Deps, s)])
Dependents == Tabulated([s \in Services |-> TransitiveDependentsOf(Deps, s)])
DependenciesFirst ==
    Tabulated([ids \in SUBSET Services |-> TopologicalDependenciesFirst(Deps, ids)])
DependentsFirst ==
    Tabulated([ids \in SUBSET Services |-> TopologicalDependentsFirst(Deps, ids)])

\* getCandidateServiceIds: the services an orchestration may touch, in order.
CandidateServiceIds(target, op) ==
    IF op = "start" THEN DependenciesFirst[Dependencies[target] \cup {target}]
    ELSE DependentsFirst[Dependents[target] \cup {target}]

\* Variant: everything is started first, then everything is waited for.
PlanStartThenWait(order, snap) ==
    LET down == SelectSeq(order, LAMBDA s : snap[s] # "running")
    IN  [i \in DOMAIN down |-> Control(down[i], "start")] \o [i \in DOMAIN order |-> Wait(order[i])]

\* planStart: running services are only waited for.
PlanStart(order, snap) ==
    FlattenSeq([i \in DOMAIN order |->
        IF snap[order[i]] = "running"
        THEN <<Wait(order[i])>>
        ELSE <<Control(order[i], "start"), Wait(order[i])>>])

\* planStop: services already stopped keep a step without an operation.
PlanStop(order, snap) ==
    [i \in DOMAIN order |->
        Control(order[i], IF snap[order[i]] = "stopped" THEN "none" ELSE "stop")]

\* planRestart: stop the active dependents, restart the target, start the
\* dependents again.
PlanRestart(target, stopOrder) ==
    [i \in DOMAIN stopOrder |-> Control(stopOrder[i], "stop")]
    \o <<Control(target, "restart"), Wait(target)>>
    \o FlattenSeq([i \in DOMAIN stopOrder |->
           <<Control(Reverse(stopOrder)[i], "start"), Wait(Reverse(stopOrder)[i])>>])

\* The order a plan works through.  A restart passes the active dependents to
\* topologicalDependentsFirst, which closes them under dependents, so that its
\* stopOrder may hold dependents that are not active.
PlanOrder(target, op, snap) ==
    IF op = "restart"
    THEN DependentsFirst[{s \in Dependents[target] : snap[s] # "stopped"}]
    ELSE CandidateServiceIds(target, op)

PlanSteps(target, op, order, snap) ==
    CASE op = "start" -> PlanStart(order, snap)
      [] op = "stop" -> PlanStop(order, snap)
      [] op = "restart" -> PlanRestart(target, order)

\* Variant: failed and unknown services are not refused.
UnsupportedOnly(op, snap, steps) ==
    \E i \in DOMAIN steps :
        steps[i].operation \notin Supported[steps[i].serviceId] \cup {"none"}

\* planStart refuses failed or unknown services; validatePlannedOperations
\* refuses unsupported operations and repeated steps.
PlanRefused(op, snap, steps) ==
    \/ op = "start" /\ \E s \in DOMAIN snap : snap[s] \in {"failed", "unknown"}
    \/ \E i \in DOMAIN steps :
          steps[i].operation \notin Supported[steps[i].serviceId] \cup {"none"}
    \/ Len(steps) # Cardinality(ToSet(steps))
-----------------------------------------------------------------------------
Idle == [pc |-> "idle", target |-> 0, op |-> "none", authority |-> "none",
         todo |-> <<>>, checked |-> <<>>, snap |-> <<>>, polls |-> 0,
         ready |-> {}, started |-> {}, outcome |-> "none"]

OrchestrationInit ==
    /\ status \in [Services -> RuntimeStates]
    /\ healthy = {s \in HealthChecked : status[s] = "running"}
    /\ orch = [c \in Callers |-> Idle]
    /\ faults = 0 /\ crashes = 0

Finish(o, outcome) == [o EXCEPT !.pc = "done", !.todo = <<>>, !.outcome = outcome]

\* execute(): a scheduled start first looks at its dependencies' availability.
Request(c, s, op, authority) ==
    LET o == [Idle EXCEPT !.target = s, !.op = op, !.authority = authority]
        deps == SortedIds(Dependencies[s])
    IN  /\ orch[c].pc = "idle"
        /\ authority \in Speaks[c]
        /\ authority = "scheduled" => op # "restart"
        /\ orch' = [orch EXCEPT ![c] =
               IF op = "start" /\ authority = "scheduled" /\ deps # <<>>
               THEN [o EXCEPT !.pc = "validate", !.todo = deps]
               ELSE [o EXCEPT !.pc = "snapshot", !.todo = CandidateServiceIds(s, op)]]
        /\ UNCHANGED <<status, healthy, faults, crashes>>

\* Variant: only a disabled dependency blocks.
DisabledBlocks(expectation) == expectation = "disabled"

\* What of a dependency blocks a scheduled start.
Blocks(expectation) == expectation \in {"unavailable", "disabled"}

\* validateScheduledDependencyAvailability, one awaited dependency at a time.
\* Clock, policies and overrides move on meanwhile: any answer is possible.
Checked(o, expectation) ==
    [s \in DOMAIN o.checked \cup {Head(o.todo)} |->
        IF s = Head(o.todo) THEN expectation ELSE o.checked[s]]

ValidateDependency(c, expectation) ==
    LET o == orch[c]
        passed == [o EXCEPT !.checked = Checked(o, expectation)]
    IN  /\ o.pc = "validate"
        /\ orch' = [orch EXCEPT ![c] =
               IF Blocks(expectation)
               THEN Finish(o, "dependency_unavailable")
               ELSE IF Tail(o.todo) # <<>>
               THEN [passed EXCEPT !.todo = Tail(@)]
               ELSE [passed EXCEPT !.pc = "snapshot",
                                   !.todo = CandidateServiceIds(o.target, o.op)]]
        /\ UNCHANGED <<status, healthy, faults, crashes>>

\* captureSnapshots, one awaited status read at a time.
Snapshotted(o) ==
    [s \in DOMAIN o.snap \cup {Head(o.todo)} |->
        IF s = Head(o.todo) THEN status[s] ELSE o.snap[s]]

CaptureSnapshot(c) ==
    LET o == orch[c]
    IN  /\ o.pc = "snapshot" /\ Len(o.todo) > 1
        /\ orch' = [orch EXCEPT ![c].todo = Tail(@), ![c].snap = Snapshotted(o)]
        /\ UNCHANGED <<status, healthy, faults, crashes>>

\* The last read; the plan is then made, or refused, without yielding.
CaptureLastSnapshot(c) ==
    LET o == orch[c]
    IN  /\ o.pc = "snapshot" /\ Len(o.todo) = 1
        /\ \E snap \in {Snapshotted(o)} :
           \E order \in {PlanOrder(o.target, o.op, snap)} :
           \E steps \in {PlanSteps(o.target, o.op, order, snap)} :
              orch' = [orch EXCEPT ![c] =
                  IF PlanRefused(o.op, snap, steps)
                  THEN Finish([o EXCEPT !.snap = snap], "plan_refused")
                  ELSE [o EXCEPT !.pc = "execute", !.snap = snap, !.todo = steps]]
        /\ UNCHANGED <<status, healthy, faults, crashes>>

\* A policy, override or status read that throws abandons the orchestration
\* before any effect.
ReadFails(c) ==
    /\ orch[c].pc \in {"validate", "snapshot"}
    /\ faults < MaxFaults
    /\ faults' = faults + 1
    /\ orch' = [orch EXCEPT ![c] = Finish(@, "read_failed")]
    /\ UNCHANGED <<status, healthy, crashes>>

\* The steps after the first; none left means success.
Proceed(o) ==
    IF Tail(o.todo) = <<>> THEN Finish(o, "successful")
    ELSE [o EXCEPT !.todo = Tail(@), !.polls = 0]

ControlEffect(op) == IF op = "stop" THEN "stopped" ELSE "running"

\* A control step the adapter carries out.
ExecuteControl(c) ==
    LET o == orch[c]
        step == Head(o.todo)
        s == step.serviceId
    IN  /\ o.pc = "execute" /\ step.kind = "control" /\ step.operation # "none"
        /\ status' = [status EXCEPT ![s] = ControlEffect(step.operation)]
        /\ healthy' = IF step.operation = "start" /\ status[s] = "running"
                      THEN healthy ELSE healthy \ {s}
        /\ orch' = [orch EXCEPT ![c] =
               Proceed([o EXCEPT !.started =
                   IF step.operation = "start" THEN @ \cup {s} ELSE @])]
        /\ UNCHANGED <<faults, crashes>>

\* Variant: the loop goes on after a failed step.
IgnoreFailure(o) == Proceed(o)

\* The result of an orchestration one of whose steps failed.
CreateFailedResult(o) == Finish(o, "failed")

\* A control step that throws (command failed or timed out): the runtime may
\* have carried it out, or not; the orchestration stops there.
ControlFails(c) ==
    LET o == orch[c]
        step == Head(o.todo)
        s == step.serviceId
    IN  /\ o.pc = "execute" /\ step.kind = "control" /\ step.operation # "none"
        /\ faults < MaxFaults
        /\ faults' = faults + 1
        /\ \E result \in {status[s], ControlEffect(step.operation), "unknown"} :
              status' = [status EXCEPT ![s] = result]
        /\ healthy' = healthy \ {s}
        /\ orch' = [orch EXCEPT ![c] = CreateFailedResult(o)]
        /\ UNCHANGED crashes

\* A stop step planned without an operation is recorded as skipped.
SkipStep(c) ==
    LET o == orch[c]
    IN  /\ o.pc = "execute"
        /\ Head(o.todo).kind = "control" /\ Head(o.todo).operation = "none"
        /\ orch' = [orch EXCEPT ![c] = Proceed(o)]
        /\ UNCHANGED <<status, healthy, faults, crashes>>

AtWait(o) == o.pc = "execute" /\ Head(o.todo).kind = "wait_for_readiness"

PollReady(c) ==
    LET o == orch[c]
        s == Head(o.todo).serviceId
    IN  /\ AtWait(o) /\ ReadyNow(s)
        /\ orch' = [orch EXCEPT ![c] = Proceed([o EXCEPT !.ready = @ \cup {s}])]
        /\ UNCHANGED <<status, healthy, faults, crashes>>

\* Variants: the attempts are not counted, or not limited.
UncountedPoll(o) == o
UnlimitedPoll(o) == [o EXCEPT !.polls = @ + 1]

\* One more attempt, or the timeout.
NextPoll(o) ==
    IF o.polls + 1 >= MaxAttempts THEN CreateFailedResult(o)
    ELSE [o EXCEPT !.polls = @ + 1]

\* Not ready: sleep and poll again, or time out when the attempts are spent.
PollNotReady(c) ==
    LET o == orch[c]
    IN  /\ AtWait(o) /\ ~ReadyNow(Head(o.todo).serviceId)
        /\ orch' = [orch EXCEPT ![c] = NextPoll(o)]
        /\ UNCHANGED <<status, healthy, faults, crashes>>

\* The wall clock is past the deadline although attempts are left: the checks
\* were slow, or the clock jumped.
PollTimesOut(c) ==
    /\ AtWait(orch[c]) /\ ~ReadyNow(Head(orch[c].todo).serviceId)
    /\ orch' = [orch EXCEPT ![c] = CreateFailedResult(@)]
    /\ UNCHANGED <<status, healthy, faults, crashes>>

\* A readiness read that throws fails the step.
PollFails(c) ==
    /\ AtWait(orch[c]) /\ faults < MaxFaults
    /\ faults' = faults + 1
    /\ orch' = [orch EXCEPT ![c] = CreateFailedResult(@)]
    /\ UNCHANGED <<status, healthy, crashes>>

\* The caller takes the result and is free to ask again.
Return(c) ==
    /\ orch[c].pc = "done"
    /\ orch' = [orch EXCEPT ![c] = Idle]
    /\ UNCHANGED <<status, healthy, faults, crashes>>
-----------------------------------------------------------------------------
\* The environment: a health check starts to pass; a service dies.
BecomesHealthy(s) ==
    /\ s \in HealthChecked \ healthy /\ status[s] = "running"
    /\ healthy' = healthy \cup {s}
    /\ UNCHANGED <<status, orch, faults, crashes>>

ServiceCrashes(s) ==
    /\ status[s] = "running" /\ crashes < MaxCrashes
    /\ crashes' = crashes + 1
    /\ status' = [status EXCEPT ![s] = "failed"]
    /\ healthy' = healthy \ {s}
    /\ UNCHANGED <<orch, faults>>

CallerStep(c) ==
    \/ \E e \in Expectations : ValidateDependency(c, e)
    \/ CaptureSnapshot(c) \/ CaptureLastSnapshot(c)
    \/ ExecuteControl(c) \/ SkipStep(c) \/ PollReady(c) \/ PollNotReady(c)

FailingStep(c) == ReadFails(c) \/ ControlFails(c) \/ PollTimesOut(c) \/ PollFails(c)

OrchestrationNext ==
    \/ \E c \in Callers, s \in Services, op \in Operations, a \in Authorities :
          Request(c, s, op, a)
    \/ \E c \in Callers : CallerStep(c) \/ FailingStep(c) \/ Return(c)
    \/ \E s \in Services : BecomesHealthy(s) \/ ServiceCrashes(s)

OrchestrationSpec == OrchestrationInit /\ [][OrchestrationNext]_orchestrationVars

\* An awaited step of the process is eventually taken: Node runs every settled
\* promise and every expired timer, and the adapters' commands time out.
\* Nothing is assumed of the wall clock, so the deadline need not ever pass.
OrchestrationFairSpec == OrchestrationSpec /\ \A c \in Callers : WF_orchestrationVars(CallerStep(c))
-----------------------------------------------------------------------------
Step == [kind : {"control", "wait_for_readiness"}, serviceId : Services,
         operation : Operations \cup {"none"}]

\* Every variable keeps its type: an orchestration in progress has something left
\* to do, and no wait polls more often than computeMaxAttempts allows.
OrchestrationTypeOK ==
    /\ status \in [Services -> RuntimeStates]
    /\ healthy \subseteq HealthChecked
    /\ \A c \in Callers :
          /\ orch[c].pc \in {"idle", "validate", "snapshot", "execute", "done"}
          /\ orch[c].pc = "execute" => orch[c].todo \in Seq(Step) /\ orch[c].todo # <<>>
          /\ orch[c].pc \in {"validate", "snapshot"} =>
                orch[c].todo \in Seq(Services) /\ orch[c].todo # <<>>
          /\ DOMAIN orch[c].snap \subseteq Services
          /\ DOMAIN orch[c].checked \subseteq Services
          /\ orch[c].ready \subseteq Services /\ orch[c].started \subseteq Services
          /\ orch[c].polls \in 0..MaxAttempts
    /\ faults \in 0..MaxFaults /\ crashes \in 0..MaxCrashes

\* Caller c is about to run control operation op on service s.
AboutTo(c, op, s) ==
    orch[c].pc = "execute" /\ Head(orch[c].todo) = Control(s, op)

\* Before a service is stopped, or restarted, none of its direct dependents is
\* running (FR-021: stops process dependents before their dependencies).
StopsDependentsFirst ==
    \A c \in Callers, s \in Services :
        AboutTo(c, "stop", s) \/ AboutTo(c, "restart", s) =>
            \A d \in DirectDependents(Deps)[s] : status[d] # "running"

\* A start orchestration starts a service only after it has itself observed
\* every direct dependency ready (FR-021), whatever crashes meanwhile.
StartsAfterDependenciesReady ==
    \A c \in Callers, s \in Services :
        AboutTo(c, "start", s) /\ orch[c].op = "start" => Deps[s] \subseteq orch[c].ready

\* A successful stop leaves the target and every transitive dependent down.
SuccessfulStopLeavesDependentsDown ==
    \A c \in Callers :
        orch[c].pc = "done" /\ orch[c].outcome = "successful" /\ orch[c].op = "stop" =>
            \A s \in Dependents[orch[c].target] \cup {orch[c].target} :
                status[s] # "running"

\* A scheduled start starts no dependency that it has not itself found
\* available or under manual control (validateScheduledDependencyAvailability
\* covers every service the plan made later, from fresh snapshots, may start).
ScheduledStartRespectsAvailability ==
    \A c \in Callers :
        orch[c].authority = "scheduled" /\ orch[c].op = "start" =>
            \A s \in orch[c].started \ {orch[c].target} :
                s \in DOMAIN orch[c].checked /\ orch[c].checked[s] \in {"available", "manual"}

\* An orchestration that fails before it has run a step has started nothing,
\* and one never starts what its snapshot saw running.
StartsOnlyWhatWasDown ==
    \A c \in Callers :
        /\ orch[c].op = "start" =>
              \A s \in orch[c].started : orch[c].snap[s] = "stopped"
        /\ orch[c].outcome \in {"dependency_unavailable", "read_failed", "plan_refused"} =>
              orch[c].started = {}

\* What orchestrate-registered-service-control.ts owes to the dependency graph,
\* whatever changes between its snapshots and its commands.
OrchestrationIsOrdered ==
    /\ OrchestrationTypeOK
    /\ StopsDependentsFirst
    /\ StartsAfterDependenciesReady
    /\ SuccessfulStopLeavesDependentsDown
    /\ ScheduledStartRespectsAvailability
    /\ StartsOnlyWhatWasDown

\* Every orchestration ends: a readiness wait that never succeeds times out.
OrchestrationEnds ==
    \A c \in Callers : (orch[c].pc # "idle") ~> (orch[c].pc = "done")

\* A restart starts again only dependents that were active before it.
RestartRestoresOnlyActiveDependents ==
    \A c \in Callers :
        orch[c].op = "restart" =>
            \A s \in orch[c].started : orch[c].snap[s] # "stopped"
=============================================================================
