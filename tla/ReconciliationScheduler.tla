----------------------- MODULE ReconciliationScheduler -----------------------
(***************************************************************************)
(* The service-availability reconciliation scheduler: one cycle            *)
(* (run-service-availability-reconciliation-scheduler-cycle.ts) reads the  *)
(* durable cursor, runs a tick over the minutes since then                 *)
(* (run-service-availability-reconciliation-tick.ts), executes every       *)
(* occurrence behind a durable claim, prunes expired overrides and         *)
(* completed claims, and advances the cursor.                              *)
(*                                                                         *)
(* Around it: the wall clock, which may step back; an administrator who    *)
(* edits overrides, policies and services while a cycle is between two     *)
(* awaits; failing stores and adapters; and a process that dies at any     *)
(* point and that an operator starts again (the unit has Restart=no).      *)
(*                                                                         *)
(* cursor, claims, policy and override live in files that are replaced     *)
(* atomically, so they survive a crash; the cycle's own state does not.    *)
(***************************************************************************)
EXTENDS Integers, FiniteSets, ServiceDependencyGraph

CONSTANTS
    Services,        \* registered service ids, naturals
    Deps,            \* [Services -> SUBSET Services], direct dependencies
    Policies,        \* availability policies an administrator may store
    BasePolicy,      \* [Services -> Policies], the environment's policies
    TicksPerMinute,  \* clock readings that fall in one minute
    MaxInterval,     \* minutes one cycle may cover (8 days in the code)
    Horizon,         \* bound: the last minute the clock reaches
    MaxFaults,       \* bound on failing reads, writes and commands, and crashes
    MaxEdits         \* bound on what administrators and services do meanwhile

Minutes == 1..Horizon
Minute(instant) == instant \div TicksPerMinute    \* getCanonicalTargetTimestamp
Instants == {t \in 0..((Horizon + 1) * TicksPerMinute) : Minute(t) \in Minutes}
OverrideKinds == {"keep_available", "suspend_schedule"}

\* A policy: its mode and, when scheduled, the minutes inside its windows.
Policy == [mode : {"always", "manual", "disabled", "scheduled"}, open : SUBSET Nat]
Override == [kind : OverrideKinds \cup {"none"}, expiresAt : Nat]
Occurrence == [serviceId : Services, operation : {"start", "stop"}, scheduledFor : Minutes]

ASSUME SchedulerAssumption ==
    /\ Services \subseteq Nat /\ IsFiniteSet(Services)
    /\ Deps \in [Services -> SUBSET Services]
    /\ Policies \subseteq Policy
    /\ BasePolicy \in [Services -> Policies]
    /\ TicksPerMinute \in Nat \ {0}
    /\ MaxInterval \in Nat \ {0}
    /\ Horizon \in Nat \ {0}
    /\ MaxFaults \in Nat /\ MaxEdits \in Nat

NoCursor == 0                                  \* no cursor file yet; minutes start at 1
NoOverride == [kind |-> "none", expiresAt |-> 0]

VARIABLES
    now,        \* the wall clock
    cursor,     \* completedThrough of the cursor file
    claims,     \* occurrences in the claim file
    policy,     \* [Services -> Policies], base policy or the stored one that replaces it
    override,   \* [Services -> Override]
    status,     \* [Services -> {"running", "stopped"}]
    pc,         \* where the cycle awaits
    seen,       \* currentCursor
    from,       \* fromTimestamp
    until,      \* toTimestamp
    todo,       \* services the current loop has not reached
    pending,    \* occurrences collected and not executed yet
    current,    \* {the occurrence being executed}
    report,     \* "incomplete" once the tick report holds a failure
    pruneReport,\* the same for the override pruning report
    pruneAt,    \* pruningInstant
    found,      \* the expired override the pruner is about to remove
    attempts,   \* history: [Occurrence -> Nat], calls of the orchestrator
    generated,  \* history: [Services -> minutes whose transitions were generated]
    origin,     \* history: where the first completed interval began
    previous,   \* history: the cursor before its last advance
    faults, edits

durable == <<cursor, claims>>
admin == <<policy, override>>
cycle == <<seen, from, until, todo, pending, current, report, pruneReport, pruneAt, found>>
history == <<attempts, generated, origin, previous>>
vars == <<now, durable, admin, status, pc, cycle, history, faults, edits>>
-----------------------------------------------------------------------------
\* evaluateServiceAvailabilityPolicy at a minute.
Evaluate(p, minute) ==
    CASE p.mode = "always" -> "available"
      [] p.mode = "scheduled" -> IF minute \in p.open THEN "available" ELSE "unavailable"
      [] OTHER -> p.mode

\* isServiceAvailabilityOverrideExpiredAt.
Expired(o, instant) == instant >= o.expiresAt

\* evaluateServiceAvailabilityWithOverride for service s at the clock's time.
EffectiveAvailability(s) ==
    IF override[s] = NoOverride \/ Expired(override[s], now)
    THEN Evaluate(policy[s], Minute(now))
    ELSE IF policy[s].mode = "disabled" THEN "disabled"
    ELSE IF override[s].kind = "keep_available" THEN "available" ELSE "manual"

\* decideServiceAvailabilityReconciliation.
Decision(s) ==
    IF EffectiveAvailability(s) = "available" /\ status[s] = "stopped" THEN "start"
    ELSE IF EffectiveAvailability(s) = "unavailable" /\ status[s] = "running" THEN "stop"
    ELSE "none"

\* calculateServiceAvailabilityPolicyTransitions over (lo, hi], as occurrences.
Transitions(s, p, lo, hi) ==
    {o \in [serviceId : {s}, operation : {"start", "stop"}, scheduledFor : (lo + 1)..hi] :
        /\ p.mode = "scheduled"
        /\ (o.scheduledFor \in p.open) # (o.scheduledFor - 1 \in p.open)
        /\ o.operation = IF o.scheduledFor \in p.open THEN "start" ELSE "stop"}

Dependencies == [s \in Services |-> TransitiveDependenciesOf(Deps, s)]
Dependents == [s \in Services |-> TransitiveDependentsOf(Deps, s)]

\* orderCollectedOccurrences: p must be executed before o.  By time; at one
\* instant stops before starts, stops dependents first, starts dependencies
\* first.  The code breaks the remaining ties by id, the model leaves them open.
Precedes(p, o) ==
    \/ p.scheduledFor < o.scheduledFor
    \/ /\ p.scheduledFor = o.scheduledFor
       /\ \/ p.operation = "stop" /\ o.operation = "start"
          \/ /\ p.operation = o.operation
             /\ p.serviceId \in IF o.operation = "stop" THEN Dependents[o.serviceId]
                                ELSE Dependencies[o.serviceId]

NextOccurrence(o) == o \in pending /\ \A p \in pending : ~Precedes(p, o)
NextService(s) == s \in todo /\ \A t \in todo : s <= t
-----------------------------------------------------------------------------
Init ==
    /\ now \in Instants
    /\ cursor = NoCursor /\ claims = {}
    /\ policy = BasePolicy
    /\ override = [s \in Services |-> NoOverride]
    /\ status \in [Services -> {"running", "stopped"}]
    /\ pc = "rest"
    /\ seen = NoCursor /\ from = 0 /\ until = 0
    /\ todo = {} /\ pending = {} /\ current = {}
    /\ report = "complete" /\ pruneReport = "complete"
    /\ pruneAt = 0 /\ found = NoOverride
    /\ attempts = [o \in Occurrence |-> 0]
    /\ generated = [s \in Services |-> {}]
    /\ origin = 0 /\ previous = NoCursor
    /\ faults = 0 /\ edits = 0

\* What the cycle remembers is gone once it returns, rejects or dies.
Forget ==
    /\ seen' = NoCursor /\ from' = 0 /\ until' = 0
    /\ todo' = {} /\ pending' = {} /\ current' = {}
    /\ report' = "complete" /\ pruneReport' = "complete"
    /\ pruneAt' = 0 /\ found' = NoOverride

\* The loop ends ("incomplete", "conflict" or "failed"), and the process with it.
Halt == pc' = "halted" /\ Forget

Fault == faults < MaxFaults /\ faults' = faults + 1
-----------------------------------------------------------------------------
\* Variant: the interval is not capped by the clock's minute.
UncappedEnd(lo) == lo + MaxInterval

\* toTimestamp: the clock's minute, at most MaxInterval away.
IntervalEnd(lo) ==
    IF Minute(now) <= lo + MaxInterval THEN Minute(now) ELSE lo + MaxInterval

\* execute(): the cursor is read and the interval fixed.
BeginCycle ==
    /\ pc = "rest"
    /\ cursor # NoCursor => Minute(now) > cursor
    /\ pc' = "generate"
    /\ seen' = cursor
    /\ from' = IF cursor = NoCursor THEN Minute(now) - 1 ELSE cursor
    /\ until' = IntervalEnd(from')
    /\ todo' = Services
    /\ UNCHANGED <<now, durable, admin, status, pending, current, report, pruneReport,
                   pruneAt, found, history, faults, edits>>

\* "idle": this minute is already completed.
IdleCycle ==
    /\ pc = "rest" /\ cursor # NoCursor /\ Minute(now) = cursor
    /\ UNCHANGED vars

\* "clock_before_cursor" rejects the cycle, which ends the loop.
ClockBeforeCursor ==
    /\ pc = "rest" /\ cursor # NoCursor /\ Minute(now) < cursor
    /\ Halt
    /\ UNCHANGED <<now, durable, admin, status, history, faults, edits>>

\* One service of the generation loop.
GenerateOccurrences(s) ==
    /\ pc = "generate" /\ NextService(s)
    /\ todo' = todo \ {s}
    /\ pending' = pending \cup Transitions(s, policy[s], from, until)
    /\ generated' = [generated EXCEPT ![s] = @ \cup ((from + 1)..until)]
    /\ UNCHANGED <<now, durable, admin, status, pc, seen, from, until, current, report,
                   pruneReport, pruneAt, found, attempts, origin, previous, faults, edits>>

\* Its catch: the service is reported as failed, the loop goes on.
GenerationFails(s) ==
    /\ pc = "generate" /\ NextService(s)
    /\ Fault
    /\ todo' = todo \ {s}
    /\ report' = "incomplete"
    /\ UNCHANGED <<now, durable, admin, status, pc, seen, from, until, pending, current,
                   pruneReport, pruneAt, found, history, edits>>

\* orderCollectedOccurrences: the generation loop is over.
OrderOccurrences ==
    /\ pc = "generate" /\ todo = {}
    /\ pc' = "execute"
    /\ UNCHANGED <<now, durable, admin, status, cycle, history, faults, edits>>

\* Variant: an occurrence is never taken off the list.
Unsettled(o) == pending

\* The occurrences left once o is dealt with.
Settled(o) == pending \ {o}

\* The planner decides from policy, override, status and clock of this moment;
\* an occurrence whose operation is not what is needed now needs no claim.
PlanOccurrence(o) ==
    /\ pc = "execute" /\ NextOccurrence(o)
    /\ IF Decision(o.serviceId) = o.operation
       THEN pc' = "claim" /\ current' = {o} /\ UNCHANGED pending
       ELSE pending' = Settled(o) /\ UNCHANGED <<pc, current>>
    /\ UNCHANGED <<now, durable, admin, status, seen, from, until, todo, report,
                   pruneReport, pruneAt, found, history, faults, edits>>

PlanningFails(o) ==
    /\ pc = "execute" /\ NextOccurrence(o)
    /\ Fault
    /\ report' = "incomplete"
    /\ pending' = Settled(o)
    /\ UNCHANGED <<now, durable, admin, status, pc, seen, from, until, todo, current,
                   pruneReport, pruneAt, found, history, edits>>

\* Back to the execution loop: executeOccurrence returned or threw.
Settle(o) == pc' = "execute" /\ pending' = Settled(o) /\ current' = {}

\* Variant: an existing claim is not looked for.
NeverClaimed(o) == FALSE

Claimed(o) == o \in claims

\* claim(): a claim on file makes the occurrence a duplicate.
ClaimOccurrence(o) ==
    /\ pc = "claim" /\ o \in current
    /\ IF Claimed(o)
       THEN Settle(o) /\ UNCHANGED claims
       ELSE pc' = "orchestrate" /\ claims' = claims \cup {o} /\ UNCHANGED <<pending, current>>
    /\ UNCHANGED <<now, cursor, admin, status, seen, from, until, todo, report,
                   pruneReport, pruneAt, found, history, faults, edits>>

\* A write that fails before its rename leaves the old claim file.
ClaimFails(o) ==
    /\ pc = "claim" /\ o \in current
    /\ Fault
    /\ report' = "incomplete"
    /\ Settle(o)
    /\ UNCHANGED <<now, durable, admin, status, seen, from, until, todo,
                   pruneReport, pruneAt, found, history, edits>>

\* validateScheduledDependencyAvailability of a scheduled start.
DependencyUnavailable(o) ==
    /\ o.operation = "start"
    /\ \E d \in Dependencies[o.serviceId] :
          EffectiveAvailability(d) \in {"unavailable", "disabled"}

\* The services the orchestration will act on (ServiceOrchestration has the detail).
PlannedServices(o) ==
    IF o.operation = "start"
    THEN {s \in Services : /\ s = o.serviceId \/ s \in Dependencies[o.serviceId]
                           /\ status[s] # "running"}
    ELSE {s \in Services : /\ s = o.serviceId \/ s \in Dependents[o.serviceId]
                           /\ status[s] # "stopped"}

\* orchestrate.execute(..., "scheduled") is called; a blocked start throws at once.
StartOrchestration(o) ==
    /\ pc = "orchestrate" /\ o \in current
    /\ attempts' = [attempts EXCEPT ![o] = @ + 1]
    /\ IF DependencyUnavailable(o)
       THEN Settle(o) /\ report' = "incomplete" /\ UNCHANGED todo
       ELSE pc' = "effects" /\ todo' = PlannedServices(o) /\ UNCHANGED <<pending, current, report>>
    /\ UNCHANGED <<now, durable, admin, status, seen, from, until,
                   pruneReport, pruneAt, found, generated, origin, previous, faults, edits>>

\* One service is started after its dependencies, or stopped after its dependents.
ControlService(o, s) ==
    /\ pc = "effects" /\ o \in current /\ s \in todo
    /\ todo \cap (IF o.operation = "start" THEN Dependencies[s] ELSE Dependents[s]) = {}
    /\ status' = [status EXCEPT ![s] = IF o.operation = "start" THEN "running" ELSE "stopped"]
    /\ todo' = todo \ {s}
    /\ UNCHANGED <<now, durable, admin, pc, seen, from, until, pending, current, report,
                   pruneReport, pruneAt, found, history, faults, edits>>

OrchestrationSucceeds(o) ==
    /\ pc = "effects" /\ o \in current /\ todo = {}
    /\ Settle(o)
    /\ UNCHANGED <<now, durable, admin, status, seen, from, until, todo, report,
                   pruneReport, pruneAt, found, history, faults, edits>>

\* A step failed: what was done stays done, the occurrence throws.
OrchestrationFails(o) ==
    /\ pc = "effects" /\ o \in current
    /\ Fault
    /\ Settle(o) /\ todo' = {} /\ report' = "incomplete"
    /\ UNCHANGED <<now, durable, admin, status, seen, from, until,
                   pruneReport, pruneAt, found, history, edits>>
-----------------------------------------------------------------------------
\* pruneExpiredOverrides.execute(): one instant for the whole pass.
BeginOverridePruning ==
    /\ pc = "execute" /\ pending = {}
    /\ pc' = "prune" /\ todo' = Services /\ pruneAt' = now
    /\ UNCHANGED <<now, durable, admin, status, seen, from, until, pending, current, report,
                   pruneReport, found, history, faults, edits>>

FindOverride(s) ==
    /\ pc = "prune" /\ NextService(s)
    /\ IF override[s] # NoOverride /\ Expired(override[s], pruneAt)
       THEN pc' = "remove" /\ found' = override[s] /\ UNCHANGED todo
       ELSE todo' = todo \ {s} /\ UNCHANGED <<pc, found>>
    /\ UNCHANGED <<now, durable, admin, status, seen, from, until, pending, current, report,
                   pruneReport, pruneAt, history, faults, edits>>

\* Variant: removal by service id, whatever is stored now.
AnyMatches(s) == TRUE

\* isSameServiceAvailabilityOverride: same kind and expiration as the one found.
Matches(s) == override[s] = found

\* removeByServiceIdIfMatches: another override stored meanwhile stays.
RemoveOverrideIfMatches(s) ==
    /\ pc = "remove" /\ NextService(s)
    /\ override' = IF Matches(s) THEN [override EXCEPT ![s] = NoOverride] ELSE override
    /\ pc' = "prune" /\ todo' = todo \ {s} /\ found' = NoOverride
    /\ UNCHANGED <<now, durable, policy, status, seen, from, until, pending, current, report,
                   pruneReport, pruneAt, history, faults, edits>>

OverridePruningFails(s) ==
    /\ pc \in {"prune", "remove"} /\ NextService(s)
    /\ Fault
    /\ pruneReport' = "incomplete"
    /\ pc' = "prune" /\ todo' = todo \ {s} /\ found' = NoOverride
    /\ UNCHANGED <<now, durable, admin, status, seen, from, until, pending, current, report,
                   pruneAt, history, edits>>

\* A failed pass makes the cycle "incomplete" before any claim is pruned.
EndOverridePruning ==
    /\ pc = "prune" /\ todo = {}
    /\ IF pruneReport = "incomplete" THEN Halt ELSE pc' = "pruneClaims" /\ UNCHANGED cycle
    /\ UNCHANGED <<now, durable, admin, status, history, faults, edits>>

\* Variants: claims pruned through the interval in progress, or not at all.
ClaimsAheadOfInterval == {o \in claims : o.scheduledFor > until}
AllClaims == claims

\* retainedClaims of pruneCompletedThrough.
RetainedClaims ==
    IF cursor = NoCursor THEN claims ELSE {o \in claims : o.scheduledFor > cursor}

\* Variant: failures in the tick report are overlooked.
NeverIncomplete == FALSE

\* isIncompleteReconciliationReport.
IncompleteReport == report = "incomplete"

\* pruneCompletedOccurrenceClaims, then "incomplete" if the tick had a failure.
PruneCompletedClaims ==
    /\ pc = "pruneClaims"
    /\ claims' = RetainedClaims
    /\ IF IncompleteReport THEN Halt ELSE pc' = "advance" /\ UNCHANGED cycle
    /\ UNCHANGED <<now, cursor, admin, status, history, faults, edits>>

\* cursorStore.advance(currentCursor, candidate), a compare-and-set; "conflict"
\* ends the loop.
AdvanceCursor ==
    /\ pc = "advance"
    /\ IF cursor = seen
       THEN /\ cursor' = until /\ previous' = cursor
            /\ origin' = IF cursor = NoCursor THEN from ELSE origin
            /\ pc' = "rest" /\ Forget
       ELSE Halt /\ UNCHANGED <<cursor, previous, origin>>
    /\ UNCHANGED <<now, claims, admin, status, attempts, generated, faults, edits>>

\* A rejected await outside the per-service catches (cursor read or write,
\* service listing, claim pruning) rejects the cycle, which ends the loop.
CycleRejects ==
    /\ \/ pc \in {"rest", "pruneClaims", "advance"}
       \/ pc \in {"generate", "prune"} /\ todo = Services
    /\ Fault
    /\ Halt
    /\ UNCHANGED <<now, durable, admin, status, history, edits>>

\* The process dies at any await; what a claim or an adapter has done stays.
Crash ==
    /\ pc # "halted"
    /\ Fault
    /\ Halt
    /\ UNCHANGED <<now, durable, admin, status, history, edits>>

Restart ==
    /\ pc = "halted"
    /\ pc' = "rest"
    /\ UNCHANGED <<now, durable, admin, status, cycle, history, faults, edits>>
-----------------------------------------------------------------------------
\* The surroundings.
ClockTick ==
    /\ now + 1 \in Instants
    /\ now' = now + 1
    /\ UNCHANGED <<durable, admin, status, pc, cycle, history, faults, edits>>

Edit == edits < MaxEdits /\ edits' = edits + 1

ClockStepsBack ==
    /\ Edit
    /\ \E t \in Instants : t < now /\ now' = t
    /\ UNCHANGED <<durable, admin, status, pc, cycle, history, faults>>

\* SetRegisteredServiceAvailabilityOverride: the expiration lies in the future.
SetOverride(s, kind, expiresAt) ==
    /\ Edit
    /\ expiresAt > now
    /\ override' = [override EXCEPT ![s] = [kind |-> kind, expiresAt |-> expiresAt]]
    /\ UNCHANGED <<now, durable, policy, status, pc, cycle, history, faults>>

CancelOverride(s) ==
    /\ Edit
    /\ override' = [override EXCEPT ![s] = NoOverride]
    /\ UNCHANGED <<now, durable, policy, status, pc, cycle, history, faults>>

UpdatePolicy(s, p) ==
    /\ Edit
    /\ policy' = [policy EXCEPT ![s] = p]
    /\ UNCHANGED <<now, durable, override, status, pc, cycle, history, faults>>

RemovePolicy(s) ==
    /\ Edit
    /\ policy' = [policy EXCEPT ![s] = BasePolicy[s]]
    /\ UNCHANGED <<now, durable, override, status, pc, cycle, history, faults>>

\* A manual control request, or a service that dies.
StatusChanges(s, state) ==
    /\ Edit
    /\ status' = [status EXCEPT ![s] = state]
    /\ UNCHANGED <<now, durable, admin, pc, cycle, history, faults>>

\* The steps a fault-free process takes.
SchedulerStep ==
    \/ BeginCycle \/ ClockBeforeCursor \/ OrderOccurrences
    \/ \E s \in todo : GenerateOccurrences(s) \/ FindOverride(s) \/ RemoveOverrideIfMatches(s)
    \/ \E o \in pending : PlanOccurrence(o)
    \/ \E o \in current : ClaimOccurrence(o) \/ StartOrchestration(o) \/ OrchestrationSucceeds(o)
    \/ \E o \in current, s \in todo : ControlService(o, s)
    \/ BeginOverridePruning \/ EndOverridePruning \/ PruneCompletedClaims \/ AdvanceCursor

FaultStep ==
    \/ \E s \in todo : GenerationFails(s) \/ OverridePruningFails(s)
    \/ \E o \in pending : PlanningFails(o)
    \/ \E o \in current : ClaimFails(o) \/ OrchestrationFails(o)
    \/ CycleRejects \/ Crash

EditStep ==
    \/ ClockStepsBack
    \/ \E s \in Services, k \in OverrideKinds, t \in Instants : SetOverride(s, k, t)
    \/ \E s \in Services : CancelOverride(s) \/ RemovePolicy(s)
    \/ \E s \in Services, p \in Policies : UpdatePolicy(s, p)
    \/ \E s \in Services, st \in {"running", "stopped"} : StatusChanges(s, st)

Next == SchedulerStep \/ IdleCycle \/ FaultStep \/ Restart \/ ClockTick \/ EditStep

Spec == Init /\ [][Next]_vars

\* The event loop runs every settled promise and the minute timer fires; time
\* passes.  Nothing restarts the process but the operator, who may not.
FairSpec == Spec /\ WF_vars(SchedulerStep) /\ WF_vars(ClockTick)
-----------------------------------------------------------------------------
InCycle == pc \notin {"rest", "halted"}

\* Every variable keeps its type: in particular the cursor and the interval of a
\* cycle stay within the minutes of the clock.
TypeOK ==
    /\ now \in Instants
    /\ cursor \in Minutes \cup {NoCursor}
    /\ claims \subseteq Occurrence
    /\ policy \in [Services -> Policies]
    /\ override \in [Services -> Override]
    /\ status \in [Services -> {"running", "stopped"}]
    /\ pc \in {"rest", "generate", "execute", "claim", "orchestrate", "effects",
               "prune", "remove", "pruneClaims", "advance", "halted"}
    /\ seen \in Minutes \cup {NoCursor}
    /\ from \in 0..Horizon /\ until \in 0..Horizon
    /\ todo \subseteq Services
    /\ pending \subseteq Occurrence
    /\ current \subseteq Occurrence
    /\ report \in {"complete", "incomplete"} /\ pruneReport \in {"complete", "incomplete"}
    /\ pruneAt \in Nat /\ found \in Override
    /\ attempts \in [Occurrence -> Nat]
    /\ generated \in [Services -> SUBSET Minutes]
    /\ origin \in 0..Horizon /\ previous \in Minutes \cup {NoCursor}
    /\ faults \in 0..MaxFaults /\ edits \in 0..MaxEdits

\* FR-014: whatever fails, crashes, is edited or whichever way the clock jumps,
\* the orchestrator is called at most once for an occurrence.
AtMostOnce == \A o \in Occurrence : attempts[o] <= 1

\* No minute is skipped: behind the cursor, the transitions of every service
\* were generated for every minute since the first completed interval.
NoGapBehindCursor ==
    \A s \in Services, m \in Minutes :
        origin < m /\ m <= cursor => m \in generated[s]

\* The claim file stays small: it never holds a claim of the intervals before
\* the last completed one.
ClaimRetentionBounded == \A o \in claims : o.scheduledFor > previous

\* The scheduler implements the ledger: the orchestrator is called once, and
\* only ahead of the cursor, and the cursor moves forward in bounded steps.
Ledger == INSTANCE ReconciliationLedger
              WITH Occurrences <- Occurrence, MaxStep <- MaxInterval,
                   through <- cursor, deliveries <- attempts

\* Every behaviour of the scheduler, seen through its cursor and its calls of
\* the orchestrator, is a behaviour of the ledger.
ImplementsLedger == Ledger!Spec

\* The pruner removes nothing but what had expired when its pass began, even if
\* an administrator stores another override between its read and its removal.
PrunerSparesLiveOverrides ==
    [][\A s \in Services :
          pc \in {"prune", "remove"} /\ edits' = edits /\ override'[s] # override[s]
              => Expired(override[s], pruneAt)]_vars

\* Once the clock stops misbehaving the scheduler either ends its loop, which
\* ends the process visibly, or completes every minute: it is never stuck.
HaltsOrCatchesUp == <>[](pc = "halted") \/ <>(cursor = Horizon)
-----------------------------------------------------------------------------
(***************************************************************************)
(* The inductive invariant behind the theorems, in parts.                  *)
(***************************************************************************)
\* A cycle works on the cursor it read: nobody else moves it.
IntervalInv ==
    /\ InCycle => /\ seen = cursor
                  /\ from < until /\ until <= from + MaxInterval
                  /\ cursor # NoCursor => from = cursor
    /\ \A o \in pending : from < o.scheduledFor /\ o.scheduledFor <= until
    /\ ~InCycle => pending = {}

\* One occurrence at a time, claimed and fresh when the orchestrator is called.
CurrentInv ==
    /\ current \subseteq pending
    /\ \A o, p \in current : o = p
    /\ pc \notin {"claim", "orchestrate", "effects"} => current = {}
    /\ pc = "orchestrate" => \A o \in current : o \in claims /\ attempts[o] = 0

\* What was attempted is either still claimed or behind the cursor, from where
\* no cycle generates it again.
AttemptInv ==
    \A o \in Occurrence : attempts[o] # 0 => o \in claims \/ o.scheduledFor <= cursor

\* A cycle without failure has generated the interval for the services behind it.
CoverageInv ==
    /\ pc = "advance" => report = "complete"
    /\ InCycle /\ report = "complete" =>
           \A s \in Services :
               \/ pc = "generate" /\ s \in todo
               \/ \A m \in Minutes : from < m /\ m <= until => m \in generated[s]

\* Claims at or behind the cursor are gone before the cursor moves.
RetentionInv ==
    /\ previous <= cursor
    /\ pc = "advance" => \A o \in claims : o.scheduledFor > cursor

\* The override the pruner removes had expired when its pass began.
PruneInv == pc = "remove" => Expired(found, pruneAt)

SafetyInv == IntervalInv /\ CurrentInv /\ AttemptInv /\ AtMostOnce
CoveredInv == CoverageInv /\ NoGapBehindCursor
RetainedInv == RetentionInv /\ ClaimRetentionBounded
IInv == TypeOK /\ SafetyInv /\ CoveredInv /\ RetainedInv /\ PruneInv
=============================================================================
