---------------------------- MODULE MachinePlans ----------------------------
(***************************************************************************)
(* What the machine's operating policy promises and what the scheduler     *)
(* does with it.  The plan an administrator is shown (machine-power-plan-  *)
(* evaluator.ts) and the shutdown occurrences a tick generates (machine-   *)
(* shutdown-occurrence-interval.ts) are computed by two separate searches  *)
(* over the minutes, from the policy read from the environment at startup. *)
(* The policy an administrator saves is kept and shown, and neither search *)
(* uses it.                                                                *)
(*                                                                         *)
(* An operating policy is a mode and, when the mode is "scheduled", an     *)
(* accepted weekly schedule.                                               *)
(***************************************************************************)
EXTENDS WeeklySchedules, FiniteSets, SequencesExt

CONSTANTS
    Environments,   \* policies the environment may declare
    Candidates,     \* window lists an administrator may save
    LastInstant,    \* bound on the clock
    MaxSaves,       \* bound on saved and removed policies
    MaxRestarts     \* bound on restarts

VARIABLES
    environment,    \* policy captured at startup
    persisted,      \* policy store, Absent when it holds none
    now,            \* the clock
    cursor,         \* completedThrough of the power scheduler
    generated,      \* history: occurrences the ticks generated, in order
    shown,          \* history: last plan shown since startup, NoPlan at first
    spent           \* saves and restarts so far

vars == <<environment, persisted, now, cursor, generated, shown, spent>>

Policy(mode, schedule) == [mode |-> mode, schedule |-> schedule]
Absent == Policy("absent", <<>>)
AlwaysOn == Policy("always_on", <<>>)
Manual == Policy("manual", <<>>)

\* createMachineOperatingPolicy with mode "scheduled"; Absent when it throws.
CreateScheduled(windows) ==
    IF CreateMachineSchedule(windows) = Rejected THEN Absent
    ELSE Policy("scheduled", CreateMachineSchedule(windows))

NotPlanned == -1
-----------------------------------------------------------------------------
(* The plan. *)

Plan(at, expectation, shutdown, wake) ==
    [at |-> at, expectation |-> expectation, shutdown |-> shutdown, wake |-> wake]

NoPlan == Plan(0, "none", NotPlanned, NotPlanned)
Failed(at) == Plan(at, "error", NotPlanned, NotPlanned)

\* validateTransitionCombination.
CombinationValid(p) ==
    LET planned == p.shutdown # NotPlanned /\ p.wake # NotPlanned
        nothing == p.shutdown = NotPlanned /\ p.wake = NotPlanned
    IN CASE p.expectation = "manual"    -> nothing
         [] p.expectation = "operating" -> nothing \/ (planned /\ p.at < p.shutdown /\ p.shutdown < p.wake)
         [] OTHER                       -> planned /\ p.at < p.wake /\ p.wake < p.shutdown

\* Variant: a wake before the shutdown of an operating machine is let through,
\* and an offline machine's plan is checked as an operating one's.
CreatePlanSwapped(p) ==
    IF CombinationValid([p EXCEPT !.expectation = IF @ = "offline" THEN "operating" ELSE @])
    THEN p ELSE Failed(p.at)

\* createMachinePowerPlan.
CreatePlan(p) == IF CombinationValid(p) THEN p ELSE Failed(p.at)

\* Variant: the search ends a day before the week does.
NextTransitionsWithinSixDays(schedule, at) ==
    {c \in MinutesIn(at, at + Week - Day) :
        ScheduledExpectation(schedule, c) # ScheduledExpectation(schedule, Max({at, c - TicksPerMinute}))}

\* findNextTransitions, of which the first two are used.
NextTransitions(schedule, at) ==
    {c \in MinutesIn(at, at + Horizon) :
        ScheduledExpectation(schedule, c) # ScheduledExpectation(schedule, Max({at, c - TicksPerMinute}))}

\* evaluateScheduledPolicy.
EvaluateScheduled(schedule, at) ==
    LET expectation == ScheduledExpectation(schedule, at)
        transitions == NextTransitions(schedule, at)
        first == Min(transitions)
        second == Min(transitions \ {first})
    IN IF Cardinality(transitions) < 2 THEN Failed(at)          \* transition_search_exhausted
       ELSE CreatePlan(IF expectation = "operating"
                       THEN Plan(at, expectation, first, second)
                       ELSE Plan(at, expectation, second, first))

\* evaluateMachinePowerPlan.
EvaluatePlan(policy, at) ==
    CASE policy.mode = "always_on" -> CreatePlan(Plan(at, "operating", NotPlanned, NotPlanned))
      [] policy.mode = "manual"    -> CreatePlan(Plan(at, "manual", NotPlanned, NotPlanned))
      [] OTHER                     -> EvaluateScheduled(policy.schedule, at)
-----------------------------------------------------------------------------
(* The occurrences. *)

\* createMachineShutdownOccurrence: its order check.
OccurrenceValid(o) == o.at < o.wake

\* findNextOperatingStart.
NextOperatingStart(schedule, from) ==
    LET starts == {c \in MinutesIn(from, from + Horizon) :
                     ~IsOperating(schedule, c - TicksPerMinute) /\ IsOperating(schedule, c)}
    IN IF starts = {} THEN NotPlanned ELSE Min(starts)

\* Variant: the interval is closed below, so a tick at an occurrence's own
\* minute leaves it to the next one as well.
OccurrencesFromLower(policy, lower, upper) ==
    IF policy.mode # "scheduled" \/ upper = lower THEN {}
    ELSE {[at |-> c, wake |-> NextOperatingStart(policy.schedule, c)] :
            c \in {m \in MinutesIn(lower - 1, upper) :
                     /\ IsOperating(policy.schedule, m - TicksPerMinute)
                     /\ ~IsOperating(policy.schedule, m)}}

\* Variant: the interval is open above, so a tick on the minute loses it.
OccurrencesBeforeUpper(policy, lower, upper) ==
    IF policy.mode # "scheduled" \/ upper = lower THEN {}
    ELSE {[at |-> c, wake |-> NextOperatingStart(policy.schedule, c)] :
            c \in {m \in MinutesIn(lower, upper - 1) :
                     /\ IsOperating(policy.schedule, m - TicksPerMinute)
                     /\ ~IsOperating(policy.schedule, m)}}

\* createMachineShutdownOccurrencesForInterval over (lower, upper].
OccurrencesForInterval(policy, lower, upper) ==
    IF policy.mode # "scheduled" \/ upper = lower THEN {}
    ELSE {[at |-> c, wake |-> NextOperatingStart(policy.schedule, c)] :
            c \in {m \in MinutesIn(lower, upper) :
                     /\ IsOperating(policy.schedule, m - TicksPerMinute)
                     /\ ~IsOperating(policy.schedule, m)}}

\* planMachineShutdownOccurrence: the plan's own occurrence, when the machine
\* is in a window.
PlannedOccurrence(p) ==
    IF p.expectation = "operating" /\ p.shutdown # NotPlanned /\ p.wake # NotPlanned
    THEN {[at |-> p.shutdown, wake |-> p.wake]} ELSE {}
-----------------------------------------------------------------------------
(* The operations. *)

Init ==
    /\ environment \in Environments /\ persisted = Absent
    /\ now \in 0..TicksPerMinute - 1 /\ cursor = now
    /\ generated = <<>> /\ shown = NoPlan
    /\ spent = [saves |-> 0, restarts |-> 0]

Pass ==
    /\ now < LastInstant
    /\ now' = now + 1
    /\ UNCHANGED <<environment, persisted, cursor, generated, shown, spent>>

\* A scheduler tick: the occurrences of (cursor, now], in order, and then the
\* cursor.  A longer interval than the horizon is refused.
Tick ==
    /\ cursor < now /\ now - cursor <= Horizon
    /\ generated' = generated \o SetToSortSeq(OccurrencesForInterval(environment, cursor, now),
                                              LAMBDA o, p : o.at < p.at)
    /\ cursor' = now
    /\ UNCHANGED <<environment, persisted, now, shown, spent>>

\* GetMachineOperatingPolicy: what `machine schedule show` answers.
EffectivePolicy == IF persisted # Absent THEN persisted ELSE environment

\* Variant: the plan shown is the saved policy's.
ShowPlanOfPersisted ==
    /\ shown' = EvaluatePlan(EffectivePolicy, now)
    /\ UNCHANGED <<environment, persisted, now, cursor, generated, spent>>

\* GetMachinePowerPlan.
ShowPlan ==
    /\ shown' = EvaluatePlan(environment, now)
    /\ UNCHANGED <<environment, persisted, now, cursor, generated, spent>>

\* SetMachineOperatingPolicy: validated, then saved.
SetPolicy(windows) ==
    /\ spent.saves < MaxSaves
    /\ CreateScheduled(windows) # Absent
    /\ persisted' = CreateScheduled(windows)
    /\ spent' = [spent EXCEPT !.saves = @ + 1]
    /\ UNCHANGED <<environment, now, cursor, generated, shown>>

\* SetMachineOperatingPolicy with a mode that has no schedule.
SetUnscheduled(policy) ==
    /\ spent.saves < MaxSaves
    /\ persisted' = policy
    /\ spent' = [spent EXCEPT !.saves = @ + 1]
    /\ UNCHANGED <<environment, now, cursor, generated, shown>>

\* RemoveMachineOperatingPolicy.
RemovePolicy ==
    /\ persisted # Absent
    /\ persisted' = Absent
    /\ UNCHANGED <<environment, now, cursor, generated, shown, spent>>

\* The process restarts, perhaps with another environment: plans shown before
\* promise nothing any more.  The stores stay.
Restart ==
    /\ spent.restarts < MaxRestarts
    /\ environment' \in Environments
    /\ shown' = NoPlan
    /\ spent' = [spent EXCEPT !.restarts = @ + 1]
    /\ UNCHANGED <<persisted, now, cursor, generated>>

Next ==
    \/ Pass \/ Tick \/ ShowPlan \/ RemovePolicy \/ Restart
    \/ \E windows \in Candidates : SetPolicy(windows)
    \/ \E policy \in {AlwaysOn, Manual} : SetUnscheduled(policy)

Spec == Init /\ [][Next]_vars
-----------------------------------------------------------------------------
(* Properties. *)

TypeOK ==
    /\ now \in 0..LastInstant /\ cursor \in 0..now
    /\ environment.mode \in {"always_on", "manual", "scheduled"}
    /\ persisted.mode \in {"absent", "always_on", "manual", "scheduled"}
    /\ shown.expectation \in {"none", "operating", "offline", "manual"}

\* Whatever the schedule and the instant, both searches end within their
\* horizon and what they find passes the validators: GetMachinePowerPlan never
\* throws transition_search_exhausted or invalid_transition_combination, and
\* no tick throws search_exhausted.  The policy of `machine schedule show`,
\* which the preview evaluates, has a plan too.
SearchesSucceed ==
    /\ \A policy \in {environment, EffectivePolicy} : EvaluatePlan(policy, now).expectation # "error"
    /\ \A i \in DOMAIN generated : generated[i].wake # NotPlanned /\ OccurrenceValid(generated[i])

\* A plan that was shown is kept: once the ticks have passed its shutdown, that
\* shutdown was generated, with the wake the plan showed when it was planned
\* from inside a window, and nothing was generated between the showing and it.
\* It does not matter how ticks and showings fell, within a minute or on it,
\* nor what was saved meanwhile.
ShownPlanIsKept ==
    shown.shutdown # NotPlanned /\ cursor >= shown.shutdown =>
        /\ \E i \in DOMAIN generated : generated[i].at = shown.shutdown
        /\ \A o \in PlannedOccurrence(shown) : \E i \in DOMAIN generated : generated[i] = o
        /\ ~ \E i \in DOMAIN generated :
                shown.at < generated[i].at /\ generated[i].at < shown.shutdown

\* However the ticks cut the time, a shutdown is generated once and in order;
\* while the environment stays the same the machine is woken before the next.
ShutdownsAlternateWithWakes ==
    \A i \in 2..Len(generated) :
        /\ generated[i - 1].at < generated[i].at
        /\ spent.restarts = 0 => generated[i - 1].wake < generated[i].at
=============================================================================
