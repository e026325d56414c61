-------------------------- MODULE ServiceIntervals --------------------------
(***************************************************************************)
(* Is a service required while the machine would be off?  Before every     *)
(* shutdown the readiness reader asks this of the offline interval         *)
(* [scheduledFor, wakeScheduledFor), and the availability preview asks it  *)
(* of an interval an administrator chose                                   *)
(* (registered-service-availability-interval.ts).  The answer is found by  *)
(* looking at the policy once a minute, counted from wherever the search   *)
(* starts; the store's override is read once and no clock is.              *)
(***************************************************************************)
EXTENDS WeeklySchedules, FiniteSets, FiniteSetsExt

CONSTANTS
    Policies,       \* policies the catalog may hold
    Drafts,         \* candidate policies an administrator previews
    Overrides,      \* overrides the store may hold, expired or not
    LastStart,      \* bound on an interval's start
    LastInstant,    \* bound on its end
    MaxTransitions  \* MAX_RENDERED_TRANSITIONS, 5

VARIABLES
    policy,         \* the service's policy
    override,       \* its override, NoOverride when there is none
    answer          \* the last answer, NoAnswer at first

vars == <<policy, override, answer>>

NoOverride == [kind |-> "none", expiresAt |-> 0]
NoAnswer == [state |-> "none"]
NotRequired == -1
-----------------------------------------------------------------------------
\* evaluateServiceAvailabilityWithOverride.
EvaluateWithOverride(p, o, t) ==
    IF o = NoOverride \/ t >= o.expiresAt THEN EvaluatePolicy(p, t)
    ELSE IF p.mode = "disabled" THEN "disabled"
    ELSE IF o.kind = "keep_available" THEN "available" ELSE "manual"

\* calculateServiceAvailabilityPolicyTransitions over (from, to], on the minute;
\* it throws when the interval is longer than the horizon.
PolicyTransitions(p, from, to) ==
    {t \in MinutesIn(from, to) : EvaluatePolicy(p, t) # EvaluatePolicy(p, t - TicksPerMinute)}

\* Variant: the search starts at the end of the interval's first minute.
UpcomingTransitionsLate(p, start, end) ==
    LET from == CeilToMinute(start + 1)
        to == CeilToMinute(end)
        all == PolicyTransitions(p, from, to)
    IN IF p.mode # "scheduled" \/ to <= from \/ to - from > Horizon THEN {}
       ELSE {t \in all : Cardinality({u \in all : u < t}) < MaxTransitions}

\* computeUpcomingTransitions: a hint, which ignores overrides and is empty
\* when the rounded interval cannot be searched.
UpcomingTransitions(p, start, end) ==
    LET from == FloorToMinute(start)
        to == CeilToMinute(end)
        all == PolicyTransitions(p, from, to)
    IN IF p.mode # "scheduled" \/ to <= from \/ to - from > Horizon THEN {}
       ELSE {t \in all : Cardinality({u \in all : u < t}) < MaxTransitions}

\* Variant: the interval is taken to include its end.
FindRequiredAtClosed(p, start, end) ==
    LET points == {start + k * TicksPerMinute : k \in 0..((end - start) \div TicksPerMinute)}
        required == {t \in points : t <= end /\ EvaluatePolicy(p, t) = "available"}
    IN IF required = {} THEN NotRequired ELSE Min(required)

\* findRequiredAt: the instants start, start + 1 min, ... before end.
FindRequiredAt(p, start, end) ==
    LET points == {start + k * TicksPerMinute : k \in 0..((end - start) \div TicksPerMinute)}
        required == {t \in points : t < end /\ EvaluatePolicy(p, t) = "available"}
    IN IF required = {} THEN NotRequired ELSE Min(required)

\* evaluateRegisteredServiceAvailabilityForInterval: firstRequiredAt, or
\* NotRequired.
FirstRequiredAt(p, o, start, end) ==
    IF p.mode \in {"disabled", "manual"} THEN NotRequired
    ELSE IF o # NoOverride /\ start < o.expiresAt
         THEN IF o.kind = "keep_available" THEN start
              ELSE FindRequiredAt(p, Max({start, o.expiresAt}), end)
    ELSE IF p.mode = "always" THEN start
    ELSE FindRequiredAt(p, start, end)

Answer(p, start, end) ==
    IF start >= end \/ end - start > Horizon THEN [state |-> "invalid_interval"]
    ELSE [state |-> "answered", policy |-> p, start |-> start, end |-> end,
          first |-> FirstRequiredAt(p, override, start, end),
          transitions |-> UpcomingTransitions(p, start, end)]
-----------------------------------------------------------------------------
Init == policy \in Policies /\ override \in Overrides /\ answer = NoAnswer

\* GetRegisteredServiceAvailabilityForInterval.
GetForInterval(start, end) ==
    /\ answer = NoAnswer
    /\ answer' = Answer(policy, start, end)
    /\ UNCHANGED <<policy, override>>

\* PreviewRegisteredServiceAvailabilityPolicy: a draft with the stored override.
PreviewForInterval(draft, start, end) ==
    /\ answer = NoAnswer
    /\ answer' = Answer(draft, start, end)
    /\ UNCHANGED <<policy, override>>

Next ==
    \/ \E start \in 0..LastStart, end \in 0..LastInstant : GetForInterval(start, end)
    \/ \E draft \in Drafts, start \in 0..LastStart, end \in 0..LastInstant :
          PreviewForInterval(draft, start, end)

Spec == Init /\ [][Next]_vars
-----------------------------------------------------------------------------
(* Properties. *)

\* The instants of the interval at which the service is expected available.
ExpectedAt ==
    {t \in answer.start..answer.end - 1 :
        EvaluateWithOverride(answer.policy, override, t) = "available"}

\* For a shutdown occurrence, whose end is on a minute, looking once a minute
\* misses nothing, wherever in a minute the search begins (an override may
\* expire at any instant): the service is required exactly when it is expected
\* available at some instant, and firstRequiredAt is such an instant, less than
\* a minute after the first.  Policies whose mode is manual are the subject of
\* OfflineConflictIsReported.
AnswerIsExact ==
    answer.state = "answered" /\ answer.policy.mode # "manual"
        /\ CeilToMinute(answer.end) = answer.end =>
        IF ExpectedAt = {} THEN answer.first = NotRequired
        ELSE answer.first \in ExpectedAt /\ answer.first - Min(ExpectedAt) < TicksPerMinute

\* Without an override the hint tells the same story as the answer: a service
\* that is not expected at the start, on a minute, is first required at the
\* first transition listed.
HintAgreesWithAnswer ==
    answer.state = "answered" /\ answer.policy.mode = "scheduled" /\ override = NoOverride
        /\ FloorToMinute(answer.start) = answer.start
        /\ answer.first \notin {NotRequired, answer.start}
        => answer.transitions # {} /\ Min(answer.transitions) = answer.first

\* docs/glossary.md: a service expected to be available during some portion of
\* the offline interval produces a blocker.
OfflineConflictIsReported ==
    answer.state = "answered" /\ CeilToMinute(answer.end) = answer.end /\ ExpectedAt # {}
        => answer.first # NotRequired
=============================================================================
