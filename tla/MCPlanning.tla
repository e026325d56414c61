----------------------------- MODULE MCPlanning -----------------------------
(***************************************************************************)
(* What is computed from the configuration, the schedules and the helper's *)
(* output, over every input of a bounded size: the dependency graph, the   *)
(* weekly windows, the machine's plans and shutdowns, the interval a       *)
(* service is asked about, the answers of the power helper.  A behaviour   *)
(* is one of a single part, and the others rest in an initial state; the   *)
(* graph in one that is refused, of which there is least to compute.       *)
(*                                                                         *)
(* A week of two days of four minutes, with two instants in every minute.  *)
(***************************************************************************)
EXTENDS MachinePlans, DependencyGraphInputs

CONSTANTS
    Parts     \* the parts to consider

VARIABLES
    part,                       \* the part this behaviour is of
    input,                      \* the windows given to the validators
    policy, override, answer,   \* the question about an interval
    request, output, reply      \* a call of the power helper

Windows == [day : Weekdays, start : LocalTimes, end : LocalTimes]

\* Every accepted schedule of one or two windows.
AcceptedSchedules ==
    {CreateScheduled(s) : s \in UNION {[1..n -> Windows] : n \in 1..2}} \ {Absent}

EveryEnvironment == AcceptedSchedules \cup {AlwaysOn, Manual}

\* Two windows that touch, two apart, and no schedule.
SomeEnvironments ==
    {CreateScheduled(<<[day |-> 1, start |-> 1, end |-> 3], [day |-> 0, start |-> 0, end |-> 3]>>),
     CreateScheduled(<<[day |-> 0, start |-> 0, end |-> 1], [day |-> 0, start |-> 1, end |-> 2]>>),
     Manual}

\* One list that is accepted, and one that is not.
SomeCandidates == {<<[day |-> 1, start |-> 1, end |-> 3]>>, <<[day |-> 0, start |-> 2, end |-> 1]>>}

\* The plans again, with a saved or removed policy and two restarts.
Restarted == INSTANCE MachinePlans WITH
                 Environments <- SomeEnvironments, LastInstant <- 18,
                 MaxSaves <- 1, MaxRestarts <- 2

\* Days of three minutes, lists of up to four windows where three are allowed.
WindowLists == INSTANCE WeeklyScheduleInputs WITH MinutesPerDay <- 3, MaxWindows <- 3, MaxListed <- 4

Always == [mode |-> "always", schedule |-> Rejected]
Weekly(windows) == [mode |-> "scheduled", schedule |-> CreateServiceSchedule(windows)]

EveryPolicy ==
    ({Weekly(<<w>>) : w \in Windows} \ {Weekly(<<>>)})
        \cup {Weekly(<<[day |-> 0, start |-> 1, end |-> 2], [day |-> 0, start |-> 2, end |-> 3]>>)}
        \cup {[Always EXCEPT !.mode = mode] : mode \in {"always", "manual", "disabled"}}

TwoDrafts ==
    {Weekly(<<[day |-> 0, start |-> 2, end |-> 3], [day |-> 1, start |-> 0, end |-> 2]>>), Always}

\* A configuration that names an unknown service.
Refused == [s \in Ids |-> IF s = Misconfigured THEN {Unknown} ELSE {}]

WithoutOverride == [kind |-> "none", expiresAt |-> 0]
EveryOverride ==
    {WithoutOverride} \cup [kind : {"keep_available", "suspend_schedule"}, expiresAt : 1..10]

Intervals == INSTANCE ServiceIntervals WITH
                 Policies <- EveryPolicy, Drafts <- TwoDrafts, Overrides <- EveryOverride,
                 LastStart <- 3, LastInstant <- 26, MaxTransitions <- 2

Helper == INSTANCE PowerHelperOutputs WITH Instants <- 1..3, answer <- reply

planVars == <<environment, persisted, now, cursor, generated, shown, spent>>
intervalVars == <<policy, override, answer>>
helperVars == <<request, output, reply>>

ASSUME IdsAssumption /\ Helper!InstantsAssumption

MCInit ==
    /\ part \in Parts
    /\ part \notin {"plans", "restarts"} => environment = Manual /\ now = 0
    /\ part # "intervals" => policy = Always /\ override = WithoutOverride
    /\ part # "helper" =>
          /\ request = Helper!PlainRequest("read_wake_alarm", 1)
          /\ output = Helper!Output("line", <<>>)
    /\ IF part = "restarts" THEN Restarted!Init ELSE Init
    /\ IF part = "graph" THEN GraphInit ELSE deps = Refused
    /\ WindowLists!Init /\ Intervals!Init /\ Helper!Init

MCNext ==
    \/ part = "graph" /\ Reconfigure
          /\ UNCHANGED <<part, planVars, input, intervalVars, helperVars>>
    \/ part = "windows" /\ WindowLists!AddWindow
          /\ UNCHANGED <<part, planVars, deps, intervalVars, helperVars>>
    \/ part = "plans" /\ Next
          /\ UNCHANGED <<part, deps, input, intervalVars, helperVars>>
    \/ part = "restarts" /\ Restarted!Next
          /\ UNCHANGED <<part, deps, input, intervalVars, helperVars>>
    \/ part = "intervals" /\ Intervals!Next
          /\ UNCHANGED <<part, planVars, deps, input, helperVars>>
    \/ part = "helper" /\ Helper!Receive
          /\ UNCHANGED <<part, planVars, deps, input, intervalVars>>

MCSpec == MCInit /\ [][MCNext]_<<part, planVars, deps, input, intervalVars, helperVars>>

\* The searches of the plan and of the ticks end, agree, and cut the time into
\* shutdowns and wakes that alternate.
PlansAreKept ==
    CASE part = "plans" ->
            TypeOK /\ SearchesSucceed /\ ShownPlanIsKept /\ ShutdownsAlternateWithWakes
      [] part = "restarts" ->
            Restarted!TypeOK /\ Restarted!ShownPlanIsKept /\ Restarted!ShutdownsAlternateWithWakes
      [] OTHER -> TRUE

\* Both validators accept exactly the lists of disjoint windows, and a service
\* is required for an interval exactly when its policy, windows and override
\* say so at an instant of it.
WeeklySchedulesAreExact ==
    /\ part = "windows" => WindowLists!AcceptsExactlyDisjointWindows /\ WindowLists!ValidatorsAgree
    /\ part = "intervals" => Intervals!AnswerIsExact /\ Intervals!HintAgreesWithAnswer

\* What the adapters let through is what the helper can say.
HelperOutputsAreUnderstood ==
    part = "helper" => Helper!ReturnsExactlyHelperSuccesses /\ Helper!RefusalsReachTheCaller
=============================================================================
