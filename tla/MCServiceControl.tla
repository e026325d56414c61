-------------------------- MODULE MCServiceControl --------------------------
(***************************************************************************)
(* What has to come to an end inside one process: orchestrations over the  *)
(* services, the loops of the process and its shutdown, and the calls of   *)
(* the power helper.  The parts share no state, so a behaviour is one of a *)
(* single part, and the others rest in an initial state.                   *)
(***************************************************************************)
EXTENDS ServiceOrchestration, ApplicationLifecycle

CONSTANTS
    Parts,             \* the parts to consider
    scheduler, admin   \* caller identities

VARIABLES
    part,              \* the part this behaviour is of
    clock, rtcAlarm, call, queue, running, helper, disturbed, writer  \* the helper

\* database <- api <- worker, and worker also needs the database.
MCDeps == [s \in Services |-> CASE s = 1 -> {} [] s = 2 -> {1} [] s = 3 -> {1, 2}]

\* The worker cannot be restarted by its adapter.
MCSupported ==
    [s \in Services |-> IF s = 3 THEN {"start", "stop"} ELSE Operations]

\* A single caller acts for both, one orchestration at a time; two callers are
\* the scheduler and an administrative request.
MCSpeaks ==
    [c \in Callers |-> IF Callers = {scheduler} THEN Authorities
                       ELSE IF c = scheduler THEN {"scheduled"} ELSE {"manual"}]

\* The two loops of main.ts beside the backup loop; only the machine-power tick
\* can be "blocked".
MCBadResults ==
    [l \in Loops |-> {"incomplete", "conflict"} \cup (IF l = "machine_power" THEN {"blocked"} ELSE {})]

\* Two calls that set or cancel the alarm.
HelperCalls == {"first", "second"}
Moves == {[operation |-> "schedule_wake_alarm", scheduledFor |-> 4],
          [operation |-> "cancel_wake_alarm", scheduledFor |-> 0]}

Client == INSTANCE PowerHelperClient WITH
              Callers <- HelperCalls, Asked <- Moves, Instants <- 0..4, LastInstant <- 2

clientVars == <<clock, rtcAlarm, call, queue, running, helper, disturbed, writer>>

ASSUME LifecycleAssumption /\ Client!ClientAssumption

MCInit ==
    /\ part \in Parts
    /\ OrchestrationInit /\ Init /\ Client!ClientInit
    /\ part # "orchestration" => \A s \in Services : status[s] = "stopped"
    /\ part # "helper" => rtcAlarm = Client!NotScheduled

MCNext ==
    \/ part = "orchestration" /\ OrchestrationNext /\ UNCHANGED <<part, vars, clientVars>>
    \/ part = "lifecycle" /\ Next /\ UNCHANGED <<part, orchestrationVars, clientVars>>
    \/ part = "helper" /\ Client!ClientNext /\ UNCHANGED <<part, orchestrationVars, vars>>

MCSpec == MCInit /\ [][MCNext]_<<part, orchestrationVars, vars, clientVars>>

\* The fairness of the components, each while it is the one that moves.
MCFairSpec ==
    /\ MCSpec
    /\ \A c \in Callers : WF_orchestrationVars(part = "orchestration" /\ CallerStep(c))
    /\ WF_vars(part = "lifecycle" /\ Progress)
    /\ SF_vars(part = "lifecycle" /\ RequestEnds)
    /\ \A l \in Loops : SF_vars(part = "lifecycle" /\ CycleEnds(l))
    /\ \A c \in HelperCalls :
          /\ WF_clientVars(part = "helper" /\ Client!Start(c))
          /\ WF_clientVars(part = "helper" /\ Client!Timeout(c))

\* A call of the helper is answered, and once only.
EveryCallSettles == Client!EveryCallSettles /\ Client!AnswersAreFinal
=============================================================================
