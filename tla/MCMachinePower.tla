--------------------------- MODULE MCMachinePower ---------------------------
(***************************************************************************)
(* The way to a power-off: the scheduler's executions over services, the   *)
(* scheduler beside operations of an administrator, and the calls of the   *)
(* power helper both use.  A behaviour is one of a single part.            *)
(***************************************************************************)
EXTENDS MachinePowerScheduler, PowerHelperClient, TLC

CONSTANTS
    Parts,           \* the parts to consider
    call1, call2     \* calls of the helper

VARIABLE part        \* the part this behaviour is of

\* Two services, the site depending on the database.
MCServices == {"db", "web"}
MCDep == {<<"web", "db">>}

\* Two shutdowns, at 1 until 3 and at 4 until 6.
MCOperating == [t \in 0..LastMinute |-> t \in {0, 3, 6}]

\* An occurrence of the administrator's own, from 1 until 4: it overlaps the
\* policy's first and wakes later.
MCSubmitted == {[at |-> 1, wake |-> 4]}

\* One service and a backup, one occurrence of the policy and one of the
\* administrator's own; an administrative operation with a failing call, or two
\* without one.
Beside(horizon, faults, operations) ==
    INSTANCE MachinePowerScheduler WITH
        Services <- {"web"}, Dep <- {}, Operating <- MCOperating, LastMinute <- 6,
        Horizon <- horizon, Submitted <- MCSubmitted, MaxOffline <- 3, MaxInterval <- 2,
        MaxFaults <- faults, MaxStarts <- 0,
        MaxRequests <- operations

\* Calls that set, move and cancel the alarm, one of them to a time that falls
\* inside a second, and a power-off.
MCCallers == {call1, call2}
MCInstants == 0..3
Ask(operation, for) == [operation |-> operation, scheduledFor |-> for]
MCAsked == {Ask("schedule_wake_alarm", 2), Ask("schedule_wake_alarm", 3),
            Ask("cancel_wake_alarm", 0),
            Ask("request_shutdown", 0)}

Symmetry == Permutations(MCCallers)

MCInit ==
    /\ part \in Parts
    /\ CASE part = "scheduler" -> Init
         [] part = "with a failing call" -> Beside(3, 1, 1)!Init
         [] part = "two operations" -> Beside(3, 0, 2)!Init
         [] OTHER -> Init /\ active = {}
    /\ ClientInit
    /\ part # "helper" => rtcAlarm = NotScheduled

MCNext ==
    \/ part = "scheduler" /\ Next /\ UNCHANGED <<part, clientVars>>
    \/ part = "with a failing call" /\ Beside(3, 1, 1)!Next /\ UNCHANGED <<part, clientVars>>
    \/ part = "two operations" /\ Beside(3, 0, 2)!Next /\ UNCHANGED <<part, clientVars>>
    \/ part = "helper" /\ ClientNext /\ UNCHANGED <<part, vars>>

MCSpec == MCInit /\ [][MCNext]_<<part, vars, clientVars>>
=============================================================================
