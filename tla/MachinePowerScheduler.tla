----------------------- MODULE MachinePowerScheduler -----------------------
(***************************************************************************)
(* How the machine comes to be powered off and woken again.  A scheduler   *)
(* tick (run-machine-power-scheduler-tick.ts) executes the shutdown        *)
(* occurrences its interval holds, one after another: readiness is read,   *)
(* services are stopped, readiness is read again, the occurrence is        *)
(* claimed, the wake alarm is set and only then power-off is requested     *)
(* (execute-, prepare- and evaluate-machine-shutdown-*.ts).  One           *)
(* administrative power operation at a time runs beside it, and work may   *)
(* start, the clock move, the process die or the power go at any await.    *)
(*                                                                         *)
(* Instants are minutes.  The helper process (power-helper/) answers each  *)
(* request, or fails with its effect done, half done or not done.          *)
(***************************************************************************)
EXTENDS Integers, FiniteSets

CONSTANTS
    Services,      \* registered services
    Dep,           \* <<d, s>>: service d depends directly on service s
    Operating,     \* operating policy, [0..LastMinute -> BOOLEAN]
    LastMinute,    \* last minute the policy is evaluated at
    Horizon,       \* bound on the clock
    Submitted,     \* occurrences an administrator may send besides the policy's
    MaxOffline,    \* MAX_OFFLINE_INTERVAL_MS of an administrator's occurrence
    MaxInterval,   \* MAX_INTERVAL of a tick
    MaxFaults,     \* bound on failing calls and crashes
    MaxStarts,     \* bound on work that starts by itself
    MaxRequests    \* bound on administrative power operations

Backup == "backup"
Work == Services \cup {Backup}
Actors == {"scheduler", "admin"}

\* Minutes t and those up to u are not operating, u is.
StartsNext(t, u) == Operating[u] /\ \A v \in t..(u - 1) : ~Operating[v]

\* A week repeats, so every operating window is followed by another: the search
\* for a wake instant succeeds once LastMinute is far enough behind the Horizon.
ASSUME MachinePowerAssumption ==
    /\ Backup \notin Services /\ Dep \subseteq Services \X Services
    /\ LastMinute \in Nat /\ Operating \in [0..LastMinute -> BOOLEAN]
    /\ Horizon \in 0..LastMinute /\ MaxInterval \in Nat
    /\ MaxFaults \in Nat /\ MaxStarts \in Nat /\ MaxRequests \in Nat /\ MaxOffline \in Nat
    /\ Submitted \subseteq {o \in [at : 0..Horizon, wake : 1..LastMinute] : o.at < o.wake}
    /\ \A t \in 1..Horizon :
          Operating[t - 1] /\ ~Operating[t] => \E u \in (t + 1)..LastMinute : StartsNext(t, u)

VARIABLES
    now,           \* the clock, the RTC's too
    machine,       \* "on", "stopping" (power-off accepted) or "off"
    alarm,         \* RTC wake alarm, Never if none
    alarmBy,       \* history: the actor whose alarm it is, or why it is not
    alarmFor,      \* history: the occurrence an execution last asked it for
    process,       \* "up" or "down"
    cursor,        \* file: completedThrough, Never before the first tick
    claims,        \* file: claimed occurrences
    active,        \* services running and a backup in progress
    tick,          \* the tick in progress
    exec,          \* [Actors -> the occurrence execution in progress]
    since,         \* history: [Actors -> work started since the actor read it]
    first,         \* history: the first cursor
    settled,       \* history: occurrences claimed, or found stale by a tick
    requests,      \* history: occurrence |-> power-off requests made for it
    spent          \* faults, starts and administrative operations so far, and
                   \* whether the clock was ever set back

files == <<cursor, claims>>
alarms == <<alarm, alarmBy, alarmFor>>
hardware == <<machine, alarms>>
vars == <<now, hardware, process, files, active, tick, exec, since, first,
          settled, requests, spent>>

Never == -1
-----------------------------------------------------------------------------
\* findNextOperatingStart after the end t of an operating window.
NextOperatingStart(t) == CHOOSE u \in (t + 1)..LastMinute : StartsNext(t, u)

\* createMachineShutdownOccurrencesForInterval: the ends of operating windows
\* in the interval, each with the start of the next window.
OccurrencesForInterval(lower, upper) ==
    {[at |-> t, wake |-> NextOperatingStart(t)] :
        t \in {u \in (lower + 1)..upper : Operating[u - 1] /\ ~Operating[u]}}

Occurrences == OccurrencesForInterval(0, Horizon)

\* What a request may name: createMachineShutdownOccurrence takes any two times in
\* order, whether the policy yields them or not.
AllOccurrences == Occurrences \cup Submitted

NoOccurrence == [at |-> Never, wake |-> Never]

Idle == [pc |-> "none", kind |-> "none", occ |-> NoOccurrence, stage |-> "none",
         areas |-> {}, found |-> {}, bad |-> {}, todo |-> {}]

NoTick == [pc |-> "idle", at |-> Never, from |-> Never, due |-> {}, complete |-> TRUE]

Init ==
    /\ now = 0 /\ machine = "on" /\ alarm = Never /\ alarmBy = "none"
    /\ alarmFor = NoOccurrence
    /\ process = "up" /\ cursor = Never /\ claims = {}
    /\ active \in SUBSET Work
    /\ tick = NoTick /\ exec = [a \in Actors |-> Idle]
    /\ since = [a \in Actors |-> {}]
    /\ first = Never /\ settled = {}
    /\ requests = [o \in AllOccurrences |-> 0]
    /\ spent = [faults |-> 0, starts |-> 0, requests |-> 0, rewound |-> FALSE]

Fault == spent.faults < MaxFaults /\ spent' = [spent EXCEPT !.faults = @ + 1]
-----------------------------------------------------------------------------
(* The tick. *)

TickBegins ==
    /\ process = "up" /\ tick.pc = "idle"
    /\ tick' = [NoTick EXCEPT !.pc = "cursor", !.at = now]
    /\ UNCHANGED <<now, hardware, process, files, active, exec, since, first, settled,
                   requests, spent>>

\* What the tick does next once it has read the cursor.
AfterCursor(at, from) ==
    IF from = Never THEN "initialize"
    ELSE CASE from = at               -> "idle"
           [] at < from               -> "halted"      \* clock_regression
           [] at - from > MaxInterval -> "halted"      \* interval_too_large
           [] OTHER                   -> "execute"

ReadCursor ==
    /\ process = "up" /\ tick.pc = "cursor"
    /\ LET next == AfterCursor(tick.at, cursor) IN
       tick' = IF next = "idle" THEN NoTick
               ELSE [tick EXCEPT !.pc = next, !.from = cursor,
                       !.due = IF next = "execute" THEN OccurrencesForInterval(cursor, tick.at)
                               ELSE {}]
    /\ UNCHANGED <<now, hardware, process, files, active, exec, since, first, settled,
                   requests, spent>>

\* advance: compare and set, which also initializes and only goes forward.
AdvanceCursor ==
    /\ process = "up" /\ tick.pc \in {"initialize", "advance"}
    /\ IF cursor = tick.from /\ cursor < tick.at
       THEN /\ cursor' = tick.at /\ tick' = NoTick
            /\ first' = IF first = Never THEN tick.at ELSE first
       ELSE tick' = [tick EXCEPT !.pc = "halted"] /\ UNCHANGED <<cursor, first>>
    /\ UNCHANGED <<now, hardware, process, claims, active, exec, since, settled, requests,
                   spent>>

\* A store or the audit trail fails: the tick rejects and the loop ends.
TickFails ==
    /\ process = "up" /\ tick.pc \in {"cursor", "initialize", "prune", "advance"}
    /\ Fault
    /\ tick' = [tick EXCEPT !.pc = "halted"]
    /\ UNCHANGED <<now, hardware, process, files, active, exec, since, first, settled,
                   requests>>

\* Variant: occurrences of the interval in progress are pruned too.
RetainedAfterTick == {c \in claims : c.at > tick.at}

\* pruneCompletedThrough the cursor the tick started from.
Retained == {c \in claims : c.at > tick.from}

PruneClaims ==
    /\ process = "up" /\ tick.pc = "prune"
    /\ claims' = Retained
    /\ tick' = [tick EXCEPT !.pc = IF tick.complete THEN "advance" ELSE "halted"]
    /\ UNCHANGED <<now, hardware, process, cursor, active, exec, since, first, settled,
                   requests, spent>>
-----------------------------------------------------------------------------
(* The execution of one occurrence, by the tick or by an administrator. *)

\* Variant: an item that was not carried out does not hold the cursor back.
AlwaysComplete(ok) == TRUE

\* Whether the report is still complete after an item.
StillComplete(ok) == tick.complete /\ ok

\* The execution returns: the tick notes the item and turns to the next.
Finish(a, ok) ==
    /\ exec' = [exec EXCEPT ![a] = Idle]
    /\ tick' = IF a = "scheduler"
               THEN [tick EXCEPT !.due = @ \ {exec[a].occ}, !.complete = StillComplete(ok)]
               ELSE tick

Step(a, pc) == process = "up" /\ exec[a].pc = pc

\* evaluateAt begins: every area is read, one await after another.
Evaluation(kind, o, stage) ==
    [Idle EXCEPT !.pc = "read", !.kind = kind, !.occ = o, !.stage = stage, !.areas = Work]

\* The scheduler's confirmation: the policy yields exactly this occurrence.
Confirmed(o) == OccurrencesForInterval(o.at - 1, o.at) = {o}

\* The tick turns to its next occurrence; a stale one is only put on record.
NextOccurrence(o) ==
    /\ process = "up" /\ tick.pc = "execute" /\ exec["scheduler"].pc = "none"
    /\ o \in tick.due /\ \A p \in tick.due : o.at <= p.at
    /\ IF tick.at >= o.wake
       THEN /\ exec' = [exec EXCEPT !["scheduler"] =
                          [Idle EXCEPT !.pc = "audit", !.kind = "execute", !.occ = o]]
            /\ settled' = settled \cup {o}
       ELSE /\ Confirmed(o)
            /\ exec' = [exec EXCEPT !["scheduler"] = Evaluation("execute", o, "initial")]
            /\ UNCHANGED settled
    /\ UNCHANGED <<now, hardware, process, files, active, tick, since, first, requests, spent>>

OccurrencesDone ==
    /\ process = "up" /\ tick.pc = "execute" /\ tick.due = {}
    /\ exec["scheduler"].pc = "none"
    /\ tick' = [tick EXCEPT !.pc = "prune"]
    /\ UNCHANGED <<now, hardware, process, files, active, exec, since, first, settled,
                   requests, spent>>

\* POST of a shutdown preparation or execution, behind a gate the scheduler does
\* not pass, for whatever occurrence the body names: one that is not due is
\* answered without effect, one that is too long refused.
AdminShutdown(kind, o) ==
    /\ process = "up" /\ tick.pc # "halted" /\ exec["admin"].pc = "none"
    /\ spent.requests < MaxRequests
    /\ o.at <= now /\ now < o.wake /\ o.wake - o.at <= MaxOffline
    /\ exec' = [exec EXCEPT !["admin"] = Evaluation(kind, o, "initial")]
    /\ spent' = [spent EXCEPT !.requests = @ + 1]
    /\ UNCHANGED <<now, hardware, process, files, active, tick, since, first, settled,
                   requests>>

\* The services are read first.
ReadTurn(e, w) == w \in e.areas /\ (w = Backup => e.areas = {Backup})

\* One area is read: a service's state, the backup readiness.
ReadArea(a, w) ==
    /\ Step(a, "read") /\ ReadTurn(exec[a], w)
    /\ exec' = [exec EXCEPT ![a].areas = @ \ {w},
                            ![a].found = IF w \in active THEN @ \cup {w} ELSE @]
    /\ since' = [since EXCEPT ![a] = @ \ {w}]
    /\ UNCHANGED <<now, hardware, process, files, active, tick, first, settled, requests,
                   spent>>

\* The read fails, or finds what no preparation removes: a service required
\* while the machine is off, in a failed or unknown state; an interrupted
\* backup; an event history that cannot record.
ReadBlocker(a, w) ==
    /\ Step(a, "read") /\ ReadTurn(exec[a], w)
    /\ Fault
    /\ exec' = [exec EXCEPT ![a].areas = @ \ {w}, ![a].bad = @ \cup {w}]
    /\ UNCHANGED <<now, hardware, process, files, active, tick, since, first, settled,
                   requests>>

\* Variant: the services that were asked to stop are not looked at again.
StraightToClaim(e) == [e EXCEPT !.pc = "claim"]

\* After the last step of the preparation plan readiness is evaluated again.
FinalEvaluation(e) == Evaluation(e.kind, e.occ, "final")

\* Where an approved execution goes; a preparation by itself is then over.
Approved(e) == [e EXCEPT !.pc = IF e.kind = "prepare" THEN "prepared" ELSE "claim"]

\* The plan: stop the running services; nothing stops a backup, the default
\* controller skips it.  Their states are read again before the first stop.
Prepare(e) ==
    IF e.found \cap Services = {} THEN FinalEvaluation(e)
    ELSE [e EXCEPT !.stage = "snapshot", !.areas = e.found \cap Services,
                   !.todo = e.found \cap Services, !.found = {}]

\* automaticallyPrepare is false in an administrative execution.
Prepares(a) == a = "scheduler" \/ exec[a].kind = "prepare"

\* Every area is read: the decision, or after the snapshots the stops.
Decide(a) ==
    LET e == exec[a] IN
    /\ Step(a, "read") /\ e.areas = {}
    /\ IF e.stage = "snapshot"
       THEN exec' = [exec EXCEPT ![a].pc = "stop"] /\ UNCHANGED tick
       ELSE IF e.found \cup e.bad = {}
       THEN exec' = [exec EXCEPT ![a] = Approved(e)] /\ UNCHANGED tick
       ELSE IF e.stage = "initial" /\ e.bad = {} /\ Prepares(a)
       THEN exec' = [exec EXCEPT ![a] = Prepare(e)] /\ UNCHANGED tick
       ELSE Finish(a, FALSE)
    /\ UNCHANGED <<now, hardware, process, files, active, since, first, settled, requests,
                   spent>>

\* Variant: services are stopped in any order.
AnyOrder(e, s) == TRUE

\* dependentFirstRequestedOrder: a service's turn comes once none of its direct
\* dependents is left.
StopTurn(e, s) == \A d \in e.todo : <<d, s>> \notin Dep

\* One stop of orchestrate-registered-services-stop; what the snapshot found
\* stopped is passed over.
StopService(a, s) ==
    LET e == exec[a] IN
    /\ Step(a, "stop") /\ s \in e.todo \ e.bad /\ StopTurn(e, s)
    /\ active' = IF s \in e.found THEN active \ {s} ELSE active
    /\ exec' = [exec EXCEPT ![a].todo = @ \ {s}]
    /\ UNCHANGED <<now, hardware, process, files, tick, since, first, settled, requests,
                   spent>>

\* A service of unknown state ends the preparation.
StopsAtUnknown(a, s) ==
    /\ Step(a, "stop") /\ s \in exec[a].todo \cap exec[a].bad /\ StopTurn(exec[a], s)
    /\ Finish(a, FALSE)
    /\ UNCHANGED <<now, hardware, process, files, active, since, first, settled, requests,
                   spent>>

\* A stop command fails, the service stopped or not, and ends the preparation.
StopFails(a, s) ==
    /\ Step(a, "stop") /\ s \in exec[a].found \cap exec[a].todo /\ StopTurn(exec[a], s)
    /\ Fault /\ Finish(a, FALSE)
    /\ active' \in {active, active \ {s}}
    /\ UNCHANGED <<now, hardware, process, files, since, first, settled, requests>>

StopsDone(a) ==
    /\ Step(a, "stop") /\ exec[a].todo = {}
    /\ exec' = [exec EXCEPT ![a] = FinalEvaluation(exec[a])]
    /\ UNCHANGED <<now, hardware, process, files, active, tick, since, first, settled,
                   requests, spent>>

PreparationEnds(a) ==
    /\ Step(a, "prepared")
    /\ Finish(a, TRUE)
    /\ UNCHANGED <<now, hardware, process, files, active, since, first, settled, requests,
                   spent>>
-----------------------------------------------------------------------------
(* Claim, wake alarm, power-off. *)

\* A duplicate is a completed item without wake or power-off.
Claim(a) ==
    LET o == exec[a].occ IN
    /\ Step(a, "claim")
    /\ settled' = settled \cup {o}
    /\ claims' = claims \cup {o}
    /\ exec' = [exec EXCEPT ![a].pc = IF o \in claims THEN "audit" ELSE "wake"]
    /\ UNCHANGED <<now, hardware, process, cursor, active, tick, since, first, requests, spent>>

ClaimFails(a) ==
    /\ Step(a, "claim")
    /\ Fault /\ Finish(a, FALSE)
    /\ UNCHANGED <<now, hardware, process, files, active, since, first, settled, requests>>

\* Variant: power-off is requested whether or not the alarm was set.
PowerOffAnyway(a) == exec' = [exec EXCEPT ![a].pc = "shutdown"] /\ UNCHANGED tick

\* What becomes of an execution whose alarm could not be set.
WakeNotSet(a) == Finish(a, FALSE)

\* The helper only takes an alarm the RTC has not reached.
ScheduleWake(a) ==
    LET o == exec[a].occ IN
    /\ Step(a, "wake")
    /\ IF o.wake > now
       THEN /\ alarm' = o.wake /\ alarmBy' = a /\ alarmFor' = o
            /\ exec' = [exec EXCEPT ![a].pc = "shutdown"] /\ UNCHANGED tick
       ELSE WakeNotSet(a) /\ UNCHANGED alarms
    /\ UNCHANGED <<now, machine, process, files, active, since, first, settled, requests,
                   spent>>

\* The helper fails or times out: before its first write, between clearing the
\* old alarm and writing the new, or after both.
WakeFails(a) ==
    /\ Step(a, "wake") /\ exec[a].occ.wake > now
    /\ Fault /\ WakeNotSet(a)
    /\ alarm' \in {alarm, Never, exec[a].occ.wake}
    /\ alarmBy' = "failed" /\ alarmFor' = exec[a].occ
    /\ UNCHANGED <<now, machine, process, files, active, since, first, settled, requests>>

Requested(a) == requests' = [requests EXCEPT ![exec[a].occ] = @ + 1]

\* logind accepts one power-off.
RequestShutdown(a) ==
    /\ Step(a, "shutdown")
    /\ Requested(a)
    /\ IF machine = "on"
       THEN /\ machine' = "stopping"
            /\ exec' = [exec EXCEPT ![a].pc = "audit"] /\ UNCHANGED tick
       ELSE Finish(a, FALSE) /\ UNCHANGED machine
    /\ UNCHANGED <<now, alarms, process, files, active, since, first, settled, spent>>

\* The request fails or times out, accepted or not; the alarm stays.
ShutdownFails(a) ==
    /\ Step(a, "shutdown") /\ machine = "on"
    /\ Fault /\ Finish(a, FALSE) /\ Requested(a)
    /\ machine' \in {"on", "stopping"}
    /\ UNCHANGED <<now, alarms, process, files, active, since, first, settled>>

ExecutionAudited(a) ==
    /\ Step(a, "audit") /\ Finish(a, TRUE)
    /\ UNCHANGED <<now, hardware, process, files, active, since, first, settled, requests,
                   spent>>

\* An executed, stale or duplicate occurrence whose audit record fails is a
\* failed item.
AuditFails(a) ==
    /\ Step(a, "audit") /\ Fault /\ Finish(a, FALSE)
    /\ UNCHANGED <<now, hardware, process, files, active, since, first, settled, requests>>

AdminOperation ==
    /\ process = "up" /\ tick.pc # "halted" /\ exec["admin"].pc = "none"
    /\ spent.requests < MaxRequests
    /\ spent' = [spent EXCEPT !.requests = @ + 1]
    /\ UNCHANGED <<now, machine, process, files, active, tick, exec, since, first, settled,
                   requests>>

\* PUT and DELETE of the wake alarm, behind the same gate.
Edited == alarmBy' = "edit" /\ alarmFor' = NoOccurrence

AdminScheduleWake(t) == AdminOperation /\ t > now /\ alarm' = t /\ Edited

AdminCancelWake == AdminOperation /\ alarm # Never /\ alarm' = Never /\ Edited
-----------------------------------------------------------------------------
(* Machine, process and environment. *)

\* The RTC's alarm goes off once, and switches on a machine that is off.
ClockTicks ==
    /\ now < Horizon
    /\ now' = now + 1
    /\ IF alarm = now + 1
       THEN /\ alarm' = Never /\ alarmBy' = "fired" /\ alarmFor' = NoOccurrence
            /\ machine' = IF machine = "off" THEN "on" ELSE machine
       ELSE UNCHANGED hardware
    /\ UNCHANGED <<process, files, active, tick, exec, since, first, settled, requests, spent>>

\* The clock is set back.
ClockStepsBack ==
    /\ now > 0 /\ spent.faults < MaxFaults
    /\ now' \in 0..(now - 1)
    /\ spent' = [spent EXCEPT !.faults = @ + 1, !.rewound = TRUE]
    /\ UNCHANGED <<hardware, process, files, active, tick, exec, since, first, settled, requests>>

ProcessGone ==
    /\ process' = "down" /\ tick' = NoTick /\ exec' = [a \in Actors |-> Idle]

PowerGoes ==
    /\ machine = "stopping" /\ machine' = "off"
    /\ ProcessGone /\ active' = {}
    /\ UNCHANGED <<now, alarms, files, since, first, settled, requests, spent>>

Crash ==
    /\ process = "up" /\ Fault /\ ProcessGone
    /\ UNCHANGED <<now, hardware, files, active, since, first, settled, requests>>

\* The loop has ended abnormally: the application shuts down, after the
\* administrative operation in progress, and is not restarted by itself.
ProcessExits ==
    /\ process = "up" /\ tick.pc = "halted" /\ exec["admin"].pc = "none"
    /\ ProcessGone
    /\ UNCHANGED <<now, hardware, files, active, since, first, settled, requests, spent>>

\* Boot, or an operator's restart.
ProcessStarts ==
    /\ process = "down" /\ machine = "on"
    /\ process' = "up"
    /\ UNCHANGED <<now, hardware, files, active, tick, exec, since, first, settled, requests,
                   spent>>

\* Somebody presses the power button.
SwitchedOn ==
    /\ machine = "off" /\ machine' = "on"
    /\ UNCHANGED <<now, alarms, process, files, active, tick, exec, since, first,
                   settled, requests, spent>>

\* A service is started, or a backup begins, by someone else.
WorkStarts(w) ==
    /\ machine # "off" /\ w \notin active /\ spent.starts < MaxStarts
    /\ w = Backup => process = "up"
    /\ active' = active \cup {w}
    /\ since' = [a \in Actors |-> since[a] \cup {w}]
    /\ spent' = [spent EXCEPT !.starts = @ + 1]
    /\ UNCHANGED <<now, hardware, process, files, tick, exec, first, settled, requests>>

WorkEnds(w) ==
    /\ w \in active
    /\ active' = active \ {w}
    /\ UNCHANGED <<now, hardware, process, files, tick, exec, since, first, settled, requests,
                   spent>>
-----------------------------------------------------------------------------
TickStep ==
    \/ TickBegins \/ ReadCursor \/ AdvanceCursor \/ TickFails \/ PruneClaims \/ OccurrencesDone
    \/ \E o \in tick.due : NextOccurrence(o)

ExecutionStep(a) ==
    \/ Decide(a) \/ StopsDone(a) \/ Claim(a) \/ ClaimFails(a)
    \/ ScheduleWake(a) \/ WakeFails(a) \/ RequestShutdown(a) \/ ShutdownFails(a)
    \/ ExecutionAudited(a) \/ AuditFails(a) \/ PreparationEnds(a)
    \/ \E w \in Work : ReadArea(a, w) \/ ReadBlocker(a, w)
    \/ \E s \in Services : StopService(a, s) \/ StopsAtUnknown(a, s) \/ StopFails(a, s)

Environment ==
    \/ ClockTicks \/ ClockStepsBack \/ PowerGoes \/ Crash \/ ProcessExits \/ ProcessStarts \/ SwitchedOn
    \/ \E w \in Work : WorkStarts(w) \/ WorkEnds(w)
    \/ \E o \in AllOccurrences, kind \in {"prepare", "execute"} : AdminShutdown(kind, o)
    \/ \E t \in 1..LastMinute : AdminScheduleWake(t)
    \/ AdminCancelWake

Next == TickStep \/ (\E a \in Actors : ExecutionStep(a)) \/ Environment

Spec == Init /\ [][Next]_vars
-----------------------------------------------------------------------------
Phases == {"none", "read", "stop", "claim", "wake", "shutdown", "audit", "prepared"}

Executions ==
    [pc : Phases, kind : {"none", "prepare", "execute"}, occ : AllOccurrences \cup {NoOccurrence},
     stage : {"none", "initial", "snapshot", "final"},
     areas : SUBSET Work, found : SUBSET Work, bad : SUBSET Work, todo : SUBSET Services]

Ticks ==
    [pc : {"idle", "cursor", "initialize", "execute", "prune", "advance", "halted"},
     at : {Never} \cup 0..Horizon, from : {Never} \cup 0..Horizon,
     due : SUBSET Occurrences, complete : BOOLEAN]

Spendings ==
    [faults : 0..MaxFaults, starts : 0..MaxStarts, requests : 0..MaxRequests, rewound : BOOLEAN]

\* Every variable keeps its type: preparation only ever stops services, and no
\* process runs on a machine that is off.
TypeOK ==
    /\ now \in 0..Horizon /\ machine \in {"on", "stopping", "off"}
    /\ alarm \in {Never} \cup 0..LastMinute
    /\ alarmBy \in Actors \cup {"none", "failed", "edit", "fired"}
    /\ alarmFor \in AllOccurrences \cup {NoOccurrence}
    /\ process \in {"up", "down"} /\ (machine = "off" => process = "down")
    /\ cursor \in {Never} \cup 0..Horizon /\ claims \subseteq AllOccurrences
    /\ active \subseteq Work /\ since \in [Actors -> SUBSET Work]
    /\ tick \in Ticks
    /\ exec \in [Actors -> Executions]
    /\ first \in {Never} \cup 0..Horizon /\ settled \subseteq AllOccurrences
    /\ requests \in [AllOccurrences -> Nat]
    /\ spent \in Spendings

\* Power-off is requested at most once for an occurrence the cursor has not
\* passed, whoever executes it and whatever crashes in between: the tick prunes
\* claims only behind the cursor it read.
OnceAheadOfCursor ==
    \A o \in DOMAIN requests : o.at > cursor => requests[o] <= 1

\* The cursor passes an occurrence only once it is claimed or stale; one that
\* was rejected, half prepared or failed before its claim is retried.
CursorPassesOnlySettled ==
    cursor # Never => OccurrencesForInterval(first, cursor) \subseteq settled

\* The power-off of one execution and the alarm of another: two occurrences that
\* are due at one time, at least one of them an administrator's own.
Overlapping(o, p) ==
    o # p /\ ~({o, p} \subseteq Occurrences) /\ o.at < p.wake /\ p.at < o.wake

OwnAlarm(a) == alarm = exec[a].occ.wake /\ alarmBy = a

\* The alarm was changed or went off after the execution had set it.
AlarmMoved(a) == alarmBy \in {"edit", "fired"} \/ now >= exec[a].occ.wake

\* An execution of an overlapping occurrence has set the alarm since, or has
\* failed to.
AlarmReplaced(a) ==
    /\ Overlapping(alarmFor, exec[a].occ)
    /\ alarmBy = "failed" \/ alarm = alarmFor.wake

\* A power-off takes effect only with the wake alarm of its occurrence set by
\* this very execution, unless an administrator has changed the alarm since, its
\* time has come, or an overlapping occurrence has been executed meanwhile, one of
\* the two being an administrator's own: then the alarm is of that occurrence, or
\* lost by its failing helper.  No other execution comes between alarm and
\* power-off, and two of the policy's occurrences never meet there, as long as the
\* clock is not set back into the time of another occurrence.
WakeBeforePowerOff ==
    [][machine = "on" /\ machine' = "stopping" =>
          \E a \in Actors :
              /\ exec[a].pc = "shutdown" /\ exec'[a].pc # "shutdown"
              /\ OwnAlarm(a) \/ AlarmMoved(a) \/ AlarmReplaced(a) \/ spent.rewound]_vars

\* What the glossary says of a wake preparation (docs/glossary.md:906-909), the
\* failed one included, which the code does not keep: the scheduler and the
\* administrative route share no lock between alarm and power-off.
PowersOffPrepared ==
    [][machine = "on" /\ machine' = "stopping" =>
          \E a \in Actors :
              /\ exec[a].pc = "shutdown" /\ exec'[a].pc # "shutdown"
              /\ OwnAlarm(a) \/ AlarmMoved(a) \/ spent.rewound]_vars

\* What still runs when power-off is requested started after this execution's
\* last look at it: preparation is checked by its effect, not taken on trust.
NoPowerOffOverKnownWork ==
    [][\A a \in Actors :
          exec[a].pc = "shutdown" /\ requests' # requests /\ exec'[a].pc # "shutdown"
              => active \subseteq since[a]]_vars

\* Preparation stops a service only when no direct dependent runs that it knew of.
PreparationStopsDependentsFirst ==
    [][\A a \in Actors, s \in Services :
          s \in exec[a].todo \ exec'[a].todo /\ s \in active \ active' /\ exec'[a].pc = "stop"
              => \A d \in active \ since[a] : <<d, s>> \notin Dep]_vars

\* What the glossary says of a claim: replaying an occurrence repeats nothing.
ClaimsPreventReplay == \A o \in AllOccurrences : requests[o] <= 1
-----------------------------------------------------------------------------
(* The inductive invariant of the theorems in MachinePowerProofs. *)

\* Where a tick stands with the occurrences of its interval.
InInterval == {"execute", "prune", "advance"}

\* The tick works on the cursor it read, and the scheduler's execution on an
\* occurrence that is due in it.
TickInv ==
    /\ tick.pc \in InInterval \cup {"initialize"} => tick.from = cursor
    /\ tick.pc \in InInterval \cup {"cursor", "initialize"} => tick.at # Never
    /\ tick.pc = "initialize" => tick.from = Never
    /\ tick.pc \in InInterval =>
          /\ tick.from # Never /\ tick.from < tick.at
          /\ tick.due \subseteq OccurrencesForInterval(tick.from, tick.at)
    /\ tick.pc \in {"prune", "advance"} => tick.due = {}
    /\ tick.pc = "advance" => tick.complete
    /\ exec["scheduler"].pc # "none" =>
          /\ tick.pc = "execute" /\ exec["scheduler"].occ \in tick.due
          /\ exec["scheduler"].kind = "execute"

\* An execution is of an occurrence; only a preparation ends as prepared.
ExecInv ==
    \A a \in Actors : exec[a].pc # "none" =>
        /\ exec[a].occ \in AllOccurrences
        /\ exec[a].pc = "prepared" => exec[a].kind = "prepare"

\* What a complete tick has dealt with is settled, and so is what an execution
\* claimed.
SettledInv ==
    /\ tick.pc \in InInterval /\ tick.complete =>
          OccurrencesForInterval(tick.from, tick.at) \ tick.due \subseteq settled
    /\ exec["scheduler"].pc \in {"wake", "shutdown", "audit"} =>
          exec["scheduler"].occ \in settled
    /\ first = Never <=> cursor = Never
    /\ first <= cursor

\* Ahead of the cursor, what was requested is still claimed, and what an
\* execution is about to request is claimed by it alone.
OnceInv ==
    /\ \A o \in AllOccurrences : o.at > cursor /\ requests[o] > 0 => o \in claims
    /\ \A a \in Actors :
          exec[a].pc \in {"wake", "shutdown"} /\ exec[a].occ.at > cursor =>
              /\ exec[a].occ \in claims /\ requests[exec[a].occ] = 0
              /\ \A b \in Actors \ {a} :
                    exec[b].pc \in {"wake", "shutdown"} => exec[b].occ # exec[a].occ

\* As long as the clock only goes forward, what is executed is due.
DueInv ==
    ~spent.rewound =>
        /\ tick.pc # "idle" => tick.at <= now
        /\ \A a \in Actors : exec[a].pc # "none" => exec[a].occ.at <= now

\* The alarm an execution relies on is its own, or was taken from it.
AlarmInv ==
    ~spent.rewound =>
        \A a \in Actors : exec[a].pc = "shutdown" =>
            OwnAlarm(a) \/ AlarmMoved(a) \/ AlarmReplaced(a)

\* What an execution knows to run, it still has to read, has found, or could not
\* read; while it prepares, the services of it are still to be stopped; once
\* approved it knows of nothing.
Accounted(e, known) ==
    /\ e.pc = "read" => e.stage # "none"
    /\ e.pc = "read" /\ e.stage # "snapshot" => known \subseteq e.areas \cup e.found \cup e.bad
    /\ e.pc = "read" /\ e.stage = "snapshot" => e.areas \subseteq e.todo
    /\ (e.pc = "read" /\ e.stage = "snapshot") \/ e.pc = "stop" =>
          known \cap Services \subseteq e.todo \cap (e.areas \cup e.found \cup e.bad)
    /\ e.pc = "stop" => e.areas = {}
    /\ e.pc \in {"claim", "wake", "shutdown", "prepared"} => known = {}

\* Running work that did not start since an execution read it is known to it.
KnownInv == \A a \in Actors : Accounted(exec[a], active \ since[a])

TypeInv == TypeOK /\ ExecInv
SafetyInv == TickInv /\ SettledInv /\ CursorPassesOnlySettled
ClaimInv == OnceInv /\ OnceAheadOfCursor
WakeInv == DueInv /\ AlarmInv

IInv == TypeInv /\ SafetyInv /\ ClaimInv /\ WakeInv /\ KnownInv
=============================================================================
