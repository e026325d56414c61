------------------------ MODULE ApplicationLifecycle ------------------------
(***************************************************************************)
(* The life of the process: main.ts starts the scheduler loops once the    *)
(* listener is ready, each loop runs one cycle after another until it is   *)
(* stopped or its cycle ends badly (the scheduler-loop.ts files), a        *)
(* runtime observes how a loop ended (the scheduler-runtime.ts files), and *)
(* the first shutdown request stops the loops and closes the server        *)
(* (graceful-shutdown.ts).                                                 *)
(*                                                                         *)
(* Callbacks of the event loop (timers, signals, settled I/O) run only     *)
(* when no promise reaction is left: micro holds the reactions queued, and *)
(* their mutual order is left open.                                        *)
(***************************************************************************)
EXTENDS Naturals

CONSTANTS
    Loops,        \* scheduler loops that complete: reconciliation, machine power
    BadResults,   \* [Loops -> SUBSET STRING], cycle results that end the loop
    MaxRequests   \* bound on HTTP requests in progress

LifecycleAssumption ==
    /\ "backup" \notin Loops
    /\ BadResults \in [Loops -> SUBSET {"incomplete", "conflict", "blocked"}]
    /\ MaxRequests \in Nat

VARIABLES
    server,       \* "opening", "listening", "failed", "closing" or "closed"
    requests,     \* HTTP requests in progress
    phase,        \* [Loops -> {"new", "cycle", "timer", "done"}]
    stopping,     \* loops with stopRequested
    completion,   \* [Loops -> how the loop completed, "none" before]
    backup,       \* backup loop: "new", "armed" (interval set) or "stopped"
    backupTick,   \* "idle" or "busy": a backup tick in progress
    shutdown,     \* "none", "stopping", "completed" or "failed"
    closing,      \* server.close: "none", "pending", "done" or "failed"
    exitCode,     \* process.exitCode
    micro         \* promise reactions to run: <<"stop", l>>, <<"observe", l>>

vars == <<server, requests, phase, stopping, completion, backup, backupTick,
          shutdown, closing, exitCode, micro>>

Stop(l) == <<"stop", l>>
StopBackup == <<"stop", "backup">>
Observe(l) == <<"observe", l>>

Init ==
    /\ server = "opening" /\ requests = 0
    /\ phase = [l \in Loops |-> "new"]
    /\ stopping = {}
    /\ completion = [l \in Loops |-> "none"]
    /\ backup = "new" /\ backupTick = "idle"
    /\ shutdown = "none" /\ closing = "none"
    /\ exitCode = 0 /\ micro = {}
-----------------------------------------------------------------------------
\* requestShutdown: the first call stops the background work, in reactions of
\* their own, and closes the server, which is in the given state; later calls
\* only return its promise.  Closing a server that does not listen fails.
RequestShutdown(state, reactions) ==
    IF shutdown = "none"
    THEN /\ shutdown' = "stopping"
         /\ micro' = reactions \cup {Stop(l) : l \in Loops} \cup {StopBackup}
         /\ IF state = "listening"
            THEN server' = "closing" /\ closing' = "pending"
            ELSE server' = state /\ closing' = "failed"
    ELSE server' = state /\ micro' = reactions /\ UNCHANGED <<shutdown, closing>>

\* Variant: the completion promise is not resolved.
CompleteUnresolved(l, kind) ==
    /\ phase' = [phase EXCEPT ![l] = "done"]
    /\ completion' = completion

\* complete(kind), which no completed loop reaches again.
Complete(l, kind) ==
    /\ phase' = [phase EXCEPT ![l] = "done"]
    /\ completion' = [completion EXCEPT ![l] = kind]

\* A reaction observes the completion if the runtime has started the loop.
Observed(l) == IF phase[l] = "new" THEN {} ELSE {Observe(l)}

MacroTask == micro = {}
-----------------------------------------------------------------------------
\* Variant: the listener does not look for an earlier shutdown request.
StartsAnyway == TRUE

\* Whether the "listening" callback goes on to start the loops.
MayStart == shutdown = "none"

\* The "listening" event: start() begins the first cycle of a loop that was
\* neither started nor stopped; the backup loop only knows whether it started.
Listening ==
    /\ MacroTask /\ server = "opening"
    /\ server' = "listening"
    /\ IF MayStart
       THEN /\ phase' = [l \in Loops |-> IF phase[l] = "new" THEN "cycle" ELSE phase[l]]
            /\ backup' = IF backup = "new" THEN "armed" ELSE backup
       ELSE UNCHANGED <<phase, backup>>
    /\ UNCHANGED <<requests, stopping, completion, backupTick, shutdown, closing,
                   exitCode, micro>>

\* The "error" event of a listener that cannot be opened.
ListenFails ==
    /\ MacroTask /\ server = "opening"
    /\ exitCode' = 1
    /\ RequestShutdown("failed", {})
    /\ UNCHANGED <<requests, phase, stopping, completion, backup, backupTick>>

\* SIGINT or SIGTERM.
Signal ==
    /\ MacroTask
    /\ RequestShutdown(server, {})
    /\ UNCHANGED <<requests, phase, stopping, completion, backup, backupTick, exitCode>>

\* An unhandled rejection or an uncaught exception.
UnhandledError ==
    /\ MacroTask
    /\ exitCode' = 1
    /\ RequestShutdown(server, {})
    /\ UNCHANGED <<requests, phase, stopping, completion, backup, backupTick>>
-----------------------------------------------------------------------------
\* Variant: the stop request is forgotten.
AlwaysScheduleNext(l) == "timer"

\* Where handleCycleResult leaves the loop after a cycle that may go on.
AfterCycle(l) == IF l \in stopping THEN "done" ELSE "timer"

\* A cycle resolves and the loop may go on.
CycleCompletes(l) ==
    /\ MacroTask /\ phase[l] = "cycle"
    /\ IF AfterCycle(l) = "done"
       THEN Complete(l, "stopped") /\ micro' = Observed(l)
       ELSE phase' = [phase EXCEPT ![l] = AfterCycle(l)] /\ UNCHANGED <<completion, micro>>
    /\ UNCHANGED <<server, requests, stopping, backup, backupTick, shutdown, closing, exitCode>>

\* A cycle resolves with a result that ends the loop, stop requested or not.
CycleEndsLoop(l, result) ==
    /\ MacroTask /\ phase[l] = "cycle" /\ result \in BadResults[l]
    /\ Complete(l, result) /\ micro' = Observed(l)
    /\ UNCHANGED <<server, requests, stopping, backup, backupTick, shutdown, closing, exitCode>>

\* A cycle rejects, or the next one cannot be scheduled.
CycleFails(l) ==
    /\ MacroTask /\ phase[l] = "cycle"
    /\ Complete(l, "failed") /\ micro' = Observed(l)
    /\ UNCHANGED <<server, requests, stopping, backup, backupTick, shutdown, closing, exitCode>>

\* The one-minute timer fires: runNextCycle, unless the loop was stopped.
TimerFires(l) ==
    /\ MacroTask /\ phase[l] = "timer"
    /\ l \notin stopping
    /\ phase' = [phase EXCEPT ![l] = "cycle"]
    /\ UNCHANGED <<server, requests, stopping, completion, backup, backupTick, shutdown,
                   closing, exitCode, micro>>

\* stop() completes the loop now: not started yet, or waiting for its timer.
StopsNow(l) == phase[l] \in {"new", "timer"}

\* Reaction: loop.stop().
StopLoop(l) ==
    /\ Stop(l) \in micro
    /\ stopping' = IF phase[l] = "done" THEN stopping ELSE stopping \cup {l}
    /\ IF StopsNow(l)
       THEN Complete(l, "stopped") /\ micro' = (micro \ {Stop(l)}) \cup Observed(l)
       ELSE micro' = micro \ {Stop(l)} /\ UNCHANGED <<phase, completion>>
    /\ UNCHANGED <<server, requests, backup, backupTick, shutdown, closing, exitCode>>

\* Reaction: loop.stop() whose timer cannot be cancelled.
CancelFails(l) ==
    /\ Stop(l) \in micro /\ phase[l] = "timer"
    /\ stopping' = stopping \cup {l}
    /\ Complete(l, "failed") /\ micro' = (micro \ {Stop(l)}) \cup Observed(l)
    /\ UNCHANGED <<server, requests, backup, backupTick, shutdown, closing, exitCode>>

\* Variant: a cursor conflict is taken for an ordinary stop.
AbnormalButConflict(kind) == kind \notin {"stopped", "conflict"}

Abnormal(kind) == kind # "stopped"

\* Reaction: observeCompletion.
ObserveCompletion(l) ==
    /\ Observe(l) \in micro
    /\ IF Abnormal(completion[l])
       THEN exitCode' = 1 /\ RequestShutdown(server, micro \ {Observe(l)})
       ELSE micro' = micro \ {Observe(l)} /\ UNCHANGED <<exitCode, shutdown, server, closing>>
    /\ UNCHANGED <<requests, phase, stopping, completion, backup, backupTick>>
-----------------------------------------------------------------------------
\* The backup loop: an interval whose ticks are not awaited by stop().
BackupTickStarts ==
    /\ MacroTask /\ backup = "armed" /\ backupTick = "idle"
    /\ backupTick' = "busy"
    /\ UNCHANGED <<server, requests, phase, stopping, completion, backup, shutdown, closing,
                   exitCode, micro>>

BackupTickEnds ==
    /\ MacroTask /\ backupTick = "busy"
    /\ backupTick' = "idle"
    /\ UNCHANGED <<server, requests, phase, stopping, completion, backup, shutdown, closing,
                   exitCode, micro>>

StopBackupLoop ==
    /\ StopBackup \in micro
    /\ backup' = IF backup = "armed" THEN "stopped" ELSE backup
    /\ micro' = micro \ {StopBackup}
    /\ UNCHANGED <<server, requests, phase, stopping, completion, backupTick, shutdown, closing,
                   exitCode>>
-----------------------------------------------------------------------------
\* The server: a closing one takes no new connections and lets the others end.
RequestArrives ==
    /\ MacroTask /\ server = "listening" /\ requests < MaxRequests
    /\ requests' = requests + 1
    /\ UNCHANGED <<server, phase, stopping, completion, backup, backupTick, shutdown, closing,
                   exitCode, micro>>

RequestEnds ==
    /\ MacroTask /\ requests > 0
    /\ requests' = requests - 1
    /\ UNCHANGED <<server, phase, stopping, completion, backup, backupTick, shutdown, closing,
                   exitCode, micro>>

ServerCloses ==
    /\ MacroTask /\ server = "closing" /\ requests = 0
    /\ server' = "closed" /\ closing' = "done"
    /\ UNCHANGED <<requests, phase, stopping, completion, backup, backupTick, shutdown,
                   exitCode, micro>>

\* Variant: only the server is waited for.
ServerOnly == closing # "pending"

\* Promise.all over the stops, of which each waits for its loop to complete,
\* and the close.
WorkStopped ==
    /\ closing # "pending"
    /\ \A l \in Loops : phase[l] = "done"

\* coordinateShutdown after its await: a failed close sets the exit code.
SettleShutdown ==
    /\ MacroTask /\ shutdown = "stopping" /\ WorkStopped
    /\ IF closing = "failed" THEN shutdown' = "failed" /\ exitCode' = 1
       ELSE shutdown' = "completed" /\ UNCHANGED exitCode
    /\ UNCHANGED <<server, requests, phase, stopping, completion, backup, backupTick, closing,
                   micro>>
-----------------------------------------------------------------------------
\* Work that ends by itself.
Progress ==
    \/ \E l \in Loops : StopLoop(l) \/ ObserveCompletion(l) \/ TimerFires(l)
    \/ StopBackupLoop \/ ServerCloses \/ SettleShutdown

Next ==
    \/ Progress \/ Listening \/ ListenFails \/ Signal \/ UnhandledError
    \/ \E l \in Loops :
          \/ CycleCompletes(l) \/ CycleFails(l) \/ CancelFails(l)
          \/ \E r \in BadResults[l] : CycleEndsLoop(l, r)
    \/ BackupTickStarts \/ BackupTickEnds \/ RequestArrives \/ RequestEnds

Spec == Init /\ [][Next]_vars

CycleEnds(l) ==
    CycleCompletes(l) \/ CycleFails(l) \/ \E r \in BadResults[l] : CycleEndsLoop(l, r)

\* Reactions, timers and settled I/O are run; every cycle ends (its commands,
\* reads and readiness waits are bounded) and so does every HTTP request: strong
\* fairness, for each reaction in between disables them.  A listener may stay
\* between opening and listening for ever.
FairSpec ==
    /\ Spec
    /\ WF_vars(Progress) /\ SF_vars(RequestEnds)
    /\ \A l \in Loops : SF_vars(CycleEnds(l))
-----------------------------------------------------------------------------
\* Every variable keeps its type, and a loop is done exactly when its completion
\* promise is resolved.
TypeOK ==
    /\ server \in {"opening", "listening", "failed", "closing", "closed"}
    /\ requests \in 0..MaxRequests
    /\ phase \in [Loops -> {"new", "cycle", "timer", "done"}]
    /\ stopping \subseteq Loops
    /\ completion \in [Loops -> {"none", "stopped", "failed", "incomplete", "conflict", "blocked"}]
    /\ backup \in {"new", "armed", "stopped"} /\ backupTick \in {"idle", "busy"}
    /\ shutdown \in {"none", "stopping", "completed", "failed"}
    /\ closing \in {"none", "pending", "done", "failed"}
    /\ \A l \in Loops : completion[l] = "none" <=> phase[l] # "done"
    /\ exitCode \in {0, 1}
    /\ micro \subseteq {Stop(l) : l \in Loops} \cup {Observe(l) : l \in Loops} \cup {StopBackup}

Settled == shutdown \in {"completed", "failed"}

\* Once shutdown is reported over, no cycle is in flight and none is to come:
\* what a scheduler was doing when the request came has been waited for.
DrainedWhenSettled == Settled => \A l \in Loops : phase[l] = "done"

\* A scheduler loop never ends without the application ending too, and an
\* abnormal end always shows in the exit code, even during a clean shutdown.
NoSilentSchedulerDeath ==
    MacroTask => \A l \in Loops :
        phase[l] = "done" => /\ shutdown # "none"
                             /\ completion[l] # "stopped" => exitCode = 1

\* Neither a shutdown nor a failure loses a scheduler: what runs is waited for,
\* and what died is reported (graceful-shutdown.ts and the scheduler runtimes).
ShutdownLosesNoLoop == TypeOK /\ DrainedWhenSettled /\ NoSilentSchedulerDeath

\* From the first shutdown request on, no cycle and no backup tick begins.
NoWorkAfterShutdownRequest ==
    [][shutdown # "none" =>
          /\ \A l \in Loops : phase'[l] = "cycle" => phase[l] = "cycle"
          /\ backupTick' = "busy" => backupTick = "busy"]_vars

\* A requested shutdown settles, whatever the loops were doing.
ShutdownSettles == (shutdown = "stopping") ~> Settled
-----------------------------------------------------------------------------
(* The inductive invariant of the theorems in ServiceControlProofs.       *)

\* After a shutdown request every loop is over, told to stop or about to be.
StopInv ==
    shutdown # "none" =>
        /\ \A l \in Loops : phase[l] = "done" \/ l \in stopping \/ Stop(l) \in micro
        /\ backup = "armed" => StopBackup \in micro

\* Nothing is told to stop before, and nothing has.
CauseInv ==
    shutdown = "none" =>
        /\ stopping = {} /\ micro \subseteq {Observe(l) : l \in Loops}
        /\ \A l \in Loops : completion[l] # "stopped"

\* The end of a loop has been acted upon, or its observer is queued.
ObserverInv ==
    \A l \in Loops : phase[l] = "done" =>
        \/ Observe(l) \in micro
        \/ shutdown # "none" /\ (completion[l] # "stopped" => exitCode = 1)

IInv == TypeOK /\ DrainedWhenSettled /\ StopInv /\ CauseInv /\ ObserverInv
=============================================================================
