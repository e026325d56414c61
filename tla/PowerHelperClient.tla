------------------------- MODULE PowerHelperClient -------------------------
(***************************************************************************)
(* The manager's side of the power helper at run time: callers share one   *)
(* transport, which runs their requests one after the other, each in a     *)
(* helper process of its own.  A helper takes a non-blocking lock on a     *)
(* file, reads and writes the clock's alarm, releases the lock, writes its *)
(* answer and exits.  When the timer or the pipe fails first, the manager  *)
(* sends SIGTERM and goes on at once: the process may take further steps   *)
(* before the signal reaches it, next to the helper of the next request.   *)
(***************************************************************************)
EXTENDS PowerHelperProtocol, Sequences, FiniteSets

CONSTANTS
    Callers,        \* calls of the adapters
    Asked,          \* what they ask: [operation, scheduledFor]
    LastInstant     \* bound on the clock

NoCall == "no call"
TheClock == "the clock"

\* A canonical timestamp without its fraction of a second is one too.
ASSUME ClientAssumption ==
    /\ NoCall \notin Callers /\ TheClock \notin Callers
    /\ InstantsAssumption /\ \A t \in Instants : Second(t) \in Instants
    /\ Asked \subseteq [operation : Operations, scheduledFor : Nat]
    /\ LastInstant \in Nat

VARIABLES
    clock,      \* the machine's time
    rtcAlarm,   \* the alarm of the real-time clock
    call,       \* call[c]: request, and answer once it has settled
    queue,      \* the chain of #tail: calls that wait for their turn
    running,    \* the call whose promise is being executed
    helper,     \* helper[c]: the process of call c
    disturbed,  \* history: lock holders during whose hold another helper wrote
    writer      \* history: whose helper changed the alarm last, or the clock

clientVars == <<clock, rtcAlarm, call, queue, running, helper, disturbed, writer>>
history == <<disturbed, writer>>
ipc == <<call, queue, running>>

NoRequest == PlainRequest("none", 0)
Waiting == Thrown("not settled")

NoHelper == [at |-> "none", before |-> NotScheduled, said |-> <<>>, signalled |-> FALSE]

Alive(c) == helper[c].at \notin {"none", "exited", "dead"}
Holds(c) == helper[c].at \in {"locked", "clear", "cleared", "write", "written"}
Exclusive(c) == call[c].request.operation \in Mutations \union {"request_shutdown"}

ClientInit ==
    /\ clock = 0
    /\ rtcAlarm \in {NotScheduled} \union {Scheduled(t) : t \in {i \in Instants : i > 0 /\ Second(i) = i}}
    /\ call = [c \in Callers |-> [request |-> NoRequest, answer |-> Waiting]]
    /\ queue = <<>>
    /\ running = NoCall
    /\ helper = [c \in Callers |-> NoHelper]
    /\ disturbed = {}
    /\ writer = TheClock
-----------------------------------------------------------------------------
(* The manager. *)

\* The promise of call c settles: the next call in the chain may run.
Settle(c, transportResult) ==
    call' = [call EXCEPT ![c].answer = AdapterAnswer(call[c].request, transportResult)]

RequestFor(asked) ==
    IF asked.operation = "schedule_wake_alarm"
    THEN ScheduleRequest(clock, asked.scheduledFor)
    ELSE PlainRequest(asked.operation, clock)

\* An adapter is called.  An invalid request throws before it is queued.
Execute(c) ==
    /\ call[c].request = NoRequest
    /\ \E asked \in Asked :
         LET request == RequestFor(asked)
             valid == RequestValid(request)
         IN /\ call' = [call EXCEPT ![c] =
                          [request |-> request,
                           answer |-> IF valid THEN Waiting ELSE Thrown("invalid_request")]]
            /\ queue' = IF valid THEN Append(queue, c) ELSE queue
    /\ UNCHANGED <<clock, rtcAlarm, running, helper>> /\ UNCHANGED history

\* Variant: a helper is started beside the one of the running call.
StartAnytime(c) ==
    /\ queue # <<>> /\ c = Head(queue)
    /\ queue' = Tail(queue)
    /\ running' = c
    /\ helper' = [helper EXCEPT ![c] = [NoHelper EXCEPT !.at = "started"]]
    /\ UNCHANGED <<clock, rtcAlarm, call>> /\ UNCHANGED history

\* #executeOne up to the spawned process: the installation is inspected and
\* the helper started, or the call is rejected.
Start(c) ==
    /\ running = NoCall
    /\ queue # <<>> /\ c = Head(queue)
    /\ queue' = Tail(queue)
    /\ \/ /\ running' = c
          /\ helper' = [helper EXCEPT ![c] = [NoHelper EXCEPT !.at = "started"]]
          /\ UNCHANGED call
       \/ /\ \E code \in {"helper_not_found", "helper_group_invalid", "helper_start_failed"} :
               Settle(c, Thrown(code))
          /\ UNCHANGED <<running, helper>>
    /\ UNCHANGED <<clock, rtcAlarm>> /\ UNCHANGED history

\* Variant: a call that is given up keeps the queue waiting.
FailCallUnchained(c, code) ==
    /\ running = c
    /\ helper' = [helper EXCEPT ![c].signalled = TRUE]
    /\ UNCHANGED <<clock, rtcAlarm, call, queue, running>> /\ UNCHANGED history

\* fail: the timer, or an error of the helper's standard input.  The child
\* is signalled, its listeners are gone, the caller is answered.
FailCall(c, code) ==
    /\ running = c
    /\ running' = NoCall
    /\ helper' = [helper EXCEPT ![c].signalled = TRUE]
    /\ Settle(c, Thrown(code))
    /\ UNCHANGED <<clock, rtcAlarm, queue>> /\ UNCHANGED history

Timeout(c) == FailCall(c, "helper_timeout")
InputError(c) == helper[c].at \in {"exited", "dead"} /\ FailCall(c, "helper_io_failed")

\* Variant: the end of a helper answers a call that has settled.
CloseUnchecked(c) ==
    /\ helper[c].at \in {"exited", "dead"}
    /\ running' = IF running = c THEN NoCall ELSE running
    /\ Settle(c, IF helper[c].at = "dead" THEN Thrown("helper_terminated")
                 ELSE TransportResult(call[c].request, Output("line", helper[c].said)))
    /\ UNCHANGED <<clock, rtcAlarm, queue, helper>> /\ UNCHANGED history

\* onClose: the process has ended and the call has not settled.
Close(c) ==
    /\ running = c
    /\ helper[c].at \in {"exited", "dead"}
    /\ running' = NoCall
    /\ Settle(c, IF helper[c].at = "dead" THEN Thrown("helper_terminated")
                 ELSE TransportResult(call[c].request, Output("line", helper[c].said)))
    /\ UNCHANGED <<clock, rtcAlarm, queue, helper>> /\ UNCHANGED history
-----------------------------------------------------------------------------
(* The helper process of a call (power-helper/internal). *)

Goto(c, at) == helper' = [helper EXCEPT ![c].at = at]

\* The deferred release of the lock, and the response.
Say(c, response) == helper' = [helper EXCEPT ![c].at = "answered", ![c].said = response]
SayFailure(c, outcome, code) ==
    Say(c, FailureResponse(call[c].request.operation, outcome, code))
SaySuccess(c, result) == Say(c, SuccessResponse(call[c].request.operation, result))

\* Variant: every operation but the power-off takes the lock shared.
LockFreeShared(c) == \A d \in Callers \ {c} : Holds(d) => call[d].request.operation # "request_shutdown"

LockFree(c) ==
    \A d \in Callers \ {c} : Holds(d) => ~Exclusive(c) /\ ~Exclusive(d)

\* AcquireShared, AcquireExclusive: a busy lock is a refusal.
Lock(c) ==
    /\ helper[c].at = "started"
    /\ IF LockFree(c) THEN Goto(c, "locked")
       ELSE SayFailure(c, "rejected", "operation_rejected")
    /\ UNCHANGED <<clock, rtcAlarm>> /\ UNCHANGED history /\ UNCHANGED ipc

\* What a write to the clock leaves; a time that has passed clears the alarm.
ClockWrite(t) == IF t > clock THEN Scheduled(t) ELSE NotScheduled

Write(c, new) ==
    /\ rtcAlarm' = new
    /\ disturbed' = disturbed \union {d \in Callers \ {c} : Holds(d)}
    /\ writer' = c

\* Schedule and Cancel up to their first write.
ReadBefore(c) ==
    LET request == call[c].request
        schedule == request.operation = "schedule_wake_alarm"
    IN /\ helper[c].at = "locked"
       /\ request.operation \in Mutations
       /\ CASE schedule /\ request.scheduledFor <= Second(clock) ->
                 SayFailure(c, "rejected", "operation_rejected")
            [] /\ schedule /\ request.scheduledFor > Second(clock)
               /\ rtcAlarm = Scheduled(request.scheduledFor) ->
                 SaySuccess(c, HelperScheduled(rtcAlarm, request.scheduledFor))
            [] ~schedule /\ rtcAlarm = NotScheduled ->
                 SaySuccess(c, HelperCancelled(rtcAlarm))
            [] OTHER ->
                 helper' = [helper EXCEPT ![c].before = rtcAlarm,
                              ![c].at = IF rtcAlarm = NotScheduled THEN "write" ELSE "clear"]
       /\ UNCHANGED <<clock, rtcAlarm>> /\ UNCHANGED history /\ UNCHANGED ipc

\* writeAndVerify: the write, and the read that must show what was written.
Clear(c) ==
    /\ helper[c].at = "clear"
    /\ \/ Write(c, NotScheduled) /\ Goto(c, "cleared")
       \/ SayFailure(c, "failed", "operation_failed") /\ UNCHANGED <<rtcAlarm, disturbed, writer>>
    /\ UNCHANGED clock /\ UNCHANGED ipc

VerifyClear(c) ==
    /\ helper[c].at = "cleared"
    /\ IF rtcAlarm # NotScheduled THEN SayFailure(c, "failed", "operation_failed")
       ELSE IF call[c].request.operation = "cancel_wake_alarm"
       THEN SaySuccess(c, HelperCancelled(helper[c].before))
       ELSE Goto(c, "write")
    /\ UNCHANGED <<clock, rtcAlarm>> /\ UNCHANGED history /\ UNCHANGED ipc

WriteAlarm(c) ==
    /\ helper[c].at = "write"
    /\ \/ /\ rtcAlarm = NotScheduled
          /\ Write(c, ClockWrite(Second(call[c].request.scheduledFor)))
          /\ Goto(c, "written")
       \/ SayFailure(c, "failed", "operation_failed") /\ UNCHANGED <<rtcAlarm, disturbed, writer>>
    /\ UNCHANGED clock /\ UNCHANGED ipc

\* Variant: the alarm is not read back.
VerifyWriteBlindly(c) ==
    /\ helper[c].at = "written"
    /\ SaySuccess(c, HelperScheduled(helper[c].before, call[c].request.scheduledFor))
    /\ UNCHANGED <<clock, rtcAlarm>> /\ UNCHANGED history /\ UNCHANGED ipc

VerifyWrite(c) ==
    /\ helper[c].at = "written"
    /\ IF rtcAlarm = Scheduled(call[c].request.scheduledFor)
       THEN SaySuccess(c, HelperScheduled(helper[c].before, call[c].request.scheduledFor))
       ELSE SayFailure(c, "failed", "operation_failed")
    /\ UNCHANGED <<clock, rtcAlarm>> /\ UNCHANGED history /\ UNCHANGED ipc

\* The reads, and the power-off request, which systemd accepts or refuses.
Read(c) ==
    /\ helper[c].at = "locked"
    /\ call[c].request.operation \notin Mutations
    /\ \/ SaySuccess(c, CASE call[c].request.operation = "read_wake_alarm" -> rtcAlarm
                          [] call[c].request.operation = "read_rtc_information" ->
                               [rtcTime |-> Second(clock), wakeAlarm |-> rtcAlarm]
                          [] OTHER -> [accepted |-> TRUE])
       \/ SayFailure(c, "failed", "state_unavailable")
    /\ UNCHANGED <<clock, rtcAlarm>> /\ UNCHANGED history /\ UNCHANGED ipc

\* The answer is in the pipe and the process is gone.
Exit(c) ==
    /\ helper[c].at = "answered"
    /\ Goto(c, "exited")
    /\ UNCHANGED <<clock, rtcAlarm>> /\ UNCHANGED history /\ UNCHANGED ipc

\* SIGTERM takes effect, or the process is killed by something else; the
\* kernel releases its lock.
Terminate(c) ==
    /\ Alive(c)
    /\ Goto(c, "dead")
    /\ UNCHANGED <<clock, rtcAlarm>> /\ UNCHANGED history /\ UNCHANGED ipc
-----------------------------------------------------------------------------
\* Time passes; an alarm that is reached is no longer scheduled.
Tick ==
    /\ clock < LastInstant
    /\ clock' = clock + 1
    /\ IF rtcAlarm = Scheduled(clock + 1)
       THEN rtcAlarm' = NotScheduled /\ writer' = TheClock
       ELSE UNCHANGED <<rtcAlarm, writer>>
    /\ UNCHANGED <<helper, disturbed>> /\ UNCHANGED ipc

HelperStep(c) ==
    \/ Lock(c) \/ ReadBefore(c) \/ Clear(c) \/ VerifyClear(c)
    \/ WriteAlarm(c) \/ VerifyWrite(c) \/ Read(c) \/ Exit(c) \/ Terminate(c)

ManagerStep(c) == Execute(c) \/ Start(c) \/ Timeout(c) \/ InputError(c) \/ Close(c)

ClientNext == Tick \/ \E c \in Callers : ManagerStep(c) \/ HelperStep(c)

ClientSpec == ClientInit /\ [][ClientNext]_clientVars

\* The event loop runs what is due: the next link of the chain, and the
\* timer of a call that has not settled.  Nothing is assumed of the helper.
Fairness == \A c \in Callers : WF_clientVars(Start(c)) /\ WF_clientVars(Timeout(c))

ClientFairSpec == ClientSpec /\ Fairness
-----------------------------------------------------------------------------
ClientTypeOK ==
    /\ clock \in 0..LastInstant
    /\ rtcAlarm \in ClockAlarms
    /\ rtcAlarm # NotScheduled => rtcAlarm.scheduledFor % 2 = 0
    /\ running \in Callers \union {NoCall}
    /\ disturbed \subseteq Callers
    /\ writer \in Callers \union {TheClock}
    /\ \A c \in Callers :
         /\ call[c].request = NoRequest \/ call[c].request.operation \in Operations
         /\ helper[c].at \in {"none", "started", "locked", "clear", "cleared", "write",
                              "written", "answered", "exited", "dead"}
         /\ helper[c].before \in ClockAlarms
         /\ helper[c].signalled \in BOOLEAN

Settled(c) == call[c].answer # Waiting

\* A transition a caller is told of happened as told: from the read of
\* "before" to the verified "after", no other helper wrote the alarm, not
\* even one left over from a call that timed out (lock_linux.go, Schedule
\* and Cancel).
ReportedTransitionsAreWhole ==
    \A c \in Callers :
        call[c].answer.kind = "returned" /\ call[c].request.operation \in Mutations
            => c \notin disturbed

\* Two helpers are alive at a time only when one of them belongs to a call
\* that was given up, so a refusal for a busy lock has no other cause
\* (execute chains on #tail, fail does not wait for the child).
OverlapOnlyAfterGivingUp ==
    \A c, d \in Callers :
        c # d /\ Alive(c) /\ Alive(d) => helper[c].signalled \/ helper[d].signalled

\* Once a caller has been answered, nothing a late helper does changes the
\* answer (the settled flag and cleanup).
AnswersAreFinal ==
    [][\A c \in Callers : Settled(c) => call'[c] = call[c]]_clientVars

\* A change a caller is told of is in the clock until another helper writes
\* or the alarm's time comes, also when its time is not a whole second, which
\* the clock cannot hold (writeAndVerify).
SuccessIsInTheClock ==
    \A c \in Callers :
        call[c].answer.kind = "returned" /\ call[c].request.operation \in Mutations /\ writer = c
            => rtcAlarm = call[c].answer.value.after

\* What callers of the helper are told is true, whatever became of the helpers.
HelperAnswersAreTrue ==
    /\ ClientTypeOK
    /\ ReportedTransitionsAreWhole
    /\ OverlapOnlyAfterGivingUp
    /\ SuccessIsInTheClock

\* Every call that enters the queue is answered, whatever its helper and the
\* helpers before it do (the timer of every call).
EveryCallSettles ==
    \A c \in Callers : call[c].request # NoRequest ~> Settled(c)

\* docs/adr/002-secure-linux-power-helper.md:90: "Operations on one transport
\* instance run sequentially."
OneHelperAtATime ==
    \A c, d \in Callers : c # d => ~(Alive(c) /\ Alive(d))
-----------------------------------------------------------------------------
(* The inductive invariant of the proofs. *)

\* Fields exist: a call is a request and its answer, a helper its four fields.
ShapeInv ==
    /\ queue \in Seq(Callers)
    /\ DOMAIN call = Callers /\ DOMAIN helper = Callers
    /\ \A c \in Callers :
         /\ DOMAIN call[c] = {"request", "answer"}
         /\ DOMAIN helper[c] = {"at", "before", "said", "signalled"}

\* A queued call waits once, for its first answer, and has no helper yet.
Fresh(c) ==
    /\ RequestValid(call[c].request)
    /\ call[c].answer = Waiting
    /\ helper[c].at = "none"
    /\ running # c
QueueInv ==
    /\ \A i \in DOMAIN queue : Fresh(queue[i])
    /\ \A i, j \in DOMAIN queue : queue[i] = queue[j] => i = j

\* A helper exists for a valid request, and unless it was told to end its
\* call is the running one, which is not answered.
RunInv ==
    \A c \in Callers :
        /\ running = c => helper[c].at # "none" /\ call[c].answer = Waiting
        /\ Alive(c) => running = c \/ helper[c].signalled
        /\ helper[c].at # "none" => RequestValid(call[c].request)
        /\ call[c].request = NoRequest => call[c].answer = Waiting

\* The lock excludes a mutation from everything else, so nobody is disturbed.
LockInv ==
    /\ \A c, d \in Callers : c # d /\ Holds(c) /\ Holds(d) => ~Exclusive(c) /\ ~Exclusive(d)
    /\ \A c \in Callers :
         /\ helper[c].at \in {"clear", "cleared"} => call[c].request.operation \in Mutations
         /\ helper[c].at \in {"write", "written"} => call[c].request.operation = "schedule_wake_alarm"
    /\ disturbed = {}

\* What a helper says of its mutation, and what its caller is then told, is in
\* the clock while nobody else has written.
AnswerInv ==
    \A c \in Callers : call[c].request.operation \in Mutations =>
        /\ helper[c].at \in {"answered", "exited"} /\ helper[c].said.outcome = "success" /\ writer = c
              => rtcAlarm = helper[c].said.result.after
        /\ call[c].answer.kind = "returned"
              => helper[c].at = "exited" /\ (writer = c => rtcAlarm = call[c].answer.value.after)

ClientInv ==
    ClientTypeOK /\ ShapeInv /\ QueueInv /\ RunInv /\ LockInv /\ AnswerInv
=============================================================================
