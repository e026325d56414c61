------------------------- MODULE MachinePowerProofs -------------------------
(***************************************************************************)
(* Theorems about the power of the machine.                                *)
(*                                                                         *)
(* PowerHelperClient: what callers of the power helper are told is true,   *)
(* for any number of calls, any requests and any times: helpers may hang,  *)
(* be killed or live on after their call was given up.  The argument has   *)
(* two halves.  In the manager a call is queued once and answered once, by *)
(* the end of its own helper (QueueInv, RunInv).  On the clock the file    *)
(* lock keeps every other helper away from a mutation, left over or not    *)
(* (LockInv), so that what a mutation verified stays there until somebody  *)
(* else holds the lock or the time of the alarm comes (AnswerInv).         *)
(*                                                                         *)
(* MachinePowerScheduler, for every set of services, every dependency      *)
(* relation, every operating policy and every bound.                       *)
(***************************************************************************)
EXTENDS MachinePowerScheduler, PowerHelperClient, TLAPS

-----------------------------------------------------------------------------
(* Answers. *)

\* A call whose transport threw ends with an error.
LEMMA ThrownAnswer ==
    ASSUME NEW request, NEW code
    PROVE  AdapterAnswer(request, Thrown(code)).kind = "thrown"
<1>1. ExecuteRequest(request, Thrown(code)).kind = "thrown"
  BY DEF ExecuteRequest, TranslateTransportError, Thrown
<1> QED BY <1>1 DEF AdapterAnswer

\* A mutation returns what its helper said, and only a success.
LEMMA MutationAnswer ==
    ASSUME NEW request, request.operation \in Mutations, NEW said,
           NEW answer,
           answer = AdapterAnswer(request, TransportResult(request, Output("line", said))),
           answer.kind = "returned"
    PROVE  said.outcome = "success" /\ answer.value = said.result
<1> DEFINE transport == TransportResult(request, Output("line", said))
           executed == ExecuteRequest(request, transport)
<1>1. \/ transport = Returned(said)
      \/ transport.kind = "thrown"
  BY DEF TransportResult, Output, Thrown
<1>2. executed.kind # "thrown" => executed = Returned(said)
  BY <1>1 DEF ExecuteRequest, TranslateTransportError, Thrown, Returned
<1>3. executed.kind # "thrown" /\ answer = MutationResult(request, executed.value)
  BY DEF AdapterAnswer, Mutations
<1>4. answer = MutationResult(request, said)
  BY <1>2, <1>3 DEF Returned
<1> QED
  BY <1>4 DEF MutationResult, OperationError, Returned, Thrown

\* What a mutation reports as its end.
LEMMA ReportedAfter ==
    /\ \A before, for : HelperScheduled(before, for).after = Scheduled(for)
    /\ \A before : HelperCancelled(before).after = NotScheduled
BY DEF HelperScheduled, HelperCancelled, Mutation

\* What a helper writes to the clock is an alarm at a whole second.
LEMMA WrittenAlarm ==
    ASSUME NEW t \in Instants, NEW at \in Nat
    PROVE  LET new == IF Second(t) > at THEN Scheduled(Second(t)) ELSE NotScheduled
           IN  new \in ClockAlarms /\ (new # NotScheduled => new.scheduledFor % 2 = 0)
<1>1. t \in Nat /\ Second(t) \in Instants
  BY ClientAssumption DEF InstantsAssumption
<1>2. Second(t) % 2 = 0
  BY <1>1 DEF Second
<1> QED
  BY <1>1, <1>2 DEF ClockAlarms, Scheduled, NotScheduled
-----------------------------------------------------------------------------
(* Steps. *)

\* An answer leaves the requests and the other calls alone.
LEMMA SettleCall ==
    ASSUME ShapeInv, NEW c \in Callers, NEW result, Settle(c, result)
    PROVE  /\ DOMAIN call' = Callers /\ \A d \in Callers : DOMAIN call'[d] = DOMAIN call[d]
           /\ \A d \in Callers : call'[d].request = call[d].request
           /\ \A d \in Callers \ {c} : call'[d] = call[d]
           /\ call'[c].answer = AdapterAnswer(call[c].request, result)
BY DEF ShapeInv, Settle

\* A step of a helper is one of that helper, which is alive.
HelperFrame(c) ==
    /\ DOMAIN helper' = Callers /\ \A d \in Callers : DOMAIN helper'[d] = DOMAIN helper[d]
    /\ \A d \in Callers \ {c} : helper'[d] = helper[d]
    /\ helper'[c].signalled = helper[c].signalled
    /\ Alive(c) /\ helper'[c].at # "none"
    /\ UNCHANGED ipc /\ UNCHANGED clock

LEMMA HelperStepFrame ==
    ASSUME ShapeInv, NEW c \in Callers, HelperStep(c)
    PROVE  HelperFrame(c)
<1> USE DEF HelperFrame, Alive, Goto, Say, SayFailure, SaySuccess
<1>1. CASE Lock(c)
  BY <1>1 DEF ShapeInv, Lock
<1>2. CASE ReadBefore(c)
  BY <1>2 DEF ShapeInv, ReadBefore
<1>3. CASE Clear(c)
  BY <1>3 DEF ShapeInv, Clear
<1>4. CASE VerifyClear(c)
  BY <1>4 DEF ShapeInv, VerifyClear
<1>5. CASE WriteAlarm(c)
  BY <1>5 DEF ShapeInv, WriteAlarm
<1>6. CASE VerifyWrite(c)
  BY <1>6 DEF ShapeInv, VerifyWrite
<1>7. CASE Read(c)
  BY <1>7 DEF ShapeInv, Read
<1>8. CASE Exit(c)
  BY <1>8 DEF ShapeInv, Exit
<1>9. CASE Terminate(c)
  BY <1>9 DEF ShapeInv, Terminate
<1> QED
  BY <1>1, <1>2, <1>3, <1>4, <1>5, <1>6, <1>7, <1>8, <1>9 DEF HelperStep
-----------------------------------------------------------------------------
(* The queue. *)

LEMMA ShorterQueue ==
    ASSUME NEW S, NEW q \in Seq(S), q # <<>>
    PROVE  /\ Head(q) = q[1] /\ 1 \in DOMAIN q /\ Head(q) \in S
           /\ Tail(q) \in Seq(S)
           /\ \A i \in DOMAIN Tail(q) :
                i + 1 \in DOMAIN q /\ i + 1 # 1 /\ i \in Nat /\ Tail(q)[i] = q[i + 1]
OBVIOUS

LEMMA LongerQueue ==
    ASSUME NEW S, NEW q \in Seq(S), NEW e \in S
    PROVE  /\ Append(q, e) \in Seq(S)
           /\ \A i \in DOMAIN Append(q, e) :
                \/ i \in DOMAIN q /\ Append(q, e)[i] = q[i]
                \/ i = Len(q) + 1 /\ Append(q, e)[i] = e
OBVIOUS

\* The call at the head of the queue is fresh, and in it only once.
LEMMA HeadOfQueue ==
    ASSUME ShapeInv, QueueInv, queue # <<>>
    PROVE  /\ Head(queue) \in Callers /\ Fresh(Head(queue))
           /\ Tail(queue) \in Seq(Callers)
           /\ \A i \in DOMAIN Tail(queue) :
                Tail(queue)[i] \in Callers \ {Head(queue)} /\ Fresh(Tail(queue)[i])
           /\ \A i, j \in DOMAIN Tail(queue) : Tail(queue)[i] = Tail(queue)[j] => i = j
<1>1. queue \in Seq(Callers)
  BY DEF ShapeInv
<1>2. \A i \in DOMAIN queue : queue[i] \in Callers
  BY <1>1
<1> QED
  BY <1>1, <1>2, ShorterQueue DEF QueueInv

\* Waiting is no answer of a helper, and a request that was never made is
\* not valid.
LEMMA Distinct ==
    /\ Waiting.kind = "thrown"
    /\ NoRequest.operation = "none"
    /\ "none" \notin Operations /\ Mutations \subseteq Operations
    /\ \A request : RequestValid(request) => request # NoRequest
BY DEF Waiting, Thrown, NoRequest, PlainRequest, Operations, Mutations, RequestValid
-----------------------------------------------------------------------------
(* Types. *)

LEMMA ExecuteTypes ==
    ASSUME ClientInv, NEW c \in Callers, Execute(c)
    PROVE  /\ ClientTypeOK' /\ ShapeInv'
           /\ call'[c].request.operation \in Operations
           /\ \A d \in Callers \ {c} : call'[d] = call[d]
           /\ \/ call'[c].answer = Waiting /\ RequestValid(call'[c].request)
                 /\ queue' = Append(queue, c)
              \/ call'[c].answer = Thrown("invalid_request") /\ queue' = queue
<1>1. PICK asked \in Asked :
        /\ call' = [call EXCEPT ![c] =
                      [request |-> RequestFor(asked),
                       answer |-> IF RequestValid(RequestFor(asked)) THEN Waiting
                                  ELSE Thrown("invalid_request")]]
        /\ queue' = IF RequestValid(RequestFor(asked)) THEN Append(queue, c) ELSE queue
  BY DEF Execute
<1>2. RequestFor(asked).operation \in Operations
  <2>1. asked.operation \in Operations
    BY ClientAssumption
  <2> QED BY <2>1 DEF RequestFor, ScheduleRequest, PlainRequest
<1>3. /\ DOMAIN call' = Callers /\ \A d \in Callers : DOMAIN call'[d] = {"request", "answer"}
      /\ call'[c].request = RequestFor(asked)
      /\ call'[c].answer = (IF RequestValid(RequestFor(asked)) THEN Waiting
                            ELSE Thrown("invalid_request"))
      /\ \A d \in Callers \ {c} : call'[d] = call[d]
  BY <1>1 DEF ClientInv, ShapeInv
<1>4. UNCHANGED <<clock, rtcAlarm, running, helper, disturbed, writer>>
  BY DEF Execute, history
<1>5. queue' \in Seq(Callers)
  BY <1>1, LongerQueue DEF ClientInv, ShapeInv
<1>6. ShapeInv'
  BY <1>3, <1>4, <1>5 DEF ClientInv, ShapeInv
<1>7. ClientTypeOK'
  BY <1>2, <1>3, <1>4 DEF ClientInv, ClientTypeOK
<1> QED
  BY <1>1, <1>2, <1>3, <1>6, <1>7

\* Start, as it changes calls and helpers: a helper is started, or the call
\* ends with an error.
LEMMA StartTypes ==
    ASSUME ClientInv, NEW c \in Callers, Start(c)
    PROVE  /\ ClientTypeOK' /\ ShapeInv'
           /\ \A d \in Callers : call'[d].request = call[d].request
           /\ \/ /\ running' = c /\ UNCHANGED call
                 /\ helper'[c] = [NoHelper EXCEPT !.at = "started"]
                 /\ \A d \in Callers \ {c} : helper'[d] = helper[d]
              \/ /\ UNCHANGED <<running, helper>>
                 /\ \A d \in Callers \ {c} : call'[d] = call[d]
                 /\ call'[c].answer.kind = "thrown"
<1>1. UNCHANGED <<clock, rtcAlarm, disturbed, writer>> /\ queue' \in Seq(Callers)
  BY HeadOfQueue DEF Start, history, ClientInv
<1>2. CASE UNCHANGED <<running, helper>>
           /\ \E code \in {"helper_not_found", "helper_group_invalid", "helper_start_failed"} :
                 Settle(c, Thrown(code))
  <2>1. PICK code : Settle(c, Thrown(code))
    BY <1>2
  <2>2. /\ DOMAIN call' = Callers /\ \A d \in Callers : DOMAIN call'[d] = DOMAIN call[d]
        /\ \A d \in Callers : call'[d].request = call[d].request
        /\ \A d \in Callers \ {c} : call'[d] = call[d]
        /\ call'[c].answer.kind = "thrown"
    BY <2>1, SettleCall, ThrownAnswer DEF ClientInv
  <2> QED
    BY <1>1, <1>2, <2>2 DEF ClientInv, ClientTypeOK, ShapeInv
<1>3. CASE /\ running' = c /\ UNCHANGED call
           /\ helper' = [helper EXCEPT ![c] = [NoHelper EXCEPT !.at = "started"]]
  <2>1. /\ DOMAIN helper' = Callers
        /\ helper'[c] = [NoHelper EXCEPT !.at = "started"]
        /\ \A d \in Callers \ {c} : helper'[d] = helper[d]
    BY <1>3 DEF ClientInv, ShapeInv
  <2>2. /\ DOMAIN helper'[c] = {"at", "before", "said", "signalled"}
        /\ helper'[c].at = "started" /\ helper'[c].before = NotScheduled
        /\ helper'[c].signalled = FALSE
    BY <2>1 DEF NoHelper
  <2>3. ShapeInv'
    BY <1>1, <1>3, <2>1, <2>2 DEF ClientInv, ShapeInv
  <2>4. ClientTypeOK'
    BY <1>1, <1>3, <2>1, <2>2 DEF ClientInv, ClientTypeOK, ClockAlarms
  <2> QED BY <1>3, <2>1, <2>3, <2>4
<1> QED
  BY <1>2, <1>3 DEF Start

\* A running call is given up, or its helper has ended.
LEMMA EndTypes ==
    ASSUME ClientInv, NEW c \in Callers,
           Timeout(c) \/ InputError(c) \/ Close(c)
    PROVE  /\ ClientTypeOK' /\ ShapeInv'
           /\ running = c /\ running' = NoCall /\ UNCHANGED queue
           /\ \A d \in Callers : call'[d].request = call[d].request
           /\ \A d \in Callers \ {c} : call'[d] = call[d] /\ helper'[d] = helper[d]
           /\ helper'[c].at = helper[c].at /\ helper'[c].said = helper[c].said
           /\ Alive(c) => helper'[c].signalled
           /\ \/ call'[c].answer.kind = "thrown"
              \/ /\ helper[c].at = "exited"
                 /\ call'[c].answer =
                      AdapterAnswer(call[c].request,
                        TransportResult(call[c].request, Output("line", helper[c].said)))
<1>1. CASE Close(c)
  <2>1. PICK result :
          /\ Settle(c, result)
          /\ result = IF helper[c].at = "dead" THEN Thrown("helper_terminated")
                      ELSE TransportResult(call[c].request, Output("line", helper[c].said))
    BY <1>1 DEF Close
  <2>2. /\ DOMAIN call' = Callers /\ \A d \in Callers : DOMAIN call'[d] = DOMAIN call[d]
        /\ \A d \in Callers : call'[d].request = call[d].request
        /\ \A d \in Callers \ {c} : call'[d] = call[d]
        /\ call'[c].answer = AdapterAnswer(call[c].request, result)
    BY <2>1, SettleCall DEF ClientInv
  <2>3. /\ running = c /\ running' = NoCall /\ helper[c].at \in {"exited", "dead"}
        /\ UNCHANGED <<clock, rtcAlarm, queue, helper, disturbed, writer>>
    BY <1>1 DEF Close, history
  <2>4. ClientTypeOK' /\ ShapeInv'
    BY <2>2, <2>3 DEF ClientInv, ClientTypeOK, ShapeInv
  <2>5. ~Alive(c)
    BY <2>3 DEF Alive
  <2>6. helper[c].at = "dead" => call'[c].answer.kind = "thrown"
    BY <2>1, <2>2, ThrownAnswer
  <2> QED BY <2>1, <2>2, <2>3, <2>4, <2>5, <2>6
<1>2. ASSUME NEW code, FailCall(c, code)
      PROVE  /\ ClientTypeOK' /\ ShapeInv'
             /\ running = c /\ running' = NoCall /\ UNCHANGED queue
             /\ \A d \in Callers : call'[d].request = call[d].request
             /\ \A d \in Callers \ {c} : call'[d] = call[d] /\ helper'[d] = helper[d]
             /\ helper'[c].at = helper[c].at /\ helper'[c].said = helper[c].said
             /\ helper'[c].signalled
             /\ call'[c].answer.kind = "thrown"
  <2>1. /\ DOMAIN call' = Callers /\ \A d \in Callers : DOMAIN call'[d] = DOMAIN call[d]
        /\ \A d \in Callers : call'[d].request = call[d].request
        /\ \A d \in Callers \ {c} : call'[d] = call[d]
        /\ call'[c].answer.kind = "thrown"
    BY <1>2, SettleCall, ThrownAnswer DEF FailCall, ClientInv
  <2>2. /\ running = c /\ running' = NoCall
        /\ UNCHANGED <<clock, rtcAlarm, queue, disturbed, writer>>
        /\ helper' = [helper EXCEPT ![c].signalled = TRUE]
    BY <1>2 DEF FailCall, history
  <2>3. /\ DOMAIN helper' = Callers /\ \A d \in Callers : DOMAIN helper'[d] = DOMAIN helper[d]
        /\ \A d \in Callers \ {c} : helper'[d] = helper[d]
        /\ helper'[c].at = helper[c].at /\ helper'[c].said = helper[c].said
        /\ helper'[c].before = helper[c].before /\ helper'[c].signalled = TRUE
    BY <2>2 DEF ClientInv, ShapeInv
  <2>4. ClientTypeOK' /\ ShapeInv'
    BY <2>1, <2>2, <2>3 DEF ClientInv, ClientTypeOK, ShapeInv
  <2> QED BY <2>1, <2>2, <2>3, <2>4
<1> QED
  BY <1>1, <1>2 DEF Timeout, InputError

\* What a step of a helper may write to the clock.
LEMMA ClockTypes ==
    ASSUME ClientInv, NEW c \in Callers, HelperStep(c)
    PROVE  /\ rtcAlarm' \in ClockAlarms
           /\ rtcAlarm' # NotScheduled => rtcAlarm'.scheduledFor % 2 = 0
           /\ writer' \in {writer, c}
<1>1. CASE Clear(c)
  BY <1>1 DEF ClientInv, ClientTypeOK, Clear, Write, ClockAlarms
<1>2. CASE WriteAlarm(c)
  <2>1. helper[c].at = "write" => call[c].request.scheduledFor \in Instants
    BY DEF ClientInv, LockInv, RunInv, RequestValid, IsCanonicalTimestamp
  <2>2. clock \in Nat
    BY DEF ClientInv, ClientTypeOK
  <2> QED
    BY <1>2, <2>1, <2>2, WrittenAlarm DEF ClientInv, ClientTypeOK, WriteAlarm, Write, ClockWrite
<1>3. CASE \/ Lock(c) \/ ReadBefore(c) \/ VerifyClear(c) \/ VerifyWrite(c) \/ Read(c)
           \/ Exit(c) \/ Terminate(c)
  BY <1>3 DEF ClientInv, ClientTypeOK, Lock, ReadBefore, VerifyClear, VerifyWrite, Read, Exit,
              Terminate, history
<1> QED
  BY <1>1, <1>2, <1>3 DEF HelperStep

\* Where a helper may be after its step, and the alarm it remembers.
LEMMA PositionTypes ==
    ASSUME ClientInv, NEW c \in Callers, HelperStep(c)
    PROVE  /\ helper'[c].at \in {"locked", "clear", "cleared", "write", "written", "answered",
                                "exited", "dead"}
           /\ helper'[c].before \in ClockAlarms
<1> USE DEF ClientInv, ClientTypeOK, ShapeInv, Goto, Say, SayFailure, SaySuccess
<1>1. CASE Lock(c)
  BY <1>1 DEF Lock
<1>2. CASE ReadBefore(c)
  BY <1>2 DEF ReadBefore
<1>3. CASE Clear(c)
  BY <1>3 DEF Clear
<1>4. CASE VerifyClear(c)
  BY <1>4 DEF VerifyClear
<1>5. CASE WriteAlarm(c)
  BY <1>5 DEF WriteAlarm
<1>6. CASE VerifyWrite(c)
  BY <1>6 DEF VerifyWrite
<1>7. CASE Read(c)
  BY <1>7 DEF Read
<1>8. CASE Exit(c)
  BY <1>8 DEF Exit
<1>9. CASE Terminate(c)
  BY <1>9 DEF Terminate
<1> QED
  BY <1>1, <1>2, <1>3, <1>4, <1>5, <1>6, <1>7, <1>8, <1>9 DEF HelperStep
-----------------------------------------------------------------------------
(* The lock. *)

\* Whoever writes the clock holds the lock for a mutation, alone.
LEMMA WriterIsAlone ==
    ASSUME LockInv, NEW c \in Callers, helper[c].at \in {"clear", "write"}
    PROVE  {d \in Callers \ {c} : Holds(d)} = {}
<1>1. Holds(c) /\ Exclusive(c)
  BY DEF LockInv, Holds, Exclusive, Mutations
<1> QED
  BY <1>1 DEF LockInv

\* Helpers that are not c's hold what they held, for what they held it.
LEMMA OthersHold ==
    ASSUME NEW c \in Callers, HelperFrame(c)
    PROVE  /\ \A d \in Callers \ {c} : Holds(d)' = Holds(d)
           /\ \A d \in Callers : Exclusive(d)' = Exclusive(d)
BY DEF HelperFrame, Holds, Exclusive, ipc

LEMMA LockStep ==
    ASSUME ClientInv, NEW c \in Callers, HelperStep(c)
    PROVE  LockInv'
<1>1. HelperFrame(c)
  BY HelperStepFrame DEF ClientInv
<1>2. LockInv /\ ShapeInv
  BY DEF ClientInv
<1>3. /\ \A d \in Callers : call'[d] = call[d]
      /\ \A d \in Callers \ {c} : helper'[d] = helper[d]
  BY <1>1 DEF HelperFrame, ipc
<1>4. disturbed' = {}
  BY <1>2, WriterIsAlone
     DEF LockInv, HelperStep, Lock, ReadBefore, Clear, VerifyClear, WriteAlarm, VerifyWrite,
         Read, Exit, Terminate, Write, history
<1>5. SUFFICES
        /\ Holds(c)' => Holds(c) \/ LockFree(c)
        /\ helper'[c].at \in {"clear", "cleared"} => call[c].request.operation \in Mutations
        /\ helper'[c].at \in {"write", "written"}
              => call[c].request.operation = "schedule_wake_alarm"
  <2>1. \A d \in Callers \ {c} : Holds(c)' /\ Holds(d)' => ~Exclusive(c)' /\ ~Exclusive(d)'
    BY <1>1, <1>2, <1>5, OthersHold DEF LockInv, LockFree
  <2>2. \A d, e \in Callers \ {c} :
          d # e /\ Holds(d)' /\ Holds(e)' => ~Exclusive(d)' /\ ~Exclusive(e)'
    BY <1>1, <1>2, OthersHold DEF LockInv
  <2>3. \A d, e \in Callers :
          d # e /\ Holds(d)' /\ Holds(e)' => ~Exclusive(d)' /\ ~Exclusive(e)'
    BY <2>1, <2>2
  <2>4. \A d \in Callers :
          /\ helper'[d].at \in {"clear", "cleared"} => call'[d].request.operation \in Mutations
          /\ helper'[d].at \in {"write", "written"}
                => call'[d].request.operation = "schedule_wake_alarm"
    BY <1>2, <1>3, <1>5 DEF LockInv
  <2> QED
    BY <1>4, <2>3, <2>4 DEF LockInv
<1> USE DEF Goto, Say, SayFailure, SaySuccess, Holds
<1>6. CASE Lock(c)
  BY <1>2, <1>6 DEF Lock, ShapeInv
<1>7. CASE ReadBefore(c)
  <2>1. helper'[c].at = "write" => rtcAlarm = NotScheduled
    BY <1>2, <1>7 DEF ReadBefore, ShapeInv
  <2>2. helper[c].at = "locked" /\ call[c].request.operation \in Mutations
    BY <1>7 DEF ReadBefore
  <2>3. call[c].request.operation # "schedule_wake_alarm" /\ rtcAlarm = NotScheduled
          => helper'[c].at = "answered"
    BY <1>2, <1>7 DEF ReadBefore, ShapeInv
  <2>4. helper'[c].at \in {"answered", "write", "clear"}
    BY <1>2, <1>7 DEF ReadBefore, ShapeInv
  <2> QED BY <2>1, <2>2, <2>3, <2>4
<1>8. CASE Clear(c)
  BY <1>2, <1>8 DEF Clear, ShapeInv, LockInv
<1>9. CASE VerifyClear(c)
  BY <1>2, <1>9 DEF VerifyClear, ShapeInv, LockInv, Mutations
<1>10. CASE WriteAlarm(c)
  BY <1>2, <1>10 DEF WriteAlarm, ShapeInv, LockInv
<1>11. CASE VerifyWrite(c) \/ Read(c) \/ Exit(c) \/ Terminate(c)
  BY <1>2, <1>11 DEF VerifyWrite, Read, Exit, Terminate, ShapeInv
<1> QED
  BY <1>6, <1>7, <1>8, <1>9, <1>10, <1>11 DEF HelperStep

\* Requests of the manager do not reach the lock.
LEMMA LockKept ==
    ASSUME LockInv, UNCHANGED disturbed,
           \A d \in Callers :
             \/ /\ helper'[d].at = helper[d].at
                /\ call'[d].request = call[d].request \/ helper[d].at = "none"
             \/ helper'[d].at = "started"
    PROVE  LockInv'
<1>1. \A d \in Callers :
        /\ Holds(d)' => Holds(d) /\ Exclusive(d)' = Exclusive(d)
        /\ helper'[d].at \in {"clear", "cleared"} => call'[d].request.operation \in Mutations
        /\ helper'[d].at \in {"write", "written"}
              => call'[d].request.operation = "schedule_wake_alarm"
  BY DEF LockInv, Holds, Exclusive
<1> QED
  BY <1>1 DEF LockInv
-----------------------------------------------------------------------------
(* Steps of a helper. *)

\* A helper's step changes neither what is queued nor who is running.
LEMMA HelperKeepsCalls ==
    ASSUME ClientInv, NEW c \in Callers, HelperStep(c)
    PROVE  ClientTypeOK' /\ ShapeInv' /\ QueueInv' /\ RunInv'
<1>1. HelperFrame(c)
  BY HelperStepFrame DEF ClientInv
<1>2. /\ UNCHANGED <<call, queue, running, clock>>
      /\ DOMAIN helper' = Callers /\ \A d \in Callers : DOMAIN helper'[d] = DOMAIN helper[d]
      /\ \A d \in Callers \ {c} : helper'[d] = helper[d]
      /\ helper'[c].signalled = helper[c].signalled
      /\ Alive(c) /\ helper'[c].at # "none"
  BY <1>1 DEF HelperFrame, ipc
<1>3. ShapeInv'
  BY <1>2 DEF ClientInv, ShapeInv
<1>4. ClientTypeOK'
  <2>1. disturbed' \subseteq Callers
    BY LockStep DEF LockInv
  <2> QED
    BY <1>2, <2>1, ClockTypes, PositionTypes DEF ClientInv, ClientTypeOK
<1>5. QueueInv'
  <2>1. \A i \in DOMAIN queue : queue[i] \in Callers \ {c}
    BY <1>2 DEF ClientInv, QueueInv, ShapeInv, Fresh, Alive
  <2> QED
    BY <1>2, <2>1 DEF ClientInv, QueueInv, Fresh
<1>6. RunInv'
  BY <1>2 DEF ClientInv, RunInv, Alive
<1> QED
  BY <1>3, <1>4, <1>5, <1>6

\* A helper that says it changed the clock has just seen the change there.
LEMMA SaidIsInTheClock ==
    ASSUME ClientInv, NEW c \in Callers, HelperStep(c),
           call[c].request.operation \in Mutations,
           helper'[c].at \in {"answered", "exited"}, helper'[c].said.outcome = "success",
           writer' = c
    PROVE  rtcAlarm' = helper'[c].said.result.after
<1>1. ShapeInv /\ call' = call /\ helper[c].at \notin {"exited", "dead"}
  BY HelperStepFrame DEF ClientInv, HelperFrame, ipc, Alive
<1> USE DEF Goto, Say, SayFailure, SaySuccess, FailureResponse, SuccessResponse
<1>2. CASE Lock(c)
  BY <1>1, <1>2 DEF Lock, ShapeInv
<1>3. CASE ReadBefore(c)
  BY <1>1, <1>3, ReportedAfter DEF ReadBefore, ShapeInv
<1>4. CASE Clear(c)
  BY <1>1, <1>4 DEF Clear, ShapeInv
<1>5. CASE VerifyClear(c)
  BY <1>1, <1>5, ReportedAfter DEF VerifyClear, ShapeInv
<1>6. CASE WriteAlarm(c)
  BY <1>1, <1>6 DEF WriteAlarm, ShapeInv
<1>7. CASE VerifyWrite(c)
  BY <1>1, <1>7, ReportedAfter DEF VerifyWrite, ShapeInv
<1>8. CASE Read(c)
  BY <1>1, <1>8 DEF Read
<1>9. CASE Exit(c)
  <2>1. /\ helper[c].at = "answered" /\ helper'[c].said = helper[c].said
        /\ rtcAlarm' = rtcAlarm /\ writer' = writer
    BY <1>1, <1>9 DEF Exit, ShapeInv, history
  <2> QED
    BY <2>1 DEF ClientInv, AnswerInv
<1>10. CASE Terminate(c)
  BY <1>1, <1>10 DEF Terminate, ShapeInv
<1> QED
  BY <1>2, <1>3, <1>4, <1>5, <1>6, <1>7, <1>8, <1>9, <1>10 DEF HelperStep

\* A helper's step leaves the clock alone or makes the helper its last writer.
LEMMA ClockIsWriters ==
    ASSUME NEW c \in Callers, HelperStep(c)
    PROVE  UNCHANGED <<rtcAlarm, writer>> \/ writer' = c
BY DEF HelperStep, Lock, ReadBefore, Clear, VerifyClear, WriteAlarm, VerifyWrite, Read, Exit,
       Terminate, Write, history

LEMMA HelperKeepsAnswers ==
    ASSUME ClientInv, NEW c \in Callers, HelperStep(c)
    PROVE  AnswerInv'
<1>1. /\ call' = call /\ \A d \in Callers \ {c} : helper'[d] = helper[d]
      /\ helper[c].at \notin {"exited", "dead"}
  BY HelperStepFrame DEF ClientInv, HelperFrame, ipc, Alive
<1>2. ASSUME NEW d \in Callers \ {c}, call[d].request.operation \in Mutations
      PROVE  /\ helper'[d].at \in {"answered", "exited"} /\ helper'[d].said.outcome = "success"
                   /\ writer' = d => rtcAlarm' = helper'[d].said.result.after
             /\ call'[d].answer.kind = "returned"
                   => helper'[d].at = "exited"
                      /\ (writer' = d => rtcAlarm' = call'[d].answer.value.after)
  BY <1>1, <1>2, ClockIsWriters DEF ClientInv, AnswerInv
<1>3. ASSUME call[c].request.operation \in Mutations
      PROVE  /\ helper'[c].at \in {"answered", "exited"} /\ helper'[c].said.outcome = "success"
                   /\ writer' = c => rtcAlarm' = helper'[c].said.result.after
             /\ call'[c].answer.kind # "returned"
  BY <1>1, <1>3, SaidIsInTheClock DEF ClientInv, AnswerInv
<1> QED
  BY <1>1, <1>2, <1>3 DEF AnswerInv
-----------------------------------------------------------------------------
(* Steps of the manager. *)

LEMMA ExecuteKeeps ==
    ASSUME ClientInv, NEW c \in Callers, Execute(c)
    PROVE  ClientInv'
<1>1. /\ UNCHANGED <<clock, rtcAlarm, running, helper, disturbed, writer>>
      /\ call[c].request = NoRequest
  BY DEF Execute, history
<1>2. /\ call'[c].request.operation \in Operations /\ call'[c].request # NoRequest
      /\ call'[c].answer.kind = "thrown"
      /\ \A d \in Callers \ {c} : call'[d] = call[d]
  BY ExecuteTypes, Distinct DEF Thrown
<1>3. helper[c].at = "none" /\ running # c
  BY <1>1, Distinct DEF ClientInv, RunInv
<1>4. \A i \in DOMAIN queue : queue[i] \in Callers \ {c}
  BY <1>1, Distinct DEF ClientInv, QueueInv, ShapeInv, Fresh
<1>5. QueueInv'
  <2> DEFINE FreshThen(d) == /\ RequestValid(call'[d].request) /\ call'[d].answer = Waiting
                             /\ helper'[d].at = "none" /\ running' # d
  <2>1. \A i \in DOMAIN queue : FreshThen(queue[i])
    BY <1>1, <1>2, <1>4 DEF ClientInv, QueueInv, Fresh
  <2>2. /\ \A i \in DOMAIN queue' : FreshThen(queue'[i])
        /\ \A i, j \in DOMAIN queue' : queue'[i] = queue'[j] => i = j
        => QueueInv'
    BY DEF QueueInv, Fresh
  <2> HIDE DEF FreshThen
  <2>3. CASE queue' = queue
    BY <2>3, <2>1, <2>2 DEF ClientInv, QueueInv
  <2>4. CASE /\ call'[c].answer = Waiting /\ RequestValid(call'[c].request)
             /\ queue' = Append(queue, c)
    <3>1. FreshThen(c)
      BY <1>1, <1>3, <2>4 DEF FreshThen
    <3>2. \A i \in DOMAIN queue' :
            \/ i \in DOMAIN queue /\ queue'[i] = queue[i]
            \/ i = Len(queue) + 1 /\ queue'[i] = c
      BY <2>4, LongerQueue DEF ClientInv, ShapeInv
    <3>3. \A i \in DOMAIN queue' : FreshThen(queue'[i])
      BY <2>1, <3>1, <3>2
    <3>4. \A i, j \in DOMAIN queue' : queue'[i] = queue'[j] => i = j
      BY <1>4, <3>2 DEF ClientInv, QueueInv
    <3> QED BY <2>2, <3>3, <3>4
  <2> QED BY <2>3, <2>4, ExecuteTypes
<1>6. RunInv'
  BY <1>1, <1>2, <1>3 DEF ClientInv, RunInv, Alive
<1>7. LockInv'
  BY <1>1, <1>2, <1>3, LockKept DEF ClientInv
<1>8. AnswerInv'
  BY <1>1, <1>2, <1>3 DEF ClientInv, AnswerInv
<1> QED
  BY <1>5, <1>6, <1>7, <1>8, ExecuteTypes DEF ClientInv

LEMMA StartKeeps ==
    ASSUME ClientInv, NEW c \in Callers, Start(c)
    PROVE  ClientInv'
<1>1. /\ UNCHANGED <<clock, rtcAlarm, disturbed, writer>>
      /\ running = NoCall /\ queue # <<>> /\ c = Head(queue) /\ queue' = Tail(queue)
  BY DEF Start, history
<1>2. /\ Fresh(c)
      /\ \A i \in DOMAIN queue' : queue'[i] \in Callers \ {c} /\ Fresh(queue'[i])
      /\ \A i, j \in DOMAIN queue' : queue'[i] = queue'[j] => i = j
  BY <1>1, HeadOfQueue DEF ClientInv
<1>3. call[c].request # NoRequest
  BY <1>2, Distinct DEF Fresh
<1>4. CASE /\ running' = c /\ UNCHANGED call
           /\ helper'[c] = [NoHelper EXCEPT !.at = "started"]
           /\ \A d \in Callers \ {c} : helper'[d] = helper[d]
  <2>1. /\ helper'[c].at = "started" /\ running' = c /\ UNCHANGED call
        /\ \A d \in Callers \ {c} : helper'[d] = helper[d]
    BY <1>4 DEF NoHelper
  <2>2. QueueInv'
    BY <1>2, <2>1 DEF QueueInv, Fresh
  <2>3. RunInv'
    <3>1. \A d \in Callers : running # d
      BY <1>1, ClientAssumption
    <3> QED
      BY <1>2, <1>3, <2>1, <3>1 DEF ClientInv, RunInv, Alive, Fresh
  <2>4. LockInv'
    BY <1>1, <2>1, LockKept DEF ClientInv
  <2>5. AnswerInv'
    BY <1>1, <1>2, <2>1, Distinct DEF ClientInv, AnswerInv, Fresh
  <2> QED BY <2>2, <2>3, <2>4, <2>5, StartTypes DEF ClientInv
<1>5. CASE /\ UNCHANGED <<running, helper>>
           /\ \A d \in Callers \ {c} : call'[d] = call[d]
           /\ call'[c].answer.kind = "thrown"
  <2>1. \A d \in Callers : call'[d].request = call[d].request
    BY StartTypes
  <2>2. QueueInv'
    BY <1>2, <1>5 DEF QueueInv, Fresh
  <2>3. RunInv'
    BY <1>1, <1>2, <1>3, <1>5, <2>1, ClientAssumption DEF ClientInv, RunInv, Alive, Fresh
  <2>4. LockInv'
    BY <1>1, <1>5, <2>1, LockKept DEF ClientInv
  <2>5. AnswerInv'
    BY <1>1, <1>5, <2>1 DEF ClientInv, AnswerInv
  <2> QED BY <2>2, <2>3, <2>4, <2>5, StartTypes DEF ClientInv
<1> QED
  BY <1>4, <1>5, StartTypes

LEMMA EndKeeps ==
    ASSUME ClientInv, NEW c \in Callers, Timeout(c) \/ InputError(c) \/ Close(c)
    PROVE  ClientInv'
<1>1. UNCHANGED <<clock, rtcAlarm, disturbed, writer>>
  BY DEF Timeout, InputError, FailCall, Close, history
<1>2. /\ running = c /\ running' = NoCall /\ UNCHANGED queue
      /\ \A d \in Callers : call'[d].request = call[d].request
      /\ \A d \in Callers \ {c} : call'[d] = call[d] /\ helper'[d] = helper[d]
      /\ helper'[c].at = helper[c].at /\ helper'[c].said = helper[c].said
      /\ Alive(c) => helper'[c].signalled
  BY EndTypes
<1>3. helper[c].at # "none" /\ RequestValid(call[c].request) /\ call[c].request # NoRequest
  BY <1>2, Distinct DEF ClientInv, RunInv
<1>4. QueueInv'
  <2>1. \A i \in DOMAIN queue : queue[i] \in Callers \ {c}
    BY <1>3 DEF ClientInv, QueueInv, ShapeInv, Fresh
  <2> QED
    BY <1>2, <2>1, ClientAssumption DEF ClientInv, QueueInv, Fresh
<1>5. RunInv'
  BY <1>2, <1>3, ClientAssumption DEF ClientInv, RunInv, Alive
<1>6. LockInv'
  BY <1>1, <1>2, LockKept DEF ClientInv
<1>7. AnswerInv'
  <2>1. ASSUME NEW d \in Callers \ {c}, call[d].request.operation \in Mutations
        PROVE  /\ helper'[d].at \in {"answered", "exited"} /\ helper'[d].said.outcome = "success"
                     /\ writer' = d => rtcAlarm' = helper'[d].said.result.after
               /\ call'[d].answer.kind = "returned"
                     => helper'[d].at = "exited"
                        /\ (writer' = d => rtcAlarm' = call'[d].answer.value.after)
    BY <1>1, <1>2, <2>1 DEF ClientInv, AnswerInv
  <2>2. ASSUME call[c].request.operation \in Mutations
        PROVE  helper'[c].at \in {"answered", "exited"} /\ helper'[c].said.outcome = "success"
                     /\ writer' = c => rtcAlarm' = helper'[c].said.result.after
    BY <1>1, <1>2, <2>2 DEF ClientInv, AnswerInv
  <2>3. ASSUME call[c].request.operation \in Mutations, call'[c].answer.kind = "returned"
        PROVE  helper'[c].at = "exited" /\ helper'[c].said.outcome = "success"
               /\ call'[c].answer.value = helper'[c].said.result
    BY <1>2, <2>3, EndTypes, MutationAnswer
  <2> QED
    BY <1>2, <2>1, <2>2, <2>3 DEF AnswerInv
<1> QED
  BY <1>4, <1>5, <1>6, <1>7, EndTypes DEF ClientInv
-----------------------------------------------------------------------------
(* The clock, and the start. *)

LEMMA TickKeeps ==
    ASSUME ClientInv, Tick
    PROVE  ClientInv'
<1>1. /\ UNCHANGED <<call, queue, running, helper, disturbed>>
      /\ clock' \in 0..LastInstant
      /\ \/ rtcAlarm' = NotScheduled /\ writer' = TheClock
         \/ UNCHANGED <<rtcAlarm, writer>>
  BY ClientAssumption DEF Tick, ipc, ClientInv, ClientTypeOK
<1>2. ClientTypeOK'
  BY <1>1 DEF ClientInv, ClientTypeOK, ClockAlarms
<1>3. ShapeInv' /\ QueueInv' /\ RunInv' /\ LockInv'
  BY <1>1 DEF ClientInv, ShapeInv, QueueInv, Fresh, RunInv, Alive, LockInv, Holds, Exclusive
<1>4. AnswerInv'
  BY <1>1, ClientAssumption DEF ClientInv, AnswerInv
<1> QED
  BY <1>2, <1>3, <1>4 DEF ClientInv

LEMMA ClientInitInvariant == ClientInit => ClientInv
<1> SUFFICES ASSUME ClientInit PROVE ClientInv
  OBVIOUS
<1>1. \A c \in Callers :
        /\ DOMAIN call[c] = {"request", "answer"}
        /\ call[c].request = NoRequest /\ call[c].answer = Waiting
        /\ DOMAIN helper[c] = {"at", "before", "said", "signalled"}
        /\ helper[c].at = "none" /\ helper[c].before = NotScheduled
        /\ helper[c].signalled = FALSE
  BY DEF ClientInit, NoHelper
<1>2. ShapeInv /\ QueueInv
  BY <1>1 DEF ClientInit, ShapeInv, QueueInv
<1>3. /\ rtcAlarm \in ClockAlarms
      /\ rtcAlarm # NotScheduled => rtcAlarm.scheduledFor % 2 = 0
  <2>1. CASE rtcAlarm = NotScheduled
    BY <2>1 DEF ClockAlarms
  <2>2. CASE rtcAlarm # NotScheduled
    <3>1. PICK t \in Instants : Second(t) = t /\ rtcAlarm = Scheduled(t)
      BY <2>2 DEF ClientInit
    <3>2. t \in Nat /\ t % 2 = 0
      BY <3>1, ClientAssumption DEF InstantsAssumption, Second
    <3> QED
      BY <3>1, <3>2 DEF ClockAlarms, Scheduled
  <2> QED BY <2>1, <2>2
<1>4. ClientTypeOK
  <2>1. /\ clock \in 0..LastInstant /\ running = NoCall /\ disturbed = {} /\ writer = TheClock
    BY ClientAssumption DEF ClientInit
  <2> QED
    BY <1>1, <1>3, <2>1 DEF ClientTypeOK, ClockAlarms
<1>5. RunInv
  BY <1>1, ClientAssumption DEF ClientInit, RunInv, Alive
<1>6. LockInv
  BY <1>1 DEF ClientInit, LockInv, Holds
<1>7. AnswerInv
  BY <1>1, Distinct DEF AnswerInv
<1> QED
  BY <1>2, <1>4, <1>5, <1>6, <1>7 DEF ClientInv
-----------------------------------------------------------------------------
(* Theorems. *)

LEMMA ClientInvariance == ClientSpec => []ClientInv
<1>1. ClientInv /\ [ClientNext]_clientVars => ClientInv'
  <2> SUFFICES ASSUME ClientInv, [ClientNext]_clientVars PROVE ClientInv'
    OBVIOUS
  <2>1. CASE Tick
    BY <2>1, TickKeeps
  <2>2. ASSUME NEW c \in Callers, ManagerStep(c) PROVE ClientInv'
    BY <2>2, ExecuteKeeps, StartKeeps, EndKeeps DEF ManagerStep
  <2>3. ASSUME NEW c \in Callers, HelperStep(c) PROVE ClientInv'
    BY <2>3, HelperKeepsCalls, HelperKeepsAnswers, LockStep DEF ClientInv
  <2>4. CASE UNCHANGED clientVars
    BY <2>4 DEF clientVars, ClientInv, ClientTypeOK, ShapeInv, QueueInv, Fresh, RunInv, Alive,
                LockInv, Holds, Exclusive, AnswerInv
  <2> QED
    BY <2>1, <2>2, <2>3, <2>4 DEF ClientNext
<1> QED
  BY <1>1, ClientInitInvariant, PTL DEF ClientSpec

\* Whatever became of the helpers of this and of earlier calls, a caller that
\* is told of a transition of the wake alarm is told what happened, undisturbed
\* by any other helper, and what it set is in the clock until somebody else
\* writes or its time comes; two helpers are alive at once only after one was
\* given up.
THEOREM HelperIsTakenAtItsWord == ClientSpec => []HelperAnswersAreTrue
<1>1. ClientInv => HelperAnswersAreTrue
  <2> SUFFICES ASSUME ClientInv PROVE HelperAnswersAreTrue
    OBVIOUS
  <2>1. ReportedTransitionsAreWhole
    BY DEF ClientInv, LockInv, ReportedTransitionsAreWhole
  <2>2. OverlapOnlyAfterGivingUp
    BY DEF ClientInv, RunInv, OverlapOnlyAfterGivingUp
  <2>3. SuccessIsInTheClock
    BY DEF ClientInv, AnswerInv, SuccessIsInTheClock
  <2> QED
    BY <2>1, <2>2, <2>3 DEF ClientInv, HelperAnswersAreTrue
<1> QED
  BY <1>1, ClientInvariance, PTL

\* Nothing that a late helper does, and no second end of its call, changes what
\* a caller was answered.
THEOREM HelperAnswersStay == ClientSpec => AnswersAreFinal
<1>1. ClientInv /\ [ClientNext]_clientVars
        => [\A c \in Callers : Settled(c) => call'[c] = call[c]]_clientVars
  <2> SUFFICES ASSUME ClientInv, [ClientNext]_clientVars,
                      NEW d \in Callers, Settled(d), ~UNCHANGED clientVars
               PROVE  call'[d] = call[d]
    OBVIOUS
  <2>1. CASE Tick
    BY <2>1 DEF Tick, ipc
  <2>2. ASSUME NEW c \in Callers, Execute(c) PROVE call'[d] = call[d]
    BY <2>2, ExecuteTypes DEF Execute, ClientInv, RunInv, Settled
  <2>3. ASSUME NEW c \in Callers, Start(c) PROVE call'[d] = call[d]
    <3>1. Fresh(c)
      BY <2>3, HeadOfQueue DEF Start, ClientInv
    <3> QED
      BY <2>3, <3>1, StartTypes DEF Fresh, Settled
  <2>4. ASSUME NEW c \in Callers, Timeout(c) \/ InputError(c) \/ Close(c)
        PROVE  call'[d] = call[d]
    <3>1. running = c /\ call[c].answer = Waiting
      BY <2>4, EndTypes DEF ClientInv, RunInv
    <3> QED
      BY <2>4, <3>1, EndTypes DEF Settled
  <2>5. ASSUME NEW c \in Callers, HelperStep(c) PROVE call'[d] = call[d]
    BY <2>5, HelperStepFrame DEF ClientInv, HelperFrame, ipc
  <2> QED
    BY <2>1, <2>2, <2>3, <2>4, <2>5 DEF ClientNext, ManagerStep
<1> QED
  BY <1>1, ClientInvariance, PTL DEF ClientSpec, AnswersAreFinal

-----------------------------------------------------------------------------
(* The scheduler. *)

USE DEF files, hardware, alarms, vars, Never, Actors

-----------------------------------------------------------------------------
(* Occurrences. *)

\* An interval's occurrences are inside it, and each wakes after it shuts down.
LEMMA OccurrenceFacts ==
    ASSUME NEW lo \in 0..Horizon, NEW hi \in 0..Horizon
    PROVE  /\ OccurrencesForInterval(lo, hi) \subseteq Occurrences
           /\ \A o \in OccurrencesForInterval(lo, hi) :
                 /\ o.at \in 1..Horizon /\ lo < o.at /\ o.at <= hi
                 /\ o.wake \in 1..LastMinute /\ o.at < o.wake
                 /\ Operating[o.at - 1] /\ StartsNext(o.at, o.wake)
<1>1. \A t \in (lo + 1)..hi : t \in 1..Horizon
  BY MachinePowerAssumption
<1>2. ASSUME NEW t \in (lo + 1)..hi, Operating[t - 1], ~Operating[t]
      PROVE  /\ NextOperatingStart(t) \in (t + 1)..LastMinute
             /\ StartsNext(t, NextOperatingStart(t))
  BY <1>1, <1>2, MachinePowerAssumption DEF NextOperatingStart
<1>3. OccurrencesForInterval(lo, hi) \subseteq Occurrences
  BY <1>1, MachinePowerAssumption DEF Occurrences, OccurrencesForInterval
<1>4. ASSUME NEW o \in OccurrencesForInterval(lo, hi)
      PROVE  /\ o.at \in 1..Horizon /\ lo < o.at /\ o.at <= hi
             /\ o.wake \in 1..LastMinute /\ o.at < o.wake
             /\ Operating[o.at - 1] /\ StartsNext(o.at, o.wake)
  <2>1. PICK t \in (lo + 1)..hi : /\ o = [at |-> t, wake |-> NextOperatingStart(t)]
                                  /\ Operating[t - 1] /\ ~Operating[t]
    BY <1>4 DEF OccurrencesForInterval
  <2>2. o.at = t /\ o.wake = NextOperatingStart(t)
    BY <2>1
  <2> QED BY <1>1, <1>2, <2>1, <2>2, MachinePowerAssumption
<1> QED BY <1>3, <1>4

\* The same of an occurrence within the horizon.
LEMMA PolicyOccurrences ==
    ASSUME NEW o \in Occurrences
    PROVE  /\ o.at \in 1..Horizon /\ o.wake \in 1..LastMinute /\ o.at < o.wake
           /\ Operating[o.at - 1] /\ StartsNext(o.at, o.wake)
BY OccurrenceFacts, MachinePowerAssumption DEF Occurrences

\* Any occurrence, an administrator's too, wakes after it shuts down.
LEMMA OccurrenceTypes ==
    ASSUME NEW o \in AllOccurrences
    PROVE  o.at \in 0..Horizon /\ o.wake \in 1..LastMinute /\ o.at < o.wake
<1>1. CASE o \in Occurrences
  BY <1>1, PolicyOccurrences, MachinePowerAssumption
<1>2. CASE o \in Submitted
  BY <1>2, MachinePowerAssumption
<1> QED BY <1>1, <1>2 DEF AllOccurrences

\* An interval splits at any minute.
LEMMA IntervalsJoin ==
    ASSUME NEW lo \in 0..Horizon, NEW mid \in 0..Horizon, NEW hi \in 0..Horizon,
           lo <= mid
    PROVE  OccurrencesForInterval(lo, hi) \subseteq
              OccurrencesForInterval(lo, mid) \cup OccurrencesForInterval(mid, hi)
<1> SUFFICES ASSUME NEW o \in OccurrencesForInterval(lo, hi)
             PROVE  o \in OccurrencesForInterval(lo, mid) \cup OccurrencesForInterval(mid, hi)
    OBVIOUS
<1>1. PICK t \in (lo + 1)..hi : /\ o = [at |-> t, wake |-> NextOperatingStart(t)]
                                /\ Operating[t - 1] /\ ~Operating[t]
  BY DEF OccurrencesForInterval
<1>2. t \in (lo + 1)..mid \/ t \in (mid + 1)..hi
  BY MachinePowerAssumption
<1> QED BY <1>1, <1>2 DEF OccurrencesForInterval

\* Nothing ends within an empty interval.
LEMMA EmptyInterval == ASSUME NEW t \in 0..Horizon PROVE OccurrencesForInterval(t, t) = {}
BY MachinePowerAssumption DEF OccurrencesForInterval

\* The machine is off for one occurrence at a time: their times do not overlap.
LEMMA OccurrencesDisjoint ==
    ASSUME NEW o \in Occurrences, NEW p \in Occurrences, NEW t \in Int,
           o.at <= t, t < o.wake, p.at <= t, t < p.wake
    PROVE  o = p
<1>1. ASSUME NEW q \in Occurrences, NEW r \in Occurrences, q.at < r.at, r.at < q.wake
      PROVE  FALSE
  <2>1. r.at - 1 \in q.at..(q.wake - 1)
    BY <1>1, PolicyOccurrences, MachinePowerAssumption
  <2> QED BY <2>1, <1>1, PolicyOccurrences DEF StartsNext
<1>2. o.at = p.at
  BY <1>1, PolicyOccurrences, MachinePowerAssumption
<1>3. PICK u \in 1..Horizon : o = [at |-> u, wake |-> NextOperatingStart(u)]
  BY DEF Occurrences, OccurrencesForInterval
<1>4. PICK v \in 1..Horizon : p = [at |-> v, wake |-> NextOperatingStart(v)]
  BY DEF Occurrences, OccurrencesForInterval
<1> QED BY <1>2, <1>3, <1>4

-----------------------------------------------------------------------------
(* Types. *)

USE DEF Fault, Step, StillComplete, WakeNotSet, Requested

\* What an execution may be set to.
LEMMA ExecutionTypes ==
    /\ Idle \in Executions
    /\ \A k \in {"none", "prepare", "execute"}, o \in AllOccurrences,
          st \in {"none", "initial", "snapshot", "final"} :
             Evaluation(k, o, st) \in Executions
    /\ NoTick \in Ticks
BY DEF Idle, Evaluation, Executions, Phases, NoTick, Ticks

\* An execution with another step in its place keeps the type of its fields.
LEMMA PhaseTypes ==
    ASSUME NEW e \in Executions, NEW pc \in Phases
    PROVE  [e EXCEPT !.pc = pc] \in Executions
BY DEF Executions

\* An execution that returns leaves the tick a tick.
LEMMA FinishTypes ==
    ASSUME TypeOK, NEW a \in Actors, NEW ok \in BOOLEAN, Finish(a, ok)
    PROVE  tick' \in Ticks /\ exec' \in [Actors -> Executions] /\ exec'[a] = Idle
BY ExecutionTypes DEF Finish, TypeOK, Ticks

\* What an execution is after its decision.
LEMMA DecisionTypes ==
    ASSUME NEW e \in Executions, e.occ \in AllOccurrences, e.pc = "read"
    PROVE  /\ Approved(e) \in Executions /\ Approved(e).occ = e.occ
           /\ Approved(e).pc = "prepared" => Approved(e).kind = "prepare"
           /\ FinalEvaluation(e) \in Executions /\ FinalEvaluation(e).occ = e.occ
           /\ FinalEvaluation(e).pc = "read"
           /\ Prepare(e) \in Executions /\ Prepare(e).occ = e.occ
           /\ Prepare(e).pc = "read"
<1>1. /\ FinalEvaluation(e) \in Executions /\ FinalEvaluation(e).occ = e.occ
      /\ FinalEvaluation(e).pc = "read"
  BY DEF FinalEvaluation, Evaluation, Idle, Executions, Phases
<1>2. /\ Approved(e) \in Executions /\ Approved(e).occ = e.occ
      /\ Approved(e).pc = "prepared" => Approved(e).kind = "prepare"
  BY DEF Approved, Executions, Phases
<1>3. /\ Prepare(e) \in Executions /\ Prepare(e).occ = e.occ
      /\ Prepare(e).pc = "read"
  BY <1>1 DEF Prepare, Executions, Work
<1> QED BY <1>1, <1>2, <1>3

\* A fault, a start or an administrative operation is counted within its bound.
LEMMA SpendingTypes ==
    ASSUME spent \in Spendings
    PROVE  /\ Fault => spent' \in Spendings
           /\ spent.faults < MaxFaults =>
                 [[spent EXCEPT !.faults = @ + 1] EXCEPT !.rewound = TRUE] \in Spendings
           /\ spent.starts < MaxStarts => [spent EXCEPT !.starts = @ + 1] \in Spendings
           /\ spent.requests < MaxRequests => [spent EXCEPT !.requests = @ + 1] \in Spendings
<1>1. PICK f \in 0..MaxFaults, st \in 0..MaxStarts, rq \in 0..MaxRequests, rw \in BOOLEAN :
         spent = [faults |-> f, starts |-> st, requests |-> rq, rewound |-> rw]
  BY DEF Spendings
<1>2. /\ spent.faults = f /\ spent.starts = st /\ spent.requests = rq
      /\ f < MaxFaults => f + 1 \in 0..MaxFaults
      /\ st < MaxStarts => st + 1 \in 0..MaxStarts
      /\ rq < MaxRequests => rq + 1 \in 0..MaxRequests
  BY <1>1, MachinePowerAssumption
<1>3. [spent EXCEPT !.faults = @ + 1] =
         [faults |-> f + 1, starts |-> st, requests |-> rq, rewound |-> rw]
  BY <1>1
<1>4. ASSUME NEW sp \in Spendings PROVE [sp EXCEPT !.rewound = TRUE] \in Spendings
  BY DEF Spendings
<1>5. [spent EXCEPT !.starts = @ + 1] =
         [faults |-> f, starts |-> st + 1, requests |-> rq, rewound |-> rw]
  BY <1>1
<1>6. [spent EXCEPT !.requests = @ + 1] =
         [faults |-> f, starts |-> st, requests |-> rq + 1, rewound |-> rw]
  BY <1>1
<1> QED BY <1>1, <1>2, <1>3, <1>4, <1>5, <1>6 DEF Spendings

\* One execution is replaced by another of its type.
LEMMA ExecutionChanges ==
    ASSUME TypeOK, ExecInv, NEW a \in Actors, NEW e \in Executions,
           exec' = [exec EXCEPT ![a] = e],
           e.pc # "none" => e.occ \in AllOccurrences,
           e.pc = "prepared" => e.kind = "prepare"
    PROVE  exec' \in [Actors -> Executions] /\ ExecInv'
BY DEF TypeOK, ExecInv

\* The step of one execution is changed.
LEMMA PhaseChanges ==
    ASSUME TypeOK, ExecInv, NEW a \in Actors, NEW pc \in Phases \ {"prepared"},
           exec' = [exec EXCEPT ![a].pc = pc], exec[a].pc # "none"
    PROVE  exec' \in [Actors -> Executions] /\ ExecInv'
<1> DEFINE e == [exec[a] EXCEPT !.pc = pc]
<1>1. exec[a] \in Executions /\ exec[a].occ \in AllOccurrences
  BY DEF TypeOK, ExecInv
<1>2. e \in Executions
  BY <1>1, PhaseTypes
<1>3. e.pc = pc /\ e.occ = exec[a].occ
  BY <1>1 DEF Executions
<1>4. exec' = [exec EXCEPT ![a] = e]
  OBVIOUS
<1> QED BY <1>1, <1>2, <1>3, <1>4, ExecutionChanges

\* The initial state is well typed.
LEMMA TypeInit == Init => TypeInv
<1> SUFFICES ASSUME Init PROVE TypeInv
    OBVIOUS
<1>1. exec \in [Actors -> Executions] /\ tick \in Ticks
  BY ExecutionTypes DEF Init
<1>2. ExecInv
  BY DEF Init, ExecInv, Idle
<1>3. spent \in Spendings /\ requests \in [AllOccurrences -> Nat]
  BY MachinePowerAssumption DEF Init, Spendings
<1> QED BY <1>1, <1>2, <1>3, MachinePowerAssumption DEF Init, TypeOK, TypeInv

\* Every step keeps the types.
LEMMA TypeStep == TypeInv /\ [Next]_vars => TypeInv'
<1> SUFFICES ASSUME TypeInv, [Next]_vars PROVE TypeInv'
    OBVIOUS
<1> USE MachinePowerAssumption DEF TypeInv
<1>1. CASE TickBegins
  BY <1>1 DEF TickBegins, NoTick, Ticks, TypeOK, ExecInv
<1>2. CASE ReadCursor
  <2>1. tick.at \in {Never} \cup 0..Horizon /\ cursor \in {Never} \cup 0..Horizon
    BY DEF TypeOK, Ticks
  <2>2. AfterCursor(tick.at, cursor) = "execute" =>
           OccurrencesForInterval(cursor, tick.at) \subseteq Occurrences
    BY <2>1, OccurrenceFacts, MachinePowerAssumption DEF AfterCursor
  <2>3. tick' \in Ticks
    BY <1>2, <2>1, <2>2, ExecutionTypes DEF ReadCursor, AfterCursor, TypeOK, Ticks
  <2> QED BY <1>2, <2>3 DEF ReadCursor, TypeOK, ExecInv
<1>3. CASE AdvanceCursor
  <2>1. tick' \in Ticks
    BY <1>3, ExecutionTypes DEF AdvanceCursor, TypeOK, Ticks
  <2>2. cursor' \in {Never} \cup 0..Horizon /\ first' \in {Never} \cup 0..Horizon
    BY <1>3 DEF AdvanceCursor, TypeOK, Ticks
  <2> QED BY <1>3, <2>1, <2>2 DEF AdvanceCursor, TypeOK, ExecInv
<1>4. CASE TickFails
  BY <1>4, SpendingTypes DEF TickFails, Ticks, TypeOK, ExecInv
<1>5. CASE PruneClaims
  BY <1>5 DEF PruneClaims, Ticks, Retained, TypeOK, ExecInv
<1>6. CASE OccurrencesDone
  BY <1>6 DEF OccurrencesDone, Ticks, TypeOK, ExecInv
<1>7. ASSUME NEW o \in tick.due, NextOccurrence(o) PROVE TypeInv'
  <2>1. o \in AllOccurrences
    BY <1>7 DEF TypeOK, Ticks, AllOccurrences
  <2> DEFINE e == IF tick.at >= o.wake
                  THEN [Idle EXCEPT !.pc = "audit", !.kind = "execute", !.occ = o]
                  ELSE Evaluation("execute", o, "initial")
  <2>2. e \in Executions /\ e.occ = o /\ e.pc # "prepared"
    BY <2>1 DEF Idle, Evaluation, Executions, Phases
  <2>3. settled' \subseteq AllOccurrences
    BY <1>7, <2>1 DEF NextOccurrence, TypeOK
  <2>4. exec' = [exec EXCEPT !["scheduler"] = e]
    BY <1>7 DEF NextOccurrence
  <2>5. exec' \in [Actors -> Executions] /\ ExecInv'
    BY <2>1, <2>2, <2>4, ExecutionChanges
  <2> QED BY <1>7, <2>3, <2>5 DEF NextOccurrence, TypeOK
<1>8. ASSUME NEW a \in Actors, Decide(a) PROVE TypeInv'
  <2>1. exec[a] \in Executions /\ exec[a].occ \in AllOccurrences /\ exec[a].pc = "read"
    BY <1>8 DEF Decide, TypeOK, ExecInv
  <2>2. CASE Finish(a, FALSE)
    <3>1. tick' \in Ticks /\ exec' \in [Actors -> Executions] /\ exec'[a] = Idle
      BY <2>2, FinishTypes
    <3>2. ExecInv'
      BY <2>2, <3>1 DEF Finish, Idle, ExecInv, TypeOK
    <3> QED BY <1>8, <3>1, <3>2 DEF Decide, TypeOK
  <2>3. ASSUME NEW e \in Executions, exec' = [exec EXCEPT ![a] = e], tick' = tick,
               e.occ \in AllOccurrences, e.pc = "prepared" => e.kind = "prepare"
        PROVE  TypeInv'
    <3>1. exec' \in [Actors -> Executions] /\ ExecInv'
      BY <2>3 DEF ExecInv, TypeOK
    <3> QED BY <1>8, <2>3, <3>1 DEF Decide, TypeOK
  <2>4. CASE exec' = [exec EXCEPT ![a].pc = "stop"] /\ tick' = tick
    <3>1. [exec[a] EXCEPT !.pc = "stop"] \in Executions
      BY <2>1, PhaseTypes DEF Phases
    <3>2. exec' = [exec EXCEPT ![a] = [exec[a] EXCEPT !.pc = "stop"]]
      BY <2>4
    <3> QED BY <2>1, <2>3, <2>4, <3>1, <3>2 DEF Executions
  <2>5. CASE exec' = [exec EXCEPT ![a] = Approved(exec[a])] /\ tick' = tick
    BY <2>1, <2>3, <2>5, DecisionTypes
  <2>6. CASE exec' = [exec EXCEPT ![a] = Prepare(exec[a])] /\ tick' = tick
    BY <2>1, <2>3, <2>6, DecisionTypes
  <2> QED BY <1>8, <2>2, <2>4, <2>5, <2>6 DEF Decide
<1>9. ASSUME NEW a \in Actors, StopsDone(a) PROVE TypeInv'
  <2>1. exec[a] \in Executions /\ exec[a].occ \in AllOccurrences
    BY <1>9 DEF StopsDone, TypeOK, ExecInv
  <2>2. /\ FinalEvaluation(exec[a]) \in Executions
        /\ FinalEvaluation(exec[a]).occ = exec[a].occ
        /\ FinalEvaluation(exec[a]).pc = "read"
    BY <2>1 DEF FinalEvaluation, Evaluation, Idle, Executions, Phases
  <2>3. exec' \in [Actors -> Executions] /\ ExecInv'
    BY <1>9, <2>1, <2>2 DEF StopsDone, ExecInv, TypeOK
  <2> QED BY <1>9, <2>3 DEF StopsDone, TypeOK
<1>10. ASSUME NEW a \in Actors, Claim(a) PROVE TypeInv'
  <2>1. exec[a].occ \in AllOccurrences /\ exec[a].pc = "claim"
    BY <1>10 DEF Claim, ExecInv
  <2>2. exec' \in [Actors -> Executions] /\ ExecInv'
    BY <1>10, <2>1, PhaseChanges DEF Claim, Phases
  <2> QED BY <1>10, <2>1, <2>2 DEF Claim, TypeOK
<1>11. ASSUME NEW a \in Actors, ClaimFails(a) PROVE TypeInv'
  <2>1. tick' \in Ticks /\ exec' \in [Actors -> Executions] /\ exec'[a] = Idle
    BY <1>11, FinishTypes DEF ClaimFails
  <2>2. ExecInv'
    BY <1>11, <2>1 DEF ClaimFails, Finish, Idle, ExecInv, TypeOK
  <2> QED BY <1>11, <2>1, <2>2, SpendingTypes DEF ClaimFails, TypeOK
<1>12. ASSUME NEW a \in Actors, ScheduleWake(a) PROVE TypeInv'
  <2>1. exec[a].occ \in AllOccurrences /\ exec[a].occ.wake \in 0..LastMinute
    BY <1>12, OccurrenceTypes, MachinePowerAssumption DEF ScheduleWake, ExecInv
  <2>2. CASE exec[a].occ.wake > now
    <3>1. exec' \in [Actors -> Executions] /\ ExecInv'
      BY <1>12, <2>2, PhaseChanges DEF ScheduleWake, Phases
    <3> QED BY <1>12, <2>1, <2>2, <3>1 DEF ScheduleWake, TypeOK
  <2>3. CASE ~(exec[a].occ.wake > now)
    <3>1. tick' \in Ticks /\ exec' \in [Actors -> Executions] /\ exec'[a] = Idle
      BY <1>12, <2>3, FinishTypes DEF ScheduleWake
    <3>2. ExecInv'
      BY <1>12, <2>3, <3>1 DEF ScheduleWake, Finish, Idle, ExecInv, TypeOK
    <3> QED BY <1>12, <2>3, <3>1, <3>2 DEF ScheduleWake, TypeOK
  <2> QED BY <2>2, <2>3
<1>13. ASSUME NEW a \in Actors, WakeFails(a) PROVE TypeInv'
  <2>1. tick' \in Ticks /\ exec' \in [Actors -> Executions] /\ exec'[a] = Idle
    BY <1>13, FinishTypes DEF WakeFails
  <2>2. ExecInv'
    BY <1>13, <2>1 DEF WakeFails, Finish, Idle, ExecInv, TypeOK
  <2>3. exec[a].occ \in AllOccurrences /\ exec[a].occ.wake \in 0..LastMinute
    BY <1>13, OccurrenceTypes, MachinePowerAssumption DEF WakeFails, ExecInv
  <2>4. alarm' \in {Never} \cup 0..LastMinute /\ alarmFor' \in AllOccurrences
    BY <1>13, <2>3 DEF WakeFails, TypeOK
  <2> QED BY <1>13, <2>1, <2>2, <2>4, SpendingTypes DEF WakeFails, TypeOK
<1>14. ASSUME NEW a \in Actors, RequestShutdown(a) PROVE TypeInv'
  <2>1. exec[a].occ \in AllOccurrences /\ requests' \in [AllOccurrences -> Nat]
    BY <1>14 DEF RequestShutdown, ExecInv, TypeOK
  <2>2. CASE machine = "on"
    <3>1. exec' \in [Actors -> Executions] /\ ExecInv'
      BY <1>14, <2>2, PhaseChanges DEF RequestShutdown, Phases
    <3> QED BY <1>14, <2>1, <2>2, <3>1 DEF RequestShutdown, TypeOK
  <2>3. CASE machine # "on"
    <3>1. tick' \in Ticks /\ exec' \in [Actors -> Executions] /\ exec'[a] = Idle
      BY <1>14, <2>3, FinishTypes DEF RequestShutdown
    <3>2. ExecInv'
      BY <1>14, <2>3, <3>1 DEF RequestShutdown, Finish, Idle, ExecInv, TypeOK
    <3> QED BY <1>14, <2>1, <2>3, <3>1, <3>2 DEF RequestShutdown, TypeOK
  <2> QED BY <2>2, <2>3
<1>15. ASSUME NEW a \in Actors, ShutdownFails(a) PROVE TypeInv'
  <2>1. tick' \in Ticks /\ exec' \in [Actors -> Executions] /\ exec'[a] = Idle
    BY <1>15, FinishTypes DEF ShutdownFails
  <2>2. ExecInv'
    BY <1>15, <2>1 DEF ShutdownFails, Finish, Idle, ExecInv, TypeOK
  <2>3. requests' \in [AllOccurrences -> Nat]
    BY <1>15 DEF ShutdownFails, ExecInv, TypeOK
  <2> QED BY <1>15, <2>1, <2>2, <2>3, SpendingTypes DEF ShutdownFails, TypeOK
<1>16. ASSUME NEW a \in Actors, ExecutionAudited(a) PROVE TypeInv'
  <2>1. tick' \in Ticks /\ exec' \in [Actors -> Executions] /\ exec'[a] = Idle
    BY <1>16, FinishTypes DEF ExecutionAudited
  <2>2. ExecInv'
    BY <1>16, <2>1 DEF ExecutionAudited, Finish, Idle, ExecInv, TypeOK
  <2> QED BY <1>16, <2>1, <2>2, SpendingTypes DEF ExecutionAudited, TypeOK
<1>17. ASSUME NEW a \in Actors, AuditFails(a) PROVE TypeInv'
  <2>1. tick' \in Ticks /\ exec' \in [Actors -> Executions] /\ exec'[a] = Idle
    BY <1>17, FinishTypes DEF AuditFails
  <2>2. ExecInv'
    BY <1>17, <2>1 DEF AuditFails, Finish, Idle, ExecInv, TypeOK
  <2> QED BY <1>17, <2>1, <2>2, SpendingTypes DEF AuditFails, TypeOK
<1>18. ASSUME NEW a \in Actors, PreparationEnds(a) PROVE TypeInv'
  <2>1. tick' \in Ticks /\ exec' \in [Actors -> Executions] /\ exec'[a] = Idle
    BY <1>18, FinishTypes DEF PreparationEnds
  <2>2. ExecInv'
    BY <1>18, <2>1 DEF PreparationEnds, Finish, Idle, ExecInv, TypeOK
  <2> QED BY <1>18, <2>1, <2>2, SpendingTypes DEF PreparationEnds, TypeOK
<1>19. ASSUME NEW a \in Actors, NEW w \in Work, ReadArea(a, w) PROVE TypeInv'
  <2> DEFINE e == [exec[a] EXCEPT
                    !.areas = @ \ {w}, !.found = IF w \in active THEN @ \cup {w} ELSE @]
  <2>1. exec[a] \in Executions /\ exec[a].pc # "none"
    BY <1>19 DEF ReadArea, TypeOK
  <2>2. /\ e \in Executions /\ e.occ = exec[a].occ
        /\ e.pc = exec[a].pc /\ e.kind = exec[a].kind
    BY <2>1 DEF Executions
  <2>3. exec' = [exec EXCEPT ![a] = e]
    BY <1>19 DEF ReadArea
  <2>4. exec[a].occ \in AllOccurrences /\ (exec[a].pc = "prepared" => exec[a].kind = "prepare")
    BY <2>1 DEF ExecInv
  <2>5. exec' \in [Actors -> Executions] /\ ExecInv'
    BY <2>2, <2>3, <2>4, ExecutionChanges
  <2>6. since' \in [Actors -> SUBSET Work]
    BY <1>19 DEF ReadArea, TypeOK
  <2> QED BY <1>19, <2>5, <2>6 DEF ReadArea, TypeOK
<1>20. ASSUME NEW a \in Actors, NEW w \in Work, ReadBlocker(a, w) PROVE TypeInv'
  <2> DEFINE e == [exec[a] EXCEPT !.areas = @ \ {w}, !.bad = @ \cup {w}]
  <2>1. exec[a] \in Executions /\ exec[a].pc # "none"
    BY <1>20 DEF ReadBlocker, TypeOK
  <2>2. /\ e \in Executions /\ e.occ = exec[a].occ
        /\ e.pc = exec[a].pc /\ e.kind = exec[a].kind
    BY <2>1 DEF Executions
  <2>3. exec' = [exec EXCEPT ![a] = e]
    BY <1>20 DEF ReadBlocker
  <2>4. exec[a].occ \in AllOccurrences /\ (exec[a].pc = "prepared" => exec[a].kind = "prepare")
    BY <2>1 DEF ExecInv
  <2>5. exec' \in [Actors -> Executions] /\ ExecInv'
    BY <2>2, <2>3, <2>4, ExecutionChanges
  <2> QED BY <1>20, <2>5, SpendingTypes DEF ReadBlocker, TypeOK
<1>21. ASSUME NEW a \in Actors, NEW s \in Services, StopService(a, s) PROVE TypeInv'
  <2> DEFINE e == [exec[a] EXCEPT !.todo = @ \ {s}]
  <2>1. exec[a] \in Executions /\ exec[a].pc # "none"
    BY <1>21 DEF StopService, TypeOK
  <2>2. /\ e \in Executions /\ e.occ = exec[a].occ
        /\ e.pc = exec[a].pc /\ e.kind = exec[a].kind
    BY <2>1 DEF Executions
  <2>3. exec' = [exec EXCEPT ![a] = e]
    BY <1>21 DEF StopService
  <2>4. exec[a].occ \in AllOccurrences /\ (exec[a].pc = "prepared" => exec[a].kind = "prepare")
    BY <2>1 DEF ExecInv
  <2>5. exec' \in [Actors -> Executions] /\ ExecInv'
    BY <2>2, <2>3, <2>4, ExecutionChanges
  <2> QED BY <1>21, <2>5 DEF StopService, TypeOK
<1>22. ASSUME NEW a \in Actors, NEW s \in Services, StopsAtUnknown(a, s) PROVE TypeInv'
  <2>1. tick' \in Ticks /\ exec' \in [Actors -> Executions] /\ exec'[a] = Idle
    BY <1>22, FinishTypes DEF StopsAtUnknown
  <2>2. ExecInv'
    BY <1>22, <2>1 DEF StopsAtUnknown, Finish, Idle, ExecInv, TypeOK
  <2> QED BY <1>22, <2>1, <2>2, SpendingTypes DEF StopsAtUnknown, TypeOK
<1>23. ASSUME NEW a \in Actors, NEW s \in Services, StopFails(a, s) PROVE TypeInv'
  <2>1. tick' \in Ticks /\ exec' \in [Actors -> Executions] /\ exec'[a] = Idle
    BY <1>23, FinishTypes DEF StopFails
  <2>2. ExecInv'
    BY <1>23, <2>1 DEF StopFails, Finish, Idle, ExecInv, TypeOK
  <2> QED BY <1>23, <2>1, <2>2, SpendingTypes DEF StopFails, TypeOK
<1>24. CASE ClockTicks
  BY <1>24 DEF ClockTicks, TypeOK, ExecInv
<1>25. CASE ClockStepsBack
  <2>1. spent' \in Spendings
    <3>1. spent' = [[spent EXCEPT !.faults = @ + 1] EXCEPT !.rewound = TRUE]
      BY <1>25 DEF ClockStepsBack
    <3> QED BY <1>25, <3>1, SpendingTypes DEF ClockStepsBack, TypeOK
  <2>2. now' \in 0..Horizon
    BY <1>25 DEF ClockStepsBack, TypeOK
  <2> QED BY <1>25, <2>1, <2>2 DEF ClockStepsBack, TypeOK, ExecInv
<1>26. CASE PowerGoes
  <2>1. tick' \in Ticks /\ exec' \in [Actors -> Executions] /\ ExecInv'
    BY <1>26, ExecutionTypes DEF PowerGoes, ProcessGone, Idle, ExecInv
  <2> QED BY <1>26, <2>1, SpendingTypes DEF PowerGoes, ProcessGone, TypeOK
<1>27. CASE Crash
  <2>1. tick' \in Ticks /\ exec' \in [Actors -> Executions] /\ ExecInv'
    BY <1>27, ExecutionTypes DEF Crash, ProcessGone, Idle, ExecInv
  <2> QED BY <1>27, <2>1, SpendingTypes DEF Crash, ProcessGone, TypeOK
<1>28. CASE ProcessExits
  <2>1. tick' \in Ticks /\ exec' \in [Actors -> Executions] /\ ExecInv'
    BY <1>28, ExecutionTypes DEF ProcessExits, ProcessGone, Idle, ExecInv
  <2> QED BY <1>28, <2>1, SpendingTypes DEF ProcessExits, ProcessGone, TypeOK
<1>29. CASE ProcessStarts
  BY <1>29 DEF ProcessStarts, TypeOK, ExecInv
<1>30. CASE SwitchedOn
  BY <1>30 DEF SwitchedOn, TypeOK, ExecInv
<1>31. ASSUME NEW w \in Work, WorkStarts(w) PROVE TypeInv'
  <2>1. since' \in [Actors -> SUBSET Work]
    BY <1>31 DEF WorkStarts, TypeOK
  <2> QED BY <1>31, <2>1, SpendingTypes DEF WorkStarts, TypeOK, ExecInv
<1>32. ASSUME NEW w \in Work, WorkEnds(w) PROVE TypeInv'
  BY <1>32 DEF WorkEnds, TypeOK, ExecInv
<1>33. ASSUME NEW o \in AllOccurrences, NEW k \in {"prepare", "execute"}, AdminShutdown(k, o)
      PROVE TypeInv'
  <2>1. Evaluation(k, o, "initial") \in Executions
    BY ExecutionTypes
  <2>2. exec' = [exec EXCEPT !["admin"] = Evaluation(k, o, "initial")]
    BY <1>33 DEF AdminShutdown
  <2>3. exec' \in [Actors -> Executions] /\ ExecInv'
    BY <2>1, <2>2 DEF Evaluation, Idle, ExecInv, TypeOK
  <2> QED BY <1>33, <2>3, SpendingTypes DEF AdminShutdown, TypeOK
<1>34. ASSUME NEW t \in 1..LastMinute, AdminScheduleWake(t) PROVE TypeInv'
  <2>1. spent' \in Spendings
    BY <1>34, SpendingTypes DEF AdminScheduleWake, AdminOperation, TypeOK
  <2>2. alarm' \in 0..LastMinute
    BY <1>34 DEF AdminScheduleWake
  <2> QED BY <1>34, <2>1, <2>2 DEF AdminScheduleWake, AdminOperation, Edited, TypeOK, ExecInv
<1>35. CASE AdminCancelWake
  BY <1>35, SpendingTypes DEF AdminCancelWake, AdminOperation, Edited, TypeOK, ExecInv
<1>36. CASE UNCHANGED vars
  BY <1>36, ExecutionTypes DEF TypeOK, ExecInv
<1> QED
  BY <1>1, <1>2, <1>3, <1>4, <1>5, <1>6, <1>7, <1>8, <1>9, <1>10, <1>11, <1>12, <1>13, <1>14,
     <1>15, <1>16, <1>17, <1>18, <1>19, <1>20, <1>21, <1>22, <1>23, <1>24, <1>25, <1>26, <1>27, <1>28,
     <1>29, <1>30, <1>31, <1>32, <1>33, <1>34, <1>35, <1>36
     DEF Next, TickStep, ExecutionStep, Environment

-----------------------------------------------------------------------------
(* What a step of an execution does to it. *)

\* The steps an execution may go on to from each of its steps.
Successors(pc) ==
    CASE pc = "read"     -> {"read", "stop", "claim", "prepared"}
      [] pc = "stop"     -> {"read", "stop"}
      [] pc = "claim"    -> {"wake", "audit"}
      [] pc = "wake"     -> {"shutdown"}
      [] pc = "shutdown" -> {"audit"}
      [] OTHER           -> {}

\* An execution goes on with its occurrence, or returns.
GoesOn(a) ==
    /\ exec[a].pc # "none" /\ tick' = tick
    /\ \A b \in Actors \ {a} : exec'[b] = exec[b]
    /\ exec'[a].pc \in Successors(exec[a].pc)
    /\ exec'[a].occ = exec[a].occ /\ exec'[a].kind = exec[a].kind

Returns(a) ==
    \E ok \in BOOLEAN :
        /\ Finish(a, ok) /\ exec[a].pc # "none"
        /\ ok => exec[a].pc \in {"audit", "prepared"}

\* Nothing is left of an execution that returns.
LEMMA ReturnClears ==
    ASSUME TypeOK, NEW a \in Actors, Returns(a)
    PROVE  exec'[a] = Idle /\ exec'[a].pc = "none" /\ \A b \in Actors \ {a} : exec'[b] = exec[b]
BY DEF Returns, Finish, TypeOK, Idle

\* An occurrence the tick turns to is read about, or only put on record.
LEMMA NextExecution ==
    ASSUME TypeOK, NEW o, NextOccurrence(o)
    PROVE  /\ exec'["scheduler"].occ = o /\ exec'["scheduler"].kind = "execute"
           /\ exec'["scheduler"].pc \in {"audit", "read"}
           /\ exec'["scheduler"].pc = "audit" => o \in settled'
           /\ exec'["scheduler"].pc = "read" =>
                 exec'["scheduler"] = Evaluation("execute", o, "initial")
           /\ exec'["admin"] = exec["admin"]
<1> DEFINE e == IF tick.at >= o.wake
                THEN [Idle EXCEPT !.pc = "audit", !.kind = "execute", !.occ = o]
                ELSE Evaluation("execute", o, "initial")
<1>1. exec'["scheduler"] = e /\ exec'["admin"] = exec["admin"]
  BY DEF NextOccurrence, TypeOK
<1>2. /\ e.occ = o /\ e.kind = "execute" /\ e.pc \in {"audit", "read"}
      /\ e.pc = "audit" => tick.at >= o.wake
      /\ e.pc = "read" => e = Evaluation("execute", o, "initial")
  BY DEF Idle, Evaluation
<1> HIDE DEF e
<1> QED BY <1>1, <1>2 DEF NextOccurrence

\* A replaced execution goes on when its step, occurrence and kind agree.
LEMMA Continues ==
    ASSUME TypeOK, NEW a \in Actors, NEW e, exec' = [exec EXCEPT ![a] = e], tick' = tick,
           exec[a].pc # "none", e.pc \in Successors(exec[a].pc),
           e.occ = exec[a].occ, e.kind = exec[a].kind
    PROVE  GoesOn(a)
BY DEF TypeOK, GoesOn

\* Every step of an execution is one of the two.
LEMMA ExecutionShape ==
    ASSUME TypeInv, NEW a \in Actors, ExecutionStep(a)
    PROVE  (GoesOn(a) \/ Returns(a)) /\ UNCHANGED <<cursor, first, process>>
<1> USE DEF TypeInv
<1> DEFINE next(pc) == [exec[a] EXCEPT !.pc = pc]
<1>0. exec[a] \in Executions
  BY DEF TypeOK
<1>p. ASSUME NEW pc \in Phases
      PROVE  /\ next(pc).pc = pc /\ next(pc).occ = exec[a].occ /\ next(pc).kind = exec[a].kind
             /\ [exec EXCEPT ![a].pc = pc] = [exec EXCEPT ![a] = next(pc)]
  BY <1>0 DEF Executions
<1>1. CASE Decide(a)
  <2>1. CASE exec' = [exec EXCEPT ![a].pc = "stop"] /\ tick' = tick
    <3>1. GoesOn(a)
      BY <1>1, <2>1, <1>p, Continues DEF Decide, Successors, Phases
    <3> QED BY <1>1, <3>1 DEF Decide
  <2>2. CASE exec' = [exec EXCEPT ![a] = Approved(exec[a])] /\ tick' = tick
    <3>1. /\ Approved(exec[a]).occ = exec[a].occ /\ Approved(exec[a]).kind = exec[a].kind
          /\ Approved(exec[a]).pc \in {"prepared", "claim"}
      BY <1>0 DEF Approved, Executions
    <3>2. GoesOn(a)
      BY <1>1, <2>2, <3>1, Continues DEF Decide, Successors
    <3> QED BY <1>1, <3>2 DEF Decide
  <2>3. CASE exec' = [exec EXCEPT ![a] = Prepare(exec[a])] /\ tick' = tick
    <3>1. /\ Prepare(exec[a]).occ = exec[a].occ /\ Prepare(exec[a]).kind = exec[a].kind
          /\ Prepare(exec[a]).pc = "read"
      BY <1>0, <1>1 DEF Prepare, FinalEvaluation, Evaluation, Idle, Executions, Decide
    <3>2. GoesOn(a)
      BY <1>1, <2>3, <3>1, Continues DEF Decide, Successors
    <3> QED BY <1>1, <3>2 DEF Decide
  <2>4. CASE Finish(a, FALSE)
    <3>1. Returns(a)
      BY <1>1, <2>4 DEF Decide, Returns
    <3> QED BY <1>1, <3>1 DEF Decide
  <2> QED BY <1>1, <2>1, <2>2, <2>3, <2>4 DEF Decide
<1>2. CASE StopsDone(a)
  <2>1. /\ FinalEvaluation(exec[a]).occ = exec[a].occ
        /\ FinalEvaluation(exec[a]).kind = exec[a].kind
        /\ FinalEvaluation(exec[a]).pc = "read"
    BY DEF FinalEvaluation, Evaluation, Idle
  <2>2. GoesOn(a)
    BY <1>2, <2>1, Continues DEF StopsDone, Successors
  <2> QED BY <1>2, <2>2 DEF StopsDone
<1>3. CASE Claim(a)
  <2>1. GoesOn(a)
    BY <1>3, <1>p, Continues DEF Claim, Successors, Phases
  <2> QED BY <1>3, <2>1 DEF Claim
<1>4. CASE ClaimFails(a) \/ WakeFails(a) \/ ShutdownFails(a) \/ AuditFails(a)
  <2>1. Returns(a)
    BY <1>4 DEF ClaimFails, WakeFails, ShutdownFails, AuditFails, Returns
  <2> QED BY <1>4, <2>1 DEF ClaimFails, WakeFails, ShutdownFails, AuditFails
<1>5. CASE ScheduleWake(a)
  <2>1. CASE exec[a].occ.wake > now
    <3>1. GoesOn(a)
      BY <1>5, <2>1, <1>p, Continues DEF ScheduleWake, Successors, Phases
    <3> QED BY <1>5, <3>1 DEF ScheduleWake
  <2>2. CASE ~(exec[a].occ.wake > now)
    <3>1. Returns(a)
      BY <1>5, <2>2 DEF ScheduleWake, Returns
    <3> QED BY <1>5, <3>1 DEF ScheduleWake
  <2> QED BY <2>1, <2>2
<1>6. CASE RequestShutdown(a)
  <2>1. CASE machine = "on"
    <3>1. GoesOn(a)
      BY <1>6, <2>1, <1>p, Continues DEF RequestShutdown, Successors, Phases
    <3> QED BY <1>6, <3>1 DEF RequestShutdown
  <2>2. CASE machine # "on"
    <3>1. Returns(a)
      BY <1>6, <2>2 DEF RequestShutdown, Returns
    <3> QED BY <1>6, <3>1 DEF RequestShutdown
  <2> QED BY <2>1, <2>2
<1>7. CASE ExecutionAudited(a) \/ PreparationEnds(a)
  <2>1. Returns(a)
    BY <1>7 DEF ExecutionAudited, PreparationEnds, Returns
  <2> QED BY <1>7, <2>1 DEF ExecutionAudited, PreparationEnds
<1>8. ASSUME NEW w \in Work, ReadArea(a, w)
      PROVE  (GoesOn(a) \/ Returns(a)) /\ UNCHANGED <<cursor, first, process>>
  <2> DEFINE e == [exec[a] EXCEPT
                    !.areas = @ \ {w}, !.found = IF w \in active THEN @ \cup {w} ELSE @]
  <2>1. e.pc = exec[a].pc /\ e.occ = exec[a].occ /\ e.kind = exec[a].kind
    BY <1>0 DEF Executions
  <2>2. exec' = [exec EXCEPT ![a] = e] /\ tick' = tick /\ exec[a].pc = "read"
    BY <1>8 DEF ReadArea
  <2> HIDE DEF e
  <2>3. GoesOn(a)
    BY <2>1, <2>2, Continues DEF Successors
  <2> QED BY <1>8, <2>3 DEF ReadArea
<1>9. ASSUME NEW w \in Work, ReadBlocker(a, w)
      PROVE  (GoesOn(a) \/ Returns(a)) /\ UNCHANGED <<cursor, first, process>>
  <2> DEFINE e == [exec[a] EXCEPT !.areas = @ \ {w}, !.bad = @ \cup {w}]
  <2>1. e.pc = exec[a].pc /\ e.occ = exec[a].occ /\ e.kind = exec[a].kind
    BY <1>0 DEF Executions
  <2>2. exec' = [exec EXCEPT ![a] = e] /\ tick' = tick /\ exec[a].pc = "read"
    BY <1>9 DEF ReadBlocker
  <2> HIDE DEF e
  <2>3. GoesOn(a)
    BY <2>1, <2>2, Continues DEF Successors
  <2> QED BY <1>9, <2>3 DEF ReadBlocker
<1>10. ASSUME NEW s \in Services, StopService(a, s)
       PROVE  (GoesOn(a) \/ Returns(a)) /\ UNCHANGED <<cursor, first, process>>
  <2> DEFINE e == [exec[a] EXCEPT !.todo = @ \ {s}]
  <2>1. e.pc = exec[a].pc /\ e.occ = exec[a].occ /\ e.kind = exec[a].kind
    BY <1>0 DEF Executions
  <2>2. exec' = [exec EXCEPT ![a] = e] /\ tick' = tick /\ exec[a].pc = "stop"
    BY <1>10 DEF StopService
  <2> HIDE DEF e
  <2>3. GoesOn(a)
    BY <2>1, <2>2, Continues DEF Successors
  <2> QED BY <1>10, <2>3 DEF StopService
<1>11. ASSUME NEW s \in Services, StopsAtUnknown(a, s) \/ StopFails(a, s)
       PROVE  (GoesOn(a) \/ Returns(a)) /\ UNCHANGED <<cursor, first, process>>
  <2>1. Returns(a)
    BY <1>11 DEF StopsAtUnknown, StopFails, Returns
  <2> QED BY <1>11, <2>1 DEF StopsAtUnknown, StopFails
<1> QED
  BY <1>1, <1>2, <1>3, <1>4, <1>5, <1>6, <1>7, <1>8, <1>9, <1>10, <1>11 DEF ExecutionStep

-----------------------------------------------------------------------------
(* The cursor passes only what is settled. *)

\* Steps that leave the tick and the cursor alone, and claim what they must.
LEMMA SafetyFrame ==
    ASSUME SafetyInv, UNCHANGED <<tick, cursor, first>>, settled \subseteq settled',
           exec'["scheduler"].pc # "none" =>
               /\ exec["scheduler"].pc # "none"
               /\ exec'["scheduler"].occ = exec["scheduler"].occ
               /\ exec'["scheduler"].kind = exec["scheduler"].kind,
           exec'["scheduler"].pc \in {"wake", "shutdown", "audit"} =>
               exec'["scheduler"].occ \in settled'
    PROVE  SafetyInv'
<1> USE DEF SafetyInv
<1>1. TickInv'
  BY DEF TickInv
<1>2. SettledInv'
  BY DEF SettledInv
<1>3. CursorPassesOnlySettled'
  BY DEF CursorPassesOnlySettled
<1> QED BY <1>1, <1>2, <1>3

\* An execution that returns: the tick has dealt with its occurrence, and if the
\* report stays complete the occurrence is settled.
LEMMA ReturnIsSafe ==
    ASSUME TypeInv, SafetyInv, NEW a \in Actors, Returns(a),
           UNCHANGED <<cursor, first>>, settled \subseteq settled'
    PROVE  SafetyInv'
<1> USE DEF SafetyInv, TypeInv
<1>1. CASE a = "admin"
  <2>1. tick' = tick /\ exec'["scheduler"] = exec["scheduler"]
    BY <1>1 DEF Returns, Finish, TypeOK
  <2> QED BY <2>1, SafetyFrame DEF SettledInv
<1>2. CASE a = "scheduler"
  <2>1. PICK ok \in BOOLEAN : /\ Finish(a, ok) /\ exec[a].pc # "none"
                              /\ ok => exec[a].pc \in {"audit", "prepared"}
    BY DEF Returns
  <2>2. /\ exec'["scheduler"] = Idle
        /\ tick' = [tick EXCEPT !.due = @ \ {exec[a].occ}, !.complete = @ /\ ok]
    BY <1>2, <2>1 DEF Finish, TypeOK
  <2>3. /\ tick'.pc = tick.pc /\ tick'.from = tick.from /\ tick'.at = tick.at
        /\ tick'.due = tick.due \ {exec[a].occ} /\ (tick'.complete => tick.complete /\ ok)
    BY <2>2 DEF TypeOK, Ticks
  <2>4. /\ tick.pc = "execute" /\ exec[a].kind = "execute" /\ exec[a].pc # "prepared"
    BY <1>2, <2>1 DEF TickInv, ExecInv
  <2>5. ok => exec[a].occ \in settled
    BY <1>2, <2>1, <2>4 DEF SettledInv
  <2>6. TickInv'
    BY <2>2, <2>3, <2>4 DEF TickInv, Idle
  <2>7. SettledInv'
    BY <2>2, <2>3, <2>4, <2>5 DEF SettledInv, Idle
  <2>8. CursorPassesOnlySettled'
    BY DEF CursorPassesOnlySettled
  <2> QED BY <2>6, <2>7, <2>8
<1> QED BY <1>1, <1>2

\* Without a process there is neither tick nor execution.
LEMMA NoProcessIsSafe ==
    ASSUME SafetyInv, ProcessGone, UNCHANGED <<cursor, first, settled>>
    PROVE  SafetyInv'
BY DEF SafetyInv, ProcessGone, NoTick, Idle, InInterval, TickInv, SettledInv, CursorPassesOnlySettled

\* At first there is no cursor and no tick.
LEMMA SafetyInit == Init => SafetyInv
BY DEF Init, SafetyInv, NoTick, Idle, InInterval, TickInv, SettledInv, CursorPassesOnlySettled

\* Every step keeps the tick on the interval it read, and all it has dealt with
\* settled as long as its report is complete.
LEMMA SafetyStep == TypeInv /\ SafetyInv /\ [Next]_vars => SafetyInv'
<1> SUFFICES ASSUME TypeInv, SafetyInv, [Next]_vars PROVE SafetyInv'
    OBVIOUS
<1> USE MachinePowerAssumption DEF TypeInv, SafetyInv
<1>1. CASE TickBegins
  <2>1. tick'.pc = "cursor" /\ tick'.at = now /\ now # Never
    BY <1>1 DEF TickBegins, NoTick, TypeOK
  <2>2. exec["scheduler"].pc = "none"
    BY <1>1 DEF TickBegins, TickInv
  <2> QED BY <1>1, <2>1, <2>2
          DEF TickBegins, InInterval, TickInv, SettledInv, CursorPassesOnlySettled
<1>2. CASE ReadCursor
  <2>1. exec["scheduler"].pc = "none"
    BY <1>2 DEF ReadCursor, TickInv
  <2> DEFINE next == AfterCursor(tick.at, cursor)
  <2>2. next \in {"initialize", "idle", "halted", "execute"}
    BY DEF AfterCursor
  <2>3. CASE next \in {"idle", "halted"}
    <3>1. tick'.pc \in {"idle", "halted"}
      BY <1>2, <2>3 DEF ReadCursor, NoTick, TypeOK, Ticks
    <3> QED BY <1>2, <2>1, <3>1
            DEF ReadCursor, InInterval, TickInv, SettledInv, CursorPassesOnlySettled
  <2>4. CASE next = "initialize"
    <3>1. cursor = Never /\ tick'.pc = "initialize" /\ tick'.from = cursor /\ tick'.at = tick.at
      BY <1>2, <2>4 DEF ReadCursor, AfterCursor, TypeOK, Ticks
    <3>2. tick.at # Never
      BY <1>2 DEF ReadCursor, TickInv
    <3> QED BY <1>2, <2>1, <3>1, <3>2
            DEF ReadCursor, TickInv, SettledInv, CursorPassesOnlySettled, InInterval
  <2>5. CASE next = "execute"
    <3>1. cursor # Never /\ cursor < tick.at
      BY <2>5 DEF AfterCursor, TypeOK, Ticks
    <3>2. /\ tick'.pc = "execute" /\ tick'.from = cursor /\ tick'.at = tick.at
          /\ tick'.due = OccurrencesForInterval(cursor, tick.at)
      BY <1>2, <2>5 DEF ReadCursor, TypeOK, Ticks
    <3>3. TickInv'
      BY <1>2, <2>1, <3>1, <3>2 DEF ReadCursor, TickInv, InInterval, TypeOK, Ticks
    <3>4. SettledInv'
      BY <1>2, <2>1, <3>2 DEF ReadCursor, SettledInv
    <3> QED BY <1>2, <3>3, <3>4 DEF ReadCursor, CursorPassesOnlySettled
  <2> QED BY <2>2, <2>3, <2>4, <2>5
<1>3. CASE AdvanceCursor
  <2>1. exec["scheduler"].pc = "none" /\ tick.from = cursor /\ tick.at # Never
    BY <1>3 DEF AdvanceCursor, TickInv, InInterval
  <2>2. CASE ~(cursor = tick.from /\ cursor < tick.at)
    <3>1. tick'.pc = "halted" /\ UNCHANGED <<cursor, first, exec, settled>>
      BY <1>3, <2>2 DEF AdvanceCursor, TypeOK, Ticks
    <3> QED BY <2>1, <3>1 DEF TickInv, SettledInv, CursorPassesOnlySettled, InInterval
  <2>3. CASE cursor = tick.from /\ cursor < tick.at
    <3>1. /\ cursor' = tick.at /\ tick'.pc = "idle" /\ UNCHANGED <<exec, settled>>
          /\ first' = IF first = Never THEN tick.at ELSE first
      BY <1>3, <2>3 DEF AdvanceCursor, NoTick
    <3>2. TickInv'
      BY <2>1, <3>1 DEF TickInv, InInterval
    <3>3. cursor' \in 0..Horizon /\ (cursor = Never \/ cursor \in 0..Horizon)
      BY <2>1, <3>1 DEF TypeOK, Ticks
    <3>4. SettledInv'
      BY <2>1, <2>3, <3>1, <3>3 DEF SettledInv, InInterval, TypeOK, Ticks
    <3>5. CASE tick.pc = "initialize"
      <4>1. first' = cursor'
        BY <2>1, <3>1, <3>5 DEF TickInv, SettledInv
      <4> QED BY <3>2, <3>3, <3>4, <4>1, EmptyInterval DEF CursorPassesOnlySettled
    <3>6. CASE tick.pc = "advance"
      <4>1. /\ cursor # Never /\ tick.complete /\ tick.due = {}
        BY <2>1, <3>6 DEF TickInv, InInterval
      <4>2. first \in 0..Horizon /\ first <= cursor /\ first' = first
        BY <3>1, <4>1 DEF SettledInv, TypeOK
      <4>3. OccurrencesForInterval(cursor, tick.at) \subseteq settled
        BY <2>1, <3>6, <4>1 DEF SettledInv, InInterval
      <4>4. OccurrencesForInterval(first, cursor) \subseteq settled
        BY <4>1 DEF CursorPassesOnlySettled
      <4>5. OccurrencesForInterval(first, tick.at) \subseteq settled
        BY <3>1, <3>3, <4>1, <4>2, <4>3, <4>4, IntervalsJoin
      <4> QED BY <3>1, <3>2, <3>4, <4>2, <4>5 DEF CursorPassesOnlySettled
    <3> QED BY <1>3, <3>5, <3>6 DEF AdvanceCursor
  <2> QED BY <2>2, <2>3
<1>4. CASE TickFails
  <2>1. tick'.pc = "halted" /\ exec["scheduler"].pc = "none"
    BY <1>4 DEF TickFails, TickInv, TypeOK, Ticks
  <2> QED BY <1>4, <2>1
          DEF TickFails, TickInv, SettledInv, CursorPassesOnlySettled, InInterval
<1>5. CASE PruneClaims
  <2>1. exec["scheduler"].pc = "none"
    BY <1>5 DEF PruneClaims, TickInv
  <2>2. /\ tick'.pc = IF tick.complete THEN "advance" ELSE "halted"
        /\ tick'.at = tick.at /\ tick'.from = tick.from /\ tick'.due = tick.due
        /\ tick'.complete = tick.complete
    BY <1>5 DEF PruneClaims, TypeOK, Ticks
  <2> QED BY <1>5, <2>1, <2>2
          DEF PruneClaims, TickInv, SettledInv, CursorPassesOnlySettled, InInterval
<1>6. CASE OccurrencesDone
  <2>1. /\ tick'.pc = "prune" /\ tick'.at = tick.at /\ tick'.from = tick.from
        /\ tick'.due = tick.due /\ tick'.complete = tick.complete
    BY <1>6 DEF OccurrencesDone, TypeOK, Ticks
  <2> QED BY <1>6, <2>1
          DEF OccurrencesDone, TickInv, SettledInv, CursorPassesOnlySettled, InInterval
<1>7. ASSUME NEW o \in tick.due, NextOccurrence(o) PROVE SafetyInv'
  <2>1. /\ exec'["scheduler"].occ = o /\ exec'["scheduler"].kind = "execute"
        /\ exec'["scheduler"].pc \in {"audit", "read"}
        /\ exec'["scheduler"].pc = "audit" => o \in settled'
    BY <1>7, NextExecution
  <2>2. settled \subseteq settled'
    BY <1>7 DEF NextOccurrence
  <2> QED BY <1>7, <2>1, <2>2
          DEF NextOccurrence, TickInv, SettledInv, CursorPassesOnlySettled
<1>8. ASSUME NEW a \in Actors, ExecutionStep(a) PROVE SafetyInv'
  <2>1. settled \subseteq settled' /\ (exec[a].pc = "claim" /\ GoesOn(a) => exec[a].occ \in settled')
    <3>1. CASE Claim(a)
      BY <3>1 DEF Claim
    <3>2. CASE ClaimFails(a)
      BY <3>2 DEF ClaimFails, Finish, Idle, GoesOn, Successors, TypeOK
    <3>3. CASE ~Claim(a) /\ ~ClaimFails(a)
      BY <1>8, <3>3 DEF ExecutionStep, Decide, StopsDone, ScheduleWake, WakeFails,
         RequestShutdown, ShutdownFails, ExecutionAudited, AuditFails, PreparationEnds,
         ReadArea, ReadBlocker, StopService, StopsAtUnknown, StopFails
    <3> QED BY <3>1, <3>2, <3>3
  <2>2. (GoesOn(a) \/ Returns(a)) /\ UNCHANGED <<cursor, first>>
    BY <1>8, ExecutionShape
  <2>3. CASE Returns(a)
    BY <2>1, <2>2, <2>3, ReturnIsSafe
  <2>4. CASE GoesOn(a)
    <3>1. tick' = tick /\ exec[a].pc # "none" /\ exec'[a].occ = exec[a].occ
          /\ exec'[a].kind = exec[a].kind
          /\ \A b \in Actors \ {a} : exec'[b] = exec[b]
      BY <2>4 DEF GoesOn
    <3>2. exec'[a].pc \in {"wake", "shutdown", "audit"} => exec[a].pc \in {"claim", "wake", "shutdown"}
      BY <2>4 DEF GoesOn, Successors
    <3>3. CASE a = "scheduler"
      BY <2>1, <2>2, <2>4, <3>1, <3>2, <3>3, SafetyFrame DEF SettledInv
    <3>4. CASE a # "scheduler"
      <4>1. exec'["scheduler"] = exec["scheduler"]
        BY <3>1, <3>4
      <4> QED BY <2>1, <2>2, <3>1, <4>1, SafetyFrame DEF SettledInv
    <3> QED BY <3>3, <3>4
  <2> QED BY <2>2, <2>3, <2>4
<1>9. CASE ClockTicks
  BY <1>9, SafetyFrame DEF ClockTicks, SettledInv
<1>10. CASE ClockStepsBack
  BY <1>10, SafetyFrame DEF ClockStepsBack, SettledInv
<1>11. CASE PowerGoes
  BY <1>11, NoProcessIsSafe DEF PowerGoes
<1>12. CASE Crash
  BY <1>12, NoProcessIsSafe DEF Crash
<1>13. CASE ProcessExits
  BY <1>13, NoProcessIsSafe DEF ProcessExits
<1>14. CASE ProcessStarts
  BY <1>14, SafetyFrame DEF ProcessStarts, SettledInv
<1>15. CASE SwitchedOn
  BY <1>15, SafetyFrame DEF SwitchedOn, SettledInv
<1>16. ASSUME NEW w \in Work, WorkStarts(w) PROVE SafetyInv'
  BY <1>16, SafetyFrame DEF WorkStarts, SettledInv
<1>17. ASSUME NEW w \in Work, WorkEnds(w) PROVE SafetyInv'
  BY <1>17, SafetyFrame DEF WorkEnds, SettledInv
<1>18. ASSUME NEW o \in AllOccurrences, NEW k \in {"prepare", "execute"}, AdminShutdown(k, o)
      PROVE SafetyInv'
  <2>1. exec'["scheduler"] = exec["scheduler"]
    BY <1>18 DEF AdminShutdown, TypeOK
  <2> QED BY <1>18, <2>1, SafetyFrame DEF AdminShutdown, SettledInv
<1>19. ASSUME NEW t \in 1..LastMinute, AdminScheduleWake(t) PROVE SafetyInv'
  BY <1>19, SafetyFrame DEF AdminScheduleWake, SettledInv, AdminOperation
<1>20. CASE AdminCancelWake
  BY <1>20, SafetyFrame DEF AdminCancelWake, SettledInv, AdminOperation
<1>21. CASE UNCHANGED vars
  BY <1>21, SafetyFrame DEF SettledInv
<1> QED
  BY <1>1, <1>2, <1>3, <1>4, <1>5, <1>6, <1>7, <1>8, <1>9, <1>10, <1>11, <1>12, <1>13, <1>14,
     <1>15, <1>16, <1>17, <1>18, <1>19, <1>20, <1>21
     DEF Next, TickStep, Environment

-----------------------------------------------------------------------------
(* An occurrence ahead of the cursor is requested at most once. *)

\* About to set the alarm or to request the power-off.
Committed(a) == exec[a].pc \in {"wake", "shutdown"}

\* Steps that request nothing, forget no claim ahead of the cursor and commit
\* nobody.
LEMMA ClaimFrame ==
    ASSUME TypeInv, TypeInv', ClaimInv, requests' = requests, cursor <= cursor',
           \A o \in claims : o.at > cursor' => o \in claims',
           \A a \in Actors : Committed(a)' => Committed(a) /\ exec'[a].occ = exec[a].occ
    PROVE  ClaimInv'
<1> USE DEF ClaimInv, TypeInv
<1>1. ASSUME NEW o \in AllOccurrences, o.at > cursor' PROVE o.at > cursor
  BY <1>1, OccurrenceTypes, MachinePowerAssumption DEF TypeOK
<1>2. ASSUME NEW o \in AllOccurrences, o.at > cursor', requests'[o] > 0 PROVE o \in claims'
  BY <1>1, <1>2 DEF OnceInv
<1>3. ASSUME NEW a \in Actors, Committed(a)', exec'[a].occ.at > cursor'
      PROVE  /\ exec'[a].occ \in claims' /\ requests'[exec'[a].occ] = 0
             /\ \A b \in Actors \ {a} : Committed(b)' => exec'[b].occ # exec'[a].occ
  <2>1. Committed(a) /\ exec'[a].occ = exec[a].occ /\ exec[a].occ \in AllOccurrences
    BY <1>3 DEF Committed, ExecInv
  <2>2. exec[a].occ.at > cursor
    BY <1>1, <1>3, <2>1
  <2> QED BY <1>3, <2>1, <2>2 DEF OnceInv, Committed
<1>4. OnceInv'
  BY <1>2, <1>3 DEF OnceInv, Committed
<1>5. OnceAheadOfCursor'
  BY <1>1 DEF OnceAheadOfCursor, TypeOK
<1> QED BY <1>4, <1>5

\* A claim that is no duplicate commits its execution alone.
LEMMA ClaimStep ==
    ASSUME TypeInv, ClaimInv, NEW a \in Actors, Claim(a), GoesOn(a)
    PROVE  ClaimInv'
<1> USE DEF ClaimInv, TypeInv
<1> DEFINE o == exec[a].occ
<1>1. /\ o \in AllOccurrences /\ exec'[a].occ = o /\ claims' = claims \cup {o}
      /\ \A b \in Actors \ {a} : exec'[b] = exec[b]
      /\ UNCHANGED <<requests, cursor>>
  BY DEF Claim, GoesOn, ExecInv
<1>2. exec'[a].pc = IF o \in claims THEN "audit" ELSE "wake"
  BY DEF Claim, TypeOK, Executions
<1>3. OnceAheadOfCursor'
  BY <1>1 DEF OnceAheadOfCursor
<1>4. ASSUME NEW p \in AllOccurrences, p.at > cursor', requests'[p] > 0 PROVE p \in claims'
  BY <1>1, <1>4 DEF OnceInv
<1>5. ASSUME NEW b \in Actors, Committed(b)', exec'[b].occ.at > cursor'
      PROVE  /\ exec'[b].occ \in claims' /\ requests'[exec'[b].occ] = 0
             /\ \A c \in Actors \ {b} : Committed(c)' => exec'[c].occ # exec'[b].occ
  <2>1. CASE b = a
    <3>1. o \notin claims /\ o.at > cursor
      BY <1>1, <1>2, <1>5, <2>1 DEF Committed
    <3>2. requests[o] = 0
      BY <1>1, <3>1 DEF OnceInv, TypeOK
    <3>3. \A c \in Actors \ {a} : Committed(c) => exec[c].occ # o
      BY <3>1 DEF OnceInv, Committed
    <3> QED BY <1>1, <2>1, <3>2, <3>3 DEF Committed
  <2>2. CASE b # a
    <3>1. Committed(b) /\ exec'[b].occ = exec[b].occ /\ exec[b].occ.at > cursor
      BY <1>1, <1>5, <2>2 DEF Committed
    <3>2. exec[b].occ \in claims /\ requests[exec[b].occ] = 0
      BY <3>1 DEF OnceInv, Committed
    <3>3. Committed(a)' => o # exec[b].occ
      BY <1>2, <3>2 DEF Committed
    <3>4. \A c \in Actors \ {b} : c = a
      BY <2>2
    <3> QED BY <1>1, <3>1, <3>2, <3>3, <3>4
  <2> QED BY <2>1, <2>2
<1> QED BY <1>3, <1>4, <1>5 DEF OnceInv, Committed

\* A request is the first of its occurrence, and its execution is then past it.
LEMMA RequestStep ==
    ASSUME TypeInv, ClaimInv, NEW a \in Actors, exec[a].pc = "shutdown", Requested(a),
           UNCHANGED <<cursor, claims>>, ~Committed(a)',
           \A b \in Actors \ {a} : exec'[b] = exec[b]
    PROVE  ClaimInv'
<1> USE DEF ClaimInv, TypeInv
<1> DEFINE o == exec[a].occ
<1>1. o \in AllOccurrences /\ requests[o] \in Nat /\ DOMAIN requests' = AllOccurrences
  BY DEF ExecInv, TypeOK
<1>2. /\ requests'[o] = requests[o] + 1
      /\ \A p \in AllOccurrences \ {o} : requests'[p] = requests[p]
  BY <1>1 DEF TypeOK
<1>3. o.at > cursor => o \in claims /\ requests[o] = 0
  BY DEF OnceInv
<1>4. OnceAheadOfCursor'
  BY <1>1, <1>2, <1>3 DEF OnceAheadOfCursor, TypeOK
<1>5. ASSUME NEW p \in AllOccurrences, p.at > cursor', requests'[p] > 0 PROVE p \in claims'
  BY <1>2, <1>3, <1>5 DEF OnceInv
<1>6. ASSUME NEW b \in Actors, Committed(b)', exec'[b].occ.at > cursor'
      PROVE  /\ exec'[b].occ \in claims' /\ requests'[exec'[b].occ] = 0
             /\ \A c \in Actors \ {b} : Committed(c)' => exec'[c].occ # exec'[b].occ
  <2>1. b # a /\ Committed(b) /\ exec'[b].occ = exec[b].occ /\ exec[b].occ.at > cursor
    BY <1>6 DEF Committed
  <2>2. exec[b].occ \in AllOccurrences
    BY <2>1 DEF ExecInv, Committed
  <2>3. exec[b].occ \in claims /\ requests[exec[b].occ] = 0 /\ exec[b].occ # o
    BY <2>1 DEF OnceInv, Committed
  <2> QED BY <1>2, <2>1, <2>2, <2>3
<1> QED BY <1>4, <1>5, <1>6 DEF OnceInv, Committed

\* At first nothing is claimed or requested.
LEMMA ClaimInit == Init => ClaimInv
BY DEF Init, ClaimInv, OnceInv, OnceAheadOfCursor, Idle

\* Every step keeps what is requested ahead of the cursor claimed, by one
\* execution only.
LEMMA ClaimKept == TypeInv /\ TypeInv' /\ SafetyInv /\ ClaimInv /\ [Next]_vars => ClaimInv'
<1> SUFFICES ASSUME TypeInv, TypeInv', SafetyInv, ClaimInv, [Next]_vars PROVE ClaimInv'
    OBVIOUS
<1> USE MachinePowerAssumption DEF TypeInv
<1>0. cursor <= cursor
  BY DEF TypeOK
<1> USE <1>0
<1>1. CASE TickBegins
  BY <1>1, ClaimFrame DEF TickBegins, Committed
<1>2. CASE ReadCursor
  BY <1>2, ClaimFrame DEF ReadCursor, Committed
<1>3. CASE AdvanceCursor
  <2>1. cursor <= cursor'
    BY <1>3 DEF AdvanceCursor, TypeOK, Ticks
  <2> QED BY <1>3, <2>1, ClaimFrame DEF AdvanceCursor, Committed
<1>4. CASE TickFails
  BY <1>4, ClaimFrame DEF TickFails, Committed
<1>5. CASE PruneClaims
  <2>1. tick.from = cursor
    BY <1>5 DEF PruneClaims, SafetyInv, TickInv, InInterval
  <2>2. \A o \in claims : o.at > cursor' => o \in claims'
    BY <1>5, <2>1 DEF PruneClaims, Retained
  <2> QED BY <1>5, <2>2, ClaimFrame DEF PruneClaims, Committed
<1>6. CASE OccurrencesDone
  BY <1>6, ClaimFrame DEF OccurrencesDone, Committed
<1>7. ASSUME NEW o \in tick.due, NextOccurrence(o) PROVE ClaimInv'
  <2>1. exec'["scheduler"].pc \in {"audit", "read"} /\ exec'["admin"] = exec["admin"]
    BY <1>7, NextExecution
  <2> QED BY <1>7, <2>1, ClaimFrame DEF NextOccurrence, Committed
<1>8. ASSUME NEW a \in Actors, ExecutionStep(a) PROVE ClaimInv'
  <2>1. (GoesOn(a) \/ Returns(a)) /\ cursor' = cursor
    BY <1>8, ExecutionShape
  <2>2. /\ \A b \in Actors \ {a} : exec'[b] = exec[b]
        /\ Returns(a) => ~Committed(a)'
    BY <2>1, ReturnClears DEF GoesOn, Committed
  <2>3. CASE Claim(a)
    <3>1. GoesOn(a)
      <4>1. exec'[a].pc # "none"
        BY <2>3 DEF Claim, TypeOK, Executions
      <4> QED BY <2>1, <4>1, ReturnClears
    <3> QED BY <2>3, <3>1, ClaimStep
  <2>4. CASE RequestShutdown(a) \/ ShutdownFails(a)
    <3>1. exec[a].pc = "shutdown" /\ Requested(a) /\ UNCHANGED <<cursor, claims>>
      BY <2>4 DEF RequestShutdown, ShutdownFails
    <3>2. ~Committed(a)'
      BY <2>1, <2>2, <3>1 DEF GoesOn, Successors, Committed
    <3> QED BY <2>2, <3>1, <3>2, RequestStep
  <2>5. CASE ~Claim(a) /\ ~RequestShutdown(a) /\ ~ShutdownFails(a)
    <3>1. \/ UNCHANGED <<requests, claims>> /\ exec[a].pc # "claim"
          \/ ClaimFails(a)
      BY <1>8, <2>5 DEF ExecutionStep, Decide, StopsDone, ScheduleWake, WakeFails,
         ExecutionAudited, AuditFails, PreparationEnds, ReadArea, ReadBlocker, StopService,
         StopsAtUnknown, StopFails
    <3>2. ClaimFails(a) => Returns(a) /\ UNCHANGED <<requests, claims>>
      BY DEF ClaimFails, Returns
    <3>3. Committed(a)' => Committed(a) /\ exec'[a].occ = exec[a].occ
      BY <2>1, <2>2, <3>1, <3>2 DEF GoesOn, Successors, Committed
    <3> QED BY <2>1, <2>2, <3>1, <3>2, <3>3, ClaimFrame DEF Committed
  <2> QED BY <2>3, <2>4, <2>5
<1>9. CASE ClockTicks
  BY <1>9, ClaimFrame DEF ClockTicks, Committed
<1>10. CASE ClockStepsBack
  BY <1>10, ClaimFrame DEF ClockStepsBack, Committed
<1>11. CASE PowerGoes
  BY <1>11, ClaimFrame DEF PowerGoes, ProcessGone, Idle, Committed
<1>12. CASE Crash
  BY <1>12, ClaimFrame DEF Crash, ProcessGone, Idle, Committed
<1>13. CASE ProcessExits
  BY <1>13, ClaimFrame DEF ProcessExits, ProcessGone, Idle, Committed
<1>14. CASE ProcessStarts
  BY <1>14, ClaimFrame DEF ProcessStarts, Committed
<1>15. CASE SwitchedOn
  BY <1>15, ClaimFrame DEF SwitchedOn, Committed
<1>16. ASSUME NEW w \in Work, WorkStarts(w) PROVE ClaimInv'
  BY <1>16, ClaimFrame DEF WorkStarts, Committed
<1>17. ASSUME NEW w \in Work, WorkEnds(w) PROVE ClaimInv'
  BY <1>17, ClaimFrame DEF WorkEnds, Committed
<1>18. ASSUME NEW o \in AllOccurrences, NEW k \in {"prepare", "execute"}, AdminShutdown(k, o)
      PROVE ClaimInv'
  <2>1. exec'["admin"].pc = "read" /\ exec'["scheduler"] = exec["scheduler"]
    BY <1>18 DEF AdminShutdown, Idle, Evaluation, TypeOK
  <2> QED BY <1>18, <2>1, ClaimFrame DEF AdminShutdown, Committed
<1>19. ASSUME NEW t \in 1..LastMinute, AdminScheduleWake(t) PROVE ClaimInv'
  BY <1>19, ClaimFrame DEF AdminScheduleWake, Committed, AdminOperation
<1>20. CASE AdminCancelWake
  BY <1>20, ClaimFrame DEF AdminCancelWake, Committed, AdminOperation
<1>21. CASE UNCHANGED vars
  BY <1>21, ClaimFrame DEF Committed
<1> QED
  BY <1>1, <1>2, <1>3, <1>4, <1>5, <1>6, <1>7, <1>8, <1>9, <1>10, <1>11, <1>12, <1>13, <1>14,
     <1>15, <1>16, <1>17, <1>18, <1>19, <1>20, <1>21
     DEF Next, TickStep, Environment

-----------------------------------------------------------------------------
(* Power-off comes with the alarm of its own execution. *)

\* A fault other than the clock's leaves it at that.
LEMMA OtherSpendings ==
    ASSUME spent \in Spendings
    PROVE  /\ Fault => spent'.rewound = spent.rewound
           /\ [spent EXCEPT !.starts = @ + 1].rewound = spent.rewound
           /\ [spent EXCEPT !.requests = @ + 1].rewound = spent.rewound
BY DEF Spendings

\* Steps that begin nothing that is not due, the clock going forward.
LEMMA DueFrame ==
    ASSUME TypeInv, DueInv, now <= now', now' \in Nat, spent'.rewound = spent.rewound,
           tick'.pc # "idle" => tick'.at = now \/ (tick.pc # "idle" /\ tick'.at = tick.at),
           \A a \in Actors : exec'[a].pc # "none" =>
               \/ exec'[a].occ.at \in Nat /\ (exec'[a].occ.at <= now \/ spent.rewound)
               \/ exec[a].pc # "none" /\ exec'[a].occ = exec[a].occ
    PROVE  DueInv'
<1> USE DEF TypeInv
<1>1. ASSUME ~spent.rewound, tick'.pc # "idle" PROVE tick'.at <= now'
  BY <1>1, MachinePowerAssumption DEF DueInv, TypeOK, Ticks
<1>2. ASSUME ~spent.rewound, NEW a \in Actors, exec'[a].pc # "none"
      PROVE  exec'[a].occ.at <= now'
  <2>1. CASE exec'[a].occ.at \in Nat /\ exec'[a].occ.at <= now
    BY <2>1 DEF TypeOK
  <2>2. CASE exec[a].pc # "none" /\ exec'[a].occ = exec[a].occ
    <3>1. exec[a].occ.at \in Nat /\ exec[a].occ.at <= now
      BY <1>2, <2>2, OccurrenceTypes DEF DueInv, ExecInv
    <3> QED BY <2>2, <3>1 DEF TypeOK
  <2> QED BY <1>2, <2>1, <2>2
<1> QED BY <1>1, <1>2 DEF DueInv

\* Steps that touch no alarm and bring no execution to its power-off.
LEMMA AlarmFrame ==
    ASSUME TypeInv, AlarmInv, now <= now', now' \in Nat, spent'.rewound = spent.rewound,
           UNCHANGED alarms,
           \A a \in Actors : exec'[a].pc = "shutdown" =>
               exec[a].pc = "shutdown" /\ exec'[a].occ = exec[a].occ
    PROVE  AlarmInv'
<1> USE DEF TypeInv
<1> SUFFICES ASSUME ~spent.rewound, NEW a \in Actors, exec'[a].pc = "shutdown"
             PROVE  OwnAlarm(a)' \/ AlarmMoved(a)' \/ AlarmReplaced(a)'
    BY DEF AlarmInv
<1>1. exec[a].pc = "shutdown" /\ exec[a].occ \in AllOccurrences /\ exec'[a].occ = exec[a].occ
  BY DEF ExecInv
<1>2. OwnAlarm(a) \/ AlarmMoved(a) \/ AlarmReplaced(a)
  BY <1>1 DEF AlarmInv
<1>3. exec[a].occ.wake \in Nat /\ now \in Nat
  BY <1>1, OccurrenceTypes, MachinePowerAssumption DEF TypeOK
<1>4. OwnAlarm(a) => OwnAlarm(a)'
  BY <1>1 DEF OwnAlarm
<1>5. AlarmMoved(a) => AlarmMoved(a)'
  BY <1>1, <1>3 DEF AlarmMoved
<1>6. AlarmReplaced(a) => AlarmReplaced(a)'
  BY <1>1 DEF AlarmReplaced, Overlapping
<1> QED BY <1>2, <1>4, <1>5, <1>6

\* While one execution is at its alarm before the wake instant, the other's time
\* is over, or the two are of occurrences that overlap.
LEMMA OneInTime ==
    ASSUME TypeInv, SafetyInv, ClaimInv, DueInv, ~spent.rewound,
           NEW a \in Actors, exec[a].pc = "wake", exec[a].occ.wake > now,
           NEW b \in Actors \ {a}, exec[b].pc = "shutdown"
    PROVE  now >= exec[b].occ.wake \/ Overlapping(exec[a].occ, exec[b].occ)
<1> USE DEF TypeInv
<1>1. exec[a].occ \in AllOccurrences /\ exec[b].occ \in AllOccurrences /\ now \in Nat
  BY DEF ExecInv, TypeOK
<1>2. exec[a].occ.at <= now /\ exec[b].occ.at <= now
  BY DEF DueInv
<1>3. exec["scheduler"].occ.at > cursor
  <2>1. /\ tick.pc = "execute" /\ exec["scheduler"].occ \in tick.due
        /\ tick.from = cursor /\ tick.from # Never
        /\ tick.due \subseteq OccurrencesForInterval(tick.from, tick.at) /\ tick.at # Never
    BY DEF SafetyInv, TickInv, InInterval
  <2>2. tick.from \in 0..Horizon /\ tick.at \in 0..Horizon
    BY <2>1 DEF TypeOK, Ticks
  <2> QED BY <2>1, <2>2, OccurrenceFacts
<1>4. exec[a].occ # exec[b].occ
  BY <1>3 DEF ClaimInv, OnceInv
<1>5. /\ exec[a].occ.at \in Nat /\ exec[a].occ.wake \in Nat
      /\ exec[b].occ.at \in Nat /\ exec[b].occ.wake \in Nat
  BY <1>1, OccurrenceTypes, MachinePowerAssumption
<1>6. SUFFICES ASSUME now < exec[b].occ.wake PROVE Overlapping(exec[a].occ, exec[b].occ)
  BY <1>1, <1>5
<1>7. exec[a].occ.at < exec[b].occ.wake /\ exec[b].occ.at < exec[a].occ.wake
  BY <1>1, <1>2, <1>5, <1>6
<1>8. ~({exec[a].occ, exec[b].occ} \subseteq Occurrences)
  BY <1>1, <1>2, <1>4, <1>5, <1>6, OccurrencesDisjoint
<1> QED BY <1>4, <1>7, <1>8 DEF Overlapping

\* At first nothing is executed.
LEMMA WakeInit == Init => WakeInv
BY DEF Init, WakeInv, DueInv, AlarmInv, NoTick, Idle

\* Every step keeps an execution at its power-off with the alarm it has set,
\* unless the clock was ever set back.
LEMMA WakeStep == TypeInv /\ SafetyInv /\ ClaimInv /\ WakeInv /\ [Next]_vars => WakeInv'
<1> SUFFICES ASSUME TypeInv, SafetyInv, ClaimInv, WakeInv, [Next]_vars PROVE WakeInv'
    OBVIOUS
<1> USE MachinePowerAssumption DEF TypeInv, WakeInv
<1>0. now <= now /\ now \in Nat /\ spent \in Spendings
  BY DEF TypeOK
<1> USE <1>0
<1>1. CASE TickBegins
  <2>1. tick'.at = now
    BY <1>1 DEF TickBegins, NoTick
  <2> QED BY <1>1, <2>1, DueFrame, AlarmFrame DEF TickBegins
<1>2. CASE ReadCursor
  <2>1. tick'.pc # "idle" => tick'.at = tick.at
    BY <1>2 DEF ReadCursor, NoTick, TypeOK, Ticks
  <2> QED BY <1>2, <2>1, DueFrame, AlarmFrame DEF ReadCursor
<1>3. CASE AdvanceCursor
  <2>1. tick'.pc # "idle" => tick'.at = tick.at
    BY <1>3 DEF AdvanceCursor, NoTick, TypeOK, Ticks
  <2> QED BY <1>3, <2>1, DueFrame, AlarmFrame DEF AdvanceCursor
<1>4. CASE TickFails
  <2>1. tick'.at = tick.at
    BY <1>4 DEF TickFails, TypeOK, Ticks
  <2> QED BY <1>4, <2>1, DueFrame, AlarmFrame, OtherSpendings DEF TickFails
<1>5. CASE PruneClaims
  <2>1. tick'.at = tick.at
    BY <1>5 DEF PruneClaims, TypeOK, Ticks
  <2> QED BY <1>5, <2>1, DueFrame, AlarmFrame, OtherSpendings DEF PruneClaims
<1>6. CASE OccurrencesDone
  <2>1. tick'.at = tick.at
    BY <1>6 DEF OccurrencesDone, TypeOK, Ticks
  <2> QED BY <1>6, <2>1, DueFrame, AlarmFrame, OtherSpendings DEF OccurrencesDone
<1>7. ASSUME NEW o \in tick.due, NextOccurrence(o) PROVE WakeInv'
  <2>1. o.at \in Nat /\ (spent.rewound \/ o.at <= now)
    <3>1. tick.pc = "execute"
      BY <1>7 DEF NextOccurrence, TypeOK, Ticks
    <3>2. /\ tick.from \in 0..Horizon /\ tick.at \in 0..Horizon
          /\ o \in OccurrencesForInterval(tick.from, tick.at)
      BY <1>7, <3>1 DEF SafetyInv, TickInv, InInterval, TypeOK, Ticks
    <3>3. o.at \in Nat /\ o.at <= tick.at
      BY <3>2, OccurrenceFacts
    <3>4. spent.rewound \/ tick.at <= now
      BY <3>1 DEF DueInv
    <3> QED BY <3>2, <3>3, <3>4 DEF TypeOK
  <2>2. /\ exec'["scheduler"].occ = o /\ exec'["scheduler"].pc # "shutdown"
        /\ exec'["admin"] = exec["admin"]
    BY <1>7, NextExecution
  <2> QED BY <1>7, <2>1, <2>2, DueFrame, AlarmFrame DEF NextOccurrence
<1>8. ASSUME NEW a \in Actors, ExecutionStep(a) PROVE WakeInv'
  <2>1. GoesOn(a) \/ Returns(a)
    BY <1>8, ExecutionShape
  <2>2. /\ \A b \in Actors \ {a} : exec'[b] = exec[b]
        /\ exec'[a].pc = "none" \/ (exec[a].pc # "none" /\ exec'[a].occ = exec[a].occ)
        /\ exec[a].pc # "wake" => exec'[a].pc # "shutdown"
    BY <2>1, ReturnClears DEF GoesOn, Successors
  <2>3. tick'.pc = tick.pc /\ tick'.at = tick.at
    BY <2>1 DEF GoesOn, Returns, Finish, TypeOK, Ticks
  <2>4. now' = now /\ spent'.rewound = spent.rewound
    BY <1>8, OtherSpendings
       DEF ExecutionStep, Decide, StopsDone, Claim, ClaimFails, ScheduleWake, WakeFails,
           RequestShutdown, ShutdownFails, ExecutionAudited, AuditFails, PreparationEnds,
           ReadArea, ReadBlocker, StopService, StopsAtUnknown, StopFails, TypeOK
  <2>5. DueInv'
    BY <2>2, <2>3, <2>4, DueFrame
  <2>6. CASE ~ScheduleWake(a) /\ ~WakeFails(a)
    <3>1. UNCHANGED alarms /\ exec[a].pc # "wake"
      BY <1>8, <2>6
         DEF ExecutionStep, Decide, StopsDone, Claim, ClaimFails, RequestShutdown,
             ShutdownFails, ExecutionAudited, AuditFails, PreparationEnds, ReadArea,
             ReadBlocker, StopService, StopsAtUnknown, StopFails
    <3>2. AlarmInv'
      BY <2>2, <2>4, <3>1, AlarmFrame
    <3> QED BY <2>5, <3>2
  <2>7. CASE ScheduleWake(a) \/ WakeFails(a)
    <3>1. exec[a].pc = "wake" /\ exec[a].occ \in AllOccurrences
      BY <2>7 DEF ScheduleWake, WakeFails, ExecInv
    <3>2. CASE ~(exec[a].occ.wake > now)
      <4>1. Returns(a) /\ UNCHANGED alarms
        BY <2>7, <3>1, <3>2 DEF ScheduleWake, WakeFails, Returns
      <4>2. AlarmInv'
        BY <2>2, <2>4, <4>1, ReturnClears, AlarmFrame
      <4> QED BY <2>5, <4>2
    <3>3. CASE exec[a].occ.wake > now
      <4>1. ASSUME ~spent.rewound, NEW b \in Actors \ {a}, exec'[b].pc = "shutdown"
            PROVE  AlarmMoved(b)' \/ AlarmReplaced(b)'
        <5>1. exec'[b] = exec[b] /\ now' = now
          BY <2>2, <2>4
        <5>2. now >= exec[b].occ.wake \/ Overlapping(exec[a].occ, exec[b].occ)
          BY <3>1, <3>3, <4>1, <5>1, OneInTime
        <5>3. alarmFor' = exec[a].occ /\ (alarmBy' = "failed" \/ alarm' = exec[a].occ.wake)
          BY <2>7, <3>3 DEF ScheduleWake, WakeFails
        <5>4. now >= exec[b].occ.wake => AlarmMoved(b)'
          BY <5>1 DEF AlarmMoved
        <5>5. Overlapping(exec[a].occ, exec[b].occ) => AlarmReplaced(b)'
          BY <5>1, <5>3 DEF AlarmReplaced, Overlapping
        <5> QED BY <5>2, <5>4, <5>5
      <4>2. exec'[a].pc = "shutdown" => OwnAlarm(a)'
        BY <2>2, <2>7, <3>1, <3>3, ReturnClears DEF ScheduleWake, WakeFails, Returns, OwnAlarm
      <4>3. AlarmInv'
        BY <2>4, <4>1, <4>2 DEF AlarmInv
      <4> QED BY <2>5, <4>3
    <3> QED BY <3>2, <3>3
  <2> QED BY <2>6, <2>7
<1>9. CASE ClockTicks
  <2>1. now <= now' /\ now' \in Nat /\ spent'.rewound = spent.rewound
    BY <1>9 DEF ClockTicks, TypeOK
  <2>2. DueInv'
    BY <1>9, <2>1, DueFrame DEF ClockTicks
  <2>3. CASE alarm = now + 1
    BY <1>9, <2>2, <2>3 DEF ClockTicks, AlarmInv, AlarmMoved
  <2>4. CASE alarm # now + 1
    BY <1>9, <2>1, <2>2, <2>4, AlarmFrame DEF ClockTicks
  <2> QED BY <2>3, <2>4
<1>10. CASE ClockStepsBack
  <2>1. spent'.rewound
    BY <1>10 DEF ClockStepsBack, TypeOK, Spendings
  <2> QED BY <2>1 DEF DueInv, AlarmInv
<1>11. CASE PowerGoes
  BY <1>11, DueFrame, AlarmFrame, OtherSpendings DEF PowerGoes, ProcessGone, NoTick, Idle
<1>12. CASE Crash
  BY <1>12, DueFrame, AlarmFrame, OtherSpendings DEF Crash, ProcessGone, NoTick, Idle
<1>13. CASE ProcessExits
  BY <1>13, DueFrame, AlarmFrame, OtherSpendings DEF ProcessExits, ProcessGone, NoTick, Idle
<1>14. CASE ProcessStarts
  BY <1>14, DueFrame, AlarmFrame DEF ProcessStarts
<1>15. CASE SwitchedOn
  BY <1>15, DueFrame, AlarmFrame DEF SwitchedOn
<1>16. ASSUME NEW w \in Work, WorkStarts(w) PROVE WakeInv'
  BY <1>16, DueFrame, AlarmFrame, OtherSpendings DEF WorkStarts
<1>17. ASSUME NEW w \in Work, WorkEnds(w) PROVE WakeInv'
  BY <1>17, DueFrame, AlarmFrame DEF WorkEnds
<1>18. ASSUME NEW o \in AllOccurrences, NEW k \in {"prepare", "execute"}, AdminShutdown(k, o)
      PROVE WakeInv'
  <2>1. /\ exec'["admin"].pc = "read" /\ exec'["scheduler"] = exec["scheduler"]
        /\ exec'["admin"].occ = o
    BY <1>18 DEF AdminShutdown, Idle, Evaluation, TypeOK
  <2>2. o.at \in Nat /\ o.at <= now /\ spent'.rewound = spent.rewound
    BY <1>18, OccurrenceTypes, OtherSpendings DEF AdminShutdown, TypeOK
  <2> QED BY <1>18, <2>1, <2>2, DueFrame, AlarmFrame DEF AdminShutdown
<1>19. ASSUME NEW t \in 1..LastMinute, AdminScheduleWake(t) PROVE WakeInv'
  <2>1. spent'.rewound = spent.rewound
    BY <1>19, OtherSpendings DEF AdminScheduleWake, AdminOperation, TypeOK
  <2>2. DueInv'
    BY <1>19, <2>1, DueFrame DEF AdminScheduleWake, AdminOperation
  <2>3. AlarmInv'
    BY <1>19 DEF AdminScheduleWake, Edited, AlarmInv, AlarmMoved
  <2> QED BY <2>2, <2>3
<1>20. CASE AdminCancelWake
  <2>1. spent'.rewound = spent.rewound
    BY <1>20, OtherSpendings DEF AdminCancelWake, AdminOperation, TypeOK
  <2>2. DueInv'
    BY <1>20, <2>1, DueFrame DEF AdminCancelWake, AdminOperation
  <2>3. AlarmInv'
    BY <1>20 DEF AdminCancelWake, Edited, AlarmInv, AlarmMoved
  <2> QED BY <2>2, <2>3
<1>21. CASE UNCHANGED vars
  BY <1>21, DueFrame, AlarmFrame
<1> QED
  BY <1>1, <1>2, <1>3, <1>4, <1>5, <1>6, <1>7, <1>8, <1>9, <1>10, <1>11, <1>12, <1>13, <1>14,
     <1>15, <1>16, <1>17, <1>18, <1>19, <1>20, <1>21
     DEF Next, TickStep, Environment

-----------------------------------------------------------------------------
(* What an execution knows to run. *)

\* Knowing of less is accounted for too.
LEMMA AccountedForLess ==
    ASSUME NEW e, NEW known, NEW less, Accounted(e, known), less \subseteq known
    PROVE  Accounted(e, less)
BY DEF Accounted

\* An execution that is over, or of which only the record is left, has nothing
\* to account for; one that begins to read has everything still to read.
LEMMA AccountedAtEnds ==
    /\ \A e, known : e.pc \in {"none", "audit"} => Accounted(e, known)
    /\ \A kind, o, known : \A stage \in {"initial", "final"} :
          known \subseteq Work => Accounted(Evaluation(kind, o, stage), known)
BY DEF Accounted, Evaluation, Idle

\* Steps after which no execution knows of more running work than before.
LEMMA KnownFrame ==
    ASSUME KnownInv,
           \A a \in Actors :
              \/ exec'[a].pc \in {"none", "audit"}
              \/ exec'[a] = exec[a] /\ active' \ since'[a] \subseteq active \ since[a]
    PROVE  KnownInv'
<1> SUFFICES ASSUME NEW a \in Actors PROVE Accounted(exec'[a], active' \ since'[a])
    BY DEF KnownInv
<1>1. CASE exec'[a].pc \in {"none", "audit"}
  BY <1>1, AccountedAtEnds
<1>2. CASE exec'[a] = exec[a] /\ active' \ since'[a] \subseteq active \ since[a]
  BY <1>2, AccountedForLess DEF KnownInv
<1> QED BY <1>1, <1>2

\* The same of one execution that is replaced, its new state accounting for what
\* it knows.
LEMMA KnownChanges ==
    ASSUME TypeOK, KnownInv, NEW a \in Actors, NEW e,
           exec' = [exec EXCEPT ![a] = e], active' \subseteq active,
           \A b \in Actors \ {a} : since'[b] = since[b],
           Accounted(e, active' \ since'[a])
    PROVE  KnownInv'
<1>1. exec'[a] = e /\ \A b \in Actors \ {a} : exec'[b] = exec[b]
  BY DEF TypeOK
<1>2. ASSUME NEW b \in Actors \ {a} PROVE Accounted(exec'[b], active' \ since'[b])
  <2>1. active' \ since'[b] \subseteq active \ since[b]
    OBVIOUS
  <2> QED BY <1>1, <2>1, AccountedForLess DEF KnownInv
<1> QED BY <1>1, <1>2 DEF KnownInv

\* A preparation accounts for what its evaluation found.
LEMMA PreparationAccounts ==
    ASSUME NEW e \in Executions, e.pc = "read", e.stage = "initial", e.areas = {}, e.bad = {},
           NEW known \in SUBSET Work, Accounted(e, known)
    PROVE  Accounted(Prepare(e), known)
<1>1. CASE e.found \cap Services = {}
  BY <1>1, AccountedAtEnds DEF Prepare, FinalEvaluation
<1>2. CASE e.found \cap Services # {}
  <2>1. /\ Prepare(e).pc = "read" /\ Prepare(e).stage = "snapshot"
        /\ Prepare(e).areas = e.found \cap Services /\ Prepare(e).todo = e.found \cap Services
    BY <1>2 DEF Prepare, Executions
  <2>2. known \subseteq e.found
    BY DEF Accounted
  <2> QED BY <2>1, <2>2 DEF Accounted
<1> QED BY <1>1, <1>2

\* Nothing is executed at first.
LEMMA KnownInit == Init => KnownInv
BY DEF Init, KnownInv, Accounted, Idle

\* Every step keeps account of the running work.
LEMMA KnownStep == TypeInv /\ KnownInv /\ [Next]_vars => KnownInv'
<1> SUFFICES ASSUME TypeInv, KnownInv, [Next]_vars PROVE KnownInv'
    OBVIOUS
<1> USE DEF TypeInv
<1>1. CASE TickBegins \/ ReadCursor \/ AdvanceCursor \/ TickFails \/ PruneClaims \/ OccurrencesDone
  <2>1. UNCHANGED <<exec, active, since>>
    BY <1>1 DEF TickBegins, ReadCursor, AdvanceCursor, TickFails, PruneClaims, OccurrencesDone
  <2> QED BY <2>1, KnownFrame
<1>2. ASSUME NEW o \in tick.due, NextOccurrence(o) PROVE KnownInv'
  <2>1. UNCHANGED <<active, since>> /\ exec'["admin"] = exec["admin"]
    BY <1>2, NextExecution DEF NextOccurrence
  <2>2. Accounted(exec'["scheduler"], active \ since["scheduler"])
    BY <1>2, NextExecution, AccountedAtEnds DEF TypeOK
  <2> QED BY <2>1, <2>2 DEF KnownInv
<1>3. ASSUME NEW a \in Actors, ExecutionStep(a) PROVE KnownInv'
  <2>0. /\ exec[a] \in Executions /\ Accounted(exec[a], active \ since[a])
        /\ active \ since[a] \subseteq Work
    BY DEF TypeOK, KnownInv
  <2>1. CASE Returns(a) /\ active' \subseteq active /\ since' = since
    BY <2>1, ReturnClears, KnownFrame
  <2>2. CASE Decide(a)
    <3>1. /\ UNCHANGED <<active, since>> /\ exec[a].pc = "read" /\ exec[a].areas = {}
      BY <2>2 DEF Decide
    <3>2. CASE exec[a].stage = "snapshot" /\ exec' = [exec EXCEPT ![a].pc = "stop"]
      <4> DEFINE e == [exec[a] EXCEPT !.pc = "stop"]
      <4>1. /\ e.pc = "stop" /\ e.areas = exec[a].areas /\ e.found = exec[a].found
            /\ e.bad = exec[a].bad /\ e.todo = exec[a].todo
        BY <2>0 DEF Executions
      <4>2. exec' = [exec EXCEPT ![a] = e]
        BY <3>2
      <4> HIDE DEF e
      <4>3. Accounted(e, active \ since[a])
        BY <2>0, <3>1, <3>2, <4>1 DEF Accounted
      <4> QED BY <3>1, <4>2, <4>3, KnownChanges
    <3>3. CASE /\ exec[a].stage # "snapshot" /\ exec[a].found \cup exec[a].bad = {}
               /\ exec' = [exec EXCEPT ![a] = Approved(exec[a])]
      <4>1. active \ since[a] = {}
        BY <2>0, <3>1, <3>3 DEF Accounted
      <4>2. Approved(exec[a]).pc \in {"prepared", "claim"}
        BY <2>0 DEF Approved, Executions
      <4>3. Accounted(Approved(exec[a]), active \ since[a])
        BY <4>1, <4>2 DEF Accounted
      <4> QED BY <3>1, <3>3, <4>3, KnownChanges
    <3>4. CASE /\ exec[a].stage = "initial" /\ exec[a].bad = {}
               /\ exec' = [exec EXCEPT ![a] = Prepare(exec[a])]
      <4>1. Accounted(Prepare(exec[a]), active \ since[a])
        BY <2>0, <3>1, <3>4, PreparationAccounts
      <4> QED BY <3>1, <3>4, <4>1, KnownChanges
    <3>5. CASE Finish(a, FALSE)
      <4>1. Returns(a)
        BY <3>1, <3>5 DEF Returns
      <4> QED BY <2>1, <3>1, <4>1
    <3> QED BY <2>2, <3>2, <3>3, <3>4, <3>5 DEF Decide
  <2>3. CASE StopsDone(a)
    <3>1. Accounted(FinalEvaluation(exec[a]), active \ since[a])
      BY <2>0, AccountedAtEnds DEF FinalEvaluation
    <3> QED BY <2>3, <3>1, KnownChanges DEF StopsDone
  <2>4. ASSUME NEW pc \in {"wake", "shutdown", "audit"}, exec[a].pc \in {"claim", "wake", "shutdown"},
               exec' = [exec EXCEPT ![a].pc = pc], UNCHANGED <<active, since>>
        PROVE  KnownInv'
    <3> DEFINE e == [exec[a] EXCEPT !.pc = pc]
    <3>1. e.pc = pc
      BY <2>0 DEF Executions
    <3>2. exec' = [exec EXCEPT ![a] = e]
      BY <2>4
    <3> HIDE DEF e
    <3>3. Accounted(e, active \ since[a])
      BY <2>0, <2>4, <3>1 DEF Accounted
    <3> QED BY <2>4, <3>2, <3>3, KnownChanges
  <2>5. CASE Claim(a)
    <3>1. exec[a].pc = "claim" /\ UNCHANGED <<active, since>>
      BY <2>5 DEF Claim
    <3>2. CASE exec[a].occ \in claims
      BY <2>4, <2>5, <3>1, <3>2 DEF Claim
    <3>3. CASE exec[a].occ \notin claims
      BY <2>4, <2>5, <3>1, <3>3 DEF Claim
    <3> QED BY <3>2, <3>3
  <2>6. CASE ClaimFails(a) \/ WakeFails(a) \/ ShutdownFails(a) \/ AuditFails(a)
             \/ ExecutionAudited(a) \/ PreparationEnds(a)
    BY <2>1, <2>6 DEF ClaimFails, WakeFails, ShutdownFails, AuditFails, ExecutionAudited,
       PreparationEnds, Returns
  <2>7. CASE ScheduleWake(a)
    <3>1. CASE exec[a].occ.wake > now
      BY <2>4, <2>7, <3>1 DEF ScheduleWake
    <3>2. CASE ~(exec[a].occ.wake > now)
      BY <2>1, <2>7, <3>2 DEF ScheduleWake, Returns
    <3> QED BY <3>1, <3>2
  <2>8. CASE RequestShutdown(a)
    <3>1. CASE machine = "on"
      BY <2>4, <2>8, <3>1 DEF RequestShutdown
    <3>2. CASE machine # "on"
      BY <2>1, <2>8, <3>2 DEF RequestShutdown, Returns
    <3> QED BY <3>1, <3>2
  <2>9. ASSUME NEW w \in Work, ReadArea(a, w) PROVE KnownInv'
    <3> DEFINE e == [exec[a] EXCEPT
                      !.areas = @ \ {w}, !.found = IF w \in active THEN @ \cup {w} ELSE @]
    <3>1. /\ e.pc = exec[a].pc /\ e.stage = exec[a].stage /\ e.areas = exec[a].areas \ {w}
          /\ e.found = IF w \in active THEN exec[a].found \cup {w} ELSE exec[a].found
          /\ e.bad = exec[a].bad /\ e.todo = exec[a].todo
      BY <2>0 DEF Executions
    <3>2. /\ exec' = [exec EXCEPT ![a] = e] /\ active' = active /\ exec[a].pc = "read"
          /\ \A b \in Actors \ {a} : since'[b] = since[b]
      BY <2>9 DEF ReadArea, TypeOK
    <3>3. since'[a] = since[a] \ {w} /\ w \in exec[a].areas
      BY <2>9 DEF ReadArea, ReadTurn, TypeOK
    <3> HIDE DEF e
    <3>4. Accounted(e, active' \ since'[a])
      BY <2>0, <3>1, <3>2, <3>3 DEF Accounted
    <3> QED BY <3>2, <3>4, KnownChanges
  <2>10. ASSUME NEW w \in Work, ReadBlocker(a, w) PROVE KnownInv'
    <3> DEFINE e == [exec[a] EXCEPT !.areas = @ \ {w}, !.bad = @ \cup {w}]
    <3>1. /\ e.pc = exec[a].pc /\ e.stage = exec[a].stage /\ e.areas = exec[a].areas \ {w}
          /\ e.found = exec[a].found /\ e.bad = exec[a].bad \cup {w} /\ e.todo = exec[a].todo
      BY <2>0 DEF Executions
    <3>2. /\ exec' = [exec EXCEPT ![a] = e] /\ UNCHANGED <<active, since>> /\ exec[a].pc = "read"
      BY <2>10 DEF ReadBlocker
    <3> HIDE DEF e
    <3>3. Accounted(e, active \ since[a])
      BY <2>0, <3>1, <3>2 DEF Accounted
    <3> QED BY <3>2, <3>3, KnownChanges
  <2>11. ASSUME NEW s \in Services, StopService(a, s) PROVE KnownInv'
    <3> DEFINE e == [exec[a] EXCEPT !.todo = @ \ {s}]
    <3>1. /\ e.pc = exec[a].pc /\ e.stage = exec[a].stage /\ e.areas = exec[a].areas
          /\ e.found = exec[a].found /\ e.bad = exec[a].bad /\ e.todo = exec[a].todo \ {s}
      BY <2>0 DEF Executions
    <3>2. /\ exec' = [exec EXCEPT ![a] = e] /\ since' = since /\ exec[a].pc = "stop"
          /\ s \notin exec[a].bad
          /\ active' = IF s \in exec[a].found THEN active \ {s} ELSE active
      BY <2>11 DEF StopService
    <3> HIDE DEF e
    <3>3. s \notin active' \ since[a]
      BY <2>0, <3>2 DEF Accounted
    <3>4. Accounted(e, active' \ since[a])
      BY <2>0, <3>1, <3>2, <3>3 DEF Accounted
    <3> QED BY <3>2, <3>4, KnownChanges
  <2>12. ASSUME NEW s \in Services, StopsAtUnknown(a, s) \/ StopFails(a, s) PROVE KnownInv'
    BY <2>1, <2>12 DEF StopsAtUnknown, StopFails, Returns
  <2> QED
    BY <1>3, <2>2, <2>3, <2>5, <2>6, <2>7, <2>8, <2>9, <2>10, <2>11, <2>12 DEF ExecutionStep
<1>4. CASE ClockTicks \/ ClockStepsBack \/ ProcessStarts \/ SwitchedOn \/ AdminCancelWake
  <2>1. UNCHANGED <<exec, active, since>>
    BY <1>4 DEF ClockTicks, ClockStepsBack, ProcessStarts, SwitchedOn, AdminCancelWake, AdminOperation
  <2> QED BY <2>1, KnownFrame
<1>5. CASE PowerGoes \/ Crash \/ ProcessExits
  BY <1>5, KnownFrame DEF PowerGoes, Crash, ProcessExits, ProcessGone, Idle
<1>6. ASSUME NEW w \in Work, WorkStarts(w) PROVE KnownInv'
  BY <1>6, KnownFrame DEF WorkStarts
<1>7. ASSUME NEW w \in Work, WorkEnds(w) PROVE KnownInv'
  BY <1>7, KnownFrame DEF WorkEnds
<1>8. ASSUME NEW o \in AllOccurrences, NEW k \in {"prepare", "execute"}, AdminShutdown(k, o)
      PROVE KnownInv'
  <2>1. Accounted(Evaluation(k, o, "initial"), active \ since["admin"])
    BY AccountedAtEnds DEF TypeOK
  <2> QED BY <1>8, <2>1, KnownChanges DEF AdminShutdown
<1>9. ASSUME NEW t \in 1..LastMinute, AdminScheduleWake(t) PROVE KnownInv'
  BY <1>9, KnownFrame DEF AdminScheduleWake, AdminOperation
<1>10. CASE UNCHANGED vars
  BY <1>10, KnownFrame
<1> QED
  BY <1>1, <1>2, <1>3, <1>4, <1>5, <1>6, <1>7, <1>8, <1>9, <1>10
     DEF Next, TickStep, Environment

-----------------------------------------------------------------------------
(* The theorems. *)

\* The invariant holds of every behaviour.
THEOREM Invariance == Spec => []IInv
<1>1. Init => IInv
  BY TypeInit, SafetyInit, ClaimInit, WakeInit, KnownInit DEF IInv
<1>2. IInv /\ [Next]_vars => IInv'
  BY TypeStep, SafetyStep, ClaimKept, WakeStep, KnownStep DEF IInv
<1> QED BY <1>1, <1>2, PTL DEF Spec

\* Every variable keeps its type; in particular no process runs on a machine
\* that is off, and preparation only ever has services to stop.
THEOREM MachinePowerTypeCorrect == Spec => []TypeOK
<1>1. IInv => TypeOK
  BY DEF IInv, TypeInv
<1> QED BY <1>1, Invariance, PTL

\* However ticks fail, crash or overlap with an administrator, the cursor passes
\* an occurrence only once it was claimed or found stale.
THEOREM NoOccurrencePassedUnsettled == Spec => []CursorPassesOnlySettled
<1>1. IInv => CursorPassesOnlySettled
  BY DEF IInv, SafetyInv
<1> QED BY <1>1, Invariance, PTL

\* Power-off is requested at most once for an occurrence ahead of the cursor,
\* by the scheduler and the administrator together and over any crashes.
THEOREM RequestedOnceAheadOfCursor == Spec => []OnceAheadOfCursor
<1>1. IInv => OnceAheadOfCursor
  BY DEF IInv, ClaimInv
<1> QED BY <1>1, Invariance, PTL

\* The machine is told to power off only by an execution that set the alarm of
\* its occurrence, and nothing has taken the alarm away but an edit, its time, a
\* clock set back, or an occurrence of an administrator's own that overlaps the
\* executed one: two of the policy's never come between each other's alarm and
\* power-off, for any policy and any occurrences sent.
THEOREM WakeSetBeforePowerOff == Spec => WakeBeforePowerOff
<1>1. ASSUME IInv, Next, machine = "on", machine' = "stopping"
      PROVE  \E a \in Actors :
                /\ exec[a].pc = "shutdown" /\ exec'[a].pc # "shutdown"
                /\ OwnAlarm(a) \/ AlarmMoved(a) \/ AlarmReplaced(a) \/ spent.rewound
  <2>1. PICK a \in Actors : RequestShutdown(a) \/ ShutdownFails(a)
    BY <1>1
       DEF Next, TickStep, ExecutionStep, Environment, TickBegins, ReadCursor, AdvanceCursor,
           TickFails, PruneClaims, OccurrencesDone, NextOccurrence, Decide, StopsDone, Claim,
           ClaimFails, ScheduleWake, WakeFails, ExecutionAudited, AuditFails, PreparationEnds,
           ReadArea, ReadBlocker, StopService, StopsAtUnknown, StopFails, ClockTicks,
           ClockStepsBack, PowerGoes, Crash, ProcessExits, ProcessStarts, SwitchedOn, WorkStarts,
           WorkEnds, AdminShutdown, AdminScheduleWake, AdminCancelWake, AdminOperation
  <2>2. exec[a].pc = "shutdown" /\ ExecutionStep(a)
    BY <2>1 DEF RequestShutdown, ShutdownFails, ExecutionStep
  <2>3. exec'[a].pc # "shutdown"
    BY <1>1, <2>2, ExecutionShape, ReturnClears DEF IInv, TypeInv, GoesOn, Successors
  <2>4. OwnAlarm(a) \/ AlarmMoved(a) \/ AlarmReplaced(a) \/ spent.rewound
    BY <1>1, <2>2 DEF IInv, WakeInv, AlarmInv
  <2> QED BY <2>2, <2>3, <2>4
<1>2. IInv /\ [Next]_vars =>
         [machine = "on" /\ machine' = "stopping" =>
            \E a \in Actors :
                /\ exec[a].pc = "shutdown" /\ exec'[a].pc # "shutdown"
                /\ OwnAlarm(a) \/ AlarmMoved(a) \/ AlarmReplaced(a) \/ spent.rewound]_vars
  BY <1>1
<1> QED BY <1>2, Invariance, PTL DEF Spec, WakeBeforePowerOff

\* Whatever still runs when power-off is requested started after the execution
\* last looked at it, for any services and however the preparation went.
THEOREM NothingKnownRunsAtPowerOff == Spec => NoPowerOffOverKnownWork
<1>1. ASSUME IInv, NEW a \in Actors, exec[a].pc = "shutdown"
      PROVE  active \subseteq since[a]
  BY <1>1 DEF IInv, KnownInv, Accounted
<1>2. IInv /\ [Next]_vars =>
         [\A a \in Actors :
            exec[a].pc = "shutdown" /\ requests' # requests /\ exec'[a].pc # "shutdown"
                => active \subseteq since[a]]_vars
  BY <1>1
<1> QED BY <1>2, Invariance, PTL DEF Spec, NoPowerOffOverKnownWork

\* For any dependency relation, a service that preparation stops has no direct
\* dependent running that the execution could know of.
THEOREM DependentsStoppedFirst == Spec => PreparationStopsDependentsFirst
<1>1. ASSUME IInv, Next, NEW a \in Actors, NEW s \in Services,
             s \in exec[a].todo \ exec'[a].todo, s \in active \ active', exec'[a].pc = "stop",
             NEW d \in active \ since[a], <<d, s>> \in Dep
      PROVE  FALSE
  <2>1. PICK t \in Services : StopService(a, t)
    <3>1. ASSUME NEW o \in tick.due, NextOccurrence(o) PROVE FALSE
      BY <1>1, <3>1, NextExecution DEF IInv, TypeInv
    <3>2. ASSUME NEW b \in Actors \ {a}, ExecutionStep(b) PROVE FALSE
      BY <1>1, <3>2, ExecutionShape, ReturnClears DEF IInv, TypeInv, GoesOn
    <3>3. ASSUME ExecutionStep(a), \A t \in Services : ~StopService(a, t) PROVE FALSE
      <4>1. GoesOn(a)
        BY <1>1, <3>3, ExecutionShape, ReturnClears DEF IInv, TypeInv
      <4>2. active' = active \/ exec[a].pc # "read"
        BY <3>3 DEF ExecutionStep, Decide, StopsDone, Claim, ClaimFails, ScheduleWake,
           WakeFails, RequestShutdown, ShutdownFails, ExecutionAudited, AuditFails,
           PreparationEnds, ReadArea, ReadBlocker, StopsAtUnknown, StopFails
      <4>3. exec[a].pc = "stop"
        BY <1>1, <4>1, <4>2 DEF GoesOn, Successors
      <4>4. StopsDone(a) \/ \E t \in Services : StopsAtUnknown(a, t) \/ StopFails(a, t)
        BY <3>3, <4>3 DEF ExecutionStep, Decide, Claim, ClaimFails, ScheduleWake,
           WakeFails, RequestShutdown, ShutdownFails, ExecutionAudited, AuditFails,
           PreparationEnds, ReadArea, ReadBlocker
      <4>5. ~StopsDone(a)
        BY <1>1 DEF StopsDone
      <4>6. Returns(a)
        BY <4>4, <4>5 DEF StopsAtUnknown, StopFails, Returns
      <4> QED BY <1>1, <4>6, ReturnClears DEF IInv, TypeInv
    <3>4. CASE TickStep \/ Environment
      BY <1>1, <3>1, <3>4, NextExecution
         DEF TickStep, Environment, TickBegins, ReadCursor, AdvanceCursor, TickFails, PruneClaims,
             OccurrencesDone, ClockTicks, ClockStepsBack, PowerGoes, Crash, ProcessExits,
             ProcessGone, Idle, ProcessStarts, SwitchedOn, WorkStarts, WorkEnds, AdminShutdown,
             AdminScheduleWake, AdminCancelWake, AdminOperation
    <3> QED BY <1>1, <3>2, <3>3, <3>4 DEF Next
  <2>2. t = s
    BY <1>1, <2>1 DEF StopService, IInv, TypeInv, TypeOK, Executions
  <2>3. d \in exec[a].todo
    BY <1>1, <2>1, MachinePowerAssumption DEF StopService, IInv, KnownInv, Accounted
  <2> QED BY <1>1, <2>1, <2>2, <2>3 DEF StopService, StopTurn
<1>2. IInv /\ [Next]_vars =>
         [\A a \in Actors, s \in Services :
            s \in exec[a].todo \ exec'[a].todo /\ s \in active \ active' /\ exec'[a].pc = "stop"
                => \A d \in active \ since[a] : <<d, s>> \notin Dep]_vars
  BY <1>1
<1> QED BY <1>2, Invariance, PTL DEF Spec, PreparationStopsDependentsFirst
=============================================================================
