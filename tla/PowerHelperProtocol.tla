------------------------ MODULE PowerHelperProtocol ------------------------
(***************************************************************************)
(* The one-line JSON protocol between the manager and the privileged power *)
(* helper.  The manager builds a request, the helper (a Go program) reads  *)
(* or changes the wake alarm of the real-time clock and answers, and the   *)
(* manager validates the answer twice: the transport knows only which      *)
(* operation it ran, the adapter knows the whole request.                  *)
(*                                                                         *)
(* A JSON object is a function from its fields, so that missing and extra  *)
(* fields can be told apart.  An instant counts half seconds: a timestamp  *)
(* of the protocol may fall inside a second, the clock's alarm may not.    *)
(***************************************************************************)
EXTENDS Integers

CONSTANT Instants       \* the canonical timestamps
InstantsAssumption == Instants \subseteq Nat

Operations == {"read_rtc_information", "read_wake_alarm", "schedule_wake_alarm",
               "cancel_wake_alarm", "request_shutdown"}
FailureCodes == {"operation_unsupported", "operation_rejected",
                 "operation_failed", "state_unavailable"}

Mutations == {"schedule_wake_alarm", "cancel_wake_alarm"}

\* Variant: the clock is taken to hold fractions.
SecondUntruncated(t) == t

\* The whole second a timestamp falls in (epochPayload).
Second(t) == t - (t % 2)
-----------------------------------------------------------------------------
(* Wake alarm states and what a mutation may report. *)

Unsupported == [state |-> "unsupported"]
NotScheduled == [state |-> "not_scheduled"]
Scheduled(t) == [state |-> "scheduled", scheduledFor |-> t]

IsCanonicalTimestamp(t) == t \in Instants

\* createWakeAlarmState accepts its input.
WakeAlarmStateValid(input) ==
    /\ DOMAIN input \subseteq {"state", "scheduledFor"}
    /\ "state" \in DOMAIN input
    /\ input.state \in {"unsupported", "not_scheduled", "scheduled"}
    /\ ("scheduledFor" \in DOMAIN input) <=> (input.state = "scheduled")
    /\ input.state = "scheduled" => IsCanonicalTimestamp(input.scheduledFor)

\* isValidTransition.
TransitionValid(operation, outcome, before, after) ==
    LET from == before.state
        to == after.state
    IN IF operation = "schedule_wake_alarm"
       THEN /\ to = "scheduled"
            /\ \/ outcome = "scheduled" /\ from = "not_scheduled"
               \/ outcome = "replaced" /\ from = "scheduled" /\ before # after
               \/ outcome = "unchanged" /\ before = after
       ELSE /\ to = "not_scheduled"
            /\ \/ outcome = "cancelled" /\ from = "scheduled"
               \/ outcome = "not_scheduled" /\ from = "not_scheduled"

\* createWakeAlarmMutationResult: an unsupported state is never a transition.
MutationResultValid(operation, result) ==
    /\ DOMAIN result = {"before", "after", "outcome"}
    /\ WakeAlarmStateValid(result.before) /\ WakeAlarmStateValid(result.after)
    /\ result.before # Unsupported /\ result.after # Unsupported
    /\ TransitionValid(operation, result.outcome, result.before, result.after)

RtcInformationValid(result) ==
    /\ DOMAIN result = {"rtcTime", "wakeAlarm"}
    /\ IsCanonicalTimestamp(result.rtcTime)
    /\ WakeAlarmStateValid(result.wakeAlarm)
-----------------------------------------------------------------------------
(* Requests. *)

ScheduleRequest(at, for) ==
    [version |-> 1, operation |-> "schedule_wake_alarm",
     requestedAt |-> at, scheduledFor |-> for]
PlainRequest(operation, at) ==
    [version |-> 1, operation |-> operation, requestedAt |-> at]

\* createLinuxPowerHelperRequest accepts its input.
RequestValid(r) ==
    /\ r.version = 1
    /\ r.operation \in Operations
    /\ IsCanonicalTimestamp(r.requestedAt)
    /\ IF r.operation = "schedule_wake_alarm"
       THEN /\ DOMAIN r = {"version", "operation", "requestedAt", "scheduledFor"}
            /\ IsCanonicalTimestamp(r.scheduledFor)
            /\ r.scheduledFor > r.requestedAt
       ELSE DOMAIN r = {"version", "operation", "requestedAt"}
-----------------------------------------------------------------------------
(* Responses.  "expected" is the request, or only its operation. *)

SuccessResponse(operation, result) ==
    [version |-> 1, operation |-> operation, outcome |-> "success", result |-> result]
FailureResponse(operation, outcome, code) ==
    [version |-> 1, operation |-> operation, outcome |-> outcome, code |-> code]

\* Variant: the wake time of the answer is not compared.
SuccessValidAnyTime(operation, result, expected) ==
    CASE operation = "read_rtc_information" -> RtcInformationValid(result)
      [] operation = "read_wake_alarm" -> WakeAlarmStateValid(result)
      [] operation = "request_shutdown" -> DOMAIN result = {"accepted"}
      [] OTHER -> MutationResultValid(operation, result)

\* The result of a success has the shape of its operation, and a schedule
\* reports the wake time that was asked for (createSuccessResponse).
SuccessValid(operation, result, expected) ==
    CASE operation = "read_rtc_information" -> RtcInformationValid(result)
      [] operation = "read_wake_alarm" -> WakeAlarmStateValid(result)
      [] operation = "request_shutdown" ->
            DOMAIN result = {"accepted"} /\ result.accepted = TRUE
      [] OTHER ->
            /\ MutationResultValid(operation, result)
            /\ "scheduledFor" \in DOMAIN expected
                 => result.after = Scheduled(expected.scheduledFor)

\* createLinuxPowerHelperResponse accepts its input.
ResponseValid(input, expected) ==
    /\ {"version", "operation", "outcome"} \subseteq DOMAIN input
    /\ input.version = 1
    /\ input.operation \in Operations /\ input.operation = expected.operation
    /\ \/ /\ input.outcome = "success"
          /\ DOMAIN input = {"version", "operation", "outcome", "result"}
          /\ SuccessValid(input.operation, input.result, expected)
       \/ /\ input.outcome \in {"rejected", "failed"}
          /\ DOMAIN input = {"version", "operation", "outcome", "code"}
          /\ input.code \in FailureCodes

\* What the helper wrote: the framing of the text and the object in it.
Output(framing, object) == [framing |-> framing, object |-> object]

\* parseLinuxPowerHelperResponse: one line of UTF-8, its newline optional.
ParseValid(output, expected) ==
    /\ output.framing \in {"line", "unterminated_line"}
    /\ ResponseValid(output.object, expected)
-----------------------------------------------------------------------------
(* What a call of an adapter ends with. *)

Returned(result) == [kind |-> "returned", value |-> result]
Thrown(code) == [kind |-> "thrown", value |-> code]

\* Variant: a refusal is reported like a failure.
OperationErrorMerged(response) == Thrown("helper_operation_failed")

\* operationError.
OperationError(response) ==
    Thrown(IF response.outcome = "rejected" THEN "helper_operation_rejected"
           ELSE "helper_operation_failed")

InstallationCodes ==
    {"helper_not_found", "helper_not_regular_file", "helper_symbolic_link_rejected",
     "helper_owner_invalid", "helper_setuid_required", "helper_group_invalid",
     "helper_process_group_missing", "helper_mode_invalid", "helper_parent_invalid",
     "helper_parent_owner_invalid", "helper_inspection_failed"}

\* translateTransportError.
TranslateTransportError(code) ==
    Thrown(CASE code \in {"unsupported_platform", "helper_timeout"} -> code
             [] code \in {"helper_stdout_too_large", "helper_stderr_too_large",
                          "helper_protocol_invalid"} -> "helper_output_invalid"
             [] code \in InstallationCodes -> "helper_installation_invalid"
             [] OTHER -> "helper_unavailable")

\* Lines 185-189 of the transport: the output of a helper that exited with 0.
TransportResult(request, output) ==
    IF ParseValid(output, [operation |-> request.operation])
    THEN Returned(output.object)
    ELSE Thrown("helper_protocol_invalid")

\* executeRequest, for a transport that ended with transportResult.
ExecuteRequest(request, transportResult) ==
    IF transportResult.kind = "thrown" THEN TranslateTransportError(transportResult.value)
    ELSE IF ResponseValid(transportResult.value, request) THEN transportResult
    ELSE Thrown("helper_output_invalid")

\* The readers: the result of a success is checked once more as a value of
\* the domain (createRtcInformation, createWakeAlarmObservation).
ReadResult(request, response) ==
    LET valid == IF request.operation = "read_rtc_information"
                 THEN RtcInformationValid(response.result)
                 ELSE WakeAlarmStateValid(response.result)
    IN IF response.outcome # "success" THEN OperationError(response)
       ELSE IF valid THEN Returned(response.result)
       ELSE Thrown("helper_output_invalid")

\* The wake alarm controller's schedule and cancel.
MutationResult(request, response) ==
    IF response.outcome # "success" THEN OperationError(response)
    ELSE IF MutationResultValid(request.operation, response.result)
    THEN Returned(response.result)
    ELSE Thrown("helper_output_invalid")

\* The shutdown controller.
ShutdownResult(response) ==
    IF response.outcome # "success" THEN OperationError(response)
    ELSE Returned(response.result)

AdapterAnswer(request, transportResult) ==
    LET executed == ExecuteRequest(request, transportResult)
        response == executed.value
    IN IF executed.kind = "thrown" THEN executed
       ELSE CASE request.operation \in Mutations -> MutationResult(request, response)
              [] request.operation = "request_shutdown" -> ShutdownResult(response)
              [] OTHER -> ReadResult(request, response)
-----------------------------------------------------------------------------
(* What the helper says after a mutation it carried out (reader.go). *)

Mutation(before, after, outcome) ==
    [before |-> before, after |-> after, outcome |-> outcome]

\* Mutator.Schedule.
HelperScheduled(before, for) ==
    Mutation(before, Scheduled(for),
             CASE before = Scheduled(for) -> "unchanged"
               [] before = NotScheduled   -> "scheduled"
               [] OTHER                   -> "replaced")

\* Mutator.Cancel.
HelperCancelled(before) ==
    Mutation(before, NotScheduled,
             IF before = NotScheduled THEN "not_scheduled" ELSE "cancelled")

\* Alarms the clock can show; one it does not have reads as unsupported.
ClockAlarms == {NotScheduled} \union {Scheduled(t) : t \in Instants}

\* Every success the helper can answer to a request, from any clock.
HelperSuccesses(request) ==
    LET operation == request.operation
    IN CASE operation = "read_rtc_information" ->
              {SuccessResponse(operation, [rtcTime |-> t, wakeAlarm |-> a]) :
                  t \in Instants, a \in ClockAlarms \union {Unsupported}}
         [] operation = "read_wake_alarm" ->
              {SuccessResponse(operation, a) : a \in ClockAlarms \union {Unsupported}}
         [] operation = "schedule_wake_alarm" ->
              {SuccessResponse(operation, HelperScheduled(a, request.scheduledFor)) :
                  a \in ClockAlarms}
         [] operation = "cancel_wake_alarm" ->
              {SuccessResponse(operation, HelperCancelled(a)) : a \in ClockAlarms}
         [] OTHER -> {SuccessResponse(operation, [accepted |-> TRUE])}

\* Every refusal and failure it can answer (backend.go).
HelperFailures(request) ==
    {FailureResponse(request.operation, "rejected", code) :
        code \in {"operation_unsupported", "operation_rejected"}}
    \union {FailureResponse(request.operation, "failed", code) :
        code \in {"operation_failed", "state_unavailable"}}
=============================================================================
