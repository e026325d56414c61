------------------------- MODULE PowerHelperOutputs -------------------------
(***************************************************************************)
(* Every request against every answer that can be put together from right  *)
(* and wrong parts: what the adapters let through is compared with what    *)
(* the helper can say.                                                     *)
(***************************************************************************)
EXTENDS PowerHelperProtocol

VARIABLES request, output, answer

vars == <<request, output, answer>>

Malformed == -1
Nothing == <<>>                 \* an object without fields, or no object
Pending == Thrown("pending")

Requests == {r \in {ScheduleRequest(at, for) : at, for \in Instants}
                     \union {PlainRequest(op, at) : op \in Operations, at \in Instants}
               : RequestValid(r)}

RawAlarms == ClockAlarms \union
    {Unsupported, Nothing, Scheduled(Malformed), [state |-> "scheduled"],
     [state |-> "armed"], [state |-> "not_scheduled", scheduledFor |-> 1]}
RawResults == RawAlarms
    \union {[rtcTime |-> t, wakeAlarm |-> a] : t \in Instants \union {Malformed}, a \in RawAlarms}
    \union {Mutation(b, a, o) : b, a \in RawAlarms,
              o \in {"scheduled", "replaced", "unchanged", "cancelled", "not_scheduled", "done"}}
    \union {[accepted |-> b] : b \in BOOLEAN}
RawObjects ==
    {SuccessResponse(op, r) : op \in Operations, r \in RawResults}
    \union {FailureResponse(op, o, c) : op \in Operations \union {"reboot"},
              o \in {"success", "rejected", "failed", "later"}, c \in FailureCodes \union {"unknown"}}
    \union {[version |-> 2, operation |-> op, outcome |-> "failed", code |-> "operation_failed"] :
              op \in Operations}
    \union {[version |-> 1, operation |-> op, outcome |-> "success", result |-> NotScheduled,
             code |-> "operation_failed"] : op \in Operations}
    \union {Nothing}
RawOutputs ==
    {Output("line", o) : o \in RawObjects}
    \union {Output(f, SuccessResponse("read_wake_alarm", NotScheduled)) :
              f \in {"unterminated_line", "empty", "several_lines", "trailing_data", "not_utf8", "not_json"}}

Init ==
    /\ request \in Requests
    /\ output \in RawOutputs
    /\ answer = Pending

Receive ==
    /\ answer = Pending
    /\ answer' = AdapterAnswer(request, TransportResult(request, output))
    /\ UNCHANGED <<request, output>>

Spec == Init /\ [][Receive]_vars
-----------------------------------------------------------------------------
\* A call returns exactly when the text is one line holding a success the
\* helper can give to this very request: no answer to another operation, no
\* impossible transition and no other wake time is taken for a success, and
\* no success of the helper is turned down (createLinuxPowerHelperResponse
\* against backend.go and reader.go).
ReturnsExactlyHelperSuccesses ==
    answer # Pending =>
        (answer.kind = "returned" <=>
            /\ output.framing \in {"line", "unterminated_line"}
            /\ output.object \in HelperSuccesses(request))

\* A refusal or a failure of the helper reaches the caller as what it is: it
\* is never mistaken for unreadable output, nor a refusal for a failure.
RefusalsReachTheCaller ==
    answer # Pending /\ output.framing = "line" /\ output.object \in HelperFailures(request)
        => answer = Thrown(IF output.object.outcome = "rejected"
                           THEN "helper_operation_rejected" ELSE "helper_operation_failed")
=============================================================================
