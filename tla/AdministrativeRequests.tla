----------------------- MODULE AdministrativeRequests -----------------------
(***************************************************************************)
(* Requests to the administrative API of one process: admission, the       *)
(* checks of the route in its order, the mutation gate, authentication,    *)
(* authorization, the audit trail around the effect, and the answer        *)
(* (src/http/administrative-*.ts, src/access-control, event-history/       *)
(* application/administrative-audit-trail.ts).                             *)
(*                                                                         *)
(* A request is the sequence of steps its handler still has to take.  An   *)
(* event is written by a store that may lose it, keep it, or keep it and   *)
(* still fail the call (EventHistory).                                     *)
(***************************************************************************)
EXTENDS AdministrativeVocabulary, Sequences, SequencesExt

CONSTANTS
  Requests,            \* requests that may arrive
  Operations,          \* operations they ask for
  RolesOf,             \* principal -> roles assigned to it ({}: unknown)
  MaximumConcurrent,   \* 4 in FixedAdministrativeRequestAdmission
  MaximumRequests,     \* 60 per window
  MayCrash             \* does the process stop and restart?

RequestsAssumption ==
  /\ IsFiniteSet(Requests)
  /\ Operations \subseteq RoutedOperations
  /\ \A p \in DOMAIN RolesOf : RolesOf[p] \subseteq Roles
  /\ MaximumConcurrent \in Nat \ {0}
  /\ MaximumRequests \in Nat \ {0}
  /\ MayCrash \in BOOLEAN

VARIABLES
  asks,        \* request -> its operation, caller and bounded input, or None
  todo,        \* request -> steps its handler still has to take
  inside,      \* request -> {"admission", "gate"} it holds a release of
  pending,     \* request -> authorization decision, then result of the call
  raised,      \* request -> error the operation raised
  trail,       \* request -> events of it that the history keeps
  effect,      \* request -> how much of its effect took place
  answer,      \* request -> what the client is told
  gates,       \* #active of the three gates
  active,      \* #active of the admission
  admitted,    \* #admittedInWindow
  windowOver   \* has the window of #windowStartedAt passed?

vars == <<asks, todo, inside, pending, raised, trail, effect, answer,
          gates, active, admitted, windowOver>>

None == "none"
NoRequest == [operation |-> None, caller |-> None, bounded |-> TRUE]
Callers == DOMAIN RolesOf \cup {"unauthenticated"}

-----------------------------------------------------------------------------
(* What each route does before it calls the protected operation.           *)

\* A read is refused for its target, method, query or body, and goes on.
ServiceReadSteps == <<"shape">>
ServiceActionSteps == <<"shape", "body", "confirmation", "gate">>
AvailabilityPreviewSteps == <<"shape">>
\* Variant: the availability route takes no gate.
UngatedAvailability == <<"shape", "body", "confirmation">>

AvailabilitySteps == <<"shape", "gate", "body", "confirmation">>
SchedulePreviewSteps == <<"shape">>
ServiceScheduleSteps == <<"shape", "gate", "body", "confirmation">>
MachinePreviewSteps == <<"shape">>
MachineScheduleSteps == <<"shape", "gate", "body", "confirmation">>
HistorySteps == <<"shape", "body", "confirmation", "gate">>
ShutdownSteps == <<"shape", "body", "confirmation", "gate">>
OverviewSteps == <<"shape">>
DashboardSteps == <<"shape">>
EventHistoryQuerySteps == <<"shape", "query">>
SecurityStatusSteps == <<"shape">>
DiagnosticsSteps == <<"shape">>

BackupSteps(operation) ==
  CASE operation = "read_backup_runs" -> <<"shape", "query">>
    [] operation \in {"update_backup_schedule", "remove_backup_schedule",
                      "update_backup_retention"}
         -> <<"shape", "body", "gate", "confirmation">>
    [] OTHER -> <<"shape", "body", "confirmation", "gate">>

\* The future of the alarm is validated inside the protected operation,
\* before authentication.
WakeSteps(operation) ==
  IF operation = "schedule_wake_alarm"
  THEN <<"shape", "body", "gate", "future">>
  ELSE <<"shape", "gate">>

BackupMutations == BackupTargetMutations \cup {"run_backup_scheduler_tick"}

\* The reads of a route that also mutates take its first step only.
RouteSteps(operation) ==
  CASE operation \in ServiceActions        -> ServiceActionSteps
    [] operation \in AvailabilityMutations -> AvailabilitySteps
    [] operation \in ScheduleMutations     -> ServiceScheduleSteps
    [] operation \in MachineMutations      -> MachineScheduleSteps
    [] operation \in BackupMutations \cup {"read_backup_runs"}
                                           -> BackupSteps(operation)
    [] operation \in HistoryMutations      -> HistorySteps
    [] operation \in WakeMutations         -> WakeSteps(operation)
    [] operation \in ShutdownOperations    -> ShutdownSteps
    [] operation = "read_registered_service_availability_preview"
                                           -> AvailabilityPreviewSteps
    [] operation = "read_registered_service_schedule_preview"
                                           -> SchedulePreviewSteps
    [] operation = "read_machine_operating_policy_preview"
                                           -> MachinePreviewSteps
    [] operation = "read_operations_overview" -> OverviewSteps
    [] operation = "read_administrative_dashboard" -> DashboardSteps
    [] operation = "read_administrative_event_history" -> EventHistoryQuerySteps
    [] operation = "read_administrative_security_posture" -> SecurityStatusSteps
    [] operation = "read_infrastructure_diagnostics" -> DiagnosticsSteps
    [] OTHER                               -> ServiceReadSteps

\* Variant: the audit begins once the operation has returned.
AuditedAfterwards(operation) ==
  <<"authenticate", "authorize", "decide">> \o
    IF operation \in Mutations THEN <<"invoke", "begin", "complete">>
                               ELSE <<"invoke">>

\* The audit of a mutation surrounds the call; a read has none of its own.
ProtectedSteps(operation) ==
  <<"authenticate", "authorize", "decide">> \o
    IF operation \in Mutations THEN <<"begin", "invoke", "complete">>
                               ELSE <<"invoke">>

HandlerSteps(operation) ==
  <<"envelope", "admission">> \o RouteSteps(operation)
    \o ProtectedSteps(operation)

\* Gate instances of createAdministrativeRuntime: backups and the machine
\* schedule share the gate of the services.
GateOf(operation) ==
  CASE operation \in WakeMutations \cup ShutdownOperations -> "power"
    [] operation \in HistoryMutations -> "history"
    [] OTHER -> "service"

Gates == {"power", "service", "history"}

\* createAdministrativeSecurityEnvelope: host, origin, fetch metadata
EnvelopeRefusals == {"400", "403"}

ShapeRefusals(operation) ==
  {"405", "414", "400"}
  \cup (IF operation \in MachineMutations \cup HistoryMutations \cup
             {"run_backup_scheduler_tick", "read_machine_operating_policy"}
        THEN {} ELSE {"404"})
  \cup (IF operation \in {"read_registered_service_schedule_preview",
                          "read_machine_operating_policy_preview"}
        THEN {"413"} ELSE {})

\* Every route reads its body with a reader of its own: media type, size,
\* encoding, strict JSON.
ServiceBody == {"415", "413", "400"}
AvailabilityBody == {"415", "413", "400"}
ServiceScheduleBody == {"415", "413", "400"}
MachineScheduleBody == {"415", "413", "400"}
BackupBody == {"415", "413", "400"}
HistoryBody == {"415", "413", "400"}
WakeBody == {"415", "413", "400"}
ShutdownBody == {"415", "413", "400"}

BodyRefusals(operation) ==
  CASE operation \in ServiceActions        -> ServiceBody
    [] operation \in AvailabilityMutations -> AvailabilityBody
    [] operation \in ScheduleMutations     -> ServiceScheduleBody
    [] operation \in MachineMutations      -> MachineScheduleBody
    [] operation \in BackupMutations       -> BackupBody
    [] operation \in HistoryMutations      -> HistoryBody
    [] operation \in WakeMutations         -> WakeBody
    [] operation \in ShutdownOperations    -> ShutdownBody
    [] OTHER                               -> {}

\* A confirmation that does not match is a bad request; an occurrence that
\* is not in the future cannot be processed (parseShutdownRequest).
ServiceConfirmation == {"400"}
AvailabilityConfirmation == {"400"}
ServiceScheduleConfirmation == {"400"}
MachineScheduleConfirmation == {"400"}
BackupConfirmation == {"400"}
HistoryConfirmation == {"400"}
ShutdownConfirmation == {"400", "422"}

ConfirmationRefusals(operation) ==
  CASE operation \in ServiceActions        -> ServiceConfirmation
    [] operation \in AvailabilityMutations -> AvailabilityConfirmation
    [] operation \in ScheduleMutations     -> ServiceScheduleConfirmation
    [] operation \in MachineMutations      -> MachineScheduleConfirmation
    [] operation \in BackupMutations       -> BackupConfirmation
    [] operation \in HistoryMutations      -> HistoryConfirmation
    [] operation \in ShutdownOperations    -> ShutdownConfirmation
    [] OTHER                               -> {}

FutureRefusals == {"400", "422"}

\* parseRunQuery and parseAdministrativeEventHistoryQuery
RunQueryRefusals == {"400"}
HistoryQueryRefusals == {"400"}

Refusals(step, operation) ==
  CASE step = "envelope"     -> EnvelopeRefusals
    [] step = "shape"        -> ShapeRefusals(operation)
    [] step = "body"         -> BodyRefusals(operation)
    [] step = "confirmation" -> ConfirmationRefusals(operation)
    [] step = "future"       -> FutureRefusals
    [] step = "query"        -> IF operation = "read_backup_runs"
                                THEN RunQueryRefusals ELSE HistoryQueryRefusals
    [] OTHER                 -> {}

Checks == {"envelope", "shape", "query", "body", "confirmation", "future"}

StepNames ==
  Checks \cup {"admission", "gate", "authenticate", "authorize", "decide",
              "begin", "invoke", "complete"}

\* The events of one request, its authorization decision first.
EventNames ==
  {"allowed", "denied", "started", "succeeded", "rejected", "failed"}

-----------------------------------------------------------------------------
(* How each route answers an error.                                        *)

AccessErrors ==
  {"unauthenticated", "denied", "identity_unavailable",
   "authorization_audit_unavailable", "authorization_unavailable",
   "protected_operation_failed"}

\* mapAdministrativeAccessControlError
AccessAnswer(error) ==
  CASE error = "unauthenticated" -> "401"
    [] error = "denied"          -> "403"
    [] error \in {"identity_unavailable", "authorization_audit_unavailable"}
         -> error
    [] OTHER -> "authorization_unavailable"

ServiceAnswer(error) ==
  CASE error \in AccessErrors    -> AccessAnswer(error)
    [] error = "partial_effect"  -> "state_recheck_required"
    [] error = "audit_trail"     -> "event_history_unavailable"
    [] error \in {"not_found", "not_listed"} -> "404"
    [] OTHER                     -> "unavailable"

AvailabilityAnswer(error) ==
  CASE error \in AccessErrors -> AccessAnswer(error)
    [] error \in {"not_found", "not_listed"} -> "404"
    [] error = "invalid"      -> "400"
    [] OTHER                  -> "unavailable"

ServiceScheduleAnswer(error) ==
  CASE error \in AccessErrors -> AccessAnswer(error)
    [] error = "not_found"    -> "404"
    [] error = "invalid"      -> "400"
    [] OTHER                  -> "internal_error"

\* Variant: whatever goes wrong is the client's fault.
AnyErrorIsInvalid(error) ==
  IF error \in AccessErrors THEN AccessAnswer(error) ELSE "400"

MachineScheduleAnswer(error) ==
  CASE error \in AccessErrors -> AccessAnswer(error)
    [] error = "invalid"      -> "400"
    [] OTHER                  -> "internal_error"

BackupAnswer(error) ==
  CASE error \in AccessErrors -> AccessAnswer(error)
    [] error = "invalid"      -> "400"
    [] error = "not_found"    -> "404"
    [] error = "busy"         -> "409"
    [] OTHER                  -> "unavailable"

HistoryAnswer(error) ==
  CASE error \in AccessErrors -> AccessAnswer(error)
    [] error = "export_not_found" -> "404"
    [] error = "writer_busy"  -> "409"
    [] error = "invalid"      -> "400"
    [] OTHER                  -> "unavailable"

WakeAnswer(error) ==
  CASE error = "protected_operation_failed" -> "unavailable"
    [] error \in AccessErrors \ {"protected_operation_failed"} -> AccessAnswer(error)
    [] error = "partial_effect" -> "state_recheck_required"
    [] error = "audit_trail"    -> "event_history_unavailable"
    [] OTHER                    -> "internal_error"

ShutdownAnswer(error) ==
  CASE error = "protected_operation_failed" -> "unavailable"
    [] error \in AccessErrors \ {"protected_operation_failed"} -> AccessAnswer(error)
    [] error \in {"partial_effect", "execution_failed"}
                                -> "state_recheck_required"
    [] error = "audit_trail"    -> "event_history_unavailable"
    [] error = "claim_failed"   -> "claim_unavailable"
    [] OTHER                    -> "internal_error"

\* administrative-event-history-route.ts
EventHistoryAnswer(error) ==
  CASE error = "protected_operation_failed" -> "event_history_unavailable"
    [] error \in AccessErrors \ {"protected_operation_failed"} -> AccessAnswer(error)
    [] OTHER -> "internal_error"

\* overview, dashboard, security status, diagnostics
ObservationAnswer(error) ==
  IF error \in AccessErrors THEN AccessAnswer(error) ELSE "unavailable"

ErrorAnswer(operation, error) ==
  CASE operation \in {d.operation : d \in ServiceRoutes} -> ServiceAnswer(error)
    [] operation \in AvailabilityMutations \cup
         {"read_registered_service_availability",
          "read_registered_service_availability_preview"}
         -> AvailabilityAnswer(error)
    [] operation \in ScheduleMutations \cup
         {"read_registered_service_schedule",
          "read_registered_service_schedule_preview"}
         -> ServiceScheduleAnswer(error)
    [] operation \in {d.operation : d \in MachineRoutes}
         -> MachineScheduleAnswer(error)
    [] operation \in {d.operation : d \in BackupRoutes} -> BackupAnswer(error)
    [] operation \in {d.operation : d \in HistoryRoutes} -> HistoryAnswer(error)
    [] operation \in {"read_wake_alarm"} \cup WakeMutations -> WakeAnswer(error)
    [] operation \in ShutdownOperations -> ShutdownAnswer(error)
    [] operation = "read_administrative_event_history"
         -> EventHistoryAnswer(error)
    [] OTHER -> ObservationAnswer(error)

\* Errors the domain raises before it changes anything; any operation may
\* also fail for another reason, before, during or after its effect.
ServiceErrors(operation) ==
  CASE operation \in {"remove_registered_service_schedule",
                      "read_registered_service_schedule",
                      "read_registered_service_availability"} -> {"not_listed"}
    [] operation = "read_registered_services" -> {}
    [] operation \in {"update_registered_service_availability",
                      "update_registered_service_schedule",
                      "read_registered_service_schedule_preview"}
         -> {"not_found", "invalid"}
    [] OTHER -> {"not_found"}

BackupErrors(operation) ==
  CASE operation = "run_registered_backup" -> {"not_found", "busy", "target_disabled"}
    [] operation \in {"update_backup_schedule", "update_backup_retention"}
         -> {"not_found", "invalid"}
    [] operation \in {"read_registered_backup_targets", "read_backup_runs",
                      "run_backup_scheduler_tick"} -> {}
    [] OTHER -> {"not_found"}

HistoryErrors(operation) ==
  CASE operation \in {"read_event_history_export",
                      "download_event_history_export"} -> {"export_not_found"}
    [] operation = "update_event_history_retention"
         -> {"invalid_retention", "writer_busy"}
    [] operation \in HistoryMutations \ {"update_event_history_retention"}
         -> {"writer_busy"}
    [] OTHER -> {}

DomainErrors(operation) ==
  CASE operation \in {d.operation : d \in ServiceRoutes \cup AvailabilityRoutes}
         -> ServiceErrors(operation)
    [] operation \in {"update_machine_operating_policy",
                      "read_machine_operating_policy_preview"} -> {"invalid"}
    [] operation \in {d.operation : d \in BackupRoutes} -> BackupErrors(operation)
    [] operation \in {d.operation : d \in HistoryRoutes} -> HistoryErrors(operation)
    [] OTHER -> {}

\* Errors of MachineShutdownOccurrenceExecutionError, raised once the
\* occurrence is claimed or the alarm may be set.
LateErrors(operation) ==
  {"failed"} \cup
    IF operation = "execute_machine_shutdown_occurrence"
    THEN {"claim_failed", "execution_failed"} ELSE {}

\* The catch of run: which errors reach the route as they are
PassesRunner(error) ==
  error \in {"not_found", "not_listed", "busy", "target_disabled", "invalid",
             "claim_failed", "execution_failed", "audit_trail",
             "partial_effect"}

RunnerError(error) ==
  IF PassesRunner(error) THEN error ELSE "protected_operation_failed"

-----------------------------------------------------------------------------
Init ==
  /\ asks = [r \in Requests |-> NoRequest]
  /\ todo = [r \in Requests |-> <<>>]
  /\ inside = [r \in Requests |-> {}]
  /\ pending = [r \in Requests |-> None]
  /\ raised = [r \in Requests |-> None]
  /\ trail = [r \in Requests |-> <<>>]
  /\ effect = [r \in Requests |-> "none"]
  /\ answer = [r \in Requests |-> None]
  /\ gates = [g \in Gates |-> FALSE]
  /\ active = 0
  /\ admitted = 0
  /\ windowOver = TRUE

At(r, step) == todo[r] # <<>> /\ Head(todo[r]) = step
Operation(r) == asks[r].operation
Advance(r) == todo' = [todo EXCEPT ![r] = Tail(@)]

\* Variant: the admission is given back by the catch and by the finally.
ReleasesTwice(r, value) ==
  /\ todo' = [todo EXCEPT ![r] = <<>>]
  /\ answer' = [answer EXCEPT ![r] = value]
  /\ inside' = [inside EXCEPT ![r] = {}]
  /\ gates' = IF "gate" \in inside[r]
              THEN [gates EXCEPT ![GateOf(Operation(r))] = FALSE] ELSE gates
  /\ active' = active - 2 * Cardinality(inside[r] \cap {"admission"})

\* Variant: the gate is released on success only.
KeepsGateOnFailure(r, value) ==
  /\ todo' = [todo EXCEPT ![r] = <<>>]
  /\ answer' = [answer EXCEPT ![r] = value]
  /\ inside' = [inside EXCEPT ![r] = {}]
  /\ gates' = IF "gate" \in inside[r] /\ value = "200"
              THEN [gates EXCEPT ![GateOf(Operation(r))] = FALSE] ELSE gates
  /\ active' = active - Cardinality(inside[r] \cap {"admission"})

\* The handler ends: its finally clauses release the gate and the admission.
End(r, value) ==
  /\ todo' = [todo EXCEPT ![r] = <<>>]
  /\ answer' = [answer EXCEPT ![r] = value]
  /\ inside' = [inside EXCEPT ![r] = {}]
  /\ gates' = IF "gate" \in inside[r]
              THEN [gates EXCEPT ![GateOf(Operation(r))] = FALSE] ELSE gates
  /\ active' = active - Cardinality(inside[r] \cap {"admission"})

Continue(r) == Advance(r) /\ UNCHANGED <<answer, inside, gates, active>>

Arrive(r) ==
  /\ asks[r] = NoRequest
  /\ \E o \in Operations, c \in Callers, b \in BOOLEAN :
       /\ b \/ o \in ScheduleMutations \cup {"create_event_history_export"}
       /\ asks' = [asks EXCEPT ![r] = [operation |-> o, caller |-> c, bounded |-> b]]
       /\ todo' = [todo EXCEPT ![r] = HandlerSteps(o)]
  /\ UNCHANGED <<inside, pending, raised, trail, effect, answer, gates, active,
                 admitted, windowOver>>

\* tryAdmit of the admission
Admission(r) ==
  /\ At(r, "admission")
  /\ LET inWindow == IF windowOver THEN 0 ELSE admitted
     IN  \/ /\ active >= MaximumConcurrent
            /\ End(r, "429")
            /\ UNCHANGED <<admitted, windowOver>>
         \/ /\ active < MaximumConcurrent
            /\ inWindow >= MaximumRequests
            /\ End(r, "429")
            /\ admitted' = inWindow
            /\ windowOver' = FALSE
         \/ /\ active < MaximumConcurrent
            /\ inWindow < MaximumRequests
            /\ admitted' = inWindow + 1
            /\ windowOver' = FALSE
            /\ active' = active + 1
            /\ inside' = [inside EXCEPT ![r] = @ \cup {"admission"}]
            /\ Advance(r)
            /\ UNCHANGED <<answer, gates>>
  /\ UNCHANGED <<asks, pending, raised, trail, effect>>

\* Variant: a refusal is thrown past the catch, and nothing is sent.
RefusalIsSwallowed(r) ==
  /\ \E step \in Checks :
       /\ At(r, step)
       /\ \/ Continue(r)
          \/ End(r, None)
  /\ UNCHANGED <<asks, pending, raised, trail, effect, admitted, windowOver>>

\* A check of the request: it passes or the handler refuses.
Check(r) ==
  /\ \E step \in Checks :
       /\ At(r, step)
       /\ \/ Continue(r)
          \/ \E status \in Refusals(step, Operation(r)) : End(r, status)
  /\ UNCHANGED <<asks, pending, raised, trail, effect, admitted, windowOver>>

\* tryAdmit of the mutation gate
Gate(r) ==
  /\ At(r, "gate")
  /\ LET g == GateOf(Operation(r))
     IN  \/ /\ gates[g]
            /\ End(r, "409")
         \/ /\ ~gates[g]
            /\ gates' = [gates EXCEPT ![g] = TRUE]
            /\ inside' = [inside EXCEPT ![r] = @ \cup {"gate"}]
            /\ Advance(r)
            /\ UNCHANGED <<answer, active>>
  /\ UNCHANGED <<asks, pending, raised, trail, effect, admitted, windowOver>>

Answer(r, error) == End(r, ErrorAnswer(Operation(r), error))

\* The store keeps the event or not; the call succeeds or not.
Keeps(r, event) == trail' = [trail EXCEPT ![r] = Append(@, event)]
RecordFails(r, event) == Keeps(r, event) \/ UNCHANGED trail

\* authenticate.execute and the audit of a rejection: the seven reasons a
\* caller is not authenticated become three of the history's vocabulary.
AuthenticationReasons ==
  {"credentials_absent", "credentials_invalid", "signature_invalid",
   "issuer_mismatch", "audience_mismatch", "claims_invalid", "key_unavailable"}

AuditReason(reason) ==
  CASE reason = "credentials_absent" -> "credentials_absent"
    [] reason = "key_unavailable"    -> "identity_provider_unavailable"
    [] OTHER                         -> "credentials_invalid"

Rejects(r, error, reason) ==
  \/ /\ AcceptsDecision("denied", reason)
     /\ Keeps(r, "denied")
     /\ Answer(r, error)
  \/ /\ UNCHANGED trail \/ (AcceptsDecision("denied", reason) /\ Keeps(r, "denied"))
     /\ Answer(r, "authorization_audit_unavailable")

Authenticate(r) ==
  /\ At(r, "authenticate")
  /\ \/ /\ asks[r].caller # "unauthenticated"
        /\ Continue(r)
        /\ UNCHANGED trail
     \/ /\ asks[r].caller = "unauthenticated"
        /\ \E reason \in AuthenticationReasons :
             Rejects(r, "unauthenticated", AuditReason(reason))
     \/ Rejects(r, "identity_unavailable", "identity_provider_unavailable")
  /\ UNCHANGED <<asks, pending, raised, effect, admitted, windowOver>>

\* AuthorizeAdministrativeOperation.execute: allowed, or denied for a reason.
DecisionOn(caller, operation) ==
  CASE RolesOf[caller] = {} -> "principal_unknown"
    [] Permits(RolesOf[caller], operation) -> "allowed"
    [] OTHER -> "permission_denied"

Authorize(r) ==
  /\ At(r, "authorize")
  /\ \/ /\ \E decision \in {DecisionOn(asks[r].caller, Operation(r)),
                          "role_assignment_unavailable"} :
             pending' = [pending EXCEPT ![r] = decision]
        /\ Continue(r)
     \/ /\ Answer(r, "authorization_unavailable")
        /\ UNCHANGED pending
  /\ UNCHANGED <<asks, raised, trail, effect, admitted, windowOver>>

\* recordDecision and the refusal of a denied caller
DenialError(reason) ==
  IF reason \in {"role_assignment_unavailable", "authorization_policy_unavailable"}
  THEN "authorization_unavailable" ELSE "denied"

Decide(r) ==
  /\ At(r, "decide")
  /\ IF pending[r] = "allowed"
     THEN \/ Keeps(r, "allowed") /\ Continue(r)
          \/ /\ RecordFails(r, "allowed")
             /\ Answer(r, "authorization_audit_unavailable")
     ELSE Rejects(r, DenialError(pending[r]), pending[r])
  /\ UNCHANGED <<asks, pending, raised, effect, admitted, windowOver>>

\* AdministrativeAuditTrail.begin
Begin(r) ==
  /\ At(r, "begin")
  /\ LET accepted == Accepts(Operation(r), "started",
                             StartedDetails(Operation(r)), asks[r].bounded)
     IN  \/ accepted /\ Keeps(r, "started") /\ Continue(r)
         \/ accepted /\ RecordFails(r, "started") /\ Answer(r, "audit_trail")
         \/ ~accepted /\ UNCHANGED trail /\ Answer(r, "protected_operation_failed")
  /\ UNCHANGED <<asks, pending, raised, effect, admitted, windowOver>>

Returns(r, result, extent) ==
  /\ pending' = [pending EXCEPT ![r] = result]
  /\ effect' = [effect EXCEPT ![r] = extent]

\* Operations whose result reports what was not done, and is returned, not
\* raised: successful: false of an orchestration that could not be planned or
\* stopped at a failed step; busy, blocked or partial of a pruning; conflict
\* or incomplete of a tick.
ReportingOperations ==
  ServiceActions \cup {"run_backup_retention_prune", "run_backup_scheduler_tick"}

\* How much an operation that returns has done.  A preparation may find
\* nothing left to do.
ReturnedExtents(operation) ==
  CASE operation \in ReportingOperations -> {"whole", "part", "none"}
    [] operation = "prepare_machine_shutdown_occurrence" -> {"whole", "none"}
    [] OTHER -> {"whole"}

\* The operation itself: its runner takes whatever it returns for a success.
\* A shutdown may also be declined as a result.
Invoke(r) ==
  /\ At(r, "invoke")
  /\ \/ /\ IF Operation(r) \in Mutations
           THEN Continue(r) /\ \E extent \in ReturnedExtents(Operation(r)) :
                  Returns(r, "succeeded", extent)
           ELSE Returns(r, "succeeded", "none") /\ End(r, "200")
        /\ UNCHANGED raised
     \/ /\ Operation(r) \in ShutdownOperations
        /\ \E extent \in {"none", "part"} :
             /\ extent = "part" =>
                  Operation(r) = "prepare_machine_shutdown_occurrence"
             /\ Returns(r, "rejected", extent)
        /\ Continue(r)
        /\ UNCHANGED raised
     \/ \E error \in DomainErrors(Operation(r)) \cup LateErrors(Operation(r)),
           extent \in {"none", "part"} :
          /\ extent = "part" => /\ error \in LateErrors(Operation(r))
                                /\ Operation(r) \in Mutations
          /\ Returns(r, "failed", extent)
          /\ raised' = [raised EXCEPT ![r] = error]
          /\ IF Operation(r) \in Mutations THEN Continue(r)
             ELSE Answer(r, RunnerError(error))
  /\ UNCHANGED <<asks, trail, admitted, windowOver>>

\* Variant: a lost terminal event is reported like a lost first one.
LostTerminalIsAuditFailure(r) == "audit_trail"

\* What the caller gets when the terminal event cannot be recorded: each
\* runner of an audited operation has a catch of its own.
ServiceRunnerError(r) ==
  IF pending[r] = "failed" THEN "audit_trail" ELSE "partial_effect"
MachineRunnerError(r) ==
  IF pending[r] = "failed" THEN "audit_trail" ELSE "partial_effect"
BackupRunnerError(r) ==
  IF pending[r] = "failed" THEN "audit_trail" ELSE "partial_effect"
HistoryRunnerError(r) ==
  IF pending[r] = "failed" THEN "audit_trail" ELSE "partial_effect"

\* The power operations let their own failure prevail.
WakeRunnerError(r) ==
  IF pending[r] = "failed" THEN RunnerError(raised[r]) ELSE "partial_effect"

PrepareRunnerError(r) ==
  IF pending[r] = "failed" THEN RunnerError(raised[r])
  ELSE IF effect[r] # "none" THEN "partial_effect" ELSE "audit_trail"

ExecuteRunnerError(r) ==
  CASE pending[r] = "failed"    -> RunnerError(raised[r])
    [] pending[r] = "succeeded" -> "partial_effect"
    [] OTHER                    -> "audit_trail"

LostRecordError(r) ==
  CASE Operation(r) \in ServiceActions \cup AvailabilityMutations
                          \cup ScheduleMutations -> ServiceRunnerError(r)
    [] Operation(r) \in MachineMutations      -> MachineRunnerError(r)
    [] Operation(r) \in BackupTargetMutations -> BackupRunnerError(r)
    [] Operation(r) \in HistoryMutations      -> HistoryRunnerError(r)
    [] Operation(r) \in WakeMutations         -> WakeRunnerError(r)
    [] Operation(r) = "prepare_machine_shutdown_occurrence"
         -> PrepareRunnerError(r)
    [] Operation(r) = "execute_machine_shutdown_occurrence"
         -> ExecuteRunnerError(r)
    [] Operation(r) = "run_backup_scheduler_tick" -> "audit_trail"

\* The catch of the backup tick takes a failed record of its success for a
\* failure of the tick, and records that.
TickFailsLate(r) ==
  /\ pending' = [pending EXCEPT ![r] = "failed"]
  /\ raised' = [raised EXCEPT ![r] = "audit_trail"]
  /\ UNCHANGED <<todo, answer, inside, gates, active>>

\* The routes send what was returned: a body may report what was not done.
SuccessAnswer(r) ==
  IF Operation(r) \in ReportingOperations /\ effect[r] # "whole"
  THEN "200_incomplete" ELSE "200"

\* AdministrativeAuditTrail.complete, and the catch around it
Complete(r) ==
  /\ At(r, "complete")
  /\ \/ /\ Keeps(r, pending[r])
        /\ IF pending[r] = "failed" THEN Answer(r, RunnerError(raised[r]))
           ELSE End(r, SuccessAnswer(r))
        /\ UNCHANGED <<pending, raised>>
     \/ /\ RecordFails(r, pending[r])
        /\ IF Operation(r) = "run_backup_scheduler_tick" /\ pending[r] # "failed"
           THEN TickFailsLate(r)
           ELSE Answer(r, LostRecordError(r)) /\ UNCHANGED <<pending, raised>>
  /\ UNCHANGED <<asks, effect, admitted, windowOver>>

WindowPasses ==
  /\ ~windowOver
  /\ windowOver' = TRUE
  /\ UNCHANGED <<asks, todo, inside, pending, raised, trail, effect, answer,
                 gates, active, admitted>>

\* The process dies and another starts: only the history and the effects stay.
Crash ==
  /\ MayCrash
  /\ \E r \in Requests : todo[r] # <<>>
  /\ answer' = [r \in Requests |-> IF todo[r] # <<>> THEN "dropped" ELSE answer[r]]
  /\ effect' = [r \in Requests |->
       IF At(r, "invoke") /\ Operation(r) \in Mutations THEN "part" ELSE effect[r]]
  /\ todo' = [r \in Requests |-> <<>>]
  /\ inside' = [r \in Requests |-> {}]
  /\ gates' = [g \in Gates |-> FALSE]
  /\ active' = 0
  /\ admitted' = 0
  /\ windowOver' = TRUE
  /\ UNCHANGED <<asks, pending, raised, trail>>

Handle(r) ==
  Admission(r) \/ Check(r) \/ Gate(r) \/ Authenticate(r) \/ Authorize(r)
    \/ Decide(r) \/ Begin(r) \/ Invoke(r) \/ Complete(r)

Next == (\E r \in Requests : Arrive(r) \/ Handle(r)) \/ WindowPasses \/ Crash

\* Every await of a handler ends: bodies by the server's request timeout,
\* commands and the store by their own timeouts and retries.
Fairness == \A r \in Requests : WF_vars(Handle(r))

Spec == Init /\ [][Next]_vars /\ Fairness

-----------------------------------------------------------------------------
TypeOK ==
  /\ asks \in [Requests -> {NoRequest} \cup
       [operation : Operations, caller : Callers, bounded : BOOLEAN]]
  /\ todo \in [Requests -> Seq(StepNames)]
  /\ trail \in [Requests -> Seq(EventNames)]
  /\ \A given \in {pending, raised, answer} : DOMAIN given = Requests
  /\ inside \in [Requests -> SUBSET {"admission", "gate"}]
  /\ gates \in [Gates -> BOOLEAN]
  /\ active \in 0..MaximumConcurrent
  /\ admitted \in 0..MaximumRequests
  /\ windowOver \in BOOLEAN
  /\ effect \in [Requests -> {"none", "part", "whole"}]

\* Nothing is changed for a request unless the history already keeps, for
\* it, that its caller was allowed and that the operation started, and the
\* caller's roles do grant the operation: authorization and audit come
\* before the effect, whatever is lost or crashes later.
EffectsAreAuthorized ==
  \A r \in Requests : effect[r] # "none" =>
    /\ asks[r].caller \in DOMAIN RolesOf
    /\ Permits(RolesOf[asks[r].caller], Operation(r))
    /\ Len(trail[r]) >= 2
    /\ trail[r][1] = "allowed"
    /\ trail[r][2] = "started"

\* A client told that its request was refused (4xx) can repeat it: nothing
\* was changed.  One told 200 finds the terminal event in the history: that
\* of a declined shutdown, or "succeeded", with the whole effect in place
\* unless the body itself reports that it is not, which only the operations
\* that report do.
RefusedStatuses ==
  {"400", "401", "403", "404", "405", "409", "413", "414", "415", "422", "429"}
SuccessStatuses == {"200", "200_incomplete"}

AnswerMatchesEffect(r) ==
  /\ answer[r] \in RefusedStatuses => effect[r] = "none"
  /\ answer[r] \in SuccessStatuses /\ Operation(r) \in Mutations =>
       \/ /\ Last(trail[r]) = "succeeded"
          /\ \/ effect[r] = "whole"
             \/ Operation(r) = "prepare_machine_shutdown_occurrence"
             \/ answer[r] = "200_incomplete" /\ Operation(r) \in ReportingOperations
       \/ Operation(r) \in ShutdownOperations /\ Last(trail[r]) = "rejected"

\* A gate is taken exactly while one request of its routes holds it, and
\* the admission counts exactly the handlers that run: no early return,
\* refusal or failure leaks a permit or gives one back twice.
PermitsBalance ==
  /\ \A g \in Gates :
       Cardinality({r \in Requests : /\ "gate" \in inside[r]
                                     /\ GateOf(Operation(r)) = g})
         = (IF gates[g] THEN 1 ELSE 0)
  /\ active = Cardinality({r \in Requests : "admission" \in inside[r]})
  /\ \A r \in Requests : answer[r] # None => inside[r] = {}

\* What the catalogue declares of a route, its handler does: a request that
\* reaches its operation has passed a confirmation exactly if one is
\* declared, holds a gate exactly if one is declared, and is audited as
\* declared.
HandlersHonourCatalog ==
  \A r \in Requests : At(r, "invoke") =>
    LET d == Descriptor(Operation(r))
    IN  /\ d.gate # "none" <=> "gate" \in inside[r]
        /\ d.confirmation <=> Contains(HandlerSteps(Operation(r)), "confirmation")
        /\ d.audit = "authorization_started_terminal" <=> Last(trail[r]) = "started"

\* The history accepts every event the operations record about a request
\* within its bounds, and every reason a caller is turned away for: events
\* are lost by the store only, and a forged credential is audited as a
\* refusal.
HistoryAcceptsItsOperations ==
  \A r \in Requests :
    /\ At(r, "authenticate") =>
         \A reason \in AuthenticationReasons :
           AcceptsDecision("denied", AuditReason(reason))
    /\ At(r, "decide") =>
         pending[r] = "allowed" \/ AcceptsDecision("denied", pending[r])
    /\ At(r, "complete") =>
         Accepts(Operation(r), pending[r],
                 TerminalDetails(Operation(r), pending[r]), asks[r].bounded)

\* The service, wake-alarm and shutdown routes tell the client to look at
\* the state again whenever the operation returned, with all of its effect or
\* a part of it, but its terminal event could not be recorded.
LostTerminalIsRechecked(r) ==
  /\ answer[r] \notin {None, "dropped"} \cup SuccessStatuses
  /\ effect[r] # "none" /\ pending[r] # "failed"
  /\ Operation(r) \in ServiceActions \cup WakeMutations \cup ShutdownOperations
  => answer[r] = "state_recheck_required"

\* An answer tells the truth about what was changed and recorded.
AnswersAreTrue ==
  TypeOK /\ \A r \in Requests : AnswerMatchesEffect(r) /\ LostTerminalIsRechecked(r)

\* Catalogue, handlers and the history's vocabulary agree on every route.
HandlersMatchCatalog == HandlersHonourCatalog /\ HistoryAcceptsItsOperations

\* Every request that arrived is answered, and a taken gate becomes free.
RequestsAreAnswered == \A r \in Requests : asks[r] # NoRequest ~> answer[r] # None
GatesBecomeFree == \A g \in Gates : gates[g] ~> ~gates[g]

-----------------------------------------------------------------------------
(* What the documentation says and the code does not.                      *)

\* security-model.md: a terminal audit failure after an effect yields a
\* state-recheck result, on every route.
EveryLostTerminalIsRechecked ==
  \A r \in Requests :
    answer[r] \notin {None, "dropped"} \cup SuccessStatuses /\ effect[r] = "whole"
      => answer[r] = "state_recheck_required"

\* post-admin-services-service-id-actions-start.md:50: an orchestration that
\* fails on a blocked dependency, an invalid state or a readiness timeout is
\* answered 503.  It is answered 200 and recorded as succeeded.
FailedOrchestrationIsUnavailable ==
  \A r \in Requests :
    Operation(r) \in ServiceActions => answer[r] # "200_incomplete"

\* glossary.md: one operation has a single terminal event.
SingleTerminalEvent ==
  \A r \in Requests :
    Cardinality({i \in DOMAIN trail[r] :
                   trail[r][i] \in {"succeeded", "rejected", "failed"}}) <= 1

\* get-admin-event-history-exports-export-id.md: an unknown export is 404.
MissingExportIsNotFound ==
  \A r \in Requests :
    raised[r] = "export_not_found" /\ answer[r] \notin {None, "dropped"}
      => answer[r] = "404"

\* get-admin-services-service-id-schedule.md: an unknown service is 404.
UnknownServiceIsNotFound ==
  \A r \in Requests :
    /\ raised[r] = "not_listed"
    /\ answer[r] \notin {None, "dropped"}
    /\ Operation(r) \notin Mutations
    => answer[r] = "404"

-----------------------------------------------------------------------------
(* The inductive invariant of the theorems in AdministrationProofs.         *)

\* What a handler has left to do is the end of the steps of its route.
LeftToDo(r) ==
  todo[r] # <<>> =>
    LET steps == HandlerSteps(Operation(r))
        done == Len(steps) - Len(todo[r])
    IN  /\ asks[r] # NoRequest
        /\ done >= 0
        /\ \A i \in DOMAIN todo[r] : todo[r][i] = steps[done + i]

\* The caller of r may do what it asks for.
Granted(r) ==
  /\ asks[r].caller \in DOMAIN RolesOf
  /\ Permits(RolesOf[asks[r].caller], Operation(r))

\* A handler with steps left has written what the steps behind it write, and
\* has had no effect before its operation.
Audited(r) ==
  /\ asks[r] = NoRequest \/ (todo[r] # <<>> /\ ~At(r, "complete")) => effect[r] = "none"
  /\ asks[r] = NoRequest => trail[r] = <<>>
  /\ todo[r] # <<>> /\ Head(todo[r]) \notin {"begin", "invoke", "complete"}
       => trail[r] = <<>>
  /\ At(r, "authorize") \/ At(r, "decide") => asks[r].caller \in DOMAIN RolesOf
  /\ At(r, "decide") /\ pending[r] = "allowed" => Granted(r)
  /\ At(r, "begin") \/ At(r, "invoke") => Granted(r)
  /\ At(r, "begin") => trail[r] = <<"allowed">>
  /\ At(r, "invoke") /\ Operation(r) \in Mutations => trail[r] = <<"allowed", "started">>
  /\ At(r, "complete") \/ effect[r] # "none" =>
       /\ Granted(r)
       /\ Len(trail[r]) >= 2 /\ trail[r][1] = "allowed" /\ trail[r][2] = "started"

\* A handler that runs is inside the admission from its second step on, and has
\* not answered; a gate is held by a running handler only.
Admitted(r) ==
  /\ "admission" \in inside[r] <=>
       todo[r] # <<>> /\ Head(todo[r]) \notin {"envelope", "admission"}
  /\ "gate" \in inside[r] => todo[r] # <<>>
  /\ todo[r] # <<>> \/ asks[r] = NoRequest => answer[r] = None

\* The result a handler is about to record fits what the operation did.
ResultFits(r) ==
  At(r, "complete") =>
    /\ Operation(r) \in Mutations
    /\ \/ /\ pending[r] = "succeeded"
          /\ effect[r] \in ReturnedExtents(Operation(r))
       \/ /\ pending[r] = "rejected" /\ Operation(r) \in ShutdownOperations
          /\ \/ effect[r] = "none"
             \/ effect[r] = "part" /\ Operation(r) = "prepare_machine_shutdown_occurrence"
       \/ /\ pending[r] = "failed"
          /\ effect[r] = "none" \/ raised[r] \in LateErrors(Operation(r)) \cup {"audit_trail"}
          /\ effect[r] = "whole" => Operation(r) = "run_backup_scheduler_tick"

RequestInv(r) == LeftToDo(r) /\ Audited(r) /\ Admitted(r) /\ ResultFits(r)

\* A gate is taken by one request and no other.
Holders(g) == {r \in Requests : "gate" \in inside[r] /\ GateOf(Operation(r)) = g}
GateInv ==
  \A g \in Gates : \/ ~gates[g] /\ Holders(g) = {}
                   \/ gates[g] /\ \E r \in Requests : Holders(g) = {r}

AdmissionInv == active = Cardinality({r \in Requests : "admission" \in inside[r]})

\* What the catalogue and the history will be asked about a request: its gate
\* is held or still to come if its route has one, it is turned away for a reason
\* the history knows, and goes on only with a started event the history takes.
Catalogued(r) ==
  /\ todo[r] # <<>> =>
       (Contains(HandlerSteps(Operation(r)), "gate")
          <=> "gate" \in inside[r] \/ Contains(todo[r], "gate"))
  /\ At(r, "decide") => pending[r] = "allowed" \/ AcceptsDecision("denied", pending[r])
  /\ At(r, "invoke") => (Last(trail[r]) = "started" <=> Operation(r) \in Mutations)
  /\ (At(r, "invoke") /\ Operation(r) \in Mutations) \/ At(r, "complete") =>
       Accepts(Operation(r), "started", StartedDetails(Operation(r)), asks[r].bounded)

IInv ==
  /\ AnswersAreTrue /\ GateInv /\ AdmissionInv
  /\ \A r \in Requests : RequestInv(r) /\ Catalogued(r)
=============================================================================
