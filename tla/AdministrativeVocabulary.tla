---------------------- MODULE AdministrativeVocabulary ----------------------
(***************************************************************************)
(* The closed vocabularies of the administrative API: operations, the      *)
(* permission each needs, what each role grants                            *)
(* (access-control/domain), the route catalogue (http/administrative-      *)
(* route-security-catalog.ts) and the events the history accepts           *)
(* (event-history/domain/administrative-event.ts).  Names are the          *)
(* source's; paths, flags and byte limits are left out.                    *)
(***************************************************************************)
EXTENDS Naturals, FiniteSets

-----------------------------------------------------------------------------
(* Operations and permissions. *)

ServiceActions ==
  {"start_registered_service", "stop_registered_service",
   "restart_registered_service"}

AvailabilityMutations ==
  {"update_registered_service_availability",
   "remove_registered_service_availability"}

ScheduleMutations ==
  {"update_registered_service_schedule", "remove_registered_service_schedule"}

MachineMutations ==
  {"update_machine_operating_policy", "remove_machine_operating_policy"}

BackupTargetMutations ==
  {"run_registered_backup", "update_backup_schedule", "remove_backup_schedule",
   "update_backup_retention", "run_backup_retention_prune"}

HistoryMutations ==
  {"rotate_event_history", "update_event_history_retention",
   "prune_event_history", "create_event_history_export",
   "prune_event_history_exports"}

WakeMutations == {"schedule_wake_alarm", "cancel_wake_alarm"}

ShutdownOperations ==
  {"prepare_machine_shutdown_occurrence", "execute_machine_shutdown_occurrence"}

PermissionOf(operation) ==
  CASE operation \in {"read_registered_services", "read_registered_service",
                      "read_registered_service_logs",
                      "read_registered_service_resources"} -> "services.read"
    [] operation = "start_registered_service" -> "services.start"
    [] operation = "stop_registered_service" -> "services.stop"
    [] operation = "restart_registered_service" -> "services.restart"
    [] operation \in {"read_registered_service_availability",
                      "read_registered_service_availability_preview",
                      "read_registered_service_schedule",
                      "read_registered_service_schedule_preview"}
         -> "services.availability.read"
    [] operation \in AvailabilityMutations \cup ScheduleMutations
         -> "services.availability.write"
    [] operation = "read_wake_alarm" -> "power.wake.read"
    [] operation = "schedule_wake_alarm" -> "power.wake.schedule"
    [] operation = "cancel_wake_alarm" -> "power.wake.cancel"
    [] operation = "request_machine_shutdown" -> "power.shutdown.request"
    [] operation = "prepare_machine_shutdown_occurrence"
         -> "power.shutdown.prepare"
    [] operation = "execute_machine_shutdown_occurrence"
         -> "power.shutdown.execute"
    [] operation = "run_machine_power_scheduler_tick" -> "power.scheduler.tick"
    [] operation \in {"read_machine_operating_policy",
                      "read_machine_operating_policy_preview"}
         -> "power.schedule.read"
    [] operation \in MachineMutations -> "power.schedule.write"
    [] operation = "read_operations_overview" -> "operations.read"
    [] operation = "read_administrative_dashboard" -> "dashboard.read"
    [] operation = "read_administrative_security_posture"
         -> "security.posture.read"
    [] operation = "read_infrastructure_diagnostics"
         -> "infrastructure.diagnostics.read"
    [] operation \in {"read_registered_backup_targets",
                      "read_registered_backup_target"} -> "backups.targets.read"
    [] operation \in {"read_backup_runs", "read_backup_run"}
         -> "backups.runs.read"
    [] operation = "run_registered_backup" -> "backups.run"
    [] operation = "read_backup_schedule" -> "backups.schedule.read"
    [] operation \in {"update_backup_schedule", "remove_backup_schedule"}
         -> "backups.schedule.write"
    [] operation = "read_backup_retention" -> "backups.retention.read"
    [] operation = "update_backup_retention" -> "backups.retention.write"
    [] operation = "run_backup_retention_prune" -> "backups.retention.prune"
    [] operation = "run_backup_scheduler_tick" -> "backups.scheduler.tick"
    [] operation = "read_administrative_event_history" -> "event_history.read"
    [] operation = "verify_event_history_integrity"
         -> "event_history.integrity.read"
    [] operation = "rotate_event_history" -> "event_history.rotation.run"
    [] operation = "read_event_history_retention"
         -> "event_history.retention.read"
    [] operation = "update_event_history_retention"
         -> "event_history.retention.write"
    [] operation = "prune_event_history" -> "event_history.retention.prune"
    [] operation \in {"list_event_history_exports",
                      "read_event_history_export"} -> "event_history.exports.read"
    [] operation = "create_event_history_export"
         -> "event_history.exports.create"
    [] operation = "download_event_history_export"
         -> "event_history.exports.download"
    [] operation = "prune_event_history_exports"
         -> "event_history.exports.prune"

Common == {"operations.read", "dashboard.read"}

PowerPermissions ==
  {"power.wake.read", "power.wake.schedule", "power.wake.cancel",
   "power.shutdown.request", "power.shutdown.prepare",
   "power.shutdown.execute", "power.schedule.read", "power.schedule.write"}

ServicePermissions ==
  {"services.read", "services.start", "services.stop", "services.restart",
   "services.availability.read", "services.availability.write"}

BackupPermissions ==
  {"backups.targets.read", "backups.runs.read", "backups.run",
   "backups.schedule.read", "backups.schedule.write",
   "backups.retention.read", "backups.retention.write",
   "backups.retention.prune", "backups.scheduler.tick"}

ExportPermissions ==
  {"event_history.read", "event_history.integrity.read",
   "event_history.exports.read", "event_history.exports.create",
   "event_history.exports.download"}

HistoryPermissions ==
  ExportPermissions \cup
    {"event_history.rotation.run", "event_history.retention.read",
     "event_history.retention.write", "event_history.retention.prune",
     "event_history.exports.prune"}

\* ADMINISTRATIVE_ROLE_PERMISSIONS
RolePermissions ==
  [power_operator     |-> PowerPermissions \cup Common,
   scheduler_operator |-> {"power.scheduler.tick"} \cup Common,
   auditor            |-> ExportPermissions \cup Common \cup
                            {"backups.targets.read", "backups.runs.read",
                             "security.posture.read",
                             "infrastructure.diagnostics.read"},
   service_operator   |-> ServicePermissions \cup Common,
   backup_operator    |-> BackupPermissions \cup Common,
   audit_operator     |-> HistoryPermissions \cup Common \cup
                            {"security.posture.read"},
   administrator      |-> PowerPermissions \cup ServicePermissions \cup
                            BackupPermissions \cup HistoryPermissions \cup
                            Common \cup
                            {"power.scheduler.tick", "security.posture.read",
                             "infrastructure.diagnostics.read"}]

Roles == DOMAIN RolePermissions

\* roleHasAdministrativePermission over an assignment's roles
Permits(roles, operation) ==
  \E role \in roles : PermissionOf(operation) \in RolePermissions[role]

-----------------------------------------------------------------------------
(* The route catalogue: one descriptor per route, with the policies that   *)
(* a handler has to honour.                                                *)

Read(operation) ==
  [operation |-> operation, method |-> "GET", confirmation |-> FALSE,
   gate |-> "none", audit |-> "authorization_only"]

Mutation(method, operation, gate) ==
  [operation |-> operation, method |-> method, confirmation |-> TRUE,
   gate |-> gate, audit |-> "authorization_started_terminal"]

MutationWithoutConfirmation(method, operation, gate) ==
  [Mutation(method, operation, gate) EXCEPT !.confirmation = FALSE]

PowerRoutes ==
  {Read("read_wake_alarm"),
   MutationWithoutConfirmation("PUT", "schedule_wake_alarm", "power_operation"),
   MutationWithoutConfirmation("DELETE", "cancel_wake_alarm", "power_operation")}
  \cup {Mutation("POST", o, "power_operation") : o \in ShutdownOperations}

ServiceRoutes ==
  {Read(o) : o \in {"read_registered_services", "read_registered_service",
                    "read_registered_service_logs",
                    "read_registered_service_resources"}}
  \cup {Mutation("POST", o, "service_mutation") : o \in ServiceActions}

AvailabilityRoutes ==
  {Read(o) : o \in {"read_registered_service_availability",
                    "read_registered_service_schedule",
                    "read_registered_service_availability_preview",
                    "read_registered_service_schedule_preview"}}
  \cup {Mutation("PUT", "update_registered_service_availability", "service_mutation"),
        Mutation("DELETE", "remove_registered_service_availability", "service_mutation"),
        Mutation("PUT", "update_registered_service_schedule", "service_mutation"),
        Mutation("DELETE", "remove_registered_service_schedule", "service_mutation")}

MachineRoutes ==
  {Read("read_machine_operating_policy"),
   Read("read_machine_operating_policy_preview"),
   Mutation("PUT", "update_machine_operating_policy", "service_mutation"),
   Mutation("DELETE", "remove_machine_operating_policy", "service_mutation")}

BackupRoutes ==
  {Read(o) : o \in {"read_registered_backup_targets",
                    "read_registered_backup_target", "read_backup_runs",
                    "read_backup_run", "read_backup_schedule",
                    "read_backup_retention"}}
  \cup {Mutation("POST", o, "backup_operation") :
          o \in {"run_registered_backup", "run_backup_retention_prune",
                 "run_backup_scheduler_tick"}}
  \cup {Mutation("PUT", o, "backup_operation") :
          o \in {"update_backup_schedule", "update_backup_retention"}}
  \cup {Mutation("DELETE", "remove_backup_schedule", "backup_operation")}

HistoryRoutes ==
  {Read(o) : o \in {"verify_event_history_integrity",
                    "read_event_history_retention",
                    "list_event_history_exports", "read_event_history_export",
                    "download_event_history_export"}}
  \cup {Mutation("POST", o, "event_history_maintenance") :
          o \in HistoryMutations \ {"update_event_history_retention"}}
  \cup {Mutation("PUT", "update_event_history_retention",
                 "event_history_maintenance")}

ObservationRoutes ==
  {Read(o) : o \in {"read_administrative_dashboard",
                    "read_administrative_event_history",
                    "read_operations_overview",
                    "read_administrative_security_posture",
                    "read_infrastructure_diagnostics"}}

Catalog ==
  PowerRoutes \cup ServiceRoutes \cup AvailabilityRoutes \cup MachineRoutes
  \cup BackupRoutes \cup HistoryRoutes \cup ObservationRoutes

\* findAdministrativeRouteSecurityDescriptor
Descriptor(operation) == CHOOSE d \in Catalog : d.operation = operation

RoutedOperations == {d.operation : d \in Catalog}

Mutations == {d.operation : d \in {c \in Catalog : c.method # "GET"}}

-----------------------------------------------------------------------------
(* The events an operation records and the events the history accepts:     *)
(* the names of the detail fields, and whether an identifier or a sequence *)
(* among them is within its bound.                                         *)

\* ADMINISTRATIVE_AUTHORIZATION_REASON_CODES
AuthorizationReasonCodes ==
  {"credentials_absent", "credentials_invalid",
   "identity_provider_unavailable", "principal_unknown", "permission_denied",
   "role_assignment_unavailable", "authorization_policy_unavailable"}

\* createDetails for an authorization decision
AcceptsDecision(decision, reason) ==
  IF decision = "allowed" THEN reason = "none"
                          ELSE reason \in AuthorizationReasonCodes

Timestamps == {"scheduledFor", "wakeScheduledFor"}

\* The details the operations pass to begin and complete.
StartedDetails(operation) ==
  CASE operation \in ServiceActions \cup AvailabilityMutations
                       \cup ScheduleMutations -> {"serviceId"}
    [] operation \in BackupTargetMutations -> {"targetId"}
    [] operation = "create_event_history_export"
         -> {"fromSequence", "throughSequence"}
    [] operation = "schedule_wake_alarm" -> {"scheduledFor"}
    [] operation \in ShutdownOperations -> Timestamps
    [] OTHER -> {}

TerminalDetails(operation, status) ==
  IF status = "failed"
  THEN CASE operation \in ServiceActions \cup AvailabilityMutations
                            \cup ScheduleMutations
              -> {"serviceId", "failureCode"}
         [] operation \in BackupTargetMutations -> {"targetId", "failureCode"}
         [] OTHER -> {"failureCode"}
  ELSE CASE operation \in ServiceActions \cup AvailabilityMutations
                            \cup ScheduleMutations
              -> {"serviceId", "outcome"}
         [] operation \in BackupTargetMutations -> {"targetId", "outcome"}
         [] operation = "schedule_wake_alarm" -> {"scheduledFor", "mutationOutcome"}
         [] operation = "cancel_wake_alarm" -> {"mutationOutcome"}
         [] operation = "prepare_machine_shutdown_occurrence"
              -> {"preparationOutcome", "blockerCodes", "completedStepCount"}
         [] operation = "execute_machine_shutdown_occurrence"
              -> {"executionOutcome"} \cup
                   IF status = "succeeded"
                   THEN {"wakeMutationOutcome", "shutdownAccepted"}
                   ELSE {"blockerCodes"}
         [] OTHER -> {"outcome"}

\* createDetails for the operations on one service or one backup target
AcceptsIdentified(id, status, fields, bounded) ==
  /\ bounded
  /\ CASE status = "started"   -> fields = {id}
       [] status = "succeeded" -> fields = {id, "outcome"}
       [] status = "failed"    -> fields = {id, "failureCode"}
       [] OTHER                -> FALSE

\* createDetails for the backup scheduler tick and the machine policy
AcceptsPlain(status, fields) ==
  CASE status = "started"   -> fields = {}
    [] status = "succeeded" -> fields = {"outcome"}
    [] status = "failed"    -> fields = {"failureCode"}
    [] OTHER                -> FALSE

\* createEventHistoryOperationalDetails, isBoundedCount
AcceptsHistory(status, fields, bounded) ==
  CASE status = "started" ->
         /\ fields \subseteq {"fromSequence", "throughSequence"}
         /\ bounded
    [] status \in {"failed", "rejected"} -> fields = {"failureCode"}
    [] OTHER ->
         fields \subseteq {"outcome", "firstSequence", "lastSequence",
                           "processedSegmentCount", "processedExportCount",
                           "exportId"}

\* Variant: a cancelled alarm has to name its time too.
AcceptsScheduledWake(operation, status, fields) ==
  CASE status = "started"   -> TRUE
    [] status = "succeeded" -> {"scheduledFor", "mutationOutcome"} \subseteq fields
    [] OTHER                -> fields = {"failureCode"}

AcceptsWake(operation, status, fields) ==
  LET schedule == IF operation = "schedule_wake_alarm" THEN {"scheduledFor"} ELSE {}
  IN  CASE status = "started"   -> fields = schedule
        [] status = "succeeded" -> schedule \cup {"mutationOutcome"} \subseteq fields
        [] OTHER                -> fields = {"failureCode"}

AcceptsPrepare(status, fields) ==
  CASE status = "started" -> fields = Timestamps
    [] status = "failed"  -> fields = {"failureCode"}
    [] OTHER ->
         /\ "preparationOutcome" \in fields
         /\ fields \subseteq {"preparationOutcome", "blockerCodes",
                              "completedStepCount"}

AcceptsExecute(status, fields) ==
  CASE status = "started" -> fields = Timestamps
    [] status = "failed"  -> fields = {"failureCode"}
    [] status = "succeeded" ->
         /\ {"executionOutcome", "wakeMutationOutcome", "shutdownAccepted"}
              \subseteq fields
         /\ "failureCode" \notin fields
    [] OTHER ->
         /\ "executionOutcome" \in fields
         /\ fields \cap {"failureCode", "shutdownAccepted",
                         "wakeMutationOutcome"} = {}

\* createAdministrativeEventInput: does the history accept the event?
Accepts(operation, status, fields, bounded) ==
  CASE operation \in ServiceActions \cup AvailabilityMutations
         \cup ScheduleMutations
         -> AcceptsIdentified("serviceId", status, fields, bounded)
    [] operation \in BackupTargetMutations
         -> AcceptsIdentified("targetId", status, fields, bounded)
    [] operation \in MachineMutations \cup {"run_backup_scheduler_tick"}
         -> AcceptsPlain(status, fields)
    [] operation \in HistoryMutations -> AcceptsHistory(status, fields, bounded)
    [] operation \in WakeMutations -> AcceptsWake(operation, status, fields)
    [] operation = "prepare_machine_shutdown_occurrence"
         -> AcceptsPrepare(status, fields)
    [] operation = "execute_machine_shutdown_occurrence"
         -> AcceptsExecute(status, fields)

=============================================================================
