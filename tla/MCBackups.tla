----------------------------- MODULE MCBackups -----------------------------
(***************************************************************************)
(* The backup scheduler's files and ticks, and the runs they ask for with  *)
(* history, artifacts and retention.  A tick learns only whether its run   *)
(* was refused, succeeded or failed, so a behaviour is one of a single     *)
(* part, and the other rests in its initial state.                         *)
(***************************************************************************)
EXTENDS BackupScheduler, BackupRuns

CONSTANTS
    Parts     \* the parts to consider

VARIABLES
    part      \* the part this behaviour is of

\* Both targets have a window in the second minute, the first one before it too.
MCWindows == [t \in Targets |-> IF t = 1 THEN {0, 1} ELSE {1}]

ASSUME BackupRunsAssumption

MCInit ==
    /\ part \in Parts
    /\ part # "runs" => keep = [t \in BackupTargets |-> 1]
    /\ Init /\ RunsInit

\* The schedule of the first target only is edited.
MCNext ==
    \/ part = "scheduler" /\ Next /\ edited' \subseteq {1} /\ UNCHANGED <<part, runsVars>>
    \/ part = "runs" /\ RunsNext /\ UNCHANGED <<part, vars>>

MCSpec == MCInit /\ [][MCNext]_<<part, vars, runsVars>>
=============================================================================
