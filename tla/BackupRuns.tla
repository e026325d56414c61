----------------------------- MODULE BackupRuns -----------------------------
(***************************************************************************)
(* The run of one registered backup with its history file and artifact     *)
(* directory, retention, and the readiness a machine shutdown asks for     *)
(* (src/backup-management: run-registered-backup.ts, backup-operation-     *)
(* gate.ts, apply-registered-backup-retention.ts, file-backup-run-store.ts,*)
(* filesystem-tree-backup-adapter.ts, filesystem-backup-artifact-store.ts).*)
(*                                                                         *)
(* One process.  A request that is refused changes nothing and has no      *)
(* step; who asks, the scheduler or an operator, makes no difference here. *)
(* Every call that reaches a file may fail, and the process may die inside *)
(* it.  The clock of the host can be set: each reading is any instant.     *)
(***************************************************************************)
EXTENDS Integers, Sequences, FiniteSets, SequencesExt

CONSTANTS
    BackupTargets,    \* registered targets
    KeepChoices,      \* values of keepLastSuccessful
    LastReading,      \* bound on the clock
    MaxRuns           \* bound on the run history

ClockReadings == 0..LastReading

BackupRunsAssumption ==
    /\ KeepChoices \subseteq Nat \ {0} /\ KeepChoices # {}
    /\ LastReading \in Nat /\ MaxRuns \in Nat

VARIABLES
    keep,         \* [Targets -> keepLastSuccessful], in the policy file
    runs,         \* run history file: the runs in sequence order
    torn,         \* the history's last line is incomplete
    lock,         \* the history's ".lock" directory was left behind
    artifacts,    \* published artifact directories, by run
    debris,       \* candidate and half-removed directories, by run
    history,      \* memory of the run store: "usable" or "failed"
    op,           \* what holds the operation gate
    floor         \* history: [Targets -> the smallest keepLastSuccessful so far]

store == <<runs, torn, lock, history>>
directories == <<artifacts, debris>>
retention == <<keep, floor>>
runsVars == <<store, directories, retention, op>>
-----------------------------------------------------------------------------
\* The gate: free, held by a run, or held by a pruning with artifacts to remove.
Free == [pc |-> "free", run |-> 0, todo |-> {}]
Running(pc, r) == [pc |-> pc, run |-> r, todo |-> {}]
Pruning(todo) == IF todo = {} THEN Free ELSE [pc |-> "remove", run |-> 0, todo |-> todo]

RunsInit ==
    /\ keep \in [BackupTargets -> KeepChoices] /\ floor = keep
    /\ runs = <<>> /\ torn = FALSE /\ lock = FALSE /\ history = "usable"
    /\ artifacts = {} /\ debris = {}
    /\ op = Free

\* createStartedBackupRun, completeBackupRun.
Started(t) == Append(runs, [targetId |-> t, status |-> "started", completedAt |-> 0])
Completed(r, status, at) == [runs EXCEPT ![r].status = status, ![r].completedAt = at]

\* The history can be appended to: loaded or loadable, and not locked.
Appendable == history = "usable" /\ ~torn /\ ~lock

\* An append that makes the history `written` goes wrong: no line, a part of it
\* or all of it is there, and the store in memory has failed for good.
AppendBreaks(written) ==
    /\ \/ runs' \in {runs, written} /\ UNCHANGED torn
       \/ torn' = TRUE /\ UNCHANGED runs
    /\ history' = "failed"
    /\ UNCHANGED lock
-----------------------------------------------------------------------------
\* execute(): the gate, the sequence number and appendStarted.
Starting == op = Free /\ Appendable /\ Len(runs) < MaxRuns

StartRun(t) ==
    /\ Starting
    /\ runs' = Started(t)
    /\ op' = Running("adapter", Len(runs) + 1)
    /\ UNCHANGED <<torn, lock, history, directories, retention>>

StartFails(t) ==
    /\ Starting /\ AppendBreaks(Started(t))
    /\ UNCHANGED <<directories, retention, op>>

\* The adapter: a private candidate directory, ...
MakeCandidate ==
    /\ op.pc = "adapter"
    /\ op' = Running("copy", op.run)
    /\ debris' = debris \cup {op.run}
    /\ UNCHANGED <<store, artifacts, retention>>

\* Variant: the candidate is copied, not renamed.
PublishByCopy ==
    /\ op.pc = "copy"
    /\ op' = Running("succeeded", op.run)
    /\ artifacts' = artifacts \cup {op.run}
    /\ UNCHANGED <<store, debris, retention>>

\* ... renamed once the copy and its manifest are complete.
Publish ==
    /\ op.pc = "copy"
    /\ op' = Running("succeeded", op.run)
    /\ debris' = debris \ {op.run} /\ artifacts' = artifacts \cup {op.run}
    /\ UNCHANGED <<store, retention>>

\* The adapter fails.  removeOwnCandidate looks for a path that ends in
\* "/candidate", which no candidate has, and leaves the directory.
AdapterFails ==
    /\ op.pc \in {"adapter", "copy"}
    /\ op' = Running("failed", op.run)
    /\ UNCHANGED <<store, directories, retention>>

Ending == op.pc \in {"succeeded", "failed"}

\* appendTerminal; the gate is released.
EndRun(at) ==
    /\ Ending
    /\ runs' = Completed(op.run, op.pc, at)
    /\ op' = Free
    /\ UNCHANGED <<torn, lock, history, directories, retention>>

\* The writer lock of a success cannot be taken: the catch block goes on to
\* record the run as failed, although its artifact is published.
SuccessNotRecorded ==
    /\ op.pc = "succeeded"
    /\ op' = Running("failed", op.run)
    /\ UNCHANGED <<store, directories, retention>>

\* The writer lock of a failure cannot be taken: the run stays started.
FailureNotRecorded ==
    /\ op.pc = "failed"
    /\ op' = Free
    /\ UNCHANGED <<store, directories, retention>>

\* The append fails; for a success, so does the record of the failure.
EndFails(at) ==
    /\ Ending /\ AppendBreaks(Completed(op.run, op.pc, at))
    /\ op' = Free
    /\ UNCHANGED <<directories, retention>>

\* The line is written, but the lock directory cannot be removed; the catch
\* block of a success then finds the history busy.
UnlockFails(at) ==
    /\ Ending
    /\ runs' = Completed(op.run, op.pc, at) /\ lock' = TRUE
    /\ op' = Free
    /\ UNCHANGED <<torn, history, directories, retention>>
-----------------------------------------------------------------------------
Of(t, rs) == {r \in rs : runs[r].targetId = t}
Successful(t) == {r \in Of(t, DOMAIN runs) : runs[r].status = "succeeded"}

\* The order of the successful runs: latest completion, then highest sequence.
Newer(r, q) ==
    runs[r].completedAt > runs[q].completedAt
    \/ (runs[r].completedAt = runs[q].completedAt /\ r > q)

\* The first n of the successful runs of t.
Newest(t, n) ==
    {r \in Successful(t) : Cardinality({q \in Successful(t) : Newer(q, r)}) < n}

\* Variant: one run fewer is protected.
OneShort(t) == Newest(t, keep[t] - 1)

\* The runs whose artifacts a pruning leaves.
Protected(t) == Newest(t, keep[t])

\* verifyPublishedTree: every directory of t is a whole artifact.
Verified(t) == Of(t, debris) = {}

\* listManaged finds verified artifacts only, and each has its successful run.
OnlyManaged(t) == Verified(t) /\ Of(t, artifacts) \subseteq Successful(t)

\* execute(targetId): read the history, list and verify the directories, decide.
\* The age limit adds nothing: what is not protected goes, old or not.
PruneBegins(t) ==
    /\ op = Free /\ history = "usable" /\ ~torn /\ OnlyManaged(t)
    /\ op' = Pruning(Of(t, artifacts) \ Protected(t))
    /\ UNCHANGED <<store, directories, retention>>

\* The order is that of the manifests' own completion times, which the settable
\* clock makes any order.
RemoveManaged(r) ==
    /\ r \in op.todo
    /\ artifacts' = artifacts \ {r}
    /\ op' = Pruning(op.todo \ {r})
    /\ UNCHANGED <<store, debris, retention>>

HalfRemoved(r) == artifacts' = artifacts \ {r} /\ debris' = debris \cup {r}

\* A removal that fails, perhaps half-way, ends the pruning.
RemoveFails(r) ==
    /\ r \in op.todo
    /\ HalfRemoved(r) \/ UNCHANGED directories
    /\ op' = Free
    /\ UNCHANGED <<store, retention>>
-----------------------------------------------------------------------------
\* setBackupRetention.
SetRetention(t, k) ==
    /\ keep' = [keep EXCEPT ![t] = k]
    /\ floor' = [floor EXCEPT ![t] = IF k < @ THEN k ELSE @]
    /\ UNCHANGED <<store, directories, op>>

\* The process dies and is started again; the history is read anew.
Restart == history' = "usable" /\ op' = Free /\ UNCHANGED retention

CrashBetweenWrites == Restart /\ UNCHANGED <<runs, torn, lock, directories>>

\* It dies inside an append: the lock stays, and the line is there, torn or
\* missing.
CrashInAppend(written) ==
    /\ \/ runs' \in {runs, written} /\ UNCHANGED torn
       \/ torn' = TRUE /\ UNCHANGED runs
    /\ lock' = TRUE
    /\ Restart /\ UNCHANGED directories

CrashAtStart(t) == Starting /\ CrashInAppend(Started(t))
CrashAtEnd(at) == Ending /\ CrashInAppend(Completed(op.run, op.pc, at))

\* It dies inside the removal of a directory tree.
CrashInRemoval(r) ==
    /\ r \in op.todo /\ HalfRemoved(r)
    /\ Restart /\ UNCHANGED <<runs, torn, lock>>
-----------------------------------------------------------------------------
RunStep ==
    \/ \E t \in BackupTargets : StartRun(t) \/ StartFails(t)
    \/ MakeCandidate \/ Publish \/ AdapterFails
    \/ SuccessNotRecorded \/ FailureNotRecorded
    \/ \E at \in ClockReadings : EndRun(at) \/ EndFails(at) \/ UnlockFails(at)

PruneStep ==
    \/ \E t \in BackupTargets : PruneBegins(t)
    \/ \E r \in op.todo : RemoveManaged(r) \/ RemoveFails(r)

Environment ==
    \/ \E t \in BackupTargets, k \in KeepChoices : SetRetention(t, k)
    \/ CrashBetweenWrites
    \/ \E t \in BackupTargets : CrashAtStart(t)
    \/ \E at \in ClockReadings : CrashAtEnd(at)
    \/ \E r \in op.todo : CrashInRemoval(r)

RunsNext == RunStep \/ PruneStep \/ Environment

RunsSpec == RunsInit /\ [][RunsNext]_runsVars
-----------------------------------------------------------------------------
\* Variant: a run whose artifact is published counts as over.
UnpublishedOnly == {r \in DOMAIN runs : runs[r].status = "started" /\ r \notin artifacts}

\* Started runs without a terminal record.
Interrupted == {r \in DOMAIN runs : runs[r].status = "started"}

\* The readiness the machine shutdown reads.
Readiness ==
    IF op # Free THEN "active"
    ELSE IF history = "failed" \/ torn THEN "unavailable"
    ELSE IF Interrupted # {} THEN "interrupted" ELSE "ready"

\* Every variable keeps its type, a directory always belongs to a recorded run,
\* and what a pruning has still to remove is there to be removed.
RunsTypeOK ==
    /\ keep \in [BackupTargets -> KeepChoices] /\ floor \in [BackupTargets -> KeepChoices]
    /\ runs \in Seq([targetId : BackupTargets, status : {"started", "succeeded", "failed"},
                     completedAt : ClockReadings])
    /\ torn \in BOOLEAN /\ lock \in BOOLEAN /\ history \in {"usable", "failed"}
    /\ artifacts \cup debris \subseteq DOMAIN runs /\ artifacts \cap debris = {}
    /\ op \in [pc : {"free", "adapter", "copy", "succeeded", "failed", "remove"},
              run : DOMAIN runs \cup {0}, todo : SUBSET artifacts]

\* Retention "preserves the minimum successful count"
\* (docs/operations/atlas-manager-backup-retention.md): the most recent
\* successful runs, as many as every retention policy so far has kept, still have
\* their whole artifacts, whatever crashes, policy changes and clock changes.
RetentionKeepsNewest == \A t \in BackupTargets : Newest(t, floor[t]) \subseteq artifacts

\* Only artifacts of successful runs are ever removed: what an interrupted or
\* failed run has published stays for the operator to inspect.
OnlySuccessesRemoved ==
    [][\A r \in artifacts \ artifacts' : runs[r].status = "succeeded"]_runsVars

\* Readiness is "ready" only when whatever a backup has left on disk belongs to
\* a run whose end is on record: a crash never makes unfinished work look done.
ReadyMeansRecorded ==
    Readiness = "ready" => \A r \in artifacts \cup debris : runs[r].status # "started"

\* What is on disk agrees with the run history, whatever fails or crashes.
ArtifactsAreAccounted == RunsTypeOK /\ RetentionKeepsNewest /\ ReadyMeansRecorded
-----------------------------------------------------------------------------
(* The inductive invariant of the theorems in BackupRunsProofs. *)

\* The smallest number of runs a policy has kept is not above the present one.
FloorInv == \A t \in BackupTargets : floor[t] <= keep[t]

\* What holds the gate: nothing, a pruning, or a run that is still to be recorded.
GateInv ==
    /\ op.todo # {} <=> op.pc = "remove"
    /\ op.run # 0 <=> op.pc \in {"adapter", "copy", "succeeded", "failed"}
    /\ op.run # 0 => runs[op.run].status = "started"

\* Where a run's directory is: nowhere, in a candidate or published.
DirectoryInv ==
    /\ op.pc = "adapter" => op.run \notin artifacts \cup debris
    /\ op.pc = "copy" => op.run \in debris
    /\ op.pc = "succeeded" => op.run \in artifacts

\* A pruning never has a run to remove that every policy so far has protected.
PruningInv ==
    \A r \in op.todo :
        runs[r].status = "succeeded" /\ r \notin Newest(runs[r].targetId, floor[runs[r].targetId])

RunsInv == RunsTypeOK /\ RetentionKeepsNewest /\ FloorInv /\ GateInv /\ DirectoryInv /\ PruningInv
=============================================================================
