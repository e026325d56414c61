---------------------------- MODULE BackupProofs -----------------------------
(***************************************************************************)
(* Theorems about BackupRuns and BackupScheduler, for all targets, windows, *)
(* policies, limits and file bounds, and any number of runs, clock         *)
(* readings, failed calls, crashes and edits.                              *)
(*                                                                         *)
(* Runs.  What they leave on disk agrees with their history, the newest    *)
(* successful artifacts survive every retention, and only artifacts of     *)
(* successful runs are removed.  Retention is the part that needs an       *)
(* invariant: a pruning decides what to remove by the policy of its        *)
(* beginning, and policies are edited while it removes.  What it has still *)
(* to remove is kept out of the newest runs by the smallest number any     *)
(* policy so far has kept (PruningInv), which no edit can enlarge          *)
(* (FloorInv), and the history does not grow while a pruning holds the     *)
(* gate (GateInv).                                                         *)
(*                                                                         *)
(* Scheduler.  No occurrence is lost, for which every minute of an         *)
(* interval has to be sampled, and what a tick has not dealt with yet has  *)
(* to be accounted for (KeptInv, WindowInv); and none is run again but     *)
(* after a load of the claims has failed (RecallInv).                      *)
(***************************************************************************)
EXTENDS BackupScheduler, BackupRuns, FiniteSetTheorems, TLAPS

-----------------------------------------------------------------------------
(* Runs and retention. *)

\* The run records of the history file.
Records == [targetId : BackupTargets, status : {"started", "succeeded", "failed"},
            completedAt : ClockReadings]

\* Newest, of any history.
SuccessfulIn(rs, t) == {r \in DOMAIN rs : rs[r].targetId = t /\ rs[r].status = "succeeded"}
NewerIn(rs, r, q) ==
    rs[r].completedAt > rs[q].completedAt
    \/ (rs[r].completedAt = rs[q].completedAt /\ r > q)
AheadIn(rs, t, r) == {q \in SuccessfulIn(rs, t) : NewerIn(rs, q, r)}
NewestIn(rs, t, n) == {r \in SuccessfulIn(rs, t) : Cardinality(AheadIn(rs, t, r)) < n}

\* Newest is that of the history file.
LEMMA NewestIsOfRuns == \A t, n : Newest(t, n) = NewestIn(runs, t, n)
  BY DEF Newest, Successful, Of, Newer, NewestIn, SuccessfulIn, NewerIn, AheadIn

\* A target has finitely many successful runs.
LEMMA SuccessfulFinite ==
  ASSUME NEW rs \in Seq(Records), NEW t
  PROVE  /\ SuccessfulIn(rs, t) \subseteq 1..Len(rs)
         /\ \A r : IsFiniteSet(AheadIn(rs, t, r)) /\ Cardinality(AheadIn(rs, t, r)) \in Nat
<1>1. SuccessfulIn(rs, t) \subseteq 1..Len(rs)
  BY DEF SuccessfulIn
<1>2. IsFiniteSet(1..Len(rs))
  <2>1. 1 \in Int /\ Len(rs) \in Int
    OBVIOUS
  <2> QED
    BY <2>1, FS_Interval
<1>3. \A r : AheadIn(rs, t, r) \subseteq 1..Len(rs)
  BY <1>1 DEF AheadIn
<1>4. \A r : IsFiniteSet(AheadIn(rs, t, r))
  BY <1>2, <1>3, FS_Subset
<1> QED
  BY <1>1, <1>4, FS_CardinalityType

\* The fewer runs are protected, the smaller the set.
LEMMA NewestMonotone ==
  ASSUME NEW rs \in Seq(Records), NEW t, NEW m \in Nat, NEW n \in Nat, m <= n
  PROVE  NewestIn(rs, t, m) \subseteq NewestIn(rs, t, n)
<1>1. \A r : Cardinality(AheadIn(rs, t, r)) \in Nat
  BY SuccessfulFinite
<1> QED
  BY <1>1 DEF NewestIn

\* createStartedBackupRun: one more record, the others as they were.
LEMMA StartedRecords ==
  ASSUME runs \in Seq(Records), NEW t \in BackupTargets, LastReading \in Nat
  PROVE  /\ Started(t) \in Seq(Records)
         /\ Len(Started(t)) = Len(runs) + 1
         /\ Len(runs) \in Nat
         /\ DOMAIN runs = 1..Len(runs)
         /\ DOMAIN Started(t) = 1..(Len(runs) + 1)
         /\ \A r \in DOMAIN runs : Started(t)[r] = runs[r]
         /\ Started(t)[Len(runs) + 1].status = "started"
<1> DEFINE rec == [targetId |-> t, status |-> "started", completedAt |-> 0]
<1>1. rec \in Records
  BY DEF Records, ClockReadings
<1> HIDE DEF rec
<1>2. rec.status = "started"
  BY DEF rec
<1>3. Started(t) = Append(runs, rec)
  BY DEF Started, rec
<1> QED
  BY <1>1, <1>2, <1>3

\* completeBackupRun: one record changes, and keeps its target.
LEMMA CompletedRecords ==
  ASSUME runs \in Seq(Records), NEW r \in DOMAIN runs, NEW at \in ClockReadings,
         NEW status \in {"succeeded", "failed"}
  PROVE  LET written == Completed(r, status, at) IN
         /\ written \in Seq(Records)
         /\ Len(written) = Len(runs) /\ DOMAIN written = DOMAIN runs
         /\ \A q \in DOMAIN runs : q # r => written[q] = runs[q]
         /\ written[r].targetId = runs[r].targetId /\ written[r].status = status
<1> DEFINE one == [runs EXCEPT ![r].status = status]
           written == Completed(r, status, at)
<1>1. runs[r] \in Records
  OBVIOUS
<1>2. [runs[r] EXCEPT !.status = status, !.completedAt = at] \in Records
  BY <1>1 DEF Records
<1>3. written = [runs EXCEPT ![r] = [@ EXCEPT !.status = status, !.completedAt = at]]
  BY <1>1 DEF Completed, Records
<1>4. written[r] = [runs[r] EXCEPT !.status = status, !.completedAt = at]
  BY <1>3
<1>5. written[r].targetId = runs[r].targetId /\ written[r].status = status
  BY <1>1, <1>4 DEF Records
<1>6. written \in Seq(Records) /\ Len(written) = Len(runs) /\ DOMAIN written = DOMAIN runs
  BY <1>2, <1>3
<1>7. \A q \in DOMAIN runs : q # r => written[q] = runs[q]
  BY <1>3
<1> QED
  BY <1>5, <1>6, <1>7

\* Records that are added without a success change nothing about the newest runs.
LEMMA NewestOfGrown ==
  ASSUME NEW rs \in Seq(Records), NEW ss \in Seq(Records),
         Len(ss) = Len(rs) + 1, ss[Len(rs) + 1].status # "succeeded",
         \A r \in DOMAIN rs : ss[r] = rs[r]
  PROVE  \A t, n : NewestIn(ss, t, n) = NewestIn(rs, t, n)
<1>1. ASSUME NEW t PROVE SuccessfulIn(ss, t) = SuccessfulIn(rs, t)
  BY DEF SuccessfulIn
<1>2. ASSUME NEW t, NEW r \in SuccessfulIn(rs, t) PROVE AheadIn(ss, t, r) = AheadIn(rs, t, r)
  BY <1>1 DEF AheadIn, NewerIn, SuccessfulIn
<1> QED
  BY <1>1, <1>2 DEF NewestIn

\* The end of a run adds it to the newest at most, and only if it has succeeded.
LEMMA NewestOfEnded ==
  ASSUME NEW rs \in Seq(Records), NEW ss \in Seq(Records), NEW e \in DOMAIN rs,
         DOMAIN ss = DOMAIN rs, rs[e].status = "started",
         \A r \in DOMAIN rs : r # e => ss[r] = rs[r],
         NEW t, NEW n \in Nat
  PROVE  NewestIn(ss, t, n) \subseteq
             NewestIn(rs, t, n) \cup {r \in {e} : ss[r].status = "succeeded"}
<1> SUFFICES ASSUME NEW r \in NewestIn(ss, t, n), r # e
             PROVE  r \in NewestIn(rs, t, n)
  BY DEF NewestIn, SuccessfulIn
<1>1. r \in SuccessfulIn(ss, t) /\ r \in SuccessfulIn(rs, t)
  BY DEF NewestIn, SuccessfulIn
<1>2. AheadIn(rs, t, r) \subseteq AheadIn(ss, t, r)
  BY <1>1 DEF AheadIn, NewerIn, SuccessfulIn
<1>3. /\ IsFiniteSet(AheadIn(ss, t, r))
      /\ Cardinality(AheadIn(ss, t, r)) \in Nat /\ Cardinality(AheadIn(rs, t, r)) \in Nat
  BY SuccessfulFinite
<1>4. Cardinality(AheadIn(rs, t, r)) <= Cardinality(AheadIn(ss, t, r))
  BY <1>2, <1>3, FS_Subset
<1>5. Cardinality(AheadIn(ss, t, r)) < n
  BY DEF NewestIn
<1> QED
  BY <1>1, <1>3, <1>4, <1>5 DEF NewestIn
-----------------------------------------------------------------------------
\* The two parts about the newest runs, by NewestIn.
LEMMA RetentionByNewestIn ==
  /\ RetentionKeepsNewest <=> \A t \in BackupTargets : NewestIn(runs, t, floor[t]) \subseteq artifacts
  /\ PruningInv <=> \A r \in op.todo : /\ runs[r].status = "succeeded"
                                       /\ r \notin NewestIn(runs, runs[r].targetId,
                                                            floor[runs[r].targetId])
  BY NewestIsOfRuns DEF RetentionKeepsNewest, PruningInv

\* The same after a step.
LEMMA RetentionByNewestInNext ==
  /\ RetentionKeepsNewest' <=>
         \A t \in BackupTargets : NewestIn(runs', t, floor'[t]) \subseteq artifacts'
  /\ PruningInv' <=> \A r \in op'.todo : /\ runs'[r].status = "succeeded"
                                         /\ r \notin NewestIn(runs', runs'[r].targetId,
                                                              floor'[runs'[r].targetId])
<1>1. \A t, n : Newest(t, n)' = NewestIn(runs', t, n)
  BY DEF Newest, Successful, Of, Newer, NewestIn, SuccessfulIn, NewerIn, AheadIn
<1> QED
  BY <1>1 DEF RetentionKeepsNewest, PruningInv

\* The types, for the provers: the records of the history, and numbers to compare.
LEMMA Types ==
  ASSUME BackupRunsAssumption, RunsTypeOK
  PROVE  /\ runs \in Seq(Records) /\ LastReading \in Nat
         /\ Len(runs) \in Nat /\ DOMAIN runs = 1..Len(runs)
         /\ \A t \in BackupTargets : keep[t] \in Nat /\ floor[t] \in Nat
         /\ \A r \in DOMAIN runs : runs[r].targetId \in BackupTargets
<1>1. runs \in Seq(Records)
  BY DEF RunsTypeOK, Records
<1>2. \A t \in BackupTargets : keep[t] \in Nat /\ floor[t] \in Nat
  BY DEF BackupRunsAssumption, RunsTypeOK
<1>3. \A r \in DOMAIN runs : runs[r] \in Records
  BY <1>1
<1> QED
  BY <1>1, <1>2, <1>3 DEF BackupRunsAssumption, Records

\* A step that grows the history by a started run, or fails to.
LEMMA HistoryGrows ==
  ASSUME BackupRunsAssumption, RunsTypeOK, NEW t \in BackupTargets, runs' \in {runs, Started(t)}
  PROVE  /\ runs' \in Seq(Records) /\ DOMAIN runs \subseteq DOMAIN runs'
         /\ \A r \in DOMAIN runs : runs'[r] = runs[r]
         /\ \A u, n : NewestIn(runs', u, n) = NewestIn(runs, u, n)
<1>1. CASE runs' = runs
  BY <1>1, Types
<1>2. CASE runs' = Started(t)
  <2>1. /\ runs \in Seq(Records) /\ runs' \in Seq(Records) /\ Len(runs') = Len(runs) + 1
        /\ DOMAIN runs = 1..Len(runs) /\ DOMAIN runs' = 1..(Len(runs) + 1) /\ Len(runs) \in Nat
        /\ \A r \in DOMAIN runs : runs'[r] = runs[r]
        /\ runs'[Len(runs) + 1].status # "succeeded"
    BY <1>2, Types, StartedRecords
  <2> QED
    BY <2>1, NewestOfGrown
<1> QED
  BY <1>1, <1>2

\* A step that records the end of the run in progress, or fails to.
LEMMA HistoryEnds ==
  ASSUME BackupRunsAssumption, RunsInv, Ending, NEW at \in ClockReadings,
         runs' \in {runs, Completed(op.run, op.pc, at)}
  PROVE  /\ runs' \in Seq(Records) /\ DOMAIN runs' = DOMAIN runs
         /\ \A r \in DOMAIN runs : r # op.run => runs'[r] = runs[r]
         /\ \A u \in BackupTargets, n \in Nat :
                NewestIn(runs', u, n) \subseteq NewestIn(runs, u, n) \cup artifacts
<1>1. CASE runs' = runs
  BY <1>1, Types DEF RunsInv
<1>2. CASE runs' = Completed(op.run, op.pc, at)
  <2>1. /\ runs \in Seq(Records) /\ op.run \in DOMAIN runs /\ op.pc \in {"succeeded", "failed"}
        /\ runs[op.run].status = "started" /\ (op.pc = "succeeded" => op.run \in artifacts)
    BY Types DEF RunsInv, RunsTypeOK, GateInv, DirectoryInv, Ending
  <2>2. /\ runs' \in Seq(Records) /\ DOMAIN runs' = DOMAIN runs
        /\ \A r \in DOMAIN runs : r # op.run => runs'[r] = runs[r]
        /\ runs'[op.run].status = op.pc
    BY <1>2, <2>1, CompletedRecords
  <2>3. ASSUME NEW u \in BackupTargets, NEW n \in Nat
        PROVE  NewestIn(runs', u, n) \subseteq NewestIn(runs, u, n) \cup
                   {r \in {op.run} : runs'[r].status = "succeeded"}
    BY <2>1, <2>2, NewestOfEnded
  <2> QED
    BY <2>1, <2>2, <2>3
<1> QED
  BY <1>1, <1>2

\* No step but a removal takes an artifact away: the newest runs are kept as long
\* as no others join them.
LEMMA NewestKept ==
  ASSUME BackupRunsAssumption, RunsInv, floor' = floor, artifacts \subseteq artifacts',
         \A u \in BackupTargets, n \in Nat :
             NewestIn(runs', u, n) \subseteq NewestIn(runs, u, n) \cup artifacts
  PROVE  RetentionKeepsNewest'
  BY Types, RetentionByNewestIn, RetentionByNewestInNext DEF RunsInv

\* A removal takes only what the pruning has to remove.
LEMMA NewestSpared ==
  ASSUME BackupRunsAssumption, RunsInv, UNCHANGED <<runs, floor>>, NEW r \in op.todo,
         artifacts \ {r} \subseteq artifacts'
  PROVE  RetentionKeepsNewest'
<1>1. runs[r].targetId \in BackupTargets
  BY Types DEF RunsInv, RunsTypeOK
<1>2. \A u \in BackupTargets : r \in NewestIn(runs, u, floor[u]) => u = runs[r].targetId
  BY DEF NewestIn, SuccessfulIn
<1>3. \A u \in BackupTargets : NewestIn(runs, u, floor[u]) \subseteq artifacts'
  BY <1>1, <1>2, RetentionByNewestIn DEF RunsInv
<1> QED
  BY <1>3, RetentionByNewestInNext

-----------------------------------------------------------------------------
\* What a step inside a run, or one that frees the gate, may leave of the gate and
\* the directories.
LEMMA GateAfterRun ==
  ASSUME BackupRunsAssumption, RunsInv, DOMAIN runs \subseteq DOMAIN runs', runs' \in Seq(Records),
         UNCHANGED retention, torn' \in BOOLEAN, lock' \in BOOLEAN, history' \in {"usable", "failed"},
         artifacts' \cup debris' \subseteq DOMAIN runs', artifacts' \cap debris' = {},
         op' = Free
  PROVE  RunsTypeOK' /\ FloorInv' /\ GateInv' /\ DirectoryInv' /\ PruningInv'
  BY DEF RunsInv, RunsTypeOK, FloorInv, GateInv, DirectoryInv, PruningInv, Free, retention, Records

\* The same when a run holds the gate.
LEMMA GateOfRun ==
  ASSUME BackupRunsAssumption, RunsInv, DOMAIN runs \subseteq DOMAIN runs', runs' \in Seq(Records),
         UNCHANGED retention, torn' \in BOOLEAN, lock' \in BOOLEAN, history' \in {"usable", "failed"},
         artifacts' \cup debris' \subseteq DOMAIN runs', artifacts' \cap debris' = {},
         NEW pc \in {"adapter", "copy", "succeeded", "failed"}, NEW r \in DOMAIN runs',
         op' = Running(pc, r), runs'[r].status = "started",
         pc = "adapter" => r \notin artifacts' \cup debris',
         pc = "copy" => r \in debris', pc = "succeeded" => r \in artifacts'
  PROVE  RunsTypeOK' /\ FloorInv' /\ GateInv' /\ DirectoryInv' /\ PruningInv'
<1>1. DOMAIN runs' = 1..Len(runs')
  OBVIOUS
<1> QED
  BY <1>1 DEF RunsInv, RunsTypeOK, FloorInv, GateInv, DirectoryInv, PruningInv, Running, retention, Records

\* The same when a pruning holds it, with less to remove than before.
LEMMA GateOfPruning ==
  ASSUME BackupRunsAssumption, RunsInv, UNCHANGED <<store, retention>>,
         artifacts' \cup debris' \subseteq DOMAIN runs, artifacts' \cap debris' = {},
         NEW todo \in SUBSET artifacts', op' = Pruning(todo),
         \A r \in todo : /\ runs[r].status = "succeeded"
                         /\ r \notin NewestIn(runs, runs[r].targetId, floor[runs[r].targetId])
  PROVE  RunsTypeOK' /\ FloorInv' /\ GateInv' /\ DirectoryInv' /\ PruningInv'
<1>1. op'.todo = todo
  BY DEF Pruning, Free
<1>2. PruningInv'
  BY <1>1, RetentionByNewestInNext DEF store, retention
<1> QED
  BY <1>2 DEF RunsInv, RunsTypeOK, FloorInv, GateInv, DirectoryInv, Pruning, Free, retention, store

-----------------------------------------------------------------------------
\* No step of a run breaks the invariant.
LEMMA RunStepInvariant ==
  ASSUME BackupRunsAssumption, RunsInv, RunStep
  PROVE  RunsInv'
<1> USE DEF store, directories, retention
<1>1. /\ runs \in Seq(Records) /\ DOMAIN runs = 1..Len(runs) /\ Len(runs) \in Nat
      /\ artifacts \cup debris \subseteq DOMAIN runs /\ artifacts \cap debris = {}
      /\ torn \in BOOLEAN /\ lock \in BOOLEAN /\ history \in {"usable", "failed"}
  BY Types DEF RunsInv, RunsTypeOK
<1>2. op.pc \in {"adapter", "copy", "succeeded", "failed"} =>
          op.run \in DOMAIN runs /\ runs[op.run].status = "started"
  BY DEF RunsInv, RunsTypeOK, GateInv
<1>3. ASSUME NEW t \in BackupTargets, StartRun(t) PROVE RunsInv'
  <2>1. /\ Len(runs') = Len(runs) + 1 /\ DOMAIN runs' = 1..(Len(runs) + 1)
        /\ runs'[Len(runs) + 1].status = "started"
    BY <1>3, <1>1, Types, StartedRecords DEF StartRun, RunsInv
  <2>2. runs' \in Seq(Records) /\ \A u, n : NewestIn(runs', u, n) = NewestIn(runs, u, n)
    BY <1>3, HistoryGrows DEF StartRun, RunsInv
  <2>3. RetentionKeepsNewest'
    BY <1>3, <2>2, NewestKept DEF StartRun
  <2>4. /\ Len(runs) + 1 \in DOMAIN runs' /\ Len(runs) + 1 \notin artifacts \cup debris
        /\ DOMAIN runs \subseteq DOMAIN runs'
    BY <1>1, <2>1
  <2>5. op' = Running("adapter", Len(runs) + 1)
    BY <1>3 DEF StartRun
  <2> QED
    BY <1>1, <1>3, <2>1, <2>2, <2>3, <2>4, <2>5, GateOfRun DEF StartRun, RunsInv
<1>4. ASSUME NEW t \in BackupTargets, StartFails(t) PROVE RunsInv'
  <2>1. runs' \in {runs, Started(t)} /\ op' = Free
    BY <1>4 DEF StartFails, AppendBreaks, Starting
  <2>2. /\ runs' \in Seq(Records) /\ \A u, n : NewestIn(runs', u, n) = NewestIn(runs, u, n)
        /\ DOMAIN runs \subseteq DOMAIN runs'
    BY <2>1, HistoryGrows DEF RunsInv
  <2>3. RetentionKeepsNewest'
    BY <1>4, <2>2, NewestKept DEF StartFails
  <2> QED
    BY <1>1, <1>4, <2>1, <2>2, <2>3, GateAfterRun DEF StartFails, AppendBreaks, RunsInv
<1>5. CASE MakeCandidate
  <2>1. RetentionKeepsNewest'
    BY <1>5, NewestKept DEF MakeCandidate
  <2>2. op.run \notin artifacts \cup debris
    BY <1>5 DEF MakeCandidate, RunsInv, DirectoryInv
  <2> QED
    BY <1>1, <1>2, <1>5, <2>1, <2>2, GateOfRun DEF MakeCandidate, RunsInv
<1>6. CASE Publish
  <2>1. RetentionKeepsNewest'
    BY <1>6, NewestKept DEF Publish
  <2>2. op.run \in debris
    BY <1>6 DEF Publish, RunsInv, DirectoryInv
  <2> QED
    BY <1>1, <1>2, <1>6, <2>1, <2>2, GateOfRun DEF Publish, RunsInv
<1>7. CASE AdapterFails
  <2>1. RetentionKeepsNewest'
    BY <1>7, NewestKept DEF AdapterFails
  <2> QED
    BY <1>1, <1>2, <1>7, <2>1, GateOfRun DEF AdapterFails, RunsInv
<1>8. CASE SuccessNotRecorded
  <2>1. RetentionKeepsNewest'
    BY <1>8, NewestKept DEF SuccessNotRecorded
  <2> QED
    BY <1>1, <1>2, <1>8, <2>1, GateOfRun DEF SuccessNotRecorded, RunsInv
<1>9. CASE FailureNotRecorded
  <2>1. RetentionKeepsNewest'
    BY <1>9, NewestKept DEF FailureNotRecorded
  <2> QED
    BY <1>1, <1>9, <2>1, GateAfterRun DEF FailureNotRecorded, RunsInv
<1>10. ASSUME NEW at \in ClockReadings, EndRun(at) \/ EndFails(at) \/ UnlockFails(at) PROVE RunsInv'
  <2>1. /\ Ending /\ runs' \in {runs, Completed(op.run, op.pc, at)} /\ op' = Free
        /\ UNCHANGED <<directories, retention>>
    BY <1>10 DEF EndRun, EndFails, UnlockFails, AppendBreaks
  <2>2. torn' \in BOOLEAN /\ lock' \in BOOLEAN /\ history' \in {"usable", "failed"}
    BY <1>1, <1>10 DEF EndRun, EndFails, UnlockFails, AppendBreaks
  <2>3. /\ runs' \in Seq(Records) /\ DOMAIN runs' = DOMAIN runs
        /\ \A u \in BackupTargets, n \in Nat :
               NewestIn(runs', u, n) \subseteq NewestIn(runs, u, n) \cup artifacts
    BY <2>1, HistoryEnds
  <2>4. RetentionKeepsNewest'
    BY <2>1, <2>3, NewestKept
  <2> QED
    BY <1>1, <2>1, <2>2, <2>3, <2>4, GateAfterRun DEF RunsInv
<1> QED
  BY <1>3, <1>4, <1>5, <1>6, <1>7, <1>8, <1>9, <1>10 DEF RunStep

\* Nor does a step of a pruning.
LEMMA PruneStepInvariant ==
  ASSUME BackupRunsAssumption, RunsInv, PruneStep
  PROVE  RunsInv'
<1> USE DEF store, directories, retention
<1>1. /\ runs \in Seq(Records) /\ artifacts \cup debris \subseteq DOMAIN runs
      /\ artifacts \cap debris = {} /\ op.todo \subseteq artifacts
      /\ \A t \in BackupTargets : floor[t] \in Nat /\ keep[t] \in Nat /\ floor[t] <= keep[t]
      /\ \A r \in DOMAIN runs : runs[r].targetId \in BackupTargets
  BY Types DEF RunsInv, RunsTypeOK, FloorInv
<1>2. \A r \in op.todo : /\ runs[r].status = "succeeded"
                         /\ r \notin NewestIn(runs, runs[r].targetId, floor[runs[r].targetId])
  BY RetentionByNewestIn DEF RunsInv
<1>3. ASSUME NEW t \in BackupTargets, PruneBegins(t) PROVE RunsInv'
  <2> DEFINE todo == Of(t, artifacts) \ Protected(t)
  <2>1. todo \subseteq artifacts /\ op' = Pruning(todo) /\ UNCHANGED <<store, directories, retention>>
    BY <1>3 DEF PruneBegins, Of
  <2>2. ASSUME NEW r \in todo
        PROVE  /\ runs[r].status = "succeeded" /\ runs[r].targetId = t
               /\ r \notin NewestIn(runs, t, floor[t])
    <3>1. runs[r].status = "succeeded" /\ runs[r].targetId = t
      BY <1>3 DEF PruneBegins, OnlyManaged, Successful, Of
    <3>2. r \notin NewestIn(runs, t, keep[t])
      BY NewestIsOfRuns DEF Protected
    <3>3. NewestIn(runs, t, floor[t]) \subseteq NewestIn(runs, t, keep[t])
      BY <1>1, NewestMonotone
    <3> QED
      BY <3>1, <3>2, <3>3
  <2>3. RetentionKeepsNewest'
    BY <2>1, NewestKept
  <2> HIDE DEF todo
  <2> QED
    BY <1>1, <2>1, <2>2, <2>3, GateOfPruning DEF RunsInv
<1>4. ASSUME NEW r \in op.todo, RemoveManaged(r) PROVE RunsInv'
  <2>1. RetentionKeepsNewest'
    BY <1>4, NewestSpared DEF RemoveManaged
  <2>2. op.todo \ {r} \subseteq artifacts' /\ op' = Pruning(op.todo \ {r})
    BY <1>1, <1>4 DEF RemoveManaged
  <2> QED
    BY <1>1, <1>2, <1>4, <2>1, <2>2, GateOfPruning DEF RunsInv, RemoveManaged
<1>5. ASSUME NEW r \in op.todo, RemoveFails(r) PROVE RunsInv'
  <2>1. RetentionKeepsNewest'
    BY <1>5, NewestSpared DEF RemoveFails, HalfRemoved
  <2>2. op' = Pruning({})
    BY <1>5 DEF RemoveFails, Pruning
  <2>3. artifacts' \cup debris' \subseteq DOMAIN runs /\ artifacts' \cap debris' = {}
    BY <1>1, <1>5 DEF RemoveFails, HalfRemoved
  <2> QED
    BY <1>5, <2>1, <2>2, <2>3, GateOfPruning DEF RunsInv, RemoveFails
<1> QED
  BY <1>3, <1>4, <1>5 DEF PruneStep

\* Nor does an edit of a policy, which can only lower the floor, or a crash.
LEMMA EnvironmentInvariant ==
  ASSUME BackupRunsAssumption, RunsInv, Environment
  PROVE  RunsInv'
<1> USE DEF store, directories, retention
<1>1. /\ runs \in Seq(Records) /\ artifacts \cup debris \subseteq DOMAIN runs
      /\ artifacts \cap debris = {} /\ op.todo \subseteq artifacts
      /\ torn \in BOOLEAN /\ lock \in BOOLEAN /\ history \in {"usable", "failed"}
      /\ \A t \in BackupTargets : floor[t] \in Nat /\ keep[t] \in Nat /\ floor[t] <= keep[t]
      /\ \A r \in DOMAIN runs : runs[r].targetId \in BackupTargets
  BY Types DEF RunsInv, RunsTypeOK, FloorInv
<1>2. ASSUME NEW t \in BackupTargets, NEW k \in KeepChoices, SetRetention(t, k) PROVE RunsInv'
  <2>1. k \in Nat
    BY DEF BackupRunsAssumption
  <2>2. /\ keep' \in [BackupTargets -> KeepChoices] /\ floor' \in [BackupTargets -> KeepChoices]
        /\ \A u \in BackupTargets : floor'[u] \in Nat /\ floor'[u] <= floor[u] /\ floor'[u] <= keep'[u]
    <3>1. keep \in [BackupTargets -> KeepChoices] /\ floor \in [BackupTargets -> KeepChoices]
      BY DEF RunsInv, RunsTypeOK
    <3>2. /\ keep' = [keep EXCEPT ![t] = k]
          /\ floor' = [floor EXCEPT ![t] = IF k < floor[t] THEN k ELSE floor[t]]
      BY <1>2 DEF SetRetention
    <3> QED
      BY <1>1, <2>1, <3>1, <3>2
  <2>3. UNCHANGED <<store, directories, op>>
    BY <1>2 DEF SetRetention
  <2>4. \A u \in BackupTargets : NewestIn(runs, u, floor'[u]) \subseteq NewestIn(runs, u, floor[u])
    BY <1>1, <2>2, NewestMonotone
  <2>5. RetentionKeepsNewest'
    BY <2>3, <2>4, RetentionByNewestIn, RetentionByNewestInNext DEF RunsInv
  <2>6. PruningInv'
    <3>1. \A r \in op.todo : runs[r].targetId \in BackupTargets
      BY <1>1
    <3> QED
      BY <2>3, <2>4, <3>1, RetentionByNewestIn, RetentionByNewestInNext DEF RunsInv
  <2> QED
    BY <2>2, <2>3, <2>5, <2>6 DEF RunsInv, RunsTypeOK, FloorInv, GateInv, DirectoryInv
<1>3. CASE CrashBetweenWrites
  <2>1. RetentionKeepsNewest'
    BY <1>3, NewestKept DEF CrashBetweenWrites, Restart
  <2> QED
    BY <1>1, <1>3, <2>1, GateAfterRun DEF CrashBetweenWrites, Restart, RunsInv
<1>4. ASSUME NEW t \in BackupTargets, CrashAtStart(t) PROVE RunsInv'
  <2>1. /\ runs' \in {runs, Started(t)} /\ op' = Free /\ UNCHANGED <<directories, retention>>
        /\ torn' \in BOOLEAN /\ lock' \in BOOLEAN /\ history' \in {"usable", "failed"}
    BY <1>1, <1>4 DEF CrashAtStart, CrashInAppend, Restart
  <2>2. /\ runs' \in Seq(Records) /\ \A u, n : NewestIn(runs', u, n) = NewestIn(runs, u, n)
        /\ DOMAIN runs \subseteq DOMAIN runs'
    BY <2>1, HistoryGrows DEF RunsInv
  <2>3. RetentionKeepsNewest'
    BY <2>1, <2>2, NewestKept
  <2> QED
    BY <1>1, <2>1, <2>2, <2>3, GateAfterRun DEF RunsInv
<1>5. ASSUME NEW at \in ClockReadings, CrashAtEnd(at) PROVE RunsInv'
  <2>1. /\ Ending /\ runs' \in {runs, Completed(op.run, op.pc, at)} /\ op' = Free
        /\ UNCHANGED <<directories, retention>>
        /\ torn' \in BOOLEAN /\ lock' \in BOOLEAN /\ history' \in {"usable", "failed"}
    BY <1>1, <1>5 DEF CrashAtEnd, CrashInAppend, Restart
  <2>2. /\ runs' \in Seq(Records) /\ DOMAIN runs' = DOMAIN runs
        /\ \A u \in BackupTargets, n \in Nat :
               NewestIn(runs', u, n) \subseteq NewestIn(runs, u, n) \cup artifacts
    BY <2>1, HistoryEnds
  <2>3. RetentionKeepsNewest'
    BY <2>1, <2>2, NewestKept
  <2> QED
    BY <1>1, <2>1, <2>2, <2>3, GateAfterRun DEF RunsInv
<1>6. ASSUME NEW r \in op.todo, CrashInRemoval(r) PROVE RunsInv'
  <2>1. RetentionKeepsNewest'
    BY <1>6, NewestSpared DEF CrashInRemoval, HalfRemoved, Restart
  <2>2. artifacts' \cup debris' \subseteq DOMAIN runs' /\ artifacts' \cap debris' = {}
    BY <1>1, <1>6 DEF CrashInRemoval, HalfRemoved
  <2> QED
    BY <1>1, <1>6, <2>1, <2>2, GateAfterRun DEF CrashInRemoval, Restart, RunsInv
<1> QED
  BY <1>2, <1>3, <1>4, <1>5, <1>6 DEF Environment
-----------------------------------------------------------------------------
\* It holds at the start, where there is neither a run nor an artifact.
LEMMA InitInvariant ==
  ASSUME BackupRunsAssumption, RunsInit
  PROVE  RunsInv
<1>1. RunsTypeOK
  <2>1. keep \in [BackupTargets -> KeepChoices] /\ floor \in [BackupTargets -> KeepChoices]
    BY DEF RunsInit
  <2>2. runs \in Seq(Records) /\ DOMAIN runs = {}
    BY DEF RunsInit
  <2> QED
    BY <2>1, <2>2 DEF RunsInit, RunsTypeOK, Free, Records
<1>2. runs \in Seq(Records) /\ \A t \in BackupTargets : keep[t] \in Nat
  BY <1>1, Types
<1>3. RetentionKeepsNewest
  <2>1. \A t, n : NewestIn(runs, t, n) = {}
    BY DEF RunsInit, NewestIn, SuccessfulIn
  <2> QED
    BY <2>1, RetentionByNewestIn
<1> QED
  BY <1>1, <1>2, <1>3 DEF RunsInv, RunsInit, FloorInv, GateInv, DirectoryInv, PruningInv, Free

\* And in every state after it.
LEMMA BackupRunsInvariance ==
  ASSUME BackupRunsAssumption
  PROVE  RunsSpec => []RunsInv
<1>1. RunsInit => RunsInv
  BY InitInvariant
<1>2. RunsInv /\ [RunsNext]_runsVars => RunsInv'
  <2> SUFFICES ASSUME RunsInv, [RunsNext]_runsVars PROVE RunsInv'
    OBVIOUS
  <2>1. CASE UNCHANGED runsVars
    <3>1. UNCHANGED <<keep, runs, torn, lock, artifacts, debris, history, op, floor>>
      BY <2>1 DEF runsVars, store, directories, retention
    <3>2. RetentionKeepsNewest' /\ PruningInv'
      BY <3>1, RetentionByNewestIn, RetentionByNewestInNext DEF RunsInv
    <3> QED
      BY <3>1, <3>2 DEF RunsInv, RunsTypeOK, FloorInv, GateInv, DirectoryInv
  <2>2. CASE RunsNext
    BY <2>2, RunStepInvariant, PruneStepInvariant, EnvironmentInvariant DEF RunsNext
  <2> QED
    BY <2>1, <2>2
<1> QED
  BY <1>1, <1>2, PTL DEF RunsSpec

\* The artifacts on disk agree with the run history, the newest successful runs
\* of every target keep theirs through every pruning and every edit of its policy,
\* and a shutdown is told "ready" only when the end of every run is on record
\* (apply-registered-backup-retention.ts, run-registered-backup.ts).
THEOREM BackupArtifactsAreAccounted ==
  ASSUME BackupRunsAssumption
  PROVE  RunsSpec => []ArtifactsAreAccounted
<1>1. RunsInv => ArtifactsAreAccounted
  BY DEF RunsInv, ArtifactsAreAccounted, RunsTypeOK, ReadyMeansRecorded, Readiness, Interrupted
<1> QED
  BY <1>1, BackupRunsInvariance, PTL

\* Whatever a step takes off the disk is the artifact of a run recorded as
\* successful: no pruning, failure or crash destroys what an interrupted or failed
\* run has published (filesystem-backup-artifact-store.ts).
THEOREM OnlySuccessfulArtifactsRemoved ==
  ASSUME BackupRunsAssumption
  PROVE  RunsSpec => OnlySuccessesRemoved
<1>1. RunsInv /\ [RunsNext]_runsVars => \A r \in artifacts \ artifacts' : runs[r].status = "succeeded"
  <2> SUFFICES ASSUME RunsInv, [RunsNext]_runsVars, NEW r \in artifacts \ artifacts'
               PROVE  runs[r].status = "succeeded"
    OBVIOUS
  <2>1. r \in op.todo
    BY DEF RunsNext, RunStep, PruneStep, Environment, runsVars, store, directories, retention,
           StartRun, StartFails, MakeCandidate, Publish, AdapterFails, SuccessNotRecorded,
           FailureNotRecorded, EndRun, EndFails, UnlockFails, PruneBegins, RemoveManaged,
           RemoveFails, HalfRemoved, SetRetention, CrashBetweenWrites, CrashAtStart, CrashAtEnd,
           CrashInAppend, CrashInRemoval, Restart
  <2> QED
    BY <2>1 DEF RunsInv, PruningInv
<1> QED
  BY <1>1, BackupRunsInvariance, PTL DEF RunsSpec, OnlySuccessesRemoved

-----------------------------------------------------------------------------
(* The scheduler. *)

USE DEF NoCursor, NotLoaded
-----------------------------------------------------------------------------
(* Minutes and samples. *)

\* An instant is in the minute whose first and next instant surround it.
LEMMA MinuteOf ==
    ASSUME NEW t \in Nat, NEW m \in Nat, m * TicksPerMinute <= t, t < (m + 1) * TicksPerMinute
    PROVE  Minute(t) = m
<1>1. TicksPerMinute \in Nat \ {0}
  BY BackupSchedulerAssumption
<1>2. /\ t \div TicksPerMinute \in Nat
      /\ TicksPerMinute * (t \div TicksPerMinute) <= t
      /\ t < TicksPerMinute * (t \div TicksPerMinute) + TicksPerMinute
  BY <1>1
<1> QED BY <1>1, <1>2 DEF Minute

\* Division with remainder.
LEMMA Division ==
    ASSUME NEW x \in Int, NEW k \in Nat \ {0}
    PROVE  /\ x \div k \in Int /\ x % k \in 0..(k - 1)
           /\ x = k * (x \div k) + (x % k)
OBVIOUS

\* A multiple has no remainder.
LEMMA MultipleDivides ==
    ASSUME NEW k \in Nat \ {0}, NEW q \in Int, NEW x \in Int, x = k * q
    PROVE  x % k = 0
<1> DEFINE d == x \div k
           r == x % k
<1>1. d \in Int /\ r \in 0..(k - 1) /\ x = k * d + r
  BY Division
<1> HIDE DEF d, r
<1>2. r = k * (q - d)
  BY <1>1
<1>3. q - d <= 0
  <2>1. q - d >= 1 => k * (q - d) >= k
    BY <1>1
  <2> QED BY <1>1, <1>2, <2>1
<1>4. q - d >= 0
  <2>1. q - d <= -1 => k * (q - d) <= -k
    BY <1>1
  <2> QED BY <1>1, <1>2, <2>1
<1>5. q - d = 0
  BY <1>1, <1>3, <1>4
<1>6. r = 0
  BY <1>1, <1>2, <1>5
<1> QED BY <1>6 DEF r

\* Whatever minute lies behind the cursor and is over at the tick's instant, the
\* tick looks at an instant in it.
LEMMA EveryMinuteSampled ==
    ASSUME NEW from \in Instants, NEW to \in Instants, NEW m \in Nat,
           from + 1 < (m + 1) * TicksPerMinute, (m + 1) * TicksPerMinute <= to + 1
    PROVE  \E p \in Samples(from, to) : Minute(p) = m
<1> DEFINE k == TicksPerMinute
<1>0. k \in Nat \ {0} /\ m * k \in Nat /\ (m + 1) * k = m * k + k /\ from \in Nat /\ to \in Nat
  BY BackupSchedulerAssumption DEF Instants
<1>1. CASE m * k <= from
  <2>1. from + 1 \in Samples(from, to)
    BY <1>0, <1>1, BackupSchedulerAssumption DEF Samples, Instants
  <2>2. Minute(from + 1) = m
    BY <1>0, <1>1, MinuteOf
  <2> QED BY <2>1, <2>2
<1>2. CASE from < m * k
  <2>1. PICK x \in Int : x = from + 1 - m * k
    BY <1>0
  <2> DEFINE r == x % k
             p == m * k + r
  <2>2. r \in 0..(k - 1) /\ (p - from - 1) % k = 0
    <3>1. r \in 0..(k - 1) /\ x \div k \in Int /\ x = k * (x \div k) + r
      BY <1>0, Division
    <3>2. p - from - 1 = k * (-(x \div k)) /\ p - from - 1 \in Int /\ -(x \div k) \in Int
      BY <1>0, <2>1, <3>1
    <3> QED BY <1>0, <3>1, <3>2, MultipleDivides
  <2> HIDE DEF r
  <2>3. p \in Nat /\ m * k <= p /\ p < (m + 1) * k /\ from < p /\ p <= to
    BY <1>0, <1>2, <2>2
  <2>4. p \in Samples(from, to)
    <3>1. p \in Instants
      BY <2>3, BackupSchedulerAssumption DEF Instants
    <3> QED BY <2>2, <2>3, <3>1 DEF Samples
  <2> QED BY <2>3, <2>4, MinuteOf
<1> QED BY <1>0, <1>1, <1>2

\* Two samples of one tick are never of the same minute.
LEMMA SamplesApart ==
    ASSUME NEW from \in Int, NEW to \in Int, NEW p \in Samples(from, to), NEW q \in Samples(from, to),
           Minute(p) = Minute(q)
    PROVE  p = q
<1> DEFINE k == TicksPerMinute
           x == p - from - 1
           y == q - from - 1
<1>1. k \in Nat \ {0} /\ p \in Nat /\ q \in Nat /\ x \in Int /\ y \in Int /\ x % k = 0 /\ y % k = 0
  BY BackupSchedulerAssumption DEF Samples, Instants
<1> HIDE DEF k, x, y
<1>2. x = k * (x \div k) /\ y = k * (y \div k) /\ x \div k \in Int /\ y \div k \in Int
  <2>1. x \div k \in Int /\ x = k * (x \div k) + (x % k)
    BY <1>1, Division
  <2>2. y \div k \in Int /\ y = k * (y \div k) + (y % k)
    BY <1>1, Division
  <2>3. k * (x \div k) \in Int /\ k * (y \div k) \in Int
    BY <1>1, <2>1, <2>2
  <2> QED BY <1>1, <2>1, <2>2, <2>3
<1> USE DEF k, x, y
<1>3. /\ p = k * (p \div k) + (p % k) /\ q = k * (q \div k) + (q % k)
      /\ p % k \in 0..(k - 1) /\ q % k \in 0..(k - 1)
  BY <1>1, Division
<1>4. p - q < k /\ q - p < k
  <2>1. p \div k = q \div k
    BY DEF Minute
  <2>2. PICK c \in Int : c = k * (p \div k)
    BY <1>1, <1>3
  <2>3. /\ p = c + (p % k) /\ q = c + (q % k) /\ p % k \in Nat /\ q % k \in Nat
        /\ p % k < k /\ q % k < k
    BY <1>1, <1>3, <2>1, <2>2
  <2> HIDE DEF k
  <2>4. PICK u \in Nat, v \in Nat : p = c + u /\ q = c + v /\ u < k /\ v < k
    BY <2>3
  <2> QED BY <1>1, <2>4
<1>5. PICK d \in Int : d = (x \div k) - (y \div k)
  BY <1>2
<1>6. p - q = k * d
  BY <1>1, <1>2, <1>5
<1>7. CASE d = 0
  BY <1>1, <1>6, <1>7
<1>8. CASE d >= 1
  <2>1. k * d >= k
    BY <1>1, <1>5, <1>8
  <2> QED BY <1>1, <1>4, <1>6, <2>1
<1>9. CASE d <= -1
  <2>1. k * d <= -k
    BY <1>1, <1>5, <1>9
  <2> QED BY <1>1, <1>4, <1>6, <2>1
<1> QED BY <1>5, <1>7, <1>8, <1>9

-----------------------------------------------------------------------------
(* The order of the occurrences. *)

\* Occurrences are pairs of naturals, and their order is a strict total one.
LEMMA BeforeFacts ==
    ASSUME NEW o \in Occurrences, NEW p \in Occurrences, NEW q \in Occurrences
    PROVE  /\ o[1] \in Nat \ {0} /\ o[2] \in Nat /\ o = <<o[1], o[2]>>
           /\ ~Before(o, o)
           /\ Before(o, p) /\ Before(p, q) => Before(o, q)
           /\ o = p \/ Before(o, p) \/ Before(p, o)
<1>1. \A r \in Occurrences : r[1] \in Nat \ {0} /\ r[2] \in Nat /\ r = <<r[1], r[2]>>
  <2> SUFFICES ASSUME NEW r \in Occurrences
               PROVE  r[1] \in Nat \ {0} /\ r[2] \in Nat /\ r = <<r[1], r[2]>>
      OBVIOUS
  <2>1. PICK t \in Targets, i \in Instants : r = <<t, i>>
    BY DEF Occurrences
  <2> QED BY <2>1, BackupSchedulerAssumption DEF Instants
<1> QED BY <1>1 DEF Before

\* It is one occurrence's turn at a time.
LEMMA OneTurn ==
    ASSUME tick.due \subseteq Occurrences,
           NEW o, NEW p, Turn(o), Turn(p)
    PROVE  o = p
BY BeforeFacts DEF Turn

\* All occurrences are finitely many.
LEMMA OccurrencesFinite == IsFiniteSet(Occurrences)
<1>1. IsFiniteSet(Instants) /\ IsFiniteSet(Targets)
  BY FS_Interval, BackupSchedulerAssumption DEF Instants
<1> QED BY <1>1, FS_Product DEF Occurrences

\* A tick takes no more occurrences than its limit.
LEMMA FirstOfBounded ==
    ASSUME NEW all \in SUBSET Occurrences
    PROVE  FirstOf(all) \subseteq all /\ Cardinality(FirstOf(all)) <= Limit
<1> DEFINE earlier(o) == {p \in all : Before(p, o)}
           S == FirstOf(all)
           T == 0..(Limit - 1)
           rank == [o \in S |-> Cardinality(earlier(o))]
<1>1. S \subseteq all /\ IsFiniteSet(all) /\ IsFiniteSet(S)
  BY OccurrencesFinite, FS_Subset DEF FirstOf
<1>2. \A o : IsFiniteSet(earlier(o)) /\ Cardinality(earlier(o)) \in Nat
  <2>1. \A o : earlier(o) \in SUBSET all
    OBVIOUS
  <2> QED BY <1>1, <2>1, FS_Subset, FS_CardinalityType
<1>3. IsFiniteSet(T) /\ Cardinality(T) = Limit /\ Cardinality(S) \in Nat
  <2>1. 0 \in Int /\ Limit - 1 \in Int /\ ~(0 > Limit - 1) /\ Limit - 1 - 0 + 1 = Limit
    BY BackupSchedulerAssumption
  <2>2. IsFiniteSet(T) /\ Cardinality(T) = Limit
    BY <2>1, FS_Interval
  <2>3. Cardinality(S) \in Nat
    BY <1>1, FS_CardinalityType
  <2> QED BY <2>2, <2>3
<1>4. rank \in [S -> T]
  BY <1>2, BackupSchedulerAssumption DEF FirstOf
<1>5. ASSUME NEW x \in S, NEW y \in S, Before(x, y) PROVE rank[x] # rank[y]
  <2>1. earlier(x) \cup {x} \in SUBSET earlier(y) /\ x \notin earlier(x)
    BY <1>1, <1>5, BeforeFacts
  <2>2. Cardinality(earlier(x) \cup {x}) = Cardinality(earlier(x)) + 1
    BY <1>2, <2>1, FS_AddElement
  <2>3. Cardinality(earlier(x) \cup {x}) <= Cardinality(earlier(y))
    BY <1>2, <2>1, FS_Subset
  <2> HIDE DEF earlier
  <2> QED BY <1>2, <2>2, <2>3
<1>6. \A x, y \in S : x # y => rank[x] # rank[y]
  BY <1>1, <1>5, BeforeFacts
<1> HIDE DEF S, T, rank
<1>7. ~(Cardinality(T) < Cardinality(S))
  BY <1>1, <1>3, <1>4, <1>6, FS_PigeonHole
<1> QED BY <1>1, <1>3, <1>7, BackupSchedulerAssumption DEF S

-----------------------------------------------------------------------------
(* The claim file. *)

Lines == Occurrences \cup BadLines

\* No occurrence looks like a damaged line.
LEMMA BadLinesApart == Occurrences \cap BadLines = {}
BY BackupSchedulerAssumption DEF Occurrences, BadLines, TornLine, BadLine

\* What an append leaves is a sequence of lines.
LEMMA AppendTypes ==
    ASSUME claims \in Seq(Lines), NEW line \in Lines
    PROVE  Appended(line) \in Seq(Lines)
BY DEF Appended, Last, Lines, BadLines

\* A file that can be read after an append could be read before it, and has
\* gained exactly the line, a claim that was not in it.
LEMMA AppendKeeps ==
    ASSUME claims \in Seq(Lines), NEW line \in Lines, claims' = Appended(line), Readable'
    PROVE  /\ Readable /\ ToSet(claims') = ToSet(claims) \cup {line}
           /\ line \notin ToSet(claims) /\ line \notin BadLines
<1>1. ~(claims # <<>> /\ Last(claims) = TornLine)
  <2> SUFFICES ASSUME claims # <<>>, Last(claims) = TornLine PROVE FALSE
    OBVIOUS
  <2>1. Len(claims) \in DOMAIN claims'
    BY DEF Appended
  <2>2. claims'[Len(claims)] \in BadLines
    BY DEF Appended, BadLines
  <2> QED BY <2>1, <2>2 DEF Readable, Stops
<1>2. claims' = Append(claims, line)
  BY <1>1 DEF Appended
<1>3. /\ DOMAIN claims = 1..Len(claims) /\ DOMAIN claims' = 1..(Len(claims) + 1)
      /\ \A i \in DOMAIN claims : claims'[i] = claims[i]
      /\ claims'[Len(claims) + 1] = line /\ Len(claims) \in Nat
  BY <1>2
<1>4. Readable
  BY <1>3 DEF Readable, Stops
<1>5. line \notin BadLines
  BY <1>3 DEF Readable, Stops
<1>6. ASSUME NEW i \in DOMAIN claims PROVE claims[i] # line
  BY <1>3 DEF Readable, Stops
<1> QED BY <1>3, <1>4, <1>5, <1>6 DEF ToSet

\* The lines read before the first damaged or repeated one are claims of the file.
LEMMA LoadableClaims ==
    ASSUME claims \in Seq(Lines)
    PROVE  ClaimsLoadable \subseteq ToSet(claims) \cap Occurrences
BY DEF ClaimsLoadable, Stops, ToSet, Lines

-----------------------------------------------------------------------------
(* Types. *)

USE DEF files, memory, policies, ghosts, TickEnds

\* What the tick becomes after an occurrence.
LEMMA NextTick ==
    ASSUME TypeOK, NEW o \in tick.due
    PROVE  /\ NextOccurrence(o) \in Ticks
           /\ NextOccurrence(o).pc = IF tick.due = {o} THEN "write" ELSE "claim"
           /\ NextOccurrence(o).at = tick.at /\ NextOccurrence(o).cut = tick.cut
           /\ NextOccurrence(o).due = tick.due \ {o}
           /\ Cardinality(tick.due \ {o}) <= Limit
<1>1. tick \in Ticks
  BY DEF TypeOK
<1>2. /\ NextOccurrence(o).pc = IF tick.due = {o} THEN "write" ELSE "claim"
      /\ NextOccurrence(o).at = tick.at /\ NextOccurrence(o).cut = tick.cut
      /\ NextOccurrence(o).due = tick.due \ {o} /\ NextOccurrence(o) \in Ticks
  BY <1>1 DEF NextOccurrence, Ticks
<1>3. IsFiniteSet(tick.due) /\ tick.due \ {o} \in SUBSET tick.due
  BY <1>1, OccurrencesFinite, FS_Subset DEF Ticks
<1>4. /\ Cardinality(tick.due \ {o}) <= Cardinality(tick.due)
      /\ Cardinality(tick.due \ {o}) \in Nat /\ Cardinality(tick.due) \in Nat
  BY <1>3, FS_Subset, FS_CardinalityType
<1> QED BY <1>2, <1>4, BackupSchedulerAssumption DEF TypeOK

\* What it is with another step in place.
LEMMA PhaseOfTick ==
    ASSUME TypeOK, NEW pc \in {"rest", "claim", "run", "running", "write", "rename"}
    PROVE  /\ [tick EXCEPT !.pc = pc] \in Ticks
           /\ [tick EXCEPT !.pc = pc].pc = pc /\ [tick EXCEPT !.pc = pc].at = tick.at
           /\ [tick EXCEPT !.pc = pc].due = tick.due /\ [tick EXCEPT !.pc = pc].cut = tick.cut
BY DEF TypeOK, Ticks

\* A tick at rest.
LEMMA RestingTick ==
    /\ Resting \in Ticks /\ Resting.pc = "rest" /\ Resting.due = {} /\ Resting.cut = {}
    /\ Cardinality({}) <= Limit
<1>1. Cardinality({}) <= Limit
  BY FS_EmptySet, BackupSchedulerAssumption
<1> QED BY <1>1, BackupSchedulerAssumption DEF Resting, Ticks, Instants

\* What a tick finds to do.
LEMMA BeginningTick ==
    ASSUME TypeOK, NEW at \in Instants, TickBegins(at)
    PROVE  /\ tick' \in Ticks /\ tick'.at = at /\ tick'.pc \in {"write", "claim"}
           /\ tick'.pc = "claim" <=> tick'.due # {}
           /\ Cardinality(tick'.due) <= Limit
           /\ CursorRead # NoCursor => tick'.due \cup tick'.cut = DueOccurrences(CursorRead, at)
<1> DEFINE all == IF CursorRead = NoCursor THEN {} ELSE DueOccurrences(CursorRead, at)
<1>1. all \in SUBSET Occurrences
  BY DEF DueOccurrences, Samples, Occurrences, TypeOK
<1>2. FirstOf(all) \subseteq all /\ Cardinality(FirstOf(all)) <= Limit
  BY <1>1, FirstOfBounded
<1>3. tick' = [pc |-> IF FirstOf(all) = {} THEN "write" ELSE "claim", at |-> at,
               due |-> FirstOf(all), cut |-> all \ FirstOf(all)]
  BY DEF TickBegins
<1>4. CursorRead # NoCursor => all = DueOccurrences(CursorRead, at)
  OBVIOUS
<1> HIDE DEF all
<1> QED BY <1>1, <1>2, <1>3, <1>4 DEF Ticks

\* The initial state is well typed.
LEMMA TypeInit == Init => TypeOK
<1> SUFFICES ASSUME Init PROVE TypeOK
    OBVIOUS
<1>1. /\ tick \in Ticks /\ tick.pc = "rest" /\ tick.due = {}
      /\ Cardinality(tick.due) <= Limit
  BY RestingTick DEF Init
<1>2. claims \in Seq(Occurrences \cup BadLines)
  BY DEF Init
<1>3. executions \in [Occurrences -> Nat]
  BY DEF Init
<1> QED BY <1>1, <1>2, <1>3 DEF Init, TypeOK

\* Every step keeps the types.
LEMMA TypeStep == TypeOK /\ [Next]_vars => TypeOK'
<1> SUFFICES ASSUME TypeOK, [Next]_vars PROVE TypeOK'
    OBVIOUS
<1>1. ASSUME NEW at \in Instants, TickBegins(at) PROVE TypeOK'
  <2>1. cursorSeen' \in Instants \cup {NoCursor, NotLoaded}
    BY <1>1 DEF TickBegins, CursorRead, TypeOK
  <2> QED BY <1>1, <2>1, BeginningTick DEF TickBegins, TypeOK
<1>2. CASE CursorLoadFails
  BY <1>2 DEF CursorLoadFails, TypeOK
<1>3. CASE ClaimsLoadFails
  <2>1. claimsSeen' \subseteq Occurrences
    BY <1>3, LoadableClaims DEF ClaimsLoadFails, TypeOK, Lines
  <2> QED BY <1>3, <2>1, RestingTick DEF ClaimsLoadFails, TypeOK
<1>4. ClaimsRead \subseteq Occurrences
  BY LoadableClaims DEF ClaimsRead, TypeOK, Lines
<1>5. ASSUME NEW o \in tick.due, ClaimDuplicate(o) PROVE TypeOK'
  BY <1>4, <1>5, NextTick DEF ClaimDuplicate, TypeOK
<1>6. ASSUME NEW o \in tick.due, ClaimOccurrence(o) PROVE TypeOK'
  <2>1. o \in Occurrences /\ tick.pc = "claim"
    BY <1>6 DEF ClaimOccurrence, Claiming, TypeOK, Ticks
  <2>2. claims' \in Seq(Occurrences \cup BadLines) /\ claimsSeen' \subseteq Occurrences
    BY <1>4, <1>6, <2>1, AppendTypes DEF ClaimOccurrence, TypeOK, Lines
  <2> QED BY <1>6, <2>1, <2>2, PhaseOfTick DEF ClaimOccurrence, TypeOK
<1>7. ASSUME NEW o \in tick.due, ClaimFails(o) PROVE TypeOK'
  <2>1. o \in Lines /\ TornLine \in Lines
    BY DEF TypeOK, Ticks, Lines, BadLines
  <2>2. claims' \in Seq(Occurrences \cup BadLines)
    BY <1>7, <2>1, AppendTypes DEF ClaimFails, TypeOK, Lines
  <2> QED BY <1>4, <1>7, <2>2, RestingTick DEF ClaimFails, TypeOK
<1>8. ASSUME NEW o \in tick.due, RunScheduled(o) PROVE TypeOK'
  <2>1. executions' \in [Occurrences -> Nat]
    <3>1. o \in Occurrences
      BY <1>8 DEF TypeOK, Ticks
    <3> QED BY <1>8, <3>1 DEF RunScheduled, TypeOK
  <2> QED BY <1>8, <2>1, PhaseOfTick DEF RunScheduled, TypeOK
<1>9. CASE RunRefused \/ RunFails \/ CandidateRefused
  BY <1>9, RestingTick DEF RunRefused, RunFails, CandidateRefused, TypeOK
<1>10. ASSUME NEW o \in tick.due, RunSucceeds(o) PROVE TypeOK'
  BY <1>10, NextTick DEF RunSucceeds, TypeOK
<1>11. CASE WriteCandidate
  BY <1>11, PhaseOfTick DEF WriteCandidate, TypeOK
<1>12. CASE RenameCandidate
  BY <1>12, RestingTick DEF RenameCandidate, TypeOK, Ticks
<1>13. ASSUME NEW t \in Targets, SetSchedule(t) PROVE TypeOK'
  BY <1>13 DEF SetSchedule, TypeOK
<1>14. CASE Crash
  BY <1>14, RestingTick DEF Crash, TypeOK
<1>15. CASE UNCHANGED vars
  BY <1>15 DEF vars, TypeOK
<1> QED
  BY <1>1, <1>2, <1>3, <1>5, <1>6, <1>7, <1>8, <1>9, <1>10, <1>11, <1>12, <1>13, <1>14, <1>15
     DEF Next

-----------------------------------------------------------------------------
(* While the claim file can be read, nothing is run twice. *)

KeptInv == MemoryInv /\ ReadableClaimsAreKept

\* Steps that write no claim and run nothing, and after which the memory holds
\* claims of the file only.
LEMMA KeptFrame ==
    ASSUME KeptInv, UNCHANGED <<claims, executions>>,
           Readable => claimsSeen' \subseteq ToSet(claims),
           tick'.pc \notin {"run", "running"} \/ tick' = tick
    PROVE  KeptInv'
<1>1. Readable' = Readable /\ ToSet(claims') = ToSet(claims)
  BY DEF Readable, Stops
<1>2. MemoryInv'
  BY <1>1 DEF KeptInv, MemoryInv, Turn
<1>3. ReadableClaimsAreKept'
  BY <1>1 DEF KeptInv, ReadableClaimsAreKept
<1> QED BY <1>2, <1>3 DEF KeptInv

\* At first nothing is claimed.
LEMMA KeptInit == Init => KeptInv
BY RestingTick DEF Init, KeptInv, MemoryInv, ReadableClaimsAreKept

\* Every step keeps the memory a part of the file, and what is run claimed.
LEMMA KeptStep == TypeOK /\ KeptInv /\ [Next]_vars => KeptInv'
<1> SUFFICES ASSUME TypeOK, KeptInv, [Next]_vars PROVE KeptInv'
    OBVIOUS
<1>0. /\ claims \in Seq(Lines) /\ tick.due \subseteq Occurrences /\ executions \in [Occurrences -> Nat]
      /\ Readable => claimsSeen \subseteq ToSet(claims)
  BY DEF TypeOK, Ticks, Lines, KeptInv, MemoryInv
<1>1. ASSUME NEW at \in Instants, TickBegins(at) PROVE KeptInv'
  <2>1. tick'.pc \in {"write", "claim"}
    BY <1>1, BeginningTick
  <2> QED BY <1>0, <1>1, <2>1, KeptFrame DEF TickBegins
<1>2. CASE CursorLoadFails
  BY <1>0, <1>2, KeptFrame DEF CursorLoadFails
<1>3. CASE ClaimsLoadFails
  BY <1>0, <1>3, RestingTick, LoadableClaims, KeptFrame DEF ClaimsLoadFails
<1>4. Readable => ClaimsRead \subseteq ToSet(claims)
  BY <1>0, LoadableClaims DEF ClaimsRead
<1>5. ASSUME NEW o \in tick.due, ClaimDuplicate(o) PROVE KeptInv'
  <2>1. tick'.pc \in {"write", "claim"}
    BY <1>5, NextTick DEF ClaimDuplicate
  <2> QED BY <1>4, <1>5, <2>1, KeptFrame DEF ClaimDuplicate
<1>6. ASSUME NEW o \in tick.due, ClaimOccurrence(o) PROVE KeptInv'
  <2>1. o \in Occurrences /\ o \in Lines /\ claims' = Appended(o) /\ Turn(o) /\ tick.pc = "claim"
    BY <1>0, <1>6 DEF ClaimOccurrence, Claiming, Lines
  <2>2. tick'.pc = "run" /\ tick'.due = tick.due
    BY <1>6, PhaseOfTick DEF ClaimOccurrence
  <2>3. SUFFICES ASSUME Readable' PROVE KeptInv'
    BY DEF KeptInv, MemoryInv, ReadableClaimsAreKept
  <2>4. Readable /\ ToSet(claims') = ToSet(claims) \cup {o} /\ o \notin ToSet(claims)
    BY <1>0, <2>1, <2>3, AppendKeeps
  <2>5. \A p \in Occurrences : executions[p] <= 1 /\ (executions[p] = 1 => p \in ToSet(claims))
    BY <2>4 DEF KeptInv, ReadableClaimsAreKept
  <2>6. executions[o] = 0
    BY <1>0, <2>1, <2>4, <2>5
  <2>7. ASSUME NEW p \in tick'.due, Turn(p)' PROVE p = o
    BY <1>0, <2>1, <2>2, <2>7, OneTurn DEF Turn
  <2>8. MemoryInv'
    BY <1>4, <1>6, <2>2, <2>4, <2>6, <2>7 DEF ClaimOccurrence, MemoryInv
  <2>9. ReadableClaimsAreKept'
    BY <1>6, <2>4, <2>5 DEF ClaimOccurrence, ReadableClaimsAreKept
  <2> QED BY <2>8, <2>9 DEF KeptInv
<1>7. ASSUME NEW o \in tick.due, ClaimFails(o) PROVE KeptInv'
  <2>1. /\ o \in Lines /\ TornLine \in Lines /\ tick' = Resting /\ claimsSeen' = ClaimsRead
        /\ executions' = executions
    BY <1>0, <1>7 DEF ClaimFails, Lines, BadLines
  <2>2. CASE claims' = claims
    BY <1>4, <2>1, <2>2, RestingTick, KeptFrame
  <2>3. ASSUME NEW line \in Lines, claims' = Appended(line) PROVE KeptInv'
    <3>1. SUFFICES ASSUME Readable' PROVE KeptInv'
      BY DEF KeptInv, MemoryInv, ReadableClaimsAreKept
    <3>2. Readable /\ ToSet(claims') = ToSet(claims) \cup {line}
      BY <1>0, <2>3, <3>1, AppendKeeps
    <3>3. MemoryInv'
      BY <1>4, <2>1, <3>2, RestingTick DEF MemoryInv
    <3>4. ReadableClaimsAreKept'
      BY <2>1, <3>2 DEF KeptInv, ReadableClaimsAreKept
    <3> QED BY <3>3, <3>4 DEF KeptInv
  <2> QED BY <1>7, <2>1, <2>2, <2>3 DEF ClaimFails
<1>8. ASSUME NEW o \in tick.due, RunScheduled(o) PROVE KeptInv'
  <2>1. /\ tick'.pc = "running" /\ tick'.due = tick.due /\ tick.pc = "run" /\ Turn(o)
        /\ o \in Occurrences /\ UNCHANGED <<claims, claimsSeen>>
        /\ executions' = [executions EXCEPT ![o] = @ + 1]
    BY <1>0, <1>8, PhaseOfTick DEF RunScheduled
  <2>2. Readable' = Readable /\ ToSet(claims') = ToSet(claims)
    BY <2>1 DEF Readable, Stops
  <2>3. MemoryInv'
    BY <2>1, <2>2 DEF KeptInv, MemoryInv, Turn
  <2>4. Readable => o \in ToSet(claims) /\ executions[o] = 0
    BY <2>1 DEF KeptInv, MemoryInv
  <2>5. ASSUME Readable, NEW p \in Occurrences
        PROVE  executions'[p] <= 1 /\ (executions'[p] = 1 => p \in ToSet(claims))
    <3>1. CASE p = o
      BY <1>0, <2>1, <2>4, <2>5, <3>1
    <3>2. CASE p # o
      BY <1>0, <2>1, <2>5, <3>2 DEF KeptInv, ReadableClaimsAreKept
    <3> QED BY <3>1, <3>2
  <2>6. ReadableClaimsAreKept'
    BY <2>2, <2>5 DEF ReadableClaimsAreKept
  <2> QED BY <2>3, <2>6 DEF KeptInv
<1>9. CASE RunRefused \/ RunFails \/ CandidateRefused
  BY <1>0, <1>9, RestingTick, KeptFrame DEF RunRefused, RunFails, CandidateRefused
<1>10. ASSUME NEW o \in tick.due, RunSucceeds(o) PROVE KeptInv'
  <2>1. tick'.pc \in {"write", "claim"}
    BY <1>10, NextTick DEF RunSucceeds
  <2> QED BY <1>0, <1>10, <2>1, KeptFrame DEF RunSucceeds
<1>11. CASE WriteCandidate
  BY <1>0, <1>11, PhaseOfTick, KeptFrame DEF WriteCandidate
<1>12. CASE RenameCandidate
  BY <1>0, <1>12, RestingTick, KeptFrame DEF RenameCandidate
<1>13. ASSUME NEW t \in Targets, SetSchedule(t) PROVE KeptInv'
  BY <1>0, <1>13, KeptFrame DEF SetSchedule
<1>14. CASE Crash
  BY <1>0, <1>14, RestingTick, KeptFrame DEF Crash
<1>15. CASE UNCHANGED vars
  BY <1>0, <1>15, KeptFrame DEF vars
<1> QED
  BY <1>1, <1>2, <1>3, <1>5, <1>6, <1>7, <1>8, <1>9, <1>10, <1>11, <1>12, <1>13, <1>14, <1>15
     DEF Next

-----------------------------------------------------------------------------
(* As long as no load of the claims has failed, nothing is run twice. *)

RecallKept == RecallInv /\ RerunNeedsFailedLoad

\* A file that can be read is loaded as a whole.
LEMMA ReadableIsLoadable ==
    ASSUME claims \in Seq(Lines), Readable
    PROVE  ClaimsLoadable = ToSet(claims)
<1>1. \A i \in DOMAIN claims : 1..i \subseteq DOMAIN claims
  OBVIOUS
<1> QED BY <1>1 DEF Readable, ClaimsLoadable, ToSet

\* What was run is in the memory a claim is decided on.
LEMMA RunIsRead ==
    ASSUME claims \in Seq(Lines), RecallInv, ~loadFailed, Claiming, NEW o \in Occurrences, executions[o] > 0
    PROVE  o \in ClaimsRead
BY ReadableIsLoadable DEF RecallInv, Claiming, ClaimsRead

\* Steps that write no claim and run nothing, and that forget a memory or keep
\* it, adding at most what it reads.
LEMMA RecallFrame ==
    ASSUME claims \in Seq(Lines), RecallKept, UNCHANGED <<claims, executions>>, loadFailed' = loadFailed,
           \/ claimsLoaded' = FALSE
           \/ claimsLoaded' = claimsLoaded /\ claimsSeen' = claimsSeen
           \/ Claiming /\ claimsLoaded' = TRUE /\ claimsSeen' = ClaimsRead,
           \/ tick'.pc \notin {"run", "running"}
           \/ tick' = tick /\ claimsLoaded' = claimsLoaded /\ claimsSeen' = claimsSeen
    PROVE  RecallKept'
<1>1. Readable' = Readable /\ ToSet(claims') = ToSet(claims)
  BY DEF Readable, Stops
<1>2. RerunNeedsFailedLoad'
  BY DEF RecallKept, RerunNeedsFailedLoad, OccurrenceRunsOnce
<1>3. RecallInv'
  <2> SUFFICES ASSUME ~loadFailed PROVE RecallInv'
    BY DEF RecallInv
  <2>1. ASSUME NEW o \in Occurrences, executions[o] > 0, claimsLoaded' PROVE o \in claimsSeen'
    BY <2>1, RunIsRead DEF RecallKept, RecallInv
  <2> QED BY <1>1, <2>1 DEF RecallKept, RecallInv, Turn
<1> QED BY <1>2, <1>3 DEF RecallKept

\* At first nothing was run.
LEMMA RecallInit == Init => RecallKept
BY RestingTick DEF Init, RecallKept, RecallInv, RerunNeedsFailedLoad, OccurrenceRunsOnce

\* Every step keeps in mind what was run, or is a load that fails.
LEMMA RecallStep == TypeOK /\ KeptInv /\ RecallKept /\ [Next]_vars => RecallKept'
<1> SUFFICES ASSUME TypeOK, KeptInv, RecallKept, [Next]_vars PROVE RecallKept'
    OBVIOUS
<1>0. /\ claims \in Seq(Lines) /\ tick.due \subseteq Occurrences /\ executions \in [Occurrences -> Nat]
  BY DEF TypeOK, Ticks, Lines
<1>1. ASSUME NEW at \in Instants, TickBegins(at) PROVE RecallKept'
  <2>1. tick'.pc \in {"write", "claim"}
    BY <1>1, BeginningTick
  <2> QED BY <1>1, <2>1, <1>0, RecallFrame DEF TickBegins
<1>2. CASE CursorLoadFails
  BY <1>2, <1>0, RecallFrame DEF CursorLoadFails
<1>3. CASE ClaimsLoadFails
  BY <1>3 DEF ClaimsLoadFails, RecallKept, RecallInv, RerunNeedsFailedLoad
<1>5. ASSUME NEW o \in tick.due, ClaimDuplicate(o) PROVE RecallKept'
  <2>1. tick'.pc \in {"write", "claim"}
    BY <1>5, NextTick DEF ClaimDuplicate
  <2> QED BY <1>5, <2>1, <1>0, RecallFrame DEF ClaimDuplicate
<1>6. ASSUME NEW o \in tick.due, ClaimOccurrence(o) PROVE RecallKept'
  <2>1. /\ o \in Occurrences /\ o \in Lines /\ claims' = Appended(o) /\ Turn(o) /\ Claiming
        /\ o \notin ClaimsRead /\ claimsLoaded' = TRUE /\ claimsSeen' = ClaimsRead \cup {o}
        /\ UNCHANGED <<executions, loadFailed>>
    BY <1>0, <1>6 DEF ClaimOccurrence, Lines
  <2>2. tick'.pc = "run" /\ tick'.due = tick.due
    BY <1>6, PhaseOfTick DEF ClaimOccurrence
  <2>3. RerunNeedsFailedLoad'
    BY <2>1 DEF RecallKept, RerunNeedsFailedLoad, OccurrenceRunsOnce
  <2>4. SUFFICES ASSUME ~loadFailed PROVE RecallInv'
    BY <2>1, <2>3 DEF RecallKept, RecallInv
  <2>5. \A p \in Occurrences : executions[p] > 0 => p \in ClaimsRead
    BY <1>0, <2>1, <2>4, RunIsRead DEF RecallKept
  <2>6. executions[o] = 0
    BY <1>0, <2>1, <2>5
  <2>7. ASSUME NEW p \in tick'.due, Turn(p)' PROVE p = o
    BY <1>0, <2>1, <2>2, <2>7, OneTurn DEF Turn
  <2>8. Readable' => Readable /\ ToSet(claims') = ToSet(claims) \cup {o}
    BY <1>0, <2>1, AppendKeeps
  <2> QED BY <2>1, <2>2, <2>4, <2>5, <2>6, <2>7, <2>8 DEF RecallKept, RecallInv
<1>7. ASSUME NEW o \in tick.due, ClaimFails(o) PROVE RecallKept'
  <2>1. /\ o \in Lines /\ TornLine \in Lines /\ tick' = Resting /\ claimsSeen' = ClaimsRead
        /\ claimsLoaded' = TRUE /\ Claiming /\ UNCHANGED <<executions, loadFailed>>
    BY <1>0, <1>7 DEF ClaimFails, Lines, BadLines
  <2>2. CASE claims' = claims
    BY <1>0, <2>1, <2>2, RestingTick, RecallFrame
  <2>3. ASSUME NEW line \in Lines, claims' = Appended(line) PROVE RecallKept'
    <3>1. RerunNeedsFailedLoad'
      BY <2>1 DEF RecallKept, RerunNeedsFailedLoad, OccurrenceRunsOnce
    <3>2. SUFFICES ASSUME ~loadFailed PROVE RecallInv'
      BY <2>1, <3>1 DEF RecallKept, RecallInv
    <3>3. \A p \in Occurrences : executions[p] > 0 => p \in ClaimsRead
      BY <1>0, <2>1, <3>2, RunIsRead DEF RecallKept
    <3>4. Readable' => Readable /\ ToSet(claims') = ToSet(claims) \cup {line}
      BY <1>0, <2>3, AppendKeeps
    <3> QED BY <2>1, <3>2, <3>3, <3>4, RestingTick DEF RecallKept, RecallInv
  <2> QED BY <1>7, <2>1, <2>2, <2>3 DEF ClaimFails
<1>8. ASSUME NEW o \in tick.due, RunScheduled(o) PROVE RecallKept'
  <2>1. /\ tick'.pc = "running" /\ tick'.due = tick.due /\ tick.pc = "run" /\ Turn(o)
        /\ o \in Occurrences /\ UNCHANGED <<claims, claimsLoaded, claimsSeen, loadFailed>>
        /\ executions' = [executions EXCEPT ![o] = @ + 1]
    BY <1>0, <1>8, PhaseOfTick DEF RunScheduled
  <2>2. Readable' = Readable /\ ToSet(claims') = ToSet(claims)
    BY <2>1 DEF Readable, Stops
  <2>3. SUFFICES ASSUME ~loadFailed PROVE RecallKept'
    BY <2>1 DEF RecallKept, RecallInv, RerunNeedsFailedLoad
  <2>4. executions[o] = 0 /\ claimsLoaded /\ o \in claimsSeen
    BY <2>1, <2>3 DEF RecallKept, RecallInv
  <2>5. OccurrenceRunsOnce'
    BY <1>0, <2>1, <2>3, <2>4 DEF RecallKept, RerunNeedsFailedLoad, OccurrenceRunsOnce
  <2>6. Readable => o \in ToSet(claims)
    BY <2>1 DEF KeptInv, MemoryInv
  <2>7. ASSUME NEW p \in Occurrences, executions'[p] > 0
        PROVE  p \in claimsSeen /\ (Readable => p \in ToSet(claims))
    <3>1. CASE p = o
      BY <2>4, <2>6, <3>1
    <3>2. CASE p # o
      BY <1>0, <2>1, <2>3, <2>4, <2>7, <3>2 DEF RecallKept, RecallInv
    <3> QED BY <3>1, <3>2
  <2>8. ASSUME NEW p \in tick'.due, Turn(p)' PROVE p = o
    BY <1>0, <2>1, <2>8, OneTurn DEF Turn
  <2>9. RecallInv'
    BY <2>1, <2>2, <2>4, <2>7, <2>8 DEF RecallInv
  <2> QED BY <2>5, <2>9 DEF RecallKept, RerunNeedsFailedLoad
<1>9. CASE RunRefused \/ RunFails \/ CandidateRefused
  BY <1>9, RestingTick, <1>0, RecallFrame DEF RunRefused, RunFails, CandidateRefused
<1>10. ASSUME NEW o \in tick.due, RunSucceeds(o) PROVE RecallKept'
  <2>1. tick'.pc \in {"write", "claim"}
    BY <1>10, NextTick DEF RunSucceeds
  <2> QED BY <1>10, <2>1, <1>0, RecallFrame DEF RunSucceeds
<1>11. CASE WriteCandidate
  BY <1>11, PhaseOfTick, <1>0, RecallFrame DEF WriteCandidate
<1>12. CASE RenameCandidate
  BY <1>12, RestingTick, <1>0, RecallFrame DEF RenameCandidate
<1>13. ASSUME NEW t \in Targets, SetSchedule(t) PROVE RecallKept'
  BY <1>13, <1>0, RecallFrame DEF SetSchedule
<1>14. CASE Crash
  BY <1>14, RestingTick, <1>0, RecallFrame DEF Crash
<1>15. CASE UNCHANGED vars
  BY <1>15, <1>0, RecallFrame DEF vars
<1> QED
  BY <1>1, <1>2, <1>3, <1>5, <1>6, <1>7, <1>8, <1>9, <1>10, <1>11, <1>12, <1>13, <1>14, <1>15
     DEF Next

-----------------------------------------------------------------------------
(* A tick samples each window once. *)

\* What a tick has left to do are samples of its interval.
LEMMA SampledInit == Init => SampledInv
BY RestingTick DEF Init, SampledInv

\* A tick only ever loses occurrences, once it has begun.
LEMMA SampledStep == TypeOK /\ SampledInv /\ [Next]_vars => SampledInv'
<1> SUFFICES ASSUME TypeOK, SampledInv, [Next]_vars PROVE SampledInv'
    OBVIOUS
<1>1. ASSUME NEW at \in Instants, TickBegins(at) PROVE SampledInv'
  <2>1. CASE CursorRead = NoCursor
    <3>1. tick'.due = FirstOf({})
      BY <1>1, <2>1 DEF TickBegins
    <3> QED BY <3>1 DEF SampledInv, FirstOf
  <2>2. CASE CursorRead # NoCursor
    <3>1. tick'.due \subseteq DueOccurrences(CursorRead, at) /\ tick'.at = at /\ cursorSeen' = CursorRead
      BY <1>1, <2>2, BeginningTick DEF TickBegins
    <3> QED BY <3>1 DEF SampledInv, DueOccurrences
  <2> QED BY <2>1, <2>2
<1>2. ASSUME tick'.due = {} PROVE SampledInv'
  BY <1>2 DEF SampledInv
<1>3. ASSUME tick'.due \subseteq tick.due, tick'.at = tick.at, cursorSeen' = cursorSeen PROVE SampledInv'
  BY <1>3 DEF SampledInv
<1>4. CASE CursorLoadFails
  BY <1>2, <1>4 DEF CursorLoadFails, TypeOK
<1>5. CASE ClaimsLoadFails \/ RunRefused \/ RunFails \/ CandidateRefused \/ RenameCandidate \/ Crash
  BY <1>2, <1>5, RestingTick
     DEF ClaimsLoadFails, RunRefused, RunFails, CandidateRefused, RenameCandidate, Crash
<1>6. ASSUME NEW o \in tick.due,
             ClaimDuplicate(o) \/ ClaimOccurrence(o) \/ RunScheduled(o) \/ RunSucceeds(o)
      PROVE  SampledInv'
  <2>1. CASE ClaimDuplicate(o) \/ RunSucceeds(o)
    <3>1. tick' = NextOccurrence(o) /\ cursorSeen' = cursorSeen
      BY <2>1 DEF ClaimDuplicate, RunSucceeds
    <3>2. tick'.due \subseteq tick.due /\ tick'.at = tick.at
      BY <3>1, NextTick
    <3> QED BY <1>3, <3>1, <3>2
  <2>2. CASE ClaimOccurrence(o) \/ RunScheduled(o)
    <3>1. tick' \in {[tick EXCEPT !.pc = "run"], [tick EXCEPT !.pc = "running"]} /\ cursorSeen' = cursorSeen
      BY <2>2 DEF ClaimOccurrence, RunScheduled
    <3>2. tick'.due \subseteq tick.due /\ tick'.at = tick.at
      BY <3>1, PhaseOfTick
    <3> QED BY <1>3, <3>1, <3>2
  <2> QED BY <1>6, <2>1, <2>2
<1>7. ASSUME NEW o \in tick.due, ClaimFails(o) PROVE SampledInv'
  BY <1>2, <1>7, RestingTick DEF ClaimFails
<1>8. CASE WriteCandidate
  BY <1>3, <1>8, PhaseOfTick DEF WriteCandidate
<1>9. CASE UNCHANGED vars \/ \E t \in Targets : SetSchedule(t)
  BY <1>3, <1>9 DEF SetSchedule, vars
<1> QED BY <1>1, <1>4, <1>5, <1>6, <1>7, <1>8, <1>9 DEF Next

\* So none of them are of one window.
LEMMA TickIsOnce == TypeOK /\ SampledInv => TickTakesWindowOnce
<1> SUFFICES ASSUME TypeOK, SampledInv, NEW o \in tick.due, NEW p \in tick.due,
                    o[1] = p[1], Minute(o[2]) = Minute(p[2])
             PROVE  o = p
  BY DEF TickTakesWindowOnce
<1>1. o \in Occurrences /\ p \in Occurrences /\ tick.at \in Int /\ cursorSeen \in Int
  BY BackupSchedulerAssumption DEF TypeOK, Ticks, Instants
<1>2. o[2] = p[2]
  BY <1>1, SamplesApart DEF SampledInv
<1>3. o = <<o[1], o[2]>> /\ p = <<p[1], p[2]>>
  BY <1>1 DEF Occurrences
<1> QED BY <1>2, <1>3

-----------------------------------------------------------------------------
(* No window is passed by. *)

WindowInv == ScheduledInv /\ CursorInv /\ PassInv /\ NoWindowSkipped

\* An append, if the file can still be read, adds claims to those it had.
LEMMA ClaimsGrow ==
    ASSUME claims \in Seq(Lines), NEW line \in Lines, claims' \in {claims, Appended(line)}
    PROVE  Readable' => Readable /\ ToSet(claims) \subseteq ToSet(claims')
BY AppendKeeps DEF Readable, Stops

\* Steps that leave the cursor where it is and lose no occurrence of the tick.
LEMMA WindowFrame ==
    ASSUME WindowInv, UNCHANGED <<cursor, origin, dropped>>,
           edited \subseteq edited', Targets \ edited' \subseteq scheduled',
           Readable' => Readable /\ ToSet(claims) \subseteq ToSet(claims'),
           cursorSeen' \in {NotLoaded, NoCursor, cursor},
           \/ tick'.pc = "rest"
           \/ /\ tick.pc # "rest" /\ cursorSeen' = cursorSeen
              /\ tick'.at = tick.at /\ tick'.cut = tick.cut
              /\ Readable' => tick.due \subseteq tick'.due \cup ToSet(claims')
    PROVE  WindowInv'
<1> USE DEF WindowInv
<1>1. ScheduledInv' /\ CursorInv'
  BY DEF ScheduledInv, CursorInv
<1>2. NoWindowSkipped'
  <2> SUFFICES ASSUME Readable', cursor # NoCursor, NEW t \in Targets \ edited, NEW m \in Windows[t],
                      origin < m * TicksPerMinute, (m + 1) * TicksPerMinute <= cursor + 1
               PROVE  \E o \in ToSet(claims') \cup dropped : o[1] = t /\ Minute(o[2]) = m
    BY DEF NoWindowSkipped
  <2>1. \E o \in ToSet(claims) \cup dropped : o[1] = t /\ Minute(o[2]) = m
    BY DEF NoWindowSkipped
  <2> QED BY <2>1
<1>3. PassInv'
  <2> SUFFICES ASSUME Readable', tick'.pc # "rest", cursorSeen' # NoCursor,
                      NEW t \in Targets \ edited', NEW p \in Samples(cursorSeen', tick'.at),
                      Minute(p) \in Windows[t]
               PROVE  <<t, p>> \in ToSet(claims') \cup tick'.due \cup tick'.cut
    BY DEF PassInv, Samples
  <2>1. <<t, p>> \in ToSet(claims) \cup tick.due \cup tick.cut
    BY DEF PassInv
  <2> QED BY <2>1
<1> QED BY <1>1, <1>2, <1>3

\* At first there is no cursor.
LEMMA WindowInit == Init => WindowInv
BY RestingTick DEF Init, WindowInv, ScheduledInv, CursorInv, PassInv, NoWindowSkipped

\* A tick that begins has every occurrence since the cursor to do, or cuts it off.
LEMMA WindowBegins ==
    ASSUME TypeOK, WindowInv, NEW at \in Instants, TickBegins(at)
    PROVE  WindowInv'
<1> USE DEF WindowInv
<1>1. /\ cursorSeen' = CursorRead /\ CursorRead \in {NoCursor, cursor}
      /\ UNCHANGED <<cursor, origin, dropped, edited, scheduled, claims>>
  BY DEF TickBegins, CursorRead, CursorInv
<1>2. ScheduledInv' /\ CursorInv' /\ NoWindowSkipped'
  BY <1>1 DEF ScheduledInv, CursorInv, NoWindowSkipped, Readable, Stops, TypeOK, Instants
<1>3. PassInv'
  <2> SUFFICES ASSUME cursorSeen' # NoCursor,
                      NEW t \in Targets \ edited, NEW p \in Samples(cursorSeen', tick'.at),
                      Minute(p) \in Windows[t]
               PROVE  <<t, p>> \in tick'.due \cup tick'.cut
    BY <1>1 DEF PassInv, Samples
  <2>1. tick'.due \cup tick'.cut = DueOccurrences(CursorRead, at) /\ tick'.at = at
    BY <1>1, BeginningTick
  <2>2. t \in scheduled
    BY DEF ScheduledInv
  <2> QED BY <1>1, <2>1, <2>2 DEF DueOccurrences
<1> QED BY <1>2, <1>3

\* The new cursor: each window over by it was passed before, or has a sample in
\* this tick, which was claimed or cut off.
LEMMA WindowAdvances ==
    ASSUME TypeOK, WindowInv, RenameCandidate
    PROVE  WindowInv'
<1> USE DEF WindowInv
<1>1. /\ cursor' = tick.at /\ cursorSeen' = tick.at /\ tick' = Resting /\ tick.pc = "rename"
      /\ origin' = IF cursorSeen = NoCursor THEN tick.at ELSE origin
      /\ dropped' = dropped \cup tick.cut /\ UNCHANGED <<edited, scheduled, claims>>
  BY DEF RenameCandidate
<1>2. ScheduledInv' /\ CursorInv' /\ PassInv'
  BY <1>1, RestingTick DEF ScheduledInv, CursorInv, PassInv
<1>3. NoWindowSkipped'
  <2> SUFFICES ASSUME Readable, NEW t \in Targets \ edited, NEW m \in Windows[t],
                      origin' < m * TicksPerMinute, (m + 1) * TicksPerMinute <= tick.at + 1
               PROVE  \E o \in ToSet(claims) \cup dropped \cup tick.cut :
                         o[1] = t /\ Minute(o[2]) = m
    BY <1>1 DEF NoWindowSkipped, Readable, Stops
  <2>1. /\ tick.at \in Instants /\ tick.at \in Nat /\ m \in Nat /\ TicksPerMinute \in Nat \ {0}
        /\ (m + 1) * TicksPerMinute = m * TicksPerMinute + TicksPerMinute
        /\ m * TicksPerMinute \in Nat
    BY BackupSchedulerAssumption DEF TypeOK, Ticks, Instants
  <2>2. cursorSeen # NoCursor
    BY <1>1, <2>1
  <2>3. cursorSeen = cursor /\ cursor \in Instants /\ cursor \in Nat /\ origin' = origin
    BY <1>1, <2>2 DEF CursorInv, TypeOK, Instants
  <2>4. CASE (m + 1) * TicksPerMinute <= cursor + 1
    BY <2>3, <2>4 DEF NoWindowSkipped
  <2>5. CASE cursor + 1 < (m + 1) * TicksPerMinute
    <3>1. PICK p \in Samples(cursor, tick.at) : Minute(p) = m
      BY <2>1, <2>3, <2>5, EveryMinuteSampled
    <3>2. tick.due = {}
      BY <1>1 DEF TypeOK
    <3>3. <<t, p>> \in ToSet(claims) \cup tick.cut
      BY <1>1, <2>2, <2>3, <3>1, <3>2 DEF PassInv
    <3> QED BY <3>1, <3>3
  <2> QED BY <2>1, <2>3, <2>4, <2>5
<1> QED BY <1>2, <1>3

\* Every step keeps account of the windows.
LEMMA WindowStep == TypeOK /\ KeptInv /\ WindowInv /\ [Next]_vars => WindowInv'
<1> SUFFICES ASSUME TypeOK, KeptInv, WindowInv, [Next]_vars PROVE WindowInv'
    OBVIOUS
<1>0. /\ claims \in Seq(Lines) /\ tick.due \subseteq Occurrences
      /\ Targets \ edited \subseteq scheduled /\ cursorSeen \in {NotLoaded, NoCursor, cursor}
      /\ claims' = claims => Readable' = Readable
  BY DEF TypeOK, Ticks, Lines, WindowInv, ScheduledInv, CursorInv, Readable, Stops
<1>1. ASSUME NEW at \in Instants, TickBegins(at) PROVE WindowInv'
  BY <1>1, WindowBegins
<1>2. CASE CursorLoadFails
  <2>1. tick.pc = "rest" /\ tick' = tick
    BY <1>2 DEF CursorLoadFails
  <2> QED BY <1>0, <1>2, <2>1, WindowFrame DEF CursorLoadFails
<1>3. CASE ClaimsLoadFails
  BY <1>0, <1>3, RestingTick, WindowFrame DEF ClaimsLoadFails
<1>4. Readable => ClaimsRead \subseteq ToSet(claims)
  BY <1>0, LoadableClaims DEF ClaimsRead, KeptInv, MemoryInv
<1>5. ASSUME NEW o \in tick.due, ClaimDuplicate(o) PROVE WindowInv'
  <2>1. /\ tick'.at = tick.at /\ tick'.cut = tick.cut /\ tick'.due = tick.due \ {o}
        /\ tick.pc # "rest" /\ o \in ClaimsRead
    BY <1>5, NextTick DEF ClaimDuplicate, Claiming
  <2> QED BY <1>0, <1>4, <1>5, <2>1, WindowFrame DEF ClaimDuplicate
<1>6. ASSUME NEW o \in tick.due, ClaimOccurrence(o) PROVE WindowInv'
  <2>1. /\ tick'.at = tick.at /\ tick'.cut = tick.cut /\ tick'.due = tick.due /\ tick.pc # "rest"
    BY <1>6, PhaseOfTick DEF ClaimOccurrence, Claiming
  <2>2. Readable' => Readable /\ ToSet(claims) \subseteq ToSet(claims')
    BY <1>0, <1>6, ClaimsGrow DEF ClaimOccurrence, Lines
  <2> QED BY <1>0, <1>6, <2>1, <2>2, WindowFrame DEF ClaimOccurrence
<1>7. ASSUME NEW o \in tick.due, ClaimFails(o) PROVE WindowInv'
  <2>1. o \in Lines /\ TornLine \in Lines
    BY <1>0, <1>7 DEF Lines, BadLines
  <2>2. Readable' => Readable /\ ToSet(claims) \subseteq ToSet(claims')
    BY <1>0, <1>7, <2>1, ClaimsGrow DEF ClaimFails
  <2> QED BY <1>0, <1>7, <2>2, RestingTick, WindowFrame DEF ClaimFails
<1>8. ASSUME NEW o \in tick.due, RunScheduled(o) PROVE WindowInv'
  <2>1. /\ tick'.at = tick.at /\ tick'.cut = tick.cut /\ tick'.due = tick.due /\ tick.pc # "rest"
    BY <1>8, PhaseOfTick DEF RunScheduled
  <2> QED BY <1>0, <1>8, <2>1, WindowFrame DEF RunScheduled
<1>9. CASE RunRefused \/ RunFails \/ CandidateRefused
  BY <1>0, <1>9, RestingTick, WindowFrame DEF RunRefused, RunFails, CandidateRefused
<1>10. ASSUME NEW o \in tick.due, RunSucceeds(o) PROVE WindowInv'
  <2>1. /\ tick'.at = tick.at /\ tick'.cut = tick.cut /\ tick'.due = tick.due \ {o}
        /\ tick.pc = "running" /\ Turn(o)
    BY <1>10, NextTick DEF RunSucceeds
  <2>2. Readable => o \in ToSet(claims)
    BY <1>10, <2>1 DEF KeptInv, MemoryInv
  <2> QED BY <1>0, <1>10, <2>1, <2>2, WindowFrame DEF RunSucceeds
<1>11. CASE WriteCandidate
  <2>1. /\ tick'.at = tick.at /\ tick'.cut = tick.cut /\ tick'.due = tick.due /\ tick.pc # "rest"
    BY <1>11, PhaseOfTick DEF WriteCandidate
  <2> QED BY <1>0, <1>11, <2>1, WindowFrame DEF WriteCandidate
<1>12. CASE RenameCandidate
  BY <1>12, WindowAdvances
<1>13. ASSUME NEW t \in Targets, SetSchedule(t) PROVE WindowInv'
  <2>1. CASE tick.pc = "rest"
    BY <1>0, <1>13, <2>1, WindowFrame DEF SetSchedule
  <2>2. CASE tick.pc # "rest"
    BY <1>0, <1>13, <2>2, WindowFrame DEF SetSchedule
  <2> QED BY <2>1, <2>2
<1>14. CASE Crash
  BY <1>0, <1>14, RestingTick, WindowFrame DEF Crash
<1>15. CASE UNCHANGED vars
  <2>1. CASE tick.pc = "rest"
    BY <1>0, <1>15, <2>1, WindowFrame DEF vars
  <2>2. CASE tick.pc # "rest"
    BY <1>0, <1>15, <2>2, WindowFrame DEF vars
  <2> QED BY <2>1, <2>2
<1> QED
  BY <1>1, <1>2, <1>3, <1>5, <1>6, <1>7, <1>8, <1>9, <1>10, <1>11, <1>12, <1>13, <1>14, <1>15
     DEF Next

-----------------------------------------------------------------------------
(* The theorems. *)

\* The invariant holds of every behaviour.
THEOREM BackupSchedulerInvariance == Spec => []IInv
<1>1. IInv <=> TypeOK /\ KeptInv /\ RecallKept /\ SampledInv /\ WindowInv
  BY TickIsOnce DEF IInv, KeptInv, RecallKept, WindowInv, NoOccurrenceIsLost
<1>2. Init => IInv
  BY <1>1, TypeInit, KeptInit, RecallInit, SampledInit, WindowInit
<1>3. IInv /\ [Next]_vars => TypeOK' /\ KeptInv' /\ RecallKept' /\ SampledInv' /\ WindowInv'
  BY <1>1, TypeStep, KeptStep, RecallStep, SampledStep, WindowStep
<1>4. (TypeOK /\ SampledInv => TickTakesWindowOnce)'
  BY TickIsOnce, PTL
<1>5. IInv /\ [Next]_vars => IInv'
  BY <1>3, <1>4 DEF IInv, KeptInv, RecallKept, WindowInv, NoOccurrenceIsLost
<1> QED BY <1>2, <1>5, PTL DEF Spec

\* Every variable keeps its type; no occurrence is run twice unless a load of the
\* claims has failed, and none twice or unclaimed while the claim file has no
\* damaged or repeated line; no tick runs a window twice; and the cursor passes no
\* window of a target that stayed scheduled unless it is claimed or cut off by the
\* limit.
THEOREM NoBackupOccurrenceIsLost == Spec => []NoOccurrenceIsLost
<1>1. IInv => NoOccurrenceIsLost
  BY DEF IInv
<1> QED BY <1>1, BackupSchedulerInvariance, PTL
=============================================================================
