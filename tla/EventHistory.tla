---------------------------- MODULE EventHistory ----------------------------
(***************************************************************************)
(* The segmented administrative event history                              *)
(* (src/event-history/infrastructure/                                      *)
(* file-segmented-administrative-event-history.ts), its writer lock        *)
(* (file-event-history-writer-lock.ts) and the stale-lock recovery of the  *)
(* maintenance tool (src/maintenance/event-history.ts).                    *)
(*                                                                         *)
(* The operations of one server are serialised and synchronous, so they    *)
(* interleave only with the maintenance tool and with the death of the     *)
(* process or of the machine, which can come between any two calls of the  *)
(* file system; any such call can also fail.  A SHA-256 is the identity of *)
(* what it covers: a record's hash is its event, which is unique, and a    *)
(* manifest's hash is the first event of its segment.                      *)
(***************************************************************************)
EXTENDS Integers, Sequences, FiniteSets, SequencesExt, Listings

CONSTANTS
    Limits,       \* values maxSegmentEvents is configured to
    Policies,     \* retention policies: [min, max] sealed segments and exports
    Operators,    \* processes of the maintenance tool
    PageSizes,    \* the limits a client queries with
    MaxEvents,    \* bound on the events written
    MaxExports,   \* bound on the exports kept
    MaxLives      \* bound on the lives of the server process

NoLock == 0       \* the lock directory does not exist
Unnamed == -1     \* it exists and holds no metadata

Events == 1..MaxEvents
Genesis == 0
Records == [seq : Nat \ {0}, event : Events, prev : Events \cup {Genesis}]

ASSUME EventHistoryAssumption ==
    /\ Limits \subseteq Nat \ {0} /\ Limits # {}
    /\ Policies # {}
    /\ \A p \in Policies :
          /\ p.minSegments \in Nat \ {0} /\ p.maxSegments \in Nat
          /\ p.minSegments <= p.maxSegments
          /\ p.minExports \in Nat /\ p.maxExports \in Nat \ {0}
          /\ p.minExports <= p.maxExports
    /\ IsFiniteSet(Operators) /\ PageSizes \subseteq Nat \ {0}
    /\ MaxEvents \in Nat /\ MaxExports \in Nat /\ MaxLives \in Nat \ {0}

VARIABLES
    \* Files:
    active,       \* the records of active.jsonl
    segments,     \* segments/: records, name and manifest of each, by sequence
    ledger,       \* retention-ledger.jsonl
    transaction,  \* transaction.json exists
    damaged,      \* a file that #reconstruct refuses: a torn line, a candidate
    policy,       \* retention-policy.json, or the configured one
    exports,      \* exports/ by creation time: range, events, and the files there
    receipt,      \* stale-lock-recovery-receipt.json exists
    lock,         \* the writer lock: absent, unnamed, or the life that owns it
    \* Processes:
    life, limit,  \* the server's current life and its maxSegmentEvents
    pc, job,      \* its operation
    tool,         \* where each run of recoverStaleEventHistoryLock is
    reader,       \* a client that pages through the history
    \* History:
    written,      \* the number of events written
    unsynced,     \* the event whose line has not been synchronised
    acked,        \* the events whose record() returned
    fault         \* "none", "fault" after a crash or a failed call, "loss" of an event

files == <<active, segments, ledger, transaction, damaged, policy, exports>>
server == <<life, limit, pc, job>>
ghosts == <<written, unsynced, acked, fault>>
historyVars == <<files, receipt, lock, server, tool, reader, ghosts>>

\* op: the operation; recovery: a recovery event goes first; drop: segments still
\* to remove; doomed: exports still to remove; made: the export being made.
NoOperation == [op |-> "none", recovery |-> FALSE, drop |-> 0, doomed |-> <<>>, made |-> 0]

HistoryInit ==
    /\ active = <<>> /\ segments = <<>> /\ ledger = <<>>
    /\ transaction = FALSE /\ damaged = FALSE /\ policy \in Policies
    /\ exports = <<>> /\ receipt = FALSE /\ lock = NoLock
    /\ life = 1 /\ limit \in Limits /\ pc = "idle" /\ job = NoOperation
    /\ tool = [o \in Operators |-> "idle"]
    /\ reader = [from |-> 0, after |-> 0, read |-> <<>>]
    /\ written = 0 /\ unsynced = 0 /\ acked = {} /\ fault = "none"
-----------------------------------------------------------------------------
\* #readRetentionAnchor: where the retained history starts.
Anchor == IF ledger = <<>> THEN [next |-> 1, prev |-> Genesis, head |-> Genesis]
          ELSE Last(ledger)

\* The hash of a segment's manifest.
ManifestHash(s) == s.records[1].event

SegmentRecords == FlattenSeq([i \in DOMAIN segments |-> segments[i].records])
Retained == SegmentRecords \o active

\* The last record retained: of the active segment, or of the newest sealed one.
NothingRetained == segments = <<>> /\ active = <<>>
LastRecord == IF active # <<>> THEN Last(active) ELSE Last(Last(segments).records)

LatestSequence == IF NothingRetained THEN Anchor.next - 1 ELSE LastRecord.seq
LastRecordHash == IF NothingRetained THEN Anchor.prev ELSE LastRecord.event
LastSegmentHash == IF segments = <<>> THEN Anchor.head ELSE ManifestHash(Last(segments))

\* parseRecords, and the checks of the first record of each file: numbers are
\* dense and each record names its predecessor's hash.
Chained(records, first, prev) ==
    \A i \in DOMAIN records :
        /\ records[i].seq = first + i - 1
        /\ records[i].prev = IF i = 1 THEN prev ELSE records[i - 1].event

\* A segment whose file and manifest agree and continue the manifests' chain.
SegmentVerified(i) ==
    /\ segments[i].name = "jsonl" /\ segments[i].manifest = "final"
    /\ segments[i].records # <<>>
    /\ segments[i].previous = IF i = 1 THEN Anchor.head ELSE ManifestHash(segments[i - 1])

\* #reconstruct and validateExistingRoot return; every operation but the export
\* listings and the policy's starts with them.
Reconstructs ==
    /\ ~damaged /\ ~transaction
    /\ \A i \in DOMAIN segments : SegmentVerified(i)
    /\ Chained(Retained, Anchor.next, Anchor.prev)
    /\ Len(active) <= limit

\* #listExportsUnsafe returns: every export has both its files and nothing else
\* is in the directory.
ExportsListed == \A i \in DOMAIN exports : exports[i].data /\ exports[i].manifest
-----------------------------------------------------------------------------
\* acquire: the directory is made ...
Lock(op) ==
    /\ pc = "idle" /\ lock = NoLock
    /\ op = "record" => written < MaxEvents
    /\ lock' = Unnamed /\ pc' = "name"
    /\ job' = [NoOperation EXCEPT !.op = op]
    /\ UNCHANGED <<files, receipt, life, limit, tool, reader, ghosts>>

\* ... and then its metadata is written, unless the directory is gone again.
NameLock ==
    /\ pc = "name" /\ lock = Unnamed
    /\ lock' = life
    /\ pc' = "begin"
    /\ UNCHANGED <<files, receipt, life, limit, job, tool, reader, ghosts>>

\* release: only a lock that carries this token is removed.  record() returns
\* its event only now, and rejects if the lock is not there any more.
Release ==
    /\ pc \in {"unlock", "throw"}
    /\ lock' = IF lock = life THEN NoLock ELSE lock
    /\ acked' = IF pc = "unlock" /\ lock = life /\ job.op = "record"
                THEN acked \cup {written} ELSE acked
    /\ pc' = "idle" /\ job' = NoOperation
    /\ UNCHANGED <<files, receipt, life, limit, tool, reader, written, unsynced, fault>>

\* The operation goes on: the lock and the other processes are not touched.
Goto(p) == pc' = p /\ UNCHANGED <<lock, life, limit, tool, reader, acked, fault>>

\* #reconstruct throws, or for the exports #listExportsUnsafe.
Refused ==
    /\ pc = "begin"
    /\ \/ job.op \in {"record", "rotate", "prune", "export"} /\ ~Reconstructs
       \/ job.op = "prune_exports" /\ ~ExportsListed
    /\ Goto("throw") /\ UNCHANGED <<files, receipt, job, written, unsynced>>

Begins(op) == pc = "begin" /\ job.op = op
-----------------------------------------------------------------------------
\* #recordOne: a receipt of a stale-lock recovery is recorded before the event.
RecordBegins ==
    /\ Begins("record") /\ Reconstructs
    /\ job' = [job EXCEPT !.recovery = receipt]
    /\ Goto("append") /\ UNCHANGED <<files, receipt, written, unsynced>>

\* appendRecord: the line goes to the active segment if it fits.
AppendLine ==
    /\ pc = "append" /\ Len(active) < limit /\ written < MaxEvents
    /\ active' = Append(active, [seq |-> LatestSequence + 1, event |-> written + 1,
                                 prev |-> LastRecordHash])
    /\ written' = written + 1 /\ unsynced' = written + 1
    /\ Goto("sync")
    /\ UNCHANGED <<segments, ledger, transaction, damaged, policy, exports, receipt, job>>

\* It is synchronised and the history is read back.
SyncLine ==
    /\ pc = "sync"
    /\ unsynced' = 0
    /\ Goto(IF ~Reconstructs THEN "throw" ELSE IF job.recovery THEN "clear" ELSE "unlock")
    /\ UNCHANGED <<files, receipt, job, written>>

\* The recovery is recorded: the receipt goes, and the event itself follows.
ClearReceipt ==
    /\ pc = "clear"
    /\ receipt' = FALSE
    /\ job' = [job EXCEPT !.recovery = FALSE]
    /\ Goto("append") /\ UNCHANGED <<files, written, unsynced>>
-----------------------------------------------------------------------------
\* #rotateOne has nothing to seal.
RotateUnchanged ==
    /\ Begins("rotate") /\ Reconstructs /\ active = <<>>
    /\ Goto("unlock") /\ UNCHANGED <<files, receipt, job, written, unsynced>>

\* It journals the rotation: when asked to, or when the next line would exceed
\* the number of events or of bytes.
RotateBegins ==
    /\ active # <<>>
    /\ (Begins("rotate") /\ Reconstructs) \/ pc = "append"
    /\ transaction' = TRUE
    /\ Goto("move")
    /\ UNCHANGED <<active, segments, ledger, damaged, policy, exports, receipt, job,
                   written, unsynced>>

\* The active segment becomes a candidate in segments/.  Its bytes are taken to
\* have reached the disk by now.
MoveActive ==
    /\ pc = "move"
    /\ segments' = Append(segments, [records |-> active, name |-> "candidate",
                                     manifest |-> "none", previous |-> LastSegmentHash])
    /\ active' = <<>> /\ unsynced' = 0
    /\ Goto("seal")
    /\ UNCHANGED <<ledger, transaction, damaged, policy, exports, receipt, job, written>>

\* The candidate gets its name ...
SealSegment ==
    /\ pc = "seal"
    /\ segments' = [segments EXCEPT ![Len(segments)].name = "jsonl"]
    /\ Goto("publish")
    /\ UNCHANGED <<active, ledger, transaction, damaged, policy, exports, receipt, job,
                   written, unsynced>>

\* ... and its manifest.
PublishManifest ==
    /\ pc = "publish"
    /\ segments' = [segments EXCEPT ![Len(segments)].manifest = "final"]
    /\ Goto("done")
    /\ UNCHANGED <<active, ledger, transaction, damaged, policy, exports, receipt, job,
                   written, unsynced>>

\* An empty active segment is written and the journal removed; also the end of a
\* retention.
RemoveJournal ==
    /\ pc = "done"
    /\ transaction' = FALSE
    /\ Goto(IF job.op = "record" THEN "append" ELSE "unlock")
    /\ UNCHANGED <<active, segments, ledger, damaged, policy, exports, receipt, job,
                   written, unsynced>>
-----------------------------------------------------------------------------
\* #pruneSegmentsOne: the i-th segment goes, the ones before it being gone; old
\* are those past the maximal age.
Leaves(i, old) ==
    /\ Len(segments) - (i - 1) > policy.minSegments
    /\ Len(segments) - (i - 1) > policy.maxSegments \/ i \in old

\* The oldest segments go; the first that stays ends the search.
PruneBegins(old, drop) ==
    /\ Begins("prune") /\ Reconstructs
    /\ \A i \in 1..drop : Leaves(i, old)
    /\ drop < Len(segments) => ~Leaves(drop + 1, old)
    /\ job' = [job EXCEPT !.drop = drop]
    /\ transaction' = (drop > 0)
    /\ Goto(IF drop > 0 THEN "ledger" ELSE "unlock")
    /\ UNCHANGED <<active, segments, ledger, damaged, policy, exports, receipt,
                   written, unsynced>>

\* Variant: the anchor names the chain head of the segment that stays.
AnchorAtNext(n) ==
    [next |-> segments[n + 1].records[1].seq, prev |-> segments[n + 1].records[1].prev,
     head |-> ManifestHash(segments[n + 1])]

\* Variant: the anchor points past the first record that stays.
AnchorPastNext(n) ==
    [next |-> segments[n + 1].records[1].seq + 1, prev |-> segments[n + 1].records[1].event,
     head |-> ManifestHash(segments[n])]

\* Variant: the anchor does not carry the hash the retained chain starts from.
AnchorWithoutHash(n) ==
    [next |-> segments[n + 1].records[1].seq, prev |-> Genesis,
     head |-> ManifestHash(segments[n])]

\* The retention anchor for the removal of the first n segments.
RetentionAnchor(n) ==
    [next |-> segments[n + 1].records[1].seq, prev |-> segments[n + 1].records[1].prev,
     head |-> ManifestHash(segments[n])]

AppendAnchor ==
    /\ pc = "ledger"
    /\ ledger' = Append(ledger, RetentionAnchor(job.drop))
    /\ Goto("remove")
    /\ UNCHANGED <<active, segments, transaction, damaged, policy, exports, receipt, job,
                   written, unsynced>>

\* A segment and its manifest are removed, the oldest first.
RemoveSegment ==
    /\ pc = "remove"
    /\ segments' = Tail(segments)
    /\ job' = [job EXCEPT !.drop = @ - 1]
    /\ Goto(IF job.drop = 1 THEN "done" ELSE "remove")
    /\ UNCHANGED <<active, ledger, transaction, damaged, policy, exports, receipt,
                   written, unsynced>>

\* setRetentionPolicy looks neither at the history nor at its journal.
SetRetentionPolicy(p) ==
    /\ Begins("set_policy")
    /\ policy' = p
    /\ Goto("unlock")
    /\ UNCHANGED <<active, segments, ledger, transaction, damaged, exports, receipt, job,
                   written, unsynced>>
-----------------------------------------------------------------------------
\* #createExportOne refuses a range that is not retained.
ExportRefused(from, through) ==
    /\ Begins("export") /\ Reconstructs
    /\ from < Anchor.next \/ through > LatestSequence \/ from > through
    /\ Goto("throw") /\ UNCHANGED <<files, receipt, job, written, unsynced>>

\* Variant: the lower bound of the range is not checked.
AnyFrom(from, through) == from <= through /\ through <= LatestSequence

RangeRetained(from, through) ==
    from >= Anchor.next /\ through <= LatestSequence /\ from <= through

\* It writes the candidates of the content and of the manifest, ...
ExportBegins(from, through, position) ==
    /\ Begins("export") /\ Reconstructs
    /\ RangeRetained(from, through)
    /\ Len(exports) < MaxExports
    /\ exports' = InsertAt(exports, position,
                           [from |-> from, through |-> through,
                            events |-> Picked(Retained, {i \in DOMAIN Retained :
                                                            Retained[i].seq \in from..through}),
                            data |-> FALSE, manifest |-> FALSE])
    /\ job' = [job EXCEPT !.made = position]
    /\ Goto("data")
    /\ UNCHANGED <<active, segments, ledger, transaction, damaged, policy, receipt,
                   written, unsynced>>

\* ... then gives each its name, the content first.
PublishExport ==
    /\ pc \in {"data", "manifest"}
    /\ exports' = [exports EXCEPT ![job.made] =
                       IF pc = "data" THEN [@ EXCEPT !.data = TRUE] ELSE [@ EXCEPT !.manifest = TRUE]]
    /\ Goto(IF pc = "data" THEN "manifest" ELSE "unlock")
    /\ UNCHANGED <<active, segments, ledger, transaction, damaged, policy, receipt, job,
                   written, unsynced>>

\* pruneExports: all but the newest minExports, when beyond maxExports or old.
PruneExportsBegins(old) ==
    LET doomed == {i \in DOMAIN exports :
                      /\ Len(exports) - i + 1 > policy.minExports
                      /\ Len(exports) - i + 1 > policy.maxExports \/ i \in old} IN
    /\ Begins("prune_exports") /\ ExportsListed
    /\ job' = [job EXCEPT !.doomed = Ascending(doomed)]
    /\ Goto(IF doomed = {} THEN "unlock" ELSE "rm_data")
    /\ UNCHANGED <<files, receipt, written, unsynced>>

\* The content of the next export is removed, then its manifest.
RemoveExport ==
    /\ pc \in {"rm_data", "rm_manifest"}
    /\ exports' = IF pc = "rm_data" THEN [exports EXCEPT ![job.doomed[1]].data = FALSE]
                  ELSE RemoveAt(exports, job.doomed[1])
    /\ job' = IF pc = "rm_data" THEN job
               ELSE [job EXCEPT !.doomed = [i \in 1..(Len(@) - 1) |-> @[i + 1] - 1]]
    /\ Goto(IF pc = "rm_data" THEN "rm_manifest"
            ELSE IF Len(job.doomed) = 1 THEN "unlock" ELSE "rm_data")
    /\ UNCHANGED <<active, segments, ledger, transaction, damaged, policy, receipt,
                   written, unsynced>>
-----------------------------------------------------------------------------
\* Variant: a page may start anywhere after the pruned part.
NeverPruned == FALSE

\* #queryOne answers history_pruned.
HistoryPruned == reader.after > 0 /\ reader.after < Anchor.next - 1

\* A client asks for the page after the last event it has; when that part is
\* pruned it starts again.
Query(size) ==
    LET matches == Picked(Retained, {i \in DOMAIN Retained : Retained[i].seq > reader.after})
        page == SubSeq(matches, 1, IF Len(matches) < size THEN Len(matches) ELSE size) IN
    /\ pc = "idle" /\ Reconstructs
    /\ HistoryPruned \/ page # <<>>
    /\ reader' = IF HistoryPruned THEN [from |-> 0, after |-> 0, read |-> <<>>]
                 ELSE [from |-> IF reader.after = 0 THEN page[1].seq ELSE reader.from,
                       after |-> Last(page).seq, read |-> reader.read \o page]
    /\ UNCHANGED <<files, receipt, lock, server, tool, ghosts>>
-----------------------------------------------------------------------------
\* Variant: any lock is taken for a stale one.
AnyLock == lock # NoLock

\* inspect: the metadata name a process that is not there any more.
LockStale == lock \notin {NoLock, Unnamed, life}

\* recoverStaleEventHistoryLock checks the lock and the journal, ...
RecoveryBegins(o) ==
    /\ tool[o] = "idle" /\ LockStale /\ ~transaction
    /\ tool' = [tool EXCEPT ![o] = "remove"]
    /\ UNCHANGED <<files, receipt, lock, server, reader, ghosts>>

\* ... removes whatever lock there is by now, throwing if there is none, ...
RecoveryRemoves(o) ==
    /\ tool[o] = "remove"
    /\ lock' = NoLock
    /\ tool' = [tool EXCEPT ![o] = IF lock = NoLock THEN "idle" ELSE "receipt"]
    /\ UNCHANGED <<files, receipt, server, reader, ghosts>>

\* ... and leaves a receipt.
RecoveryReceipt(o) ==
    /\ tool[o] = "receipt"
    /\ receipt' = TRUE
    /\ tool' = [tool EXCEPT ![o] = "idle"]
    /\ UNCHANGED <<files, lock, server, reader, ghosts>>

RecoveryDies(o) ==
    /\ tool[o] # "idle"
    /\ tool' = [tool EXCEPT ![o] = "idle"]
    /\ UNCHANGED <<files, receipt, lock, server, reader, ghosts>>
-----------------------------------------------------------------------------
\* A step that may leave a torn line or a candidate in the root directory.
Tearing == \/ pc = "append"
           \/ pc = "begin" /\ job.op \in {"rotate", "prune", "set_policy"}

Faulted == IF fault = "loss" THEN "loss" ELSE "fault"

\* A call of the file system fails and the operation throws; what an earlier
\* call has done stays, and so does the journal.
CallFails ==
    /\ pc \notin {"idle", "name", "unlock", "throw"}
    /\ damaged' \in {damaged, damaged \/ Tearing}
    /\ pc' = "throw" /\ fault' = Faulted
    /\ UNCHANGED <<active, segments, ledger, transaction, policy, exports, receipt, lock,
                   life, limit, job, tool, reader, written, unsynced, acked>>

\* acquire cannot write the metadata and removes the directory.
NameFails ==
    /\ pc = "name"
    /\ lock' = NoLock /\ pc' = "idle" /\ job' = NoOperation /\ fault' = Faulted
    /\ UNCHANGED <<files, receipt, life, limit, tool, reader, written, unsynced, acked>>

\* The process ends and another life begins, maybe with other limits.
Restarts ==
    /\ life < MaxLives
    /\ life' = life + 1 /\ limit' \in Limits /\ pc' = "idle" /\ job' = NoOperation

ServerDies ==
    /\ Restarts
    /\ damaged' \in {damaged, damaged \/ Tearing}
    /\ fault' = IF pc = "idle" THEN fault ELSE Faulted
    /\ UNCHANGED <<active, segments, ledger, transaction, policy, exports, receipt, lock,
                   tool, reader, written, unsynced, acked>>

\* The machine loses power: /run and every process are gone, and a line that was
\* not synchronised is kept, lost or torn.
PowerFails ==
    /\ Restarts
    /\ lock' = NoLock /\ tool' = [o \in Operators |-> "idle"]
    /\ \/ /\ damaged' \in {damaged, damaged \/ Tearing}
          /\ fault' = IF pc = "idle" THEN fault ELSE Faulted
          /\ UNCHANGED active
       \/ /\ unsynced # 0
          /\ active' = Front(active) /\ damaged' \in {damaged, TRUE}
          /\ fault' = "loss"
    /\ unsynced' = 0
    /\ UNCHANGED <<segments, ledger, transaction, policy, exports, receipt, reader,
                   written, acked>>
-----------------------------------------------------------------------------
HistoryOperations == {"record", "rotate", "prune", "set_policy", "export", "prune_exports"}

HistoryNext ==
    \/ (\E op \in HistoryOperations : Lock(op)) \/ NameLock \/ Release \/ Refused
    \/ RecordBegins \/ AppendLine \/ SyncLine \/ ClearReceipt
    \/ RotateUnchanged \/ RotateBegins \/ MoveActive \/ SealSegment \/ PublishManifest
    \/ RemoveJournal
    \/ (\E old \in SUBSET DOMAIN segments : \E drop \in 0..Len(segments) : PruneBegins(old, drop))
    \/ AppendAnchor \/ RemoveSegment
    \/ (\E p \in Policies : SetRetentionPolicy(p))
    \/ (\E from, through \in Events : ExportRefused(from, through))
    \/ (\E from, through \in Events : \E i \in 1..(Len(exports) + 1) :
           ExportBegins(from, through, i))
    \/ PublishExport \/ (\E old \in SUBSET DOMAIN exports : PruneExportsBegins(old))
    \/ RemoveExport
    \/ (\E size \in PageSizes : Query(size))
    \/ (\E o \in Operators : RecoveryBegins(o) \/ RecoveryRemoves(o) \/ RecoveryReceipt(o)
                               \/ RecoveryDies(o))
    \/ CallFails \/ NameFails \/ ServerDies \/ PowerFails

HistorySpec == HistoryInit /\ [][HistoryNext]_historyVars
-----------------------------------------------------------------------------
\* Every variable keeps its type.
HistoryTypeOK ==
    /\ active \in Seq(Records)
    /\ \A i \in DOMAIN segments :
          /\ segments[i].records \in Seq(Records)
          /\ segments[i].name \in {"candidate", "jsonl"}
          /\ segments[i].manifest \in {"none", "final"}
          /\ segments[i].previous \in Events \cup {Genesis}
    /\ \A i \in DOMAIN ledger : ledger[i].next \in Nat /\ ledger[i].prev \in Events
    /\ transaction \in BOOLEAN /\ damaged \in BOOLEAN /\ policy \in Policies
    /\ \A i \in DOMAIN exports : exports[i].data \in BOOLEAN /\ exports[i].manifest \in BOOLEAN
    /\ receipt \in BOOLEAN /\ lock \in {NoLock, Unnamed} \cup 1..MaxLives
    /\ life \in 1..MaxLives /\ limit \in Limits
    /\ tool \in [Operators -> {"idle", "remove", "receipt"}]
    /\ reader.read \in Seq(Records)
    /\ written \in 0..MaxEvents /\ unsynced \in 0..MaxEvents /\ acked \subseteq Events
    /\ fault \in {"none", "fault", "loss"}

\* "One atomic filesystem lock serializes writers and maintenance across
\* processes" (docs/adr/024): while the server is inside an operation the lock
\* is its own, whatever the maintenance tool does meanwhile.
WriterHoldsLock == pc \notin {"idle", "name"} => lock = life

\* As long as no call failed and no process died inside an operation, the
\* history and the exports pass every check when the server is between
\* operations: rotation, retention, exports and their anchors never build what
\* #reconstruct refuses.  A configured limit below the active segment is the one
\* exception.
UndisturbedStoreReconstructs ==
    fault = "none" /\ pc = "idle" /\ Len(active) <= limit => Reconstructs /\ ExportsListed

\* A client that pages with afterSequence sees every event from its first page
\* on, in the order of the hash chain, however appends, rotations and prunings
\* come between its pages, unless an event that was never synchronised is lost.
ReaderMissesNothing ==
    fault # "loss" /\ reader.read # <<>> =>
        Chained(reader.read, reader.from, reader.read[1].prev)

\* An export that can be listed holds every event of the range it names, also
\* when part of the range is pruned later.
ExportsAreComplete ==
    \A i \in DOMAIN exports :
        exports[i].data /\ exports[i].manifest =>
            /\ Len(exports[i].events) = exports[i].through - exports[i].from + 1
            /\ Chained(exports[i].events, exports[i].from, exports[i].events[1].prev)

\* What is on disk, in the exports and in a client's pages is sound.
HistoryIsSound ==
    /\ HistoryTypeOK /\ WriterHoldsLock /\ ReaderMissesNothing
    /\ UndisturbedStoreReconstructs /\ ExportsAreComplete

\* The events the files hold at or after the retention anchor.
Held == ToSet(active) \cup UNION {ToSet(segments[i].records) : i \in DOMAIN segments}
Kept == {r \in Held : r.seq >= Anchor.next}
Entries == [n \in {r.seq : r \in Kept} |-> (CHOOSE r \in Kept : r.seq = n).event]

Log == INSTANCE AuditLog WITH Events <- Events, entries <- Entries, floor <- Anchor.next,
                              acked <- acked

\* The history is an audit log, through every crash, failed call and recovery:
\* numbers are dense and never reused for another event while the first is
\* there, an acknowledged event leaves only with a pruned prefix, and only the
\* last event, never acknowledged, can be lost.
ImplementsAuditLog == Log!Spec
=============================================================================
