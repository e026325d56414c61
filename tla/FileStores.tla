----------------------------- MODULE FileStores -----------------------------
(***************************************************************************)
(* The file stores of the process.  Operations of one store queue behind    *)
(* one another; the one whose turn it is reads the document, computes, and  *)
(* publishes the next document through a temporary file: open exclusively,  *)
(* write, sync, close, rename.  Every one of these may fail, the process    *)
(* may stop between any two, and the machine may lose power, which keeps    *)
(* only what had reached the disk: the contents of synced files, and some   *)
(* prefix of the renames.                                                   *)
(*                                                                          *)
(* The store of backup policies is the odd one: its temporary name is       *)
(* fixed, it does not sync, and it does not clean up.  Its save is          *)
(* synchronous, so nothing but a stop comes between its steps.              *)
(***************************************************************************)
EXTENDS StoreOperations, SequencesExt

CONSTANTS
    Callers,     \* callers, each asking one operation
    MaxCrashes   \* bound on stops and power failures

VARIABLES
    kind,      \* which store this is
    versions,  \* what the target held, since it was last known to be on disk
    temps,     \* temporary files in the directory
    queue,     \* #operationQueue
    asked,     \* what each caller asked, or None
    answers,   \* what each caller was answered, or None
    work,      \* the step the caller is at, the document it publishes
    crashes    \* stops of the process and power failures so far

vars == <<kind, versions, temps, queue, asked, answers, work, crashes>>

Failed == [kind |-> "failed", value |-> None]

Missing == [whole |-> FALSE, entries |-> <<>>, synced |-> TRUE, exists |-> FALSE]
Document(es) == [whole |-> TRUE, entries |-> es, synced |-> FALSE, exists |-> TRUE]

Target == Last(versions)
Readable(doc) == ~doc.exists \/ Accepts(kind, doc)

Idle == [at |-> "idle", next |-> Missing, answer |-> Failed]

(* createTemporaryPath: a random name, but for the backup policies.         *)
TemporaryName(c) == IF kind = "backup_policies" THEN None ELSE c

\* Variant: an operation does not wait for the ones before it.
NoQueue(c) == asked[c] # None /\ answers[c] = None

(* #enqueue: an operation runs when those before it have settled.           *)
Turn(c) == queue # <<>> /\ Head(queue) = c

-----------------------------------------------------------------------------

Init ==
    /\ kind \in Kinds
    /\ versions = <<Missing>>
    /\ temps = {}
    /\ queue = <<>>
    /\ asked = [c \in Callers |-> None]
    /\ answers = [c \in Callers |-> None]
    /\ work = [c \in Callers |-> Idle]
    /\ crashes = 0

Ask(c, op) ==
    /\ asked[c] = None
    /\ asked' = [asked EXCEPT ![c] = op]
    /\ queue' = Append(queue, c)
    /\ work' = [work EXCEPT ![c].at = "read"]
    /\ UNCHANGED <<kind, versions, temps, answers, crashes>>

At(c, phase) == Turn(c) /\ answers[c] = None /\ work[c].at = phase

\* Variant: an operation that failed keeps its place in the queue.
SuccessLeavesQueue(c, answer) ==
    /\ answers' = [answers EXCEPT ![c] = answer]
    /\ queue' = IF answer = Failed THEN queue ELSE Tail(queue)
    /\ work' = [work EXCEPT ![c] = Idle]

(* The promise of the operation settles, either way, and the one behind it in *)
(* the queue may run.                                                         *)
Settle(c, answer) ==
    /\ answers' = [answers EXCEPT ![c] = answer]
    /\ queue' = Tail(queue)
    /\ work' = [work EXCEPT ![c] = Idle]

(* The document is read, or not needed, and the operation computed.         *)
Compute(c) ==
    LET outcome == Perform(kind, asked[c], Target.entries) IN
    /\ At(c, "read")
    /\ WritesBlindly(kind, asked[c]) \/ Readable(Target)
    /\ IF outcome.writes
       THEN /\ work' = [work EXCEPT ![c] = [at |-> "open",
                                           next |-> Document(outcome.entries),
                                           answer |-> outcome.answer]]
            /\ UNCHANGED <<queue, answers>>
       ELSE Settle(c, outcome.answer)
    /\ UNCHANGED <<kind, versions, temps, asked, crashes>>

(* Reading fails, or the document is not one the store accepts.             *)
ReadFails(c) ==
    /\ At(c, "read") /\ ~WritesBlindly(kind, asked[c])
    /\ Settle(c, Failed)
    /\ UNCHANGED <<kind, versions, temps, asked, crashes>>

(* The temporary file is created, exclusively.                              *)
OpenTemporary(c) ==
    /\ At(c, "open")
    /\ TemporaryName(c) \notin temps
    /\ temps' = temps \cup {TemporaryName(c)}
    /\ work' = [work EXCEPT ![c].at = "write"]
    /\ UNCHANGED <<kind, versions, queue, asked, answers, crashes>>

OpenFails(c) ==
    /\ At(c, "open")
    /\ Settle(c, Failed)
    /\ UNCHANGED <<kind, versions, temps, asked, crashes>>

\* Variant: the file is renamed before its contents are on the disk.
PublishesUnsynced == "rename"

(* What follows the write of the temporary file.                            *)
AfterWrite == IF kind = "backup_policies" THEN "rename" ELSE "sync"

WriteTemporary(c) ==
    /\ At(c, "write")
    /\ work' = [work EXCEPT ![c].at = AfterWrite]
    /\ UNCHANGED <<kind, versions, temps, queue, asked, answers, crashes>>

(* sync and close.                                                          *)
SyncTemporary(c) ==
    /\ At(c, "sync")
    /\ work' = [work EXCEPT ![c] = [at |-> "rename", answer |-> work[c].answer,
                                    next |-> [work[c].next EXCEPT !.synced = TRUE]]]
    /\ UNCHANGED <<kind, versions, temps, queue, asked, answers, crashes>>

(* The document is published and the caller answered.                       *)
RenameTemporary(c) ==
    /\ At(c, "rename")
    /\ versions' = Append(versions, work[c].next)
    /\ temps' = temps \ {TemporaryName(c)}
    /\ Settle(c, work[c].answer)
    /\ UNCHANGED <<kind, asked, crashes>>

(* Writing, syncing, closing or renaming fails: the temporary file is       *)
(* removed if that succeeds, and never by the store of backup policies.     *)
WriteFails(c) ==
    /\ At(c, "write") \/ At(c, "sync") \/ At(c, "rename")
    /\ \/ kind # "backup_policies" /\ temps' = temps \ {TemporaryName(c)}
       \/ UNCHANGED temps
    /\ Settle(c, Failed)
    /\ UNCHANGED <<kind, versions, asked, crashes>>

(* The process stops; a fresh one starts with an empty queue.               *)
Interrupted ==
    /\ crashes < MaxCrashes
    /\ crashes' = crashes + 1
    /\ queue' = <<>>
    /\ answers' = [c \in Callers |->
                      IF asked[c] # None /\ answers[c] = None THEN Failed
                      ELSE answers[c]]
    /\ work' = [c \in Callers |-> Idle]
    /\ UNCHANGED <<kind, temps, asked>>

Crash ==
    /\ Interrupted
    /\ UNCHANGED versions

(* The renames that had not reached the disk are undone, and contents that  *)
(* were not synced may be lost.                                             *)
PowerLoss ==
    /\ Interrupted
    /\ \E i \in DOMAIN versions : \E whole \in BOOLEAN :
           /\ versions[i].synced => whole = versions[i].whole
           /\ versions' = <<[versions[i] EXCEPT !.whole = whole, !.synced = TRUE]>>

Step(c) ==
    \/ Compute(c) \/ ReadFails(c)
    \/ OpenTemporary(c) \/ OpenFails(c)
    \/ WriteTemporary(c) \/ SyncTemporary(c) \/ RenameTemporary(c)
    \/ WriteFails(c)

Next ==
    \/ \E c \in Callers : (\E op \in Operations(kind) : Ask(c, op)) \/ Step(c)
    \/ Crash
    \/ PowerLoss

Spec == Init /\ [][Next]_vars

-----------------------------------------------------------------------------

(* The queue holds, in turn, exactly the callers that wait for an answer,   *)
(* and none is told anything before it asked (#enqueue).                    *)
TypeOK ==
    /\ kind \in Kinds
    /\ versions # <<>>
    /\ temps \subseteq Callers \cup {None}
    /\ Range(queue) = {c \in Callers : asked[c] # None /\ answers[c] = None}
    /\ Len(queue) = Cardinality(Range(queue))
    /\ \A c \in Callers :
           work[c].at \in {"idle", "read", "open", "write", "sync", "rename"}
    /\ crashes \in 0 .. MaxCrashes

(* Whatever is found under the store's name, after a stop or a loss of      *)
(* power too, is a document the store itself accepts: no write leaves a     *)
(* torn, unordered or duplicated document, which every later operation      *)
(* would refuse (persist and parse of each store).  The file of the backup  *)
(* policies, which is not synced, is the exception.                         *)
DocumentsAreReadable ==
    kind # "backup_policies" => \A i \in DOMAIN versions : Readable(versions[i])

(* The queue is in turn, and every document left behind can be read again.  *)
StoreReadsWhatItWrites == TypeOK /\ DocumentsAreReadable

Atomic == INSTANCE AtomicStore WITH entries <- Target.entries

(* The store is the atomic store of its callers: no update is lost between  *)
(* a read and a rename, no failed operation has an effect, and a claim, a   *)
(* conditional removal and an advance answer what they did.  Only a loss of *)
(* power is outside the abstract store: it undoes the last renames.         *)
StoresAreAtomic ==
    /\ Atomic!Init
    /\ [][Atomic!Next \/ PowerLoss]_<<kind, Target.entries, asked, answers>>

(* scheduling.md: "acquires a durable claim".  A claim that was granted and *)
(* not pruned is in the document.                                           *)
ClaimsAreDurable ==
    \A c \in Callers :
        (/\ kind \in {"service_claims", "power_claims"}
         /\ answers[c] # None /\ answers[c].kind = "claimed"
         /\ \A d \in Callers : asked[d] # None => asked[d].type # "prune") =>
            Entry(asked[c].id, asked[c].value) \in Range(Target.entries)

(* file-backup-target-policy-store.ts: "A failed publication must not leave *)
(* a second managed policy file."                                           *)
FailedPublicationLeavesNoFile ==
    (crashes = 0 /\ queue = <<>>) => temps = {}

-----------------------------------------------------------------------------
(* The inductive invariant of the theorems in PersistenceProofs.            *)

(* The shapes of the variables.                                             *)
ShapeInv ==
    /\ kind \in Kinds
    /\ versions # <<>> /\ versions \in Seq(Range(versions))
    /\ queue \in Seq(Callers)
    /\ asked \in [Callers -> Operations(kind) \cup {None}]
    /\ answers \in [Callers -> Range(answers)]
    /\ work \in [Callers -> Range(work)]

(* Only the head of the queue has a temporary file or is about to, and what *)
(* it publishes and answers was computed from the document it replaces.     *)
WorkInv ==
    \A c \in Callers :
        /\ work[c] = [at |-> work[c].at, next |-> work[c].next, answer |-> work[c].answer]
        /\ work[c].at # "idle" => asked[c] # None
        /\ work[c].at \notin {"idle", "read"} =>
               LET outcome == Perform(kind, asked[c], Target.entries) IN
               /\ Turn(c) /\ answers[c] = None
               /\ work[c].next = [Document(outcome.entries) EXCEPT !.synced = work[c].next.synced]
               /\ work[c].answer = outcome.answer

IInv == ShapeInv /\ WorkInv

(* The queue has nobody twice, and nobody is answered before it asks.       *)
QueueInv ==
    /\ \A i, j \in DOMAIN queue : queue[i] = queue[j] => i = j
    /\ \A c \in Callers : /\ answers[c] \in Answers \cup {None}
                          /\ asked[c] = None => answers[c] = None

(* Every document was on the disk before it was renamed, and is one the     *)
(* store accepts; the claims of the power scheduler are in order whether or *)
(* not its reader would see it.  Whoever publishes has something to write.  *)
DocumentInv ==
    kind # "backup_policies" =>
        /\ \A i \in DOMAIN versions : LET doc == versions[i] IN
               /\ doc = [whole |-> doc.whole, entries |-> doc.entries,
                         synced |-> TRUE, exists |-> doc.exists]
               /\ doc.entries \in Seq([id : Nat, value : Nat])
               /\ IF doc.exists THEN Accepts(kind, doc) ELSE doc.entries = <<>>
               /\ kind = "power_claims" => StrictlyAscending(doc.entries, ByOccurrence)
        /\ \A c \in Callers :
               /\ work[c].at = "rename" => work[c].next.synced
               /\ work[c].at \notin {"idle", "read"} =>
                      Perform(kind, asked[c], Target.entries).writes
=============================================================================
