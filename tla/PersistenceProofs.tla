-------------------------- MODULE PersistenceProofs -------------------------
(***************************************************************************)
(* What is on disk, for its callers.                                       *)
(*                                                                         *)
(* A file store is the atomic store of its callers, whichever calls of the *)
(* file system fail, wherever the process stops, and for any set of        *)
(* callers, ids and values: between the read of the document and the       *)
(* rename over it nobody else has the turn (WorkInv), so that what is      *)
(* published is what the operation computes from the document it replaces. *)
(*                                                                         *)
(* The segmented event history is an audit log, through the same faults    *)
(* and for any limits and retention policies: numbers increase through its *)
(* files (OrderInv), nothing is left before the anchor unless a removal is *)
(* journalled (FloorInv), and a line that is not synchronised is the last  *)
(* one, unacknowledged (AckInv).                                           *)
(*                                                                         *)
(* It also reads back what it wrote.  The records, the manifests and the   *)
(* anchor form one chain at every step of a rotation or of a retention     *)
(* (LinkInv, StartInv), what is not finished belongs to the operation      *)
(* under way unless something failed (SealedInv, PublishedInv), exports    *)
(* hold what they name from the start (ExportInv), whatever a client has   *)
(* read is continued by what is there now or comes later (ReaderInv), and  *)
(* with one operator a lock that was found stale stays so (LockInv).       *)
(***************************************************************************)
EXTENDS FileStores, EventHistory, SequenceTheorems, FiniteSetTheorems, WellFoundedInduction,
        TLAPS

\* The abstract store computes what the file store computes.
LEMMA AtomicOperations ==
  /\ \A k, op, es : Atomic!Perform(k, op, es) = Perform(k, op, es)
  /\ \A k : Atomic!Operations(k) = Operations(k)
<1>1. \A k, op, es : Atomic!Perform(k, op, es) = Perform(k, op, es)
  <2>1. \A S, R : Atomic!Listing(S, R) = Listing(S, R)
    BY DEF Atomic!Listing, Listing, Atomic!Cardinality, Cardinality
  <2>2. \A es, I : Atomic!Picked(es, I) = Picked(es, I)
    BY <2>1 DEF Atomic!Picked, Picked, Atomic!EntriesAt, EntriesAt, Atomic!Ascending, Ascending
  <2>3. \A a, b : /\ Atomic!ById(a, b) = ById(a, b)
                  /\ Atomic!ByOccurrence(a, b) = ByOccurrence(a, b)
    BY DEF Atomic!ById, ById, Atomic!ByOccurrence, ByOccurrence
  <2>4. \A es : Atomic!Sorted(es, Atomic!ById) = Sorted(es, ById)
    BY <2>1 DEF Atomic!Sorted, Sorted, Atomic!EntriesAt, EntriesAt,
      Atomic!SortOrder, SortOrder, Atomic!ById, ById
  <2>5. \A es : Atomic!Sorted(es, Atomic!ByOccurrence) = Sorted(es, ByOccurrence)
    BY <2>1 DEF Atomic!Sorted, Sorted, Atomic!EntriesAt, EntriesAt,
      Atomic!SortOrder, SortOrder, Atomic!ByOccurrence, ByOccurrence
  <2>6. /\ \A es, id : Atomic!Without(es, id) = Without(es, id) /\ Atomic!Lookup(es, id) = Lookup(es, id)
        /\ \A id, value : Atomic!Entry(id, value) = Entry(id, value)
        /\ \A a, value, es : Atomic!Answered(a, value, es) = Answered(a, value, es)
        /\ \A a, es : Atomic!Writes(a, es) = Writes(a, es)
    BY <2>2 DEF Atomic!Without, Without, Atomic!Lookup, Lookup, Atomic!Entry, Entry,
      Atomic!Answered, Answered, Atomic!Writes, Writes
  <2>7. \A es, id, value : Atomic!Replace(es, id, value) = Replace(es, id, value)
    BY <2>4, <2>6 DEF Atomic!Replace, Replace
  <2>8. \A op, es : Atomic!ClaimOperation(op, es) = ClaimOperation(op, es)
    BY <2>2, <2>5, <2>6 DEF Atomic!ClaimOperation, ClaimOperation
  <2>9. \A op, es : /\ Atomic!OverrideOperation(op, es) = OverrideOperation(op, es)
                    /\ Atomic!PolicyOperation(op, es) = PolicyOperation(op, es)
                    /\ Atomic!MachinePolicyOperation(op, es) = MachinePolicyOperation(op, es)
                    /\ Atomic!CursorOperation(op, es) = CursorOperation(op, es)
                    /\ Atomic!BackupPolicyOperation(op, es) = BackupPolicyOperation(op, es)
    <3>1. \A op, es : Atomic!OverrideOperation(op, es) = OverrideOperation(op, es)
      BY <2>6, <2>7 DEF Atomic!OverrideOperation, OverrideOperation
    <3>2. \A op, es : Atomic!PolicyOperation(op, es) = PolicyOperation(op, es)
      BY <2>6, <2>7 DEF Atomic!PolicyOperation, PolicyOperation
    <3>3. \A op, es : Atomic!MachinePolicyOperation(op, es) = MachinePolicyOperation(op, es)
      BY <2>6 DEF Atomic!MachinePolicyOperation, MachinePolicyOperation
    <3>4. \A op, es : Atomic!CursorOperation(op, es) = CursorOperation(op, es)
      BY <2>6 DEF Atomic!CursorOperation, CursorOperation
    <3>5. \A op, es : Atomic!BackupPolicyOperation(op, es) = BackupPolicyOperation(op, es)
      BY <2>6 DEF Atomic!BackupPolicyOperation, BackupPolicyOperation
    <3> QED
      BY <3>1, <3>2, <3>3, <3>4, <3>5
  <2> QED
    BY <2>8, <2>9 DEF Atomic!Perform, Perform
<1>2. \A k : Atomic!Operations(k) = Operations(k)
  BY DEF Atomic!Operations, Operations
<1> QED
  BY <1>1, <1>2

\* An operation that writes nothing leaves the document as it was.
LEMMA AnswersLeaveDocument ==
  ASSUME StoreAssumption, NEW k \in Kinds, NEW op \in Operations(k), NEW es,
         ~Perform(k, op, es).writes
  PROVE  Perform(k, op, es).entries = es
<1>1. ASSUME NEW answer, NEW value PROVE Answered(answer, value, es).entries = es
  BY DEF Answered
<1>2. ASSUME NEW answer, NEW new PROVE Writes(answer, new).writes
  BY DEF Writes
<1>3. CASE k = "overrides"
  <2>1. Perform(k, op, es) = OverrideOperation(op, es)
    BY <1>3 DEF Perform
  <2> QED
    BY <1>1, <1>2, <2>1 DEF OverrideOperation
<1>4. CASE k = "policies"
  <2>1. Perform(k, op, es) = PolicyOperation(op, es)
    BY <1>4 DEF Perform
  <2>2. op.type \in {"find", "save", "remove"}
    BY <1>4 DEF Operations
  <2> QED
    BY <1>1, <1>2, <2>1, <2>2 DEF PolicyOperation
<1>5. CASE k = "machine_policy"
  <2>1. Perform(k, op, es) = MachinePolicyOperation(op, es)
    BY <1>5 DEF Perform
  <2>2. op.type \in {"find", "save", "remove"}
    BY <1>5 DEF Operations
  <2> QED
    BY <1>1, <1>2, <2>1, <2>2 DEF MachinePolicyOperation
<1>6. CASE k \in {"service_cursor", "power_cursor"}
  <2>1. Perform(k, op, es) = CursorOperation(op, es)
    BY <1>6 DEF Perform
  <2> QED
    BY <1>1, <1>2, <2>1 DEF CursorOperation
<1>7. CASE k \in {"service_claims", "power_claims"}
  <2>1. Perform(k, op, es) = ClaimOperation(op, es)
    BY <1>7 DEF Perform
  <2> QED
    BY <1>1, <1>2, <2>1 DEF ClaimOperation
<1>8. CASE k = "backup_policies"
  <2>1. Perform(k, op, es) = BackupPolicyOperation(op, es)
    BY <1>8 DEF Perform
  <2> QED
    BY <1>2, <2>1 DEF BackupPolicyOperation
<1> QED
  BY <1>3, <1>4, <1>5, <1>6, <1>7, <1>8 DEF StoreAssumption
-----------------------------------------------------------------------------
\* What a caller is at between its read and its rename.
Computed(w, k, op, es) ==
    /\ w.next = [Document(Perform(k, op, es).entries) EXCEPT !.synced = w.next.synced]
    /\ w.answer = Perform(k, op, es).answer

Shaped(w) == w = [at |-> w.at, next |-> w.next, answer |-> w.answer]

\* The part of one caller in the invariant.
Working(c) ==
    /\ Shaped(work[c])
    /\ work[c].at # "idle" => asked[c] # None
    /\ work[c].at \notin {"idle", "read"} =>
           Turn(c) /\ answers[c] = None /\ Computed(work[c], kind, asked[c], Target.entries)

\* The invariant, caller by caller, ...
LEMMA WorkByCaller == WorkInv <=> \A c \in Callers : Working(c)
  BY DEF WorkInv, Working, Shaped, Computed

\* ... and after a step.
LEMMA WorkByCallerNext ==
  WorkInv' <=> \A c \in Callers :
      /\ Shaped(work'[c])
      /\ work'[c].at # "idle" => asked'[c] # None
      /\ work'[c].at \notin {"idle", "read"} =>
             Turn(c)' /\ answers'[c] = None /\ Computed(work'[c], kind', asked'[c], Target'.entries)
  BY DEF WorkInv, Shaped, Computed

\* The waiting callers but the head are idle or have not read yet.
LEMMA OthersWait ==
  ASSUME IInv, NEW c \in Callers, Turn(c), NEW d \in Callers, d # c
  PROVE  work[d].at \in {"idle", "read"}
  BY WorkByCaller DEF IInv, Working, Turn

\* A change of one element leaves a sequence a sequence, and a function a function.
LEMMA Updated ==
  ASSUME NEW f, NEW S, f \in [S -> Range(f)], NEW x \in S, NEW y
  PROVE  /\ [f EXCEPT ![x] = y] \in [S -> Range([f EXCEPT ![x] = y])]
         /\ [f EXCEPT ![x] = y][x] = y
         /\ \A z \in S : z # x => [f EXCEPT ![x] = y][z] = f[z]
  BY DEF Range

\* The queue after its head, or with one more behind.
LEMMA QueueMoves ==
  ASSUME queue \in Seq(Callers), NEW c \in Callers
  PROVE  /\ queue # <<>> => Tail(queue) \in Seq(Callers)
         /\ Append(queue, c) \in Seq(Callers) /\ Append(queue, c) # <<>>
         /\ queue # <<>> => Head(Append(queue, c)) = Head(queue)
<1>1. queue # <<>> => Tail(queue) \in Seq(Callers)
  OBVIOUS
<1>2. /\ Append(queue, c) \in Seq(Callers) /\ Len(Append(queue, c)) = Len(queue) + 1
      /\ Len(queue) \in Nat /\ Append(queue, c) # <<>>
  OBVIOUS
<1>3. ASSUME queue # <<>> PROVE Head(Append(queue, c)) = Head(queue)
  <2>1. Len(queue) > 0
    BY <1>3
  <2>2. Append(queue, c)[1] = queue[1]
    BY <2>1
  <2> QED
    BY <2>2, <1>2, <1>3
<1> QED
  BY <1>1, <1>2, <1>3

\* A rename makes the document the target.
LEMMA TargetAfterRename ==
  ASSUME NEW vs, vs \in Seq(Range(vs)), NEW doc
  PROVE  /\ Append(vs, doc) # <<>> /\ Append(vs, doc) \in Seq(Range(Append(vs, doc)))
         /\ Last(Append(vs, doc)) = doc
<1> DEFINE T == Range(vs) \cup {doc}
<1>1. vs \in Seq(T)
  BY DEF Range
<1> HIDE DEF T
<1>2. doc \in T
  BY DEF T
<1>3. /\ Append(vs, doc) \in Seq(T) /\ Len(Append(vs, doc)) = Len(vs) + 1 /\ Len(vs) \in Nat
      /\ Append(vs, doc)[Len(vs) + 1] = doc
  BY <1>1, <1>2
<1>4. Append(vs, doc) # <<>>
  BY <1>3
<1>5. Append(vs, doc) \in Seq(Range(Append(vs, doc)))
  BY <1>3 DEF Range
<1> QED
  BY <1>3, <1>4, <1>5 DEF Last

-----------------------------------------------------------------------------
\* The head settles: nobody behind it has computed anything.
LEMMA SettleInvariant ==
  ASSUME IInv, NEW c \in Callers, Turn(c), NEW answer, Settle(c, answer),
         UNCHANGED <<kind, asked>>, versions' # <<>>, versions' \in Seq(Range(versions'))
  PROVE  IInv'
<1>1. /\ answers' = [answers EXCEPT ![c] = answer] /\ queue' = Tail(queue)
      /\ work' = [work EXCEPT ![c] = Idle]
  BY DEF Settle
<1>2. ShapeInv'
  <2>1. answers' \in [Callers -> Range(answers')] /\ work' \in [Callers -> Range(work')]
    BY <1>1, Updated DEF IInv, ShapeInv
  <2>2. queue' \in Seq(Callers)
    BY <1>1, QueueMoves DEF IInv, ShapeInv, Turn
  <2> QED
    BY <2>1, <2>2 DEF IInv, ShapeInv
<1>3. /\ work'[c] = Idle /\ \A d \in Callers : d # c => work'[d] = work[d]
  BY <1>1, Updated DEF IInv, ShapeInv
<1>4. \A d \in Callers : /\ Shaped(work'[d]) /\ work'[d].at \in {"idle", "read"}
                         /\ work'[d].at # "idle" => asked'[d] # None
  BY <1>3, OthersWait, WorkByCaller DEF IInv, Working, Shaped, Idle
<1> QED
  BY <1>2, <1>4, WorkByCallerNext DEF IInv

\* The head goes on with its operation, which stays the one it has computed.
LEMMA WorkInvariant ==
  ASSUME IInv, NEW c \in Callers, Turn(c), NEW w, work' = [work EXCEPT ![c] = w],
         answers[c] = None, asked[c] # None, Shaped(w),
         Computed(w, kind, asked[c], Target.entries),
         UNCHANGED <<kind, versions, queue, asked, answers>>
  PROVE  IInv'
<1>1. ShapeInv'
  BY Updated DEF IInv, ShapeInv
<1>2. work'[c] = w /\ \A d \in Callers : d # c => work'[d] = work[d]
  BY Updated DEF IInv, ShapeInv
<1>3. Target' = Target /\ Turn(c)'
  BY DEF Target, Turn
<1>4. \A d \in Callers : d # c => /\ Shaped(work'[d]) /\ work'[d].at \in {"idle", "read"}
                                  /\ work'[d].at # "idle" => asked'[d] # None
  BY <1>2, OthersWait, WorkByCaller DEF IInv, Working
<1> QED
  BY <1>1, <1>2, <1>3, <1>4, WorkByCallerNext DEF IInv

\* The process stops: everybody is idle.
LEMMA StopInvariant ==
  ASSUME StoreAssumption, IInv, Interrupted, versions' # <<>>, versions' \in Seq(Range(versions'))
  PROVE  IInv'
<1>1. /\ queue' = <<>> /\ work' = [c \in Callers |-> Idle] /\ UNCHANGED <<kind, asked>>
      /\ answers' = [c \in Callers |-> IF asked[c] # None /\ answers[c] = None THEN Failed
                                       ELSE answers[c]]
  BY DEF Interrupted
<1>2. ShapeInv'
  BY <1>1 DEF IInv, ShapeInv, Range
<1> QED
  BY <1>1, <1>2, WorkByCallerNext DEF IInv, Shaped, Idle

-----------------------------------------------------------------------------
abstract == <<kind, Target.entries, asked, answers>>

\* What the abstract store may do, and a loss of power.
Allowed == Atomic!Next \/ PowerLoss \/ UNCHANGED abstract

\* A refusal is a step of the abstract store.
LEMMA RefusedStep ==
  ASSUME IInv, NEW c \in Callers, asked[c] # None, answers[c] = None,
         Settle(c, Failed), UNCHANGED <<kind, versions, asked>>
  PROVE  Allowed
<1>1. Atomic!Refuse(c)
  BY DEF Atomic!Refuse, Atomic!Failed, Failed, Settle, Target
<1> QED
  BY <1>1 DEF Allowed, Atomic!Next

\* So is an operation that takes effect.
LEMMA DoneStep ==
  ASSUME IInv, NEW c \in Callers, asked[c] # None, answers[c] = None,
         Settle(c, Perform(kind, asked[c], Target.entries).answer), UNCHANGED <<kind, asked>>,
         Target'.entries = Perform(kind, asked[c], Target.entries).entries
  PROVE  Allowed
<1>1. Atomic!Perform(kind, asked[c], Target.entries) = Perform(kind, asked[c], Target.entries)
  BY AtomicOperations
<1>2. Atomic!Do(c)
  BY <1>1 DEF Atomic!Do, Settle
<1> QED
  BY <1>2 DEF Allowed, Atomic!Next

\* The work of a caller that goes on with the document it has computed.
Advanced(w, at, synced) ==
    [at |-> at, next |-> [w.next EXCEPT !.synced = synced], answer |-> w.answer]

\* A document that is synced keeps its other fields.
LEMMA SyncedUpdates ==
  ASSUME NEW x, NEW es, NEW b, NEW y, NEW d,
         d = [whole |-> x, entries |-> es, synced |-> b, exists |-> y]
  PROVE  \A s : [d EXCEPT !.synced = s] = [whole |-> x, entries |-> es, synced |-> s, exists |-> y]
  OBVIOUS

\* So does the work of a caller that moves on.
LEMMA AtUpdates ==
  ASSUME NEW w, NEW at, NEW a, NEW n, NEW s, w = [at |-> a, next |-> n, answer |-> s]
  PROVE  [w EXCEPT !.at = at] = [at |-> at, next |-> n, answer |-> s]
  OBVIOUS

\* It stays computed from the document it replaces.
LEMMA AdvancedIsUpdate ==
  ASSUME NEW w, Shaped(w), NEW k, NEW op, NEW es, Computed(w, k, op, es)
  PROVE  \A at :
           /\ [w EXCEPT !.at = at] = Advanced(w, at, w.next.synced)
           /\ \A synced : /\ Shaped(Advanced(w, at, synced))
                          /\ Computed(Advanced(w, at, synced), k, op, es)
<1> DEFINE new == Perform(k, op, es).entries
<1>1. PICK x, y : Document(new) = [whole |-> x, entries |-> new, synced |-> FALSE, exists |-> y]
  BY DEF Document
<1> HIDE DEF new
<1>2. \A b : [Document(new) EXCEPT !.synced = b]
                 = [whole |-> x, entries |-> new, synced |-> b, exists |-> y]
  BY <1>1, SyncedUpdates
<1>3. w.next = [whole |-> x, entries |-> new, synced |-> w.next.synced, exists |-> y]
  BY <1>2 DEF Computed, new
<1>4. \A b : [w.next EXCEPT !.synced = b]
                 = [whole |-> x, entries |-> new, synced |-> b, exists |-> y]
  BY <1>3, SyncedUpdates
<1> SUFFICES ASSUME NEW at
             PROVE  /\ [w EXCEPT !.at = at] = Advanced(w, at, w.next.synced)
                    /\ \A synced : /\ Shaped(Advanced(w, at, synced))
                                   /\ Computed(Advanced(w, at, synced), k, op, es)
  OBVIOUS
<1>5. [w EXCEPT !.at = at] = [at |-> at, next |-> w.next, answer |-> w.answer]
  BY AtUpdates DEF Shaped
<1>6. ASSUME NEW synced
      PROVE  Shaped(Advanced(w, at, synced)) /\ Computed(Advanced(w, at, synced), k, op, es)
  <2> DEFINE adv == Advanced(w, at, synced)
  <2>1. /\ adv.next = [whole |-> x, entries |-> new, synced |-> synced, exists |-> y]
        /\ adv.answer = w.answer
        /\ Shaped(adv)
    BY <1>4 DEF Advanced, Shaped
  <2>2. adv.next.synced = synced
    BY <2>1
  <2> HIDE DEF adv
  <2>3. adv.next = [Document(new) EXCEPT !.synced = adv.next.synced]
    BY <1>2, <2>1, <2>2
  <2>4. Computed(adv, k, op, es)
    BY <2>1, <2>3 DEF Computed, new
  <2> QED
    BY <2>1, <2>4 DEF adv
<1>7. [w.next EXCEPT !.synced = w.next.synced] = w.next
  BY <1>3, <1>4
<1> QED
  BY <1>5, <1>6, <1>7 DEF Advanced

\* Every step of a caller keeps the invariant and is allowed.
LEMMA CallerStep ==
  ASSUME StoreAssumption, IInv, NEW c \in Callers, Step(c)
  PROVE  IInv' /\ Allowed
<1>1. Turn(c) /\ answers[c] = None /\ asked[c] # None /\ asked[c] \in Operations(kind)
  BY WorkByCaller DEF IInv, Working, ShapeInv, Step, Compute, ReadFails, OpenTemporary, OpenFails,
       WriteTemporary, SyncTemporary, RenameTemporary, WriteFails, At
<1>2. versions # <<>> /\ versions \in Seq(Range(versions)) /\ kind \in Kinds
  BY DEF IInv, ShapeInv
<1>3. CASE Compute(c)
  <2> DEFINE outcome == Perform(kind, asked[c], Target.entries)
  <2>1. UNCHANGED <<kind, versions, asked>> /\ Target' = Target
    BY <1>3 DEF Compute, Target
  <2>2. CASE outcome.writes
    <3> DEFINE w == [at |-> "open", next |-> Document(outcome.entries), answer |-> outcome.answer]
    <3>1. work' = [work EXCEPT ![c] = w] /\ UNCHANGED <<queue, answers>>
      BY <1>3, <2>2 DEF Compute
    <3>2. Shaped(w)
      BY DEF Shaped
    <3>3. Computed(w, kind, asked[c], Target.entries)
      BY DEF Computed, Document
    <3> HIDE DEF w
    <3>4. IInv'
      BY <1>1, <2>1, <3>1, <3>2, <3>3, WorkInvariant
    <3> QED
      BY <2>1, <3>1, <3>4 DEF Allowed, abstract
  <2>3. CASE ~outcome.writes
    <3>1. Settle(c, outcome.answer)
      BY <1>3, <2>3 DEF Compute
    <3>2. outcome.entries = Target.entries
      BY <1>1, <1>2, <2>3, AnswersLeaveDocument
    <3>3. IInv'
      BY <1>1, <1>2, <2>1, <3>1, SettleInvariant
    <3> QED
      BY <1>1, <2>1, <3>1, <3>2, <3>3, DoneStep
  <2> QED
    BY <2>2, <2>3
<1>4. CASE ReadFails(c) \/ OpenFails(c) \/ WriteFails(c)
  <2>1. Settle(c, Failed) /\ UNCHANGED <<kind, versions, asked>>
    BY <1>4 DEF ReadFails, OpenFails, WriteFails
  <2> QED
    BY <1>1, <1>2, <2>1, SettleInvariant, RefusedStep
<1>5. CASE OpenTemporary(c) \/ WriteTemporary(c) \/ SyncTemporary(c)
  <2>1. Shaped(work[c]) /\ Computed(work[c], kind, asked[c], Target.entries)
    BY <1>5, WorkByCaller DEF IInv, Working, OpenTemporary, WriteTemporary, SyncTemporary, At
  <2>2. UNCHANGED <<kind, versions, queue, asked, answers>> /\ UNCHANGED abstract
    BY <1>5 DEF OpenTemporary, WriteTemporary, SyncTemporary, abstract, Target
  <2>3. PICK at, synced :
            work' = [work EXCEPT ![c] = Advanced(work[c], at, synced)]
    <3>1. CASE OpenTemporary(c) \/ WriteTemporary(c)
      <4>1. PICK at : work' = [work EXCEPT ![c] = [@ EXCEPT !.at = at]]
        BY <3>1 DEF OpenTemporary, WriteTemporary
      <4>2. [work[c] EXCEPT !.at = at] = Advanced(work[c], at, work[c].next.synced)
        BY <2>1, AdvancedIsUpdate
      <4> QED
        BY <4>1, <4>2
    <3>2. CASE SyncTemporary(c)
      BY <3>2 DEF SyncTemporary, Advanced
    <3> QED
      BY <1>5, <3>1, <3>2
  <2>4. /\ Shaped(Advanced(work[c], at, synced))
        /\ Computed(Advanced(work[c], at, synced), kind, asked[c], Target.entries)
    BY <2>1, AdvancedIsUpdate
  <2>5. IInv'
    BY <1>1, <2>2, <2>3, <2>4, WorkInvariant
  <2> QED
    BY <2>2, <2>5 DEF Allowed
<1>6. CASE RenameTemporary(c)
  <2>1. Computed(work[c], kind, asked[c], Target.entries)
    BY <1>6, WorkByCaller DEF IInv, Working, RenameTemporary, At
  <2>2. /\ versions' = Append(versions, work[c].next) /\ UNCHANGED <<kind, asked>>
        /\ Settle(c, Perform(kind, asked[c], Target.entries).answer)
    BY <1>6, <2>1 DEF RenameTemporary, Computed
  <2>3. /\ versions' # <<>> /\ versions' \in Seq(Range(versions'))
        /\ Target' = work[c].next
    BY <1>2, <2>2, TargetAfterRename DEF Target
  <2>4. Target'.entries = Perform(kind, asked[c], Target.entries).entries
    BY <2>1, <2>3 DEF Computed, Document
  <2> QED
    BY <1>1, <2>2, <2>3, <2>4, SettleInvariant, DoneStep
<1> QED
  BY <1>3, <1>4, <1>5, <1>6 DEF Step

\* So does every other step.
LEMMA NextStep ==
  ASSUME StoreAssumption, IInv, [Next]_vars
  PROVE  IInv' /\ Allowed
<1>1. versions # <<>> /\ versions \in Seq(Range(versions)) /\ kind \in Kinds
  BY DEF IInv, ShapeInv
<1>2. ASSUME NEW c \in Callers, NEW op \in Operations(kind), Ask(c, op)
      PROVE  IInv' /\ Allowed
  <2>1. /\ asked[c] = None /\ asked' = [asked EXCEPT ![c] = op] /\ queue' = Append(queue, c)
        /\ work' = [work EXCEPT ![c] = [@ EXCEPT !.at = "read"]]
        /\ UNCHANGED <<kind, versions, temps, answers, crashes>>
    BY <1>2 DEF Ask
  <2>2. op # None /\ asked \in [Callers -> Operations(kind) \cup {None}]
    BY <1>1 DEF StoreAssumption, IInv, ShapeInv
  <2>3. work'[c] = [work[c] EXCEPT !.at = "read"] /\ \A d \in Callers : d # c => work'[d] = work[d]
    BY <2>1, Updated DEF IInv, ShapeInv
  <2>4. asked'[c] = op /\ \A d \in Callers : d # c => asked'[d] = asked[d]
    BY <2>1, <2>2
  <2>5. ShapeInv'
    <3>1. asked' \in [Callers -> Operations(kind) \cup {None}]
      BY <2>1, <2>2
    <3>2. work' \in [Callers -> Range(work')]
      BY <2>1 DEF IInv, ShapeInv, Range
    <3>3. queue' \in Seq(Callers)
      BY <2>1, QueueMoves DEF IInv, ShapeInv
    <3> QED
      BY <2>1, <3>1, <3>2, <3>3 DEF IInv, ShapeInv
  <2>6. Shaped(work'[c]) /\ work'[c].at = "read"
    <3>1. PICK a, n, s : work[c] = [at |-> a, next |-> n, answer |-> s]
      BY WorkByCaller DEF IInv, Working, Shaped
    <3>2. work'[c] = [at |-> "read", next |-> n, answer |-> s]
      BY <2>3, <3>1
    <3> QED
      BY <3>2 DEF Shaped
  <2>7. Target' = Target /\ \A d \in Callers : Turn(d) => Turn(d)'
    BY <2>1, QueueMoves DEF IInv, ShapeInv, Target, Turn
  <2>8. WorkInv'
    <3>1. \A d \in Callers : Working(d)
      BY WorkByCaller DEF IInv
    <3> QED
      BY <2>1, <2>2, <2>3, <2>4, <2>6, <2>7, <3>1, WorkByCallerNext DEF Working
  <2>9. Atomic!Ask(c, op)
    BY <2>1, <2>7 DEF Atomic!Ask
  <2>10. op \in Atomic!Operations(kind)
    BY AtomicOperations
  <2> QED
    BY <2>5, <2>8, <2>9, <2>10 DEF IInv, Allowed, Atomic!Next
<1>3. CASE Crash
  <2>1. IInv'
    BY <1>1, <1>3, StopInvariant DEF Crash
  <2>2. Atomic!Stop
    BY <1>3 DEF Crash, Interrupted, Atomic!Stop, Atomic!Failed, Failed, Target
  <2> QED
    BY <2>1, <2>2 DEF Allowed, Atomic!Next
<1>4. CASE PowerLoss
  <2>1. \E doc : versions' = <<doc>>
    BY <1>4 DEF PowerLoss
  <2>2. versions' # <<>> /\ versions' \in Seq(Range(versions'))
    BY <2>1 DEF Range
  <2>3. IInv'
    BY <1>4, <2>2, StopInvariant DEF PowerLoss
  <2> QED
    BY <1>4, <2>3 DEF Allowed
<1>5. CASE UNCHANGED vars
  BY <1>5 DEF vars, IInv, ShapeInv, WorkInv, Target, Turn, Allowed, abstract
<1> QED
  BY <1>2, <1>3, <1>4, <1>5, CallerStep DEF Next

\* An empty directory is an empty store.
LEMMA InitStep ==
  ASSUME StoreAssumption, Init
  PROVE  IInv /\ Atomic!Init
<1>1. Target = Missing
  BY DEF Init, Target, Last
<1>2. Atomic!Init
  BY <1>1 DEF Init, Atomic!Init, Missing
<1>3. ShapeInv
  BY DEF Init, ShapeInv, Range
<1>4. WorkInv
  BY DEF Init, WorkInv, Idle
<1> QED
  BY <1>2, <1>3, <1>4 DEF IInv

\* Whatever fails between the steps of an operation, and wherever the process stops,
\* the callers of a store see an atomic store: no update is lost between a read and
\* a rename, no failed operation has an effect, and an answer is what happened; only
\* a loss of power may undo a rename (persist, #enqueue of each store).
THEOREM FileStoresAreAtomic ==
  ASSUME StoreAssumption
  PROVE  Spec => StoresAreAtomic
<1>1. Init => IInv /\ Atomic!Init
  BY InitStep
<1>2. IInv /\ [Next]_vars => IInv' /\ [Atomic!Next \/ PowerLoss]_abstract
  BY NextStep DEF Allowed
<1> QED
  BY <1>1, <1>2, PTL DEF Spec, StoresAreAtomic, abstract
-----------------------------------------------------------------------------
(* Induction, by the least-number principle for sets. *)

\* A set of numbers that is not empty has a least element.
LEMMA LeastNatural ==
  ASSUME NEW T, T \subseteq Nat, T # {}
  PROVE  \E x \in T : \A y \in T : x <= y
<1> DEFINE R == {ss \in Nat \X Nat : ss[1] < ss[2]}
<1>1. OpToRel(<, Nat) = R
  BY DEF OpToRel
<1>2. IsWellFoundedOn(R, Nat)
  BY <1>1, NatLessThanWellFounded
<1> HIDE DEF R
<1>3. PICK x \in T : \A y \in T : <<y, x>> \notin R
  BY <1>2, WFMin
<1>4. \A y \in T : ~(y < x)
  BY <1>3 DEF R
<1> QED
  BY <1>4

\* Induction on the set of numbers a statement holds of.
LEMMA InductionOnSet ==
  ASSUME NEW S, 0 \in S, \A n \in Nat : n \in S => n + 1 \in S
  PROVE  Nat \subseteq S
<1> SUFFICES ASSUME Nat \ S # {} PROVE FALSE
  OBVIOUS
<1>1. PICK x \in Nat \ S : \A y \in Nat \ S : x <= y
  BY LeastNatural
<1>2. x # 0 /\ x - 1 \in Nat
  BY <1>1
<1>3. x - 1 \in S
  BY <1>1, <1>2
<1> QED
  BY <1>1, <1>2, <1>3

-----------------------------------------------------------------------------
(* Listings of finite sets, filter and sort. *)

\* R is a strict total order of U.
Orders(R, U) ==
    /\ \A x \in U : <<x, x>> \notin R
    /\ \A x, y, z \in U : <<x, y>> \in R /\ <<y, z>> \in R => <<x, z>> \in R
    /\ \A x, y \in U : x # y => <<x, y>> \in R \/ <<y, x>> \in R

\* q lists U in the order R.
ListsInOrder(q, U, R) ==
    /\ Cardinality(U) \in Nat /\ q \in [1..Cardinality(U) -> U]
    /\ \A i, j \in 1..Cardinality(U) : i < j => <<q[i], q[j]>> \in R
    /\ \A x \in U : \E i \in 1..Cardinality(U) : q[i] = x

\* The first of a finite set.
LEMMA FirstInOrder ==
  ASSUME NEW R, NEW U, IsFiniteSet(U), Orders(R, U), U # {}
  PROVE  \E m \in U : \A x \in U : x # m => <<m, x>> \in R
<1> DEFINE First(S) == \E m \in S : \A x \in S : x # m => <<m, x>> \in R
           P == {n \in Nat : \A S \in SUBSET U : Cardinality(S) = n + 1 => First(S)}
<1>1. 0 \in P
  <2>1. ASSUME NEW S \in SUBSET U, Cardinality(S) = 0 + 1 PROVE First(S)
    <3>1. IsFiniteSet(S)
      BY FS_Subset
    <3>2. PICK m : S = {m}
      <4>1. Cardinality(S) = 1
        BY <2>1
      <4> QED
        BY <3>1, <4>1, FS_Singleton
    <3> QED
      BY <3>2
  <2> QED
    BY <2>1
<1>2. ASSUME NEW n \in Nat, n \in P PROVE n + 1 \in P
  <2>1. ASSUME NEW S \in SUBSET U, Cardinality(S) = (n + 1) + 1 PROVE First(S)
    <3>1. IsFiniteSet(S) /\ S # {}
      BY <2>1, FS_Subset, FS_EmptySet
    <3>2. PICK a \in S : TRUE
      BY <3>1
    <3>3. Cardinality(S \ {a}) = Cardinality(S) - 1 /\ Cardinality(S) \in Nat
      BY <3>1, <3>2, FS_RemoveElement, FS_CardinalityType
    <3>4. S \ {a} \in SUBSET U /\ Cardinality(S \ {a}) = n + 1
      BY <2>1, <3>3
    <3>5. First(S \ {a})
      BY <1>2, <3>4
    <3>6. PICK m \in S \ {a} : \A x \in S \ {a} : x # m => <<m, x>> \in R
      BY <3>5
    <3>7. CASE <<a, m>> \in R
      <4>1. \A x \in S : x # a => <<a, x>> \in R
        BY <3>2, <3>6, <3>7 DEF Orders
      <4> QED
        BY <3>2, <4>1
    <3>8. CASE <<a, m>> \notin R
      <4>1. <<m, a>> \in R
        BY <3>2, <3>6, <3>8 DEF Orders
      <4> QED
        BY <3>6, <4>1
    <3> QED
      BY <3>7, <3>8
  <2> HIDE DEF First
  <2> QED
    BY <2>1
<1> HIDE DEF P
<1>3. Nat \subseteq P
  BY <1>1, <1>2, InductionOnSet
<1>4. Cardinality(U) \in Nat /\ Cardinality(U) # 0
  BY FS_CardinalityType, FS_EmptySet
<1>5. Cardinality(U) - 1 \in Nat /\ (Cardinality(U) - 1) + 1 = Cardinality(U)
  BY <1>4
<1>6. First(U)
  BY <1>3, <1>5 DEF P
<1> QED
  BY <1>6

\* A finite set can be listed in the order of a relation that orders it.
LEMMA CanBeListed ==
  ASSUME NEW R, NEW U, IsFiniteSet(U), Orders(R, U)
  PROVE  \E q \in [1..Cardinality(U) -> U] :
             \A i, j \in 1..Cardinality(U) : i < j => <<q[i], q[j]>> \in R
<1> DEFINE Enumerated(S, n) ==
               \E q \in [1..n -> S] : \A i, j \in 1..n : i < j => <<q[i], q[j]>> \in R
           P == {n \in Nat : \A S \in SUBSET U : Cardinality(S) = n => Enumerated(S, n)}
<1>1. 0 \in P
  <2>1. ASSUME NEW S \in SUBSET U PROVE Enumerated(S, 0)
    <3> DEFINE none == [i \in 1..0 |-> 0]
    <3>1. none \in [1..0 -> S] /\ \A i, j \in 1..0 : i < j => <<none[i], none[j]>> \in R
      OBVIOUS
    <3> HIDE DEF none
    <3> QED
      BY <3>1
  <2> QED
    BY <2>1
<1>2. ASSUME NEW n \in Nat, n \in P PROVE n + 1 \in P
  <2>1. ASSUME NEW S \in SUBSET U, Cardinality(S) = n + 1 PROVE Enumerated(S, n + 1)
    <3>1. IsFiniteSet(S) /\ S # {}
      BY <2>1, FS_Subset, FS_EmptySet
    <3>2. Orders(R, S)
      BY DEF Orders
    <3>3. PICK m \in S : \A x \in S : x # m => <<m, x>> \in R
      BY <3>1, <3>2, FirstInOrder
    <3>4. S \ {m} \in SUBSET U /\ Cardinality(S \ {m}) = n
      <4>1. Cardinality(S \ {m}) = Cardinality(S) - 1
        BY <3>1, FS_RemoveElement
      <4> QED
        BY <2>1, <4>1
    <3>5. PICK q \in [1..n -> S \ {m}] : \A i, j \in 1..n : i < j => <<q[i], q[j]>> \in R
      BY <1>2, <3>4
    <3> DEFINE new == [i \in 1..(n + 1) |-> IF i = 1 THEN m ELSE q[i - 1]]
    <3>6. new \in [1..(n + 1) -> S]
      BY <3>3, <3>5
    <3>7. ASSUME NEW i \in 1..(n + 1), NEW j \in 1..(n + 1), i < j
          PROVE  <<new[i], new[j]>> \in R
      <4>1. j - 1 \in 1..n /\ new[j] = q[j - 1] /\ q[j - 1] \in S \ {m}
        BY <3>5, <3>7
      <4>2. CASE i = 1
        BY <3>3, <4>1, <4>2
      <4>3. CASE i # 1
        <5>1. i - 1 \in 1..n /\ i - 1 < j - 1 /\ new[i] = q[i - 1]
          BY <3>7, <4>3
        <5> QED
          BY <3>5, <4>1, <5>1
      <4> QED
        BY <4>2, <4>3
    <3> HIDE DEF new
    <3> QED
      BY <3>6, <3>7
  <2> HIDE DEF Enumerated
  <2> QED
    BY <2>1
<1> HIDE DEF P
<1>3. Nat \subseteq P
  BY <1>1, <1>2, InductionOnSet
<1>4. Cardinality(U) \in Nat
  BY FS_CardinalityType
<1>5. Enumerated(U, Cardinality(U))
  BY <1>3, <1>4 DEF P
<1> QED
  BY <1>5

\* The listing of a finite set has every member, in order.
LEMMA ListingIsComplete ==
  ASSUME NEW R, NEW U, IsFiniteSet(U), Orders(R, U)
  PROVE  ListsInOrder(Listing(U, R), U, R)
<1> DEFINE n == Cardinality(U)
           q == Listing(U, R)
<1>1. n \in Nat
  BY FS_CardinalityType
<1>2. q \in [1..n -> U] /\ \A i, j \in DOMAIN q : i < j => <<q[i], q[j]>> \in R
  <2>1. \E p \in [1..n -> U] : \A i, j \in DOMAIN p : i < j => <<p[i], p[j]>> \in R
    <3>1. PICK p \in [1..n -> U] : \A i, j \in 1..n : i < j => <<p[i], p[j]>> \in R
      BY CanBeListed
    <3> QED
      BY <3>1
  <2> QED
    BY <2>1 DEF Listing
<1> HIDE DEF n, q
<1> DEFINE D == {q[i] : i \in 1..n}
<1>4. D \in SUBSET U
  BY <1>2
<1>5. ASSUME NEW a \in 1..n, NEW b \in 1..n, q[a] = q[b] PROVE a = b
  <2>1. a \in DOMAIN q /\ b \in DOMAIN q /\ q[a] \in U
    BY <1>2
  <2>2. ~(a < b) /\ ~(b < a)
    BY <1>2, <1>5, <2>1 DEF Orders
  <2> QED
    BY <1>1, <2>2
<1>6. q \in Bijection(1..n, D)
  BY <1>2, <1>5 DEF Bijection, Injection, Surjection, IsInjective
<1>7. ExistsBijection(1..n, D)
  BY <1>6 DEF ExistsBijection
<1>8. IsFiniteSet(1..n) /\ Cardinality(1..n) = n
  BY <1>1, FS_Interval
<1>9. Cardinality(D) = n
  BY <1>7, <1>8, FS_Bijection
<1>10. D = U
  BY <1>4, <1>9, FS_Subset DEF n
<1> QED
  BY <1>1, <1>2, <1>10 DEF ListsInOrder, q, n
-----------------------------------------------------------------------------
\* Every entry is related by T to every later one.
PairwiseIn(s, T) == \A i, j \in 1..Len(s) : i < j => <<s[i], s[j]>> \in T

\* For a transitive T it is enough to look at neighbours.
LEMMA NeighboursSuffice ==
  ASSUME NEW E, NEW T, NEW s \in Seq(E),
         \A x, y, z \in E : <<x, y>> \in T /\ <<y, z>> \in T => <<x, z>> \in T,
         \A i \in 1..(Len(s) - 1) : <<s[i], s[i + 1]>> \in T
  PROVE  PairwiseIn(s, T)
<1> DEFINE P == {d \in Nat : \A i \in 1..Len(s) : i + (d + 1) <= Len(s) =>
                                 <<s[i], s[i + (d + 1)]>> \in T}
<1>0. Len(s) \in Nat /\ \A i \in 1..Len(s) : s[i] \in E
  OBVIOUS
<1>1. 0 \in P
  <2>1. ASSUME NEW i \in 1..Len(s), i + (0 + 1) <= Len(s) PROVE <<s[i], s[i + (0 + 1)]>> \in T
    <3>1. i \in 1..(Len(s) - 1) /\ 0 + 1 = 1
      BY <1>0, <2>1
    <3> QED
      BY <3>1
  <2> QED
    BY <2>1
<1>2. ASSUME NEW d \in Nat, d \in P PROVE d + 1 \in P
  <2>1. ASSUME NEW i \in 1..Len(s), i + ((d + 1) + 1) <= Len(s)
        PROVE  <<s[i], s[i + ((d + 1) + 1)]>> \in T
    <3>1. /\ i + (d + 1) \in 1..(Len(s) - 1) /\ i + (d + 1) \in 1..Len(s)
          /\ i + ((d + 1) + 1) = (i + (d + 1)) + 1 /\ i + ((d + 1) + 1) \in 1..Len(s)
      BY <1>0, <2>1
    <3>2. <<s[i + (d + 1)], s[i + ((d + 1) + 1)]>> \in T
      BY <3>1
    <3>3. <<s[i], s[i + (d + 1)]>> \in T
      BY <1>2, <2>1, <3>1
    <3> QED
      BY <1>0, <3>1, <3>2, <3>3
  <2> QED
    BY <2>1
<1> HIDE DEF P
<1>3. Nat \subseteq P
  BY <1>1, <1>2, InductionOnSet
<1>4. ASSUME NEW i \in 1..Len(s), NEW j \in 1..Len(s), i < j PROVE <<s[i], s[j]>> \in T
  <2>1. j - i - 1 \in Nat /\ i + ((j - i - 1) + 1) = j
    BY <1>0, <1>4
  <2>2. j - i - 1 \in P
    BY <1>3, <2>1
  <2>3. i + ((j - i - 1) + 1) <= Len(s)
    BY <1>0, <2>1
  <2>4. <<s[i], s[i + ((j - i - 1) + 1)]>> \in T
    BY <2>2, <2>3 DEF P
  <2> QED
    BY <2>1, <2>4
<1> QED
  BY <1>4 DEF PairwiseIn

\* r has the entries of s at the indexes of I, any two of them related by T.
Arranges(r, s, I, E, T) ==
    /\ r \in Seq(E) /\ Len(r) = Cardinality(I) /\ Cardinality(I) \in Nat
    /\ PairwiseIn(r, T)
    /\ \A k \in 1..Cardinality(I) : \E i \in I : r[k] = s[i]
    /\ \A i \in I : \E k \in 1..Cardinality(I) : r[k] = s[i]

\* The entries at some indexes of a sequence, in an order B of those.
LEMMA EntriesInOrder ==
  ASSUME NEW E, NEW s \in Seq(E), NEW I \in SUBSET (1..Len(s)), NEW B, Orders(B, I), NEW T,
         \A i, j \in I : <<i, j>> \in B => <<s[i], s[j]>> \in T
  PROVE  Arranges(EntriesAt(s, Listing(I, B)), s, I, E, T)
<1>1. IsFiniteSet(I)
  <2>1. IsFiniteSet(1..Len(s))
    BY FS_Interval
  <2> QED
    BY <2>1, FS_Subset
<1>2. ListsInOrder(Listing(I, B), I, B)
  BY <1>1, ListingIsComplete
<1> DEFINE q == Listing(I, B)
           n == Cardinality(I)
           r == EntriesAt(s, q)
<1>3. n \in Nat /\ q \in [1..n -> I] /\ \A i, j \in 1..n : i < j => <<q[i], q[j]>> \in B
  BY <1>2 DEF ListsInOrder
<1>4. \A i \in I : \E k \in 1..n : q[k] = i
  BY <1>2 DEF ListsInOrder
<1> HIDE DEF q, n
<1>5. r = [k \in 1..n |-> s[q[k]]]
  BY <1>3 DEF EntriesAt
<1>6. \A k \in 1..n : q[k] \in I /\ s[q[k]] \in E
  <2>1. \A i \in I : s[i] \in E
    OBVIOUS
  <2> QED
    BY <1>3, <2>1
<1>7. r \in Seq(E) /\ Len(r) = n /\ \A k \in 1..n : r[k] = s[q[k]]
  BY <1>3, <1>5, <1>6
<1> HIDE DEF r
<1>8. PairwiseIn(r, T)
  BY <1>3, <1>6, <1>7 DEF PairwiseIn
<1> QED
  <2>1. EntriesAt(s, Listing(I, B)) = r /\ Cardinality(I) = n
    BY DEF r, q, n
  <2>2. /\ \A k \in 1..n : \E i \in I : r[k] = s[i]
        /\ \A i \in I : \E k \in 1..n : r[k] = s[i]
    <3>1. \A k \in 1..n : q[k] \in I /\ r[k] = s[q[k]]
      BY <1>6, <1>7
    <3>2. \A i \in I : \E k \in 1..n : r[k] = s[i]
      BY <1>4, <3>1
    <3> QED
      BY <3>1, <3>2
  <2> QED
    BY <1>3, <1>7, <1>8, <2>1, <2>2 DEF Arranges

\* filter keeps the order.
LEMMA PickedInOrder ==
  ASSUME NEW E, NEW s \in Seq(E), NEW I \in SUBSET (1..Len(s)), NEW T, PairwiseIn(s, T)
  PROVE  Arranges(Picked(s, I), s, I, E, T)
<1> DEFINE B == {ij \in I \X I : ij[1] < ij[2]}
<1>1. I \subseteq Nat
  OBVIOUS
<1>2. \A i, j \in I : <<i, j>> \in B <=> i < j
  OBVIOUS
<1> HIDE DEF B
<1>3. Orders(B, I)
  BY <1>1, <1>2 DEF Orders
<1>4. \A i, j \in I : <<i, j>> \in B => <<s[i], s[j]>> \in T
  BY <1>2 DEF PairwiseIn
<1>5. Picked(s, I) = EntriesAt(s, Listing(I, B))
  BY DEF Picked, Ascending, B
<1> QED
  BY <1>3, <1>4, <1>5, EntriesInOrder

\* There is one ascending function from an interval to itself.
LEMMA AscendingIsIdentity ==
  ASSUME NEW n \in Nat, NEW q \in [1..n -> 1..n], \A i, j \in 1..n : i < j => q[i] < q[j]
  PROVE  \A i \in 1..n : q[i] = i
<1> DEFINE P == {k \in Nat : k + 1 <= n => q[k + 1] >= k + 1}
           Q == {k \in Nat : k + 1 <= n => q[n - k] <= n - k}
<1>1. 0 \in P
  <2>1. ASSUME 0 + 1 <= n PROVE q[0 + 1] >= 0 + 1
    <3>1. 1 \in 1..n /\ 0 + 1 = 1
      BY <2>1
    <3> QED
      BY <3>1
  <2> QED
    BY <2>1
<1>2. ASSUME NEW k \in Nat, k \in P PROVE k + 1 \in P
  <2>1. ASSUME (k + 1) + 1 <= n PROVE q[(k + 1) + 1] >= (k + 1) + 1
    <3>1. k + 1 \in 1..n /\ (k + 1) + 1 \in 1..n
      BY <2>1
    <3>2. q[k + 1] >= k + 1 /\ q[k + 1] < q[(k + 1) + 1]
      BY <1>2, <3>1
    <3>3. q[k + 1] \in 1..n /\ q[(k + 1) + 1] \in 1..n
      BY <3>1
    <3> QED
      BY <3>2, <3>3
  <2> QED
    BY <2>1
<1>3. 0 \in Q
  <2>1. ASSUME 0 + 1 <= n PROVE q[n - 0] <= n - 0
    <3>1. n \in 1..n /\ n - 0 = n
      BY <2>1
    <3> QED
      BY <3>1
  <2> QED
    BY <2>1
<1>4. ASSUME NEW k \in Nat, k \in Q PROVE k + 1 \in Q
  <2>1. ASSUME (k + 1) + 1 <= n PROVE q[n - (k + 1)] <= n - (k + 1)
    <3>1. n - k \in 1..n /\ n - (k + 1) \in 1..n /\ n - (k + 1) < n - k
      BY <2>1
    <3>2. q[n - k] <= n - k /\ q[n - (k + 1)] < q[n - k]
      BY <1>4, <2>1, <3>1
    <3>3. q[n - k] \in 1..n /\ q[n - (k + 1)] \in 1..n
      BY <3>1
    <3> QED
      BY <3>1, <3>2, <3>3
  <2> QED
    BY <2>1
<1> HIDE DEF P, Q
<1>5. Nat \subseteq P /\ Nat \subseteq Q
  BY <1>1, <1>2, <1>3, <1>4, InductionOnSet
<1>6. ASSUME NEW i \in 1..n PROVE q[i] = i
  <2>1. i - 1 \in P /\ n - i \in Q
    BY <1>5
  <2>2. /\ (i - 1) + 1 = i /\ n - (n - i) = i /\ (n - i) + 1 <= n
    OBVIOUS
  <2>3. q[i] >= i
    BY <2>1, <2>2 DEF P
  <2>4. q[i] <= i
    BY <2>1, <2>2 DEF Q
  <2> QED
    BY <2>3, <2>4
<1> QED
  BY <1>6
-----------------------------------------------------------------------------
(* What the stores write, they accept. *)

StoreEntries == [id : Nat, value : Nat]
IdLess == {ab \in StoreEntries \X StoreEntries : ById(ab[1], ab[2])}
OccurrenceLess == {ab \in StoreEntries \X StoreEntries : ByOccurrence(ab[1], ab[2])}

\* The two orders, entry by entry.
LEMMA EntryOrders ==
  /\ \A x, y \in StoreEntries : <<x, y>> \in IdLess <=> x.id < y.id
  /\ \A x, y \in StoreEntries :
         <<x, y>> \in OccurrenceLess <=> (x.id < y.id \/ (x.id = y.id /\ x.value < y.value))
  /\ \A x \in StoreEntries : x.id \in Nat /\ x.value \in Nat
  /\ \A x, y \in StoreEntries : x # y => (x.id # y.id \/ x.value # y.value)
  BY DEF StoreEntries, IdLess, OccurrenceLess, ById, ByOccurrence

\* They are transitive.
LEMMA OrdersAreTransitive ==
  /\ \A x, y, z \in StoreEntries : <<x, y>> \in IdLess /\ <<y, z>> \in IdLess => <<x, z>> \in IdLess
  /\ \A x, y, z \in StoreEntries : <<x, y>> \in OccurrenceLess /\ <<y, z>> \in OccurrenceLess =>
                                  <<x, z>> \in OccurrenceLess
<1>1. ASSUME NEW x \in StoreEntries, NEW y \in StoreEntries, NEW z \in StoreEntries,
             <<x, y>> \in IdLess, <<y, z>> \in IdLess
      PROVE  <<x, z>> \in IdLess
  <2>1. x.id < y.id /\ y.id < z.id /\ x.id \in Nat /\ y.id \in Nat /\ z.id \in Nat
    BY <1>1, EntryOrders
  <2> QED
    BY <2>1, EntryOrders
<1>2. ASSUME NEW x \in StoreEntries, NEW y \in StoreEntries, NEW z \in StoreEntries,
             <<x, y>> \in OccurrenceLess, <<y, z>> \in OccurrenceLess
      PROVE  <<x, z>> \in OccurrenceLess
  <2>1. /\ x.id < y.id \/ (x.id = y.id /\ x.value < y.value)
        /\ y.id < z.id \/ (y.id = z.id /\ y.value < z.value)
        /\ x.id \in Nat /\ y.id \in Nat /\ z.id \in Nat
        /\ x.value \in Nat /\ y.value \in Nat /\ z.value \in Nat
    BY <1>2, EntryOrders
  <2>2. x.id < z.id \/ (x.id = z.id /\ x.value < z.value)
    BY <2>1
  <2> QED
    BY <2>2, EntryOrders
<1> QED
  BY <1>1, <1>2

\* Neighbours in order are all in order, and the other way round.
LEMMA AscendingPairs ==
  ASSUME NEW s \in Seq(StoreEntries)
  PROVE  /\ StrictlyAscending(s, ById) <=> PairwiseIn(s, IdLess)
         /\ StrictlyAscending(s, ByOccurrence) <=> PairwiseIn(s, OccurrenceLess)
<1>1. /\ Len(s) \in Nat /\ \A i \in 1..Len(s) : s[i] \in StoreEntries
      /\ \A i \in 1..(Len(s) - 1) : i \in 1..Len(s) /\ i + 1 \in 1..Len(s) /\ i < i + 1
  OBVIOUS
<1>2. ASSUME NEW i \in 1..(Len(s) - 1)
      PROVE  /\ <<s[i], s[i + 1]>> \in IdLess <=> ById(s[i], s[i + 1])
             /\ <<s[i], s[i + 1]>> \in OccurrenceLess <=> ByOccurrence(s[i], s[i + 1])
  BY <1>1, EntryOrders DEF ById, ByOccurrence
<1>3. /\ StrictlyAscending(s, ById) <=> \A i \in 1..(Len(s) - 1) : <<s[i], s[i + 1]>> \in IdLess
      /\ StrictlyAscending(s, ByOccurrence) <=>
             \A i \in 1..(Len(s) - 1) : <<s[i], s[i + 1]>> \in OccurrenceLess
  BY <1>2 DEF StrictlyAscending
<1>4. \A T : PairwiseIn(s, T) => \A i \in 1..(Len(s) - 1) : <<s[i], s[i + 1]>> \in T
  BY <1>1 DEF PairwiseIn
<1>5. (\A i \in 1..(Len(s) - 1) : <<s[i], s[i + 1]>> \in IdLess) => PairwiseIn(s, IdLess)
  BY OrdersAreTransitive, NeighboursSuffice
<1>6. (\A i \in 1..(Len(s) - 1) : <<s[i], s[i + 1]>> \in OccurrenceLess) =>
          PairwiseIn(s, OccurrenceLess)
  BY OrdersAreTransitive, NeighboursSuffice
<1> QED
  BY <1>3, <1>4, <1>5, <1>6

\* Sorting by id, when no id comes twice.
LEMMA SortedById ==
  ASSUME NEW s \in Seq(StoreEntries), \A i, j \in 1..Len(s) : i # j => s[i].id # s[j].id
  PROVE  Sorted(s, ById) \in Seq(StoreEntries) /\ PairwiseIn(Sorted(s, ById), IdLess)
<1> DEFINE B == SortOrder(s, ById)
<1>1. Len(s) \in Nat /\ DOMAIN s = 1..Len(s) /\ \A i \in 1..Len(s) : s[i] \in StoreEntries
  OBVIOUS
<1>2. \A i \in 1..Len(s) : s[i].id \in Nat
  BY <1>1, EntryOrders
<1>3. \A i, j \in 1..Len(s) : <<i, j>> \in B <=> s[i].id < s[j].id
  <2>1. \A i, j \in 1..Len(s) : <<i, j>> \in B <=>
            (s[i].id < s[j].id \/ (~(s[j].id < s[i].id) /\ i < j))
    BY <1>1 DEF B, SortOrder, ById
  <2> HIDE DEF B
  <2>2. ASSUME NEW i \in 1..Len(s), NEW j \in 1..Len(s)
        PROVE  <<i, j>> \in B <=> s[i].id < s[j].id
    <3>1. /\ s[i].id \in Nat /\ s[j].id \in Nat /\ i \in Nat /\ j \in Nat
          /\ i # j => s[i].id # s[j].id
      BY <1>2
    <3> QED
      BY <2>1, <3>1
  <2> QED
    BY <2>2
<1> HIDE DEF B
<1>4. Orders(B, 1..Len(s))
  BY <1>2, <1>3 DEF Orders
<1>5. \A i, j \in 1..Len(s) : <<i, j>> \in B => <<s[i], s[j]>> \in IdLess
  BY <1>1, <1>3, EntryOrders
<1>6. Arranges(EntriesAt(s, Listing(1..Len(s), B)), s, 1..Len(s), StoreEntries, IdLess)
  BY <1>4, <1>5, EntriesInOrder
<1>7. Sorted(s, ById) = EntriesAt(s, Listing(1..Len(s), B))
  BY <1>1 DEF Sorted, B
<1> QED
  BY <1>6, <1>7 DEF Arranges

\* Sorting occurrences, when none comes twice; those in order stay where they are.
LEMMA SortedByOccurrence ==
  ASSUME NEW s \in Seq(StoreEntries), \A i, j \in 1..Len(s) : i # j => s[i] # s[j]
  PROVE  /\ Sorted(s, ByOccurrence) \in Seq(StoreEntries)
         /\ PairwiseIn(Sorted(s, ByOccurrence), OccurrenceLess)
         /\ PairwiseIn(s, OccurrenceLess) => Sorted(s, ByOccurrence) = s
<1> DEFINE B == SortOrder(s, ByOccurrence)
<1>1. Len(s) \in Nat /\ DOMAIN s = 1..Len(s) /\ \A i \in 1..Len(s) : s[i] \in StoreEntries
  OBVIOUS
<1>2. \A i \in 1..Len(s) : s[i].id \in Nat /\ s[i].value \in Nat
  BY <1>1, EntryOrders
<1>3. \A i, j \in 1..Len(s) : i # j => (s[i].id # s[j].id \/ s[i].value # s[j].value)
  BY <1>1, EntryOrders
<1>4. \A i, j \in 1..Len(s) : <<i, j>> \in B <=>
          (s[i].id < s[j].id \/ (s[i].id = s[j].id /\ s[i].value < s[j].value))
  <2>1. \A i, j \in 1..Len(s) : <<i, j>> \in B <=>
            \/ s[i].id < s[j].id \/ (s[i].id = s[j].id /\ s[i].value < s[j].value)
            \/ /\ ~(s[j].id < s[i].id \/ (s[j].id = s[i].id /\ s[j].value < s[i].value))
               /\ i < j
    BY <1>1 DEF B, SortOrder, ByOccurrence
  <2> HIDE DEF B
  <2>2. ASSUME NEW i \in 1..Len(s), NEW j \in 1..Len(s)
        PROVE  <<i, j>> \in B <=>
                   (s[i].id < s[j].id \/ (s[i].id = s[j].id /\ s[i].value < s[j].value))
    <3>1. /\ s[i].id \in Nat /\ s[i].value \in Nat /\ s[j].id \in Nat /\ s[j].value \in Nat
          /\ i # j => (s[i].id # s[j].id \/ s[i].value # s[j].value)
          /\ i \in Nat /\ j \in Nat
      BY <1>2, <1>3
    <3>2. CASE i = j
      BY <2>1, <3>1, <3>2
    <3>3. CASE i # j
      BY <2>1, <3>1, <3>3
    <3> QED
      BY <3>2, <3>3
  <2> QED
    BY <2>2
<1> HIDE DEF B
<1>5. Orders(B, 1..Len(s))
  <2>1. \A i \in 1..Len(s) : <<i, i>> \notin B
    BY <1>2, <1>4
  <2>2. ASSUME NEW i \in 1..Len(s), NEW j \in 1..Len(s), NEW k \in 1..Len(s),
               <<i, j>> \in B, <<j, k>> \in B
        PROVE  <<i, k>> \in B
    <3>1. /\ s[i].id < s[j].id \/ (s[i].id = s[j].id /\ s[i].value < s[j].value)
          /\ s[j].id < s[k].id \/ (s[j].id = s[k].id /\ s[j].value < s[k].value)
          /\ s[i].id \in Nat /\ s[i].value \in Nat /\ s[j].id \in Nat /\ s[j].value \in Nat
          /\ s[k].id \in Nat /\ s[k].value \in Nat
      BY <1>2, <1>4, <2>2
    <3>2. s[i].id < s[k].id \/ (s[i].id = s[k].id /\ s[i].value < s[k].value)
      BY <3>1
    <3> QED
      BY <1>4, <3>2
  <2>3. ASSUME NEW i \in 1..Len(s), NEW j \in 1..Len(s), i # j
        PROVE  <<i, j>> \in B \/ <<j, i>> \in B
    <3>1. /\ s[i].id \in Nat /\ s[i].value \in Nat /\ s[j].id \in Nat /\ s[j].value \in Nat
          /\ s[i].id # s[j].id \/ s[i].value # s[j].value
      BY <1>2, <1>3, <2>3
    <3>2. \/ s[i].id < s[j].id \/ (s[i].id = s[j].id /\ s[i].value < s[j].value)
          \/ s[j].id < s[i].id \/ (s[j].id = s[i].id /\ s[j].value < s[i].value)
      BY <3>1
    <3> QED
      BY <1>4, <3>2
  <2> QED
    BY <2>1, <2>2, <2>3 DEF Orders
<1>6. \A i, j \in 1..Len(s) : <<i, j>> \in B => <<s[i], s[j]>> \in OccurrenceLess
  BY <1>1, <1>4, EntryOrders
<1>7. Arranges(EntriesAt(s, Listing(1..Len(s), B)), s, 1..Len(s), StoreEntries, OccurrenceLess)
  BY <1>5, <1>6, EntriesInOrder
<1>8. Sorted(s, ByOccurrence) = EntriesAt(s, Listing(1..Len(s), B))
  BY <1>1 DEF Sorted, B
<1>9. ASSUME PairwiseIn(s, OccurrenceLess) PROVE Sorted(s, ByOccurrence) = s
  <2>1. \A i, j \in 1..Len(s) : i < j => <<i, j>> \in B
    BY <1>1, <1>4, <1>9, EntryOrders DEF PairwiseIn
  <2>2. \A i, j \in 1..Len(s) : <<i, j>> \in B => i < j
    <3>1. ASSUME NEW i \in 1..Len(s), NEW j \in 1..Len(s), <<i, j>> \in B, ~(i < j)
          PROVE  FALSE
      <4>1. <<i, i>> \notin B
        BY <1>5 DEF Orders
      <4>2. i # j
        BY <3>1, <4>1
      <4>3. j < i
        BY <3>1, <4>2
      <4>4. <<j, i>> \in B
        BY <2>1, <4>3
      <4> QED
        BY <1>5, <3>1, <4>1, <4>4 DEF Orders
    <3> QED
      BY <3>1
  <2> DEFINE q == Listing(1..Len(s), B)
             n == Len(s)
  <2>3. ListsInOrder(q, 1..n, B) /\ Cardinality(1..n) = n
    <3>1. IsFiniteSet(1..n) /\ Cardinality(1..n) = n
      <4>1. n \in Nat
        BY <1>1
      <4> HIDE DEF n
      <4> QED
        BY <4>1, FS_Interval
    <3> QED
      BY <1>5, <3>1, ListingIsComplete
  <2> HIDE DEF q
  <2>4. q \in [1..n -> 1..n] /\ \A i, j \in 1..n : i < j => <<q[i], q[j]>> \in B
    BY <2>3 DEF ListsInOrder
  <2>5. \A i, j \in 1..n : i < j => q[i] < q[j]
    BY <2>2, <2>4
  <2>6. \A i \in 1..n : q[i] = i
    BY <1>1, <2>4, <2>5, AscendingIsIdentity
  <2>7. EntriesAt(s, q) = [k \in 1..n |-> s[k]]
    BY <2>4, <2>6 DEF EntriesAt
  <2>8. s = [k \in 1..n |-> s[k]]
    BY <1>1
  <2> QED
    BY <1>8, <2>7, <2>8 DEF q
<1> QED
  BY <1>7, <1>8, <1>9 DEF Arranges
-----------------------------------------------------------------------------
\* Documents a store writes.
WellFormed(k, es) ==
    /\ es \in Seq(StoreEntries)
    /\ k \in {"overrides", "policies"} => PairwiseIn(es, IdLess)
    /\ k \in {"service_claims", "power_claims"} => PairwiseIn(es, OccurrenceLess)
    /\ k \in {"machine_policy", "service_cursor", "power_cursor"} => Len(es) <= 1

\* A cursor is never removed.
Established(k, es) == k \in {"service_cursor", "power_cursor"} => Len(es) = 1

\* Without an id, a document has no entry of that id.
LEMMA WithoutIsWellFormed ==
  ASSUME NEW s \in Seq(StoreEntries), PairwiseIn(s, IdLess), NEW id
  PROVE  /\ Without(s, id) \in Seq(StoreEntries) /\ PairwiseIn(Without(s, id), IdLess)
         /\ \A i \in 1..Len(Without(s, id)) : Without(s, id)[i].id # id
<1> DEFINE I == {i \in DOMAIN s : s[i].id # id}
           r == Picked(s, I)
<1>1. I \in SUBSET (1..Len(s))
  OBVIOUS
<1>2. Without(s, id) = r /\ \A i \in I : s[i].id # id
  BY DEF Without
<1> HIDE DEF I
<1>3. Arranges(r, s, I, StoreEntries, IdLess)
  BY <1>1, PickedInOrder
<1> HIDE DEF r
<1>4. \A i \in 1..Len(r) : r[i].id # id
  BY <1>2, <1>3 DEF Arranges
<1> QED
  BY <1>2, <1>3, <1>4 DEF Arranges

\* Appending to a sequence.
LEMMA Appended ==
  ASSUME NEW E, NEW s \in Seq(E), NEW e \in E
  PROVE  /\ Append(s, e) \in Seq(E) /\ Len(Append(s, e)) = Len(s) + 1 /\ Len(s) \in Nat
         /\ \A i \in 1..Len(s) : Append(s, e)[i] = s[i]
         /\ Append(s, e)[Len(s) + 1] = e
  OBVIOUS

LEMMA ReplaceIsWellFormed ==
  ASSUME NEW s \in Seq(StoreEntries), PairwiseIn(s, IdLess), NEW id \in Nat, NEW value \in Nat
  PROVE  Replace(s, id, value) \in Seq(StoreEntries) /\ PairwiseIn(Replace(s, id, value), IdLess)
<1> DEFINE r == Without(s, id)
           e == Entry(id, value)
           t == Append(r, e)
<1>1. r \in Seq(StoreEntries) /\ PairwiseIn(r, IdLess) /\ \A i \in 1..Len(r) : r[i].id # id
  BY WithoutIsWellFormed
<1>2. e \in StoreEntries /\ e.id = id
  BY DEF Entry, StoreEntries
<1>3. Replace(s, id, value) = Sorted(t, ById)
  BY DEF Replace
<1> HIDE DEF r, e
<1>4. /\ t \in Seq(StoreEntries) /\ Len(t) = Len(r) + 1 /\ Len(r) \in Nat
      /\ \A i \in 1..Len(r) : t[i] = r[i]
      /\ t[Len(r) + 1] = e
  BY <1>1, <1>2, Appended
<1> HIDE DEF t
<1>5. \A i, j \in 1..Len(r) : i < j => r[i].id # r[j].id
  <2>1. \A i \in 1..Len(r) : r[i] \in StoreEntries /\ r[i].id \in Nat
    BY <1>1, EntryOrders
  <2>2. ASSUME NEW i \in 1..Len(r), NEW j \in 1..Len(r), i < j PROVE r[i].id # r[j].id
    <3>1. <<r[i], r[j]>> \in IdLess
      BY <1>1, <2>2 DEF PairwiseIn
    <3>2. r[i].id < r[j].id
      BY <2>1, <3>1, EntryOrders
    <3> QED
      BY <2>1, <3>2
  <2> QED
    BY <2>2
<1>6. ASSUME NEW i \in 1..Len(t), NEW j \in 1..Len(t), i < j PROVE t[i].id # t[j].id
  <2>1. i \in 1..Len(r) /\ t[i] = r[i]
    BY <1>4, <1>6
  <2>2. CASE j = Len(r) + 1
    BY <1>1, <1>2, <1>4, <2>1, <2>2
  <2>3. CASE j # Len(r) + 1
    <3>1. j \in 1..Len(r) /\ t[j] = r[j]
      BY <1>4, <2>3
    <3> QED
      BY <1>5, <1>6, <2>1, <3>1
  <2> QED
    BY <2>2, <2>3
<1>7. \A i, j \in 1..Len(t) : i # j => t[i].id # t[j].id
  <2>1. ASSUME NEW i \in 1..Len(t), NEW j \in 1..Len(t), i # j PROVE i < j \/ j < i
    BY <1>4, <2>1
  <2> QED
    BY <1>6, <2>1
<1> QED
  BY <1>3, <1>4, <1>7, SortedById

\* In a sequence in the order of occurrences none comes twice.
LEMMA OccurrencesDiffer ==
  ASSUME NEW s \in Seq(StoreEntries), PairwiseIn(s, OccurrenceLess)
  PROVE  \A i, j \in 1..Len(s) : i # j => s[i] # s[j]
<1>1. \A i \in 1..Len(s) : s[i] \in StoreEntries /\ s[i].id \in Nat /\ s[i].value \in Nat
  BY EntryOrders
<1>2. ASSUME NEW i \in 1..Len(s), NEW j \in 1..Len(s), i < j PROVE s[i] # s[j]
  <2>1. <<s[i], s[j]>> \in OccurrenceLess
    BY <1>2 DEF PairwiseIn
  <2>2. s[i].id < s[j].id \/ (s[i].id = s[j].id /\ s[i].value < s[j].value)
    BY <1>1, <2>1, EntryOrders
  <2> QED
    BY <1>1, <2>2
<1>3. ASSUME NEW i \in 1..Len(s), NEW j \in 1..Len(s), i # j PROVE i < j \/ j < i
  BY <1>3
<1> QED
  BY <1>2, <1>3

LEMMA ClaimIsWellFormed ==
  ASSUME NEW s \in Seq(StoreEntries), PairwiseIn(s, OccurrenceLess), NEW e \in StoreEntries,
         \A i \in DOMAIN s : s[i] # e
  PROVE  /\ Sorted(Append(s, e), ByOccurrence) \in Seq(StoreEntries)
         /\ PairwiseIn(Sorted(Append(s, e), ByOccurrence), OccurrenceLess)
<1> DEFINE t == Append(s, e)
<1>1. /\ t \in Seq(StoreEntries) /\ Len(t) = Len(s) + 1 /\ Len(s) \in Nat
      /\ \A i \in 1..Len(s) : t[i] = s[i]
      /\ t[Len(s) + 1] = e
  BY Appended
<1> HIDE DEF t
<1>2. ASSUME NEW i \in 1..Len(t), NEW j \in 1..Len(t), i < j PROVE t[i] # t[j]
  <2>1. i \in 1..Len(s) /\ t[i] = s[i] /\ i \in DOMAIN s
    BY <1>1, <1>2
  <2>2. CASE j = Len(s) + 1
    BY <1>1, <2>1, <2>2
  <2>3. CASE j # Len(s) + 1
    <3>1. j \in 1..Len(s) /\ t[j] = s[j] /\ i # j
      BY <1>1, <1>2, <2>3
    <3> QED
      BY <2>1, <3>1, OccurrencesDiffer
  <2> QED
    BY <2>2, <2>3
<1>3. \A i, j \in 1..Len(t) : i # j => t[i] # t[j]
  <2>1. ASSUME NEW i \in 1..Len(t), NEW j \in 1..Len(t), i # j PROVE i < j \/ j < i
    BY <1>1, <2>1
  <2> QED
    BY <1>2, <2>1
<1> QED
  BY <1>1, <1>3, SortedByOccurrence DEF t

\* What an operation is asked for.
LEMMA OperationFields ==
  ASSUME StoreAssumption, NEW k \in Kinds, NEW op \in Operations(k)
  PROVE  op.id \in Nat /\ (op.value \in Nat \/ op.value \in Values) /\ Entry(op.id, op.value) \in StoreEntries
<1>1. Ids \subseteq Nat /\ Values \subseteq Nat
  <2>1. Ids = 1..Cardinality(Ids) /\ Values \subseteq Nat
    BY DEF StoreAssumption
  <2> DEFINE n == Cardinality(Ids)
  <2>2. \A x \in 1..n : x \in Nat
    OBVIOUS
  <2> HIDE DEF n
  <2> QED
    BY <2>1, <2>2 DEF n
<1>2. op.id \in Nat /\ op.value \in Nat
  <2>1. k \in {"overrides", "policies", "machine_policy", "service_cursor",
               "power_cursor", "service_claims", "power_claims", "backup_policies"}
    BY DEF StoreAssumption
  <2>2. (op.id \in Ids \/ op.id = 1) /\ op.value \in Values
    BY <2>1 DEF Operations
  <2>3. op.id \in Nat
    <3>1. CASE op.id \in Ids
      BY <1>1, <3>1
    <3>2. CASE op.id = 1
      BY <3>2
    <3> QED
      BY <2>2, <3>1, <3>2
  <2>4. op.value \in Nat
    BY <1>1, <2>2
  <2> QED
    BY <2>3, <2>4
<1> QED
  BY <1>2 DEF Entry, StoreEntries

\* Documents of one entry and of none.
LEMMA ShortDocuments ==
  ASSUME NEW E, NEW e \in E
  PROVE  \A d : /\ d = <<e>> => (d \in Seq(E) /\ Len(d) = 1)
                /\ d = <<>> => (d \in Seq(E) /\ Len(d) = 0)
<1>1. <<e>> \in Seq(E) /\ Len(<<e>>) = 1
  OBVIOUS
<1>2. <<>> \in Seq(E) /\ Len(<<>>) = 0
  OBVIOUS
<1>3. ASSUME NEW d, d = <<e>> PROVE d \in Seq(E) /\ Len(d) = 1
  BY <1>1, <1>3
<1>4. ASSUME NEW d, d = <<>> PROVE d \in Seq(E) /\ Len(d) = 0
  BY <1>2, <1>4
<1> QED
  BY <1>3, <1>4

\* The document an operation writes is in order, when the one it reads is.
LEMMA OperationsWriteInOrder ==
  ASSUME StoreAssumption, NEW k \in Kinds, k # "backup_policies", NEW op \in Operations(k),
         NEW es, WellFormed(k, es), Perform(k, op, es).writes
  PROVE  /\ WellFormed(k, Perform(k, op, es).entries)
         /\ Established(k, Perform(k, op, es).entries)
<1> DEFINE new == Perform(k, op, es).entries
           e == Entry(op.id, op.value)
<1>1. ASSUME NEW a, NEW value PROVE Answered(a, value, es).writes = FALSE
  BY DEF Answered
<1>2. ASSUME NEW a, NEW d PROVE Writes(a, d).entries = d
  BY DEF Writes
<1>3. op.id \in Nat /\ op.value \in Nat /\ e \in StoreEntries /\ es \in Seq(StoreEntries)
  <2>1. Values \subseteq Nat
    BY DEF StoreAssumption
  <2> QED
    BY <2>1, OperationFields DEF WellFormed
<1>4. /\ \A d : d = <<e>> => d \in Seq(StoreEntries) /\ Len(d) = 1
      /\ \A d : d = <<>> => d \in Seq(StoreEntries) /\ Len(d) = 0
  BY <1>3, ShortDocuments
<1> HIDE DEF e
<1>5. CASE k = "overrides"
  <2>1. Perform(k, op, es) = OverrideOperation(op, es) /\ PairwiseIn(es, IdLess)
    BY <1>5 DEF Perform, WellFormed
  <2>2. new = Replace(es, op.id, op.value) \/ new = Without(es, op.id)
    <3>1. \/ \E a, value : OverrideOperation(op, es) = Answered(a, value, es)
          \/ \E a : OverrideOperation(op, es) = Writes(a, Replace(es, op.id, op.value))
          \/ \E a : OverrideOperation(op, es) = Writes(a, Without(es, op.id))
      <4>1. CASE op.type = "find"
        BY <4>1 DEF OverrideOperation
      <4>2. CASE op.type = "save"
        BY <4>2 DEF OverrideOperation
      <4>3. CASE op.type = "remove" /\ Lookup(es, op.id) = None
        BY <4>3 DEF OverrideOperation
      <4>4. CASE op.type = "remove_if_matches" /\ Lookup(es, op.id) # op.value
        BY <4>4 DEF OverrideOperation
      <4>5. CASE /\ op.type \notin {"find", "save"}
                 /\ ~(op.type = "remove" /\ Lookup(es, op.id) = None)
                 /\ ~(op.type = "remove_if_matches" /\ Lookup(es, op.id) # op.value)
        BY <4>5 DEF OverrideOperation
      <4> QED
        BY <4>1, <4>2, <4>3, <4>4, <4>5
    <3>2. ASSUME NEW a, NEW value, OverrideOperation(op, es) = Answered(a, value, es) PROVE FALSE
      BY <1>1, <2>1, <3>2
    <3>3. ASSUME NEW a, NEW d, OverrideOperation(op, es) = Writes(a, d) PROVE new = d
      BY <1>2, <2>1, <3>3
    <3> QED
      BY <3>1, <3>2, <3>3
  <2>3. new \in Seq(StoreEntries) /\ PairwiseIn(new, IdLess)
    BY <1>3, <2>1, <2>2, ReplaceIsWellFormed, WithoutIsWellFormed
  <2> QED
    BY <1>5, <2>3 DEF WellFormed, Established
<1>6. CASE k = "policies"
  <2>1. Perform(k, op, es) = PolicyOperation(op, es) /\ PairwiseIn(es, IdLess)
    BY <1>6 DEF Perform, WellFormed
  <2>2. op.type \in {"find", "save", "remove"}
    BY <1>6 DEF Operations
  <2>3. new = Replace(es, op.id, op.value) \/ new = Without(es, op.id)
    BY <1>1, <1>2, <2>1, <2>2 DEF PolicyOperation
  <2>4. new \in Seq(StoreEntries) /\ PairwiseIn(new, IdLess)
    BY <1>3, <2>1, <2>3, ReplaceIsWellFormed, WithoutIsWellFormed
  <2> QED
    BY <1>6, <2>4 DEF WellFormed, Established
<1>7. CASE k = "machine_policy"
  <2>1. Perform(k, op, es) = MachinePolicyOperation(op, es)
    BY <1>7 DEF Perform
  <2>2. op.type \in {"find", "save", "remove"}
    BY <1>7 DEF Operations
  <2>3. new = <<e>> \/ new = <<>>
    BY <1>1, <1>2, <2>1, <2>2 DEF MachinePolicyOperation, e
  <2> HIDE DEF new
  <2>4. new \in Seq(StoreEntries) /\ Len(new) <= 1
    <3>1. ASSUME NEW d, d = <<e>> PROVE d \in Seq(StoreEntries) /\ Len(d) <= 1
      BY <1>4, <3>1
    <3>2. ASSUME NEW d, d = <<>> PROVE d \in Seq(StoreEntries) /\ Len(d) <= 1
      BY <1>4, <3>2
    <3> QED
      BY <2>3, <3>1, <3>2
  <2>5. WellFormed(k, new) /\ Established(k, new)
    BY <1>7, <2>4 DEF WellFormed, Established
  <2> QED
    BY <2>5 DEF new
<1>8. CASE k \in {"service_cursor", "power_cursor"}
  <2>1. Perform(k, op, es) = CursorOperation(op, es)
    BY <1>8 DEF Perform
  <2>2. new = <<e>>
    BY <1>1, <1>2, <2>1 DEF CursorOperation, e
  <2> HIDE DEF new
  <2>3. new \in Seq(StoreEntries) /\ Len(new) = 1
    BY <1>4, <2>2
  <2>4. WellFormed(k, new) /\ Established(k, new)
    BY <1>8, <2>3 DEF WellFormed, Established
  <2> QED
    BY <2>4 DEF new
<1>9. CASE k \in {"service_claims", "power_claims"}
  <2>1. Perform(k, op, es) = ClaimOperation(op, es) /\ PairwiseIn(es, OccurrenceLess)
    BY <1>9 DEF Perform, WellFormed
  <2>2. op.type \in {"claim", "prune"}
    BY <1>9 DEF Operations
  <2> DEFINE I == {i \in DOMAIN es : es[i].id > op.id}
  <2>3. \/ new = Sorted(Append(es, e), ByOccurrence) /\ \A i \in DOMAIN es : es[i] # e
        \/ new = Picked(es, I)
    BY <1>1, <1>2, <2>1, <2>2 DEF ClaimOperation, e
  <2>4. I \in SUBSET (1..Len(es))
    BY <1>3
  <2> HIDE DEF I
  <2>5. Picked(es, I) \in Seq(StoreEntries) /\ PairwiseIn(Picked(es, I), OccurrenceLess)
    BY <1>3, <2>1, <2>4, PickedInOrder DEF Arranges
  <2>6. new \in Seq(StoreEntries) /\ PairwiseIn(new, OccurrenceLess)
    BY <1>3, <2>1, <2>3, <2>5, ClaimIsWellFormed
  <2> HIDE DEF new
  <2>7. WellFormed(k, new) /\ Established(k, new)
    BY <1>9, <2>6 DEF WellFormed, Established
  <2> QED
    BY <2>7 DEF new
<1> QED
  BY <1>5, <1>6, <1>7, <1>8, <1>9 DEF StoreAssumption

\* A store accepts a document in order.
LEMMA OrderedIsAccepted ==
  ASSUME StoreAssumption, NEW k \in Kinds, k # "backup_policies", NEW doc, doc.whole,
         WellFormed(k, doc.entries), Established(k, doc.entries)
  PROVE  Accepts(k, doc)
<1> DEFINE es == doc.entries
<1>0. es \in Seq(StoreEntries) /\ Len(es) \in Nat
  BY DEF WellFormed
<1>1. CASE k \in {"overrides", "policies"}
  <2>1. StrictlyAscending(es, ById)
    BY <1>0, <1>1, AscendingPairs DEF WellFormed
  <2> QED
    BY <1>1, <2>1 DEF Accepts, ParseOverrides, ParsePolicies
<1>2. CASE k = "machine_policy"
  BY <1>2 DEF Accepts, ParseMachinePolicy, WellFormed
<1>3. CASE k \in {"service_cursor", "power_cursor"}
  BY <1>3 DEF Accepts, ParseServiceCursor, ParsePowerCursor, Established
<1>4. CASE k = "service_claims"
  <2>1. StrictlyAscending(es, ByOccurrence)
    BY <1>0, <1>4, AscendingPairs DEF WellFormed
  <2> QED
    BY <1>4, <2>1 DEF Accepts, ParseServiceClaims
<1>5. CASE k = "power_claims"
  <2>1. PairwiseIn(es, OccurrenceLess)
    BY <1>5 DEF WellFormed
  <2>2. \A i, j \in 1..Len(es) : i # j => es[i] # es[j]
    BY <1>0, <2>1, OccurrencesDiffer
  <2>3. Sorted(es, ByOccurrence) = es
    BY <1>0, <2>1, <2>2, SortedByOccurrence
  <2>4. \A i \in 1..(Len(es) - 1) : es[i] # es[i + 1]
    <3>1. \A i \in 1..(Len(es) - 1) : i \in 1..Len(es) /\ i + 1 \in 1..Len(es) /\ i # i + 1
      BY <1>0
    <3> QED
      BY <2>2, <3>1
  <2> QED
    BY <1>5, <2>3, <2>4 DEF Accepts, ParsePowerClaims
<1> QED
  BY <1>1, <1>2, <1>3, <1>4, <1>5 DEF StoreAssumption

\* And what it answers is an answer.
LEMMA OperationsAnswer ==
  ASSUME StoreAssumption, NEW k \in Kinds, NEW op \in Operations(k), NEW es,
         k # "backup_policies" => es \in Seq(StoreEntries)
  PROVE  Perform(k, op, es).answer \in Answers
<1>1. ASSUME NEW a, NEW value, [kind |-> a, value |-> value] \in Answers
      PROVE  Answered(a, value, es).answer \in Answers
  BY <1>1 DEF Answered
<1>2. ASSUME NEW a, NEW d, [kind |-> a, value |-> None] \in Answers
      PROVE  Writes(a, d).answer \in Answers
  BY <1>2 DEF Writes
<1>3. \A a \in {"done", "removed", "not_removed", "advanced",
                "claimed", "duplicate", "unchanged", "pruned"} :
          [kind |-> a, value |-> None] \in Answers
  BY DEF Answers
<1>4. \A a \in {"found", "conflict", "non_forward_cursor"}, value \in Nat \cup {None} :
          [kind |-> a, value |-> value] \in Answers
  BY DEF Answers
<1>5. ASSUME es \in Seq(StoreEntries), NEW id PROVE Lookup(es, id) \in Nat \cup {None}
  <2>1. CASE \E i \in DOMAIN es : es[i].id = id
    <3>1. PICK i \in DOMAIN es : Lookup(es, id) = es[i].value
      BY <2>1 DEF Lookup
    <3>2. es[i] \in StoreEntries
      BY <1>5, <3>1
    <3> QED
      BY <3>1, <3>2, EntryOrders
  <2>2. CASE ~ \E i \in DOMAIN es : es[i].id = id
    BY <2>2 DEF Lookup
  <2> QED
    BY <2>1, <2>2
<1> DEFINE outcome == Perform(k, op, es)
           Told == (\E a \in {"found", "conflict", "non_forward_cursor"}, value \in Nat \cup {None} :
                        outcome = Answered(a, value, es))
           Done == (\E a \in {"done", "not_removed", "duplicate", "unchanged"} :
                        outcome = Answered(a, None, es))
           Wrote == (\E a \in {"done", "removed", "advanced", "claimed", "pruned"} :
                        \E d : outcome = Writes(a, d))
<1>6. Told \/ Done \/ Wrote => outcome.answer \in Answers
  BY <1>1, <1>2, <1>3, <1>4
<1>7. CASE k = "overrides"
  <2>1. outcome = OverrideOperation(op, es) /\ Lookup(es, op.id) \in Nat \cup {None}
    BY <1>5, <1>7 DEF Perform
  <2>2. Told \/ Done \/ Wrote
    <3>1. CASE op.type = "find"
      BY <2>1, <3>1 DEF OverrideOperation
    <3>2. CASE op.type = "save"
      BY <2>1, <3>2 DEF OverrideOperation
    <3>3. CASE op.type = "remove" /\ Lookup(es, op.id) = None
      BY <2>1, <3>3 DEF OverrideOperation
    <3>4. CASE op.type = "remove_if_matches" /\ Lookup(es, op.id) # op.value
      BY <2>1, <3>4 DEF OverrideOperation
    <3>5. CASE /\ op.type \notin {"find", "save"}
               /\ ~(op.type = "remove" /\ Lookup(es, op.id) = None)
               /\ ~(op.type = "remove_if_matches" /\ Lookup(es, op.id) # op.value)
      BY <2>1, <3>5 DEF OverrideOperation
    <3> QED
      BY <3>1, <3>2, <3>3, <3>4, <3>5
  <2> QED
    BY <1>6, <2>2
<1>8. CASE k \in {"policies", "machine_policy"}
  <2>1. outcome = PolicyOperation(op, es) \/ outcome = MachinePolicyOperation(op, es)
    BY <1>8 DEF Perform
  <2>2. op.type \in {"find", "save", "remove"}
    BY <1>8 DEF Operations
  <2>3. Lookup(es, op.id) \in Nat \cup {None}
    BY <1>5, <1>8
  <2>4. Told \/ Wrote
    BY <2>1, <2>2, <2>3 DEF PolicyOperation, MachinePolicyOperation
  <2> QED
    BY <1>6, <2>4
<1>9. CASE k \in {"service_cursor", "power_cursor"}
  <2> DEFINE current == IF es = <<>> THEN None ELSE es[1].value
  <2>1. outcome = CursorOperation(op, es)
    BY <1>9 DEF Perform
  <2>2. current \in Nat \cup {None}
    <3>1. CASE es = <<>>
      BY <3>1
    <3>2. CASE es # <<>>
      <4>1. es[1] \in StoreEntries
        BY <1>9, <3>2
      <4> QED
        BY <3>2, <4>1, EntryOrders
    <3> QED
      BY <3>1, <3>2
  <2>3. \/ outcome = Answered("found", current, es) \/ outcome = Answered("conflict", current, es)
        \/ outcome = Answered("non_forward_cursor", None, es)
        \/ outcome = Writes("advanced", <<Entry(op.id, op.value)>>)
    <3>1. CASE op.type = "find"
      BY <2>1, <3>1 DEF CursorOperation
    <3>2. CASE op.type # "find" /\ op.expected # current
      BY <2>1, <3>2 DEF CursorOperation
    <3>3. CASE op.type # "find" /\ op.expected = current
      BY <2>1, <3>3 DEF CursorOperation
    <3> QED
      BY <3>1, <3>2, <3>3
  <2> HIDE DEF current
  <2>4. Told \/ Wrote
    BY <2>2, <2>3
  <2> QED
    BY <1>6, <2>4
<1>10. CASE k \in {"service_claims", "power_claims"}
  <2>1. outcome = ClaimOperation(op, es)
    BY <1>10 DEF Perform
  <2>2. op.type \in {"claim", "prune"}
    BY <1>10 DEF Operations
  <2>3. Done \/ Wrote
    BY <2>1, <2>2 DEF ClaimOperation
  <2> QED
    BY <1>6, <2>3
<1>11. CASE k = "backup_policies"
  <2>1. outcome = BackupPolicyOperation(op, es)
    BY <1>11 DEF Perform
  <2>2. Wrote
    BY <2>1 DEF BackupPolicyOperation
  <2> QED
    BY <1>6, <2>2
<1> QED
  BY <1>7, <1>8, <1>9, <1>10, <1>11 DEF StoreAssumption

-----------------------------------------------------------------------------
(* The invariant of the documents and of the queue. *)

\* A document on the disk.
Sound(k, doc) ==
    /\ doc = [whole |-> doc.whole, entries |-> doc.entries, synced |-> TRUE, exists |-> doc.exists]
    /\ doc.entries \in Seq([id : Nat, value : Nat])
    /\ IF doc.exists THEN Accepts(k, doc) ELSE doc.entries = <<>>
    /\ k = "power_claims" => StrictlyAscending(doc.entries, ByOccurrence)

\* Whoever publishes has something to write, and renames what is on the disk.
Writing(w, k, op, es) ==
    /\ w.at = "rename" => w.next.synced
    /\ w.at \notin {"idle", "read"} => Perform(k, op, es).writes

\* The invariant, document by document and caller by caller.
LEMMA SoundVersions ==
  /\ DocumentInv <=>
         (kind # "backup_policies" =>
             /\ \A i \in DOMAIN versions : Sound(kind, versions[i])
             /\ \A c \in Callers : Writing(work[c], kind, asked[c], Target.entries))
  /\ DocumentInv' <=>
         (kind' # "backup_policies" =>
             /\ \A i \in DOMAIN versions' : Sound(kind', versions'[i])
             /\ \A c \in Callers : Writing(work'[c], kind', asked'[c], Target'.entries))
  BY DEF DocumentInv, Sound, Writing

\* A sound document can be read and its entries are in order.
LEMMA SoundIsWellFormed ==
  ASSUME StoreAssumption, NEW k \in Kinds, k # "backup_policies", NEW doc, Sound(k, doc)
  PROVE  WellFormed(k, doc.entries)
<1> DEFINE es == doc.entries
<1>1. es \in Seq(StoreEntries)
  BY DEF Sound, StoreEntries
<1>2. CASE ~doc.exists
  <2>1. es = <<>>
    BY <1>2 DEF Sound
  <2>2. Len(es) = 0
    BY <2>1
  <2> HIDE DEF es
  <2>3. \A T : PairwiseIn(es, T)
    BY <2>2 DEF PairwiseIn
  <2> QED
    BY <1>1, <2>2, <2>3 DEF WellFormed, es
<1>3. CASE doc.exists
  <2>1. Accepts(k, doc)
    BY <1>3 DEF Sound
  <2>2. CASE k \in {"overrides", "policies"}
    <3>1. StrictlyAscending(es, ById)
      BY <2>1, <2>2 DEF Accepts, ParseOverrides, ParsePolicies
    <3>2. PairwiseIn(es, IdLess)
      BY <1>1, <3>1, AscendingPairs
    <3> QED
      BY <1>1, <2>2, <3>2 DEF WellFormed
  <2>3. CASE k \in {"service_claims", "power_claims"}
    <3>1. StrictlyAscending(es, ByOccurrence)
      <4>1. CASE k = "service_claims"
        BY <2>1, <4>1 DEF Accepts, ParseServiceClaims
      <4>2. CASE k = "power_claims"
        BY <4>2 DEF Sound
      <4> QED
        BY <2>3, <4>1, <4>2
    <3>2. PairwiseIn(es, OccurrenceLess)
      BY <1>1, <3>1, AscendingPairs
    <3> QED
      BY <1>1, <2>3, <3>2 DEF WellFormed
  <2>4. CASE k \in {"machine_policy", "service_cursor", "power_cursor"}
    <3>1. Len(es) <= 1
      <4>1. CASE k = "machine_policy"
        BY <2>1, <4>1 DEF Accepts, ParseMachinePolicy
      <4>2. CASE k \in {"service_cursor", "power_cursor"}
        <5>1. Len(es) = 1
          BY <2>1, <4>2 DEF Accepts, ParseServiceCursor, ParsePowerCursor
        <5> HIDE DEF es
        <5> QED
          BY <5>1
      <4> QED
        BY <2>4, <4>1, <4>2
    <3> QED
      BY <1>1, <2>4, <3>1 DEF WellFormed
  <2> QED
    BY <2>2, <2>3, <2>4 DEF StoreAssumption
<1> QED
  BY <1>2, <1>3

\* A document in order that reached the disk is sound.
LEMMA OrderedIsSound ==
  ASSUME StoreAssumption, NEW k \in Kinds, k # "backup_policies", NEW es,
         WellFormed(k, es), Established(k, es),
         NEW doc, doc = [whole |-> TRUE, entries |-> es, synced |-> TRUE, exists |-> TRUE]
  PROVE  Sound(k, doc)
<1>1. doc.whole = TRUE /\ doc.entries = es /\ doc.synced = TRUE /\ doc.exists = TRUE
  OBVIOUS
<1>2. Accepts(k, doc)
  BY <1>1, OrderedIsAccepted
<1>3. es \in Seq(StoreEntries)
  BY DEF WellFormed
<1>4. k = "power_claims" => StrictlyAscending(es, ByOccurrence)
  BY <1>3, AscendingPairs DEF WellFormed
<1> QED
  BY <1>1, <1>2, <1>3, <1>4 DEF Sound, StoreEntries

\* The target is one of the versions.
LEMMA TargetIsVersion ==
  ASSUME ShapeInv
  PROVE  \E i \in DOMAIN versions : Target = versions[i]
<1>1. versions # <<>> /\ versions \in Seq(Range(versions))
  BY DEF ShapeInv
<1>2. Len(versions) \in DOMAIN versions
  BY <1>1
<1> QED
  BY <1>2 DEF Target, Last

\* What was written is what was computed.
LEMMA ComputedDocument ==
  ASSUME NEW w, NEW k, NEW op, NEW es, Computed(w, k, op, es)
  PROVE  w.next = [whole |-> TRUE, entries |-> Perform(k, op, es).entries,
                   synced |-> w.next.synced, exists |-> TRUE]
<1> DEFINE new == Perform(k, op, es).entries
<1>1. PICK x, y : Document(new) = [whole |-> x, entries |-> new, synced |-> FALSE, exists |-> y]
  BY DEF Document
<1>0. Document(new).whole = TRUE /\ Document(new).exists = TRUE
  BY DEF Document
<1>5. x = TRUE /\ y = TRUE
  BY <1>0, <1>1
<1> HIDE DEF new
<1>2. \A b : [Document(new) EXCEPT !.synced = b]
                 = [whole |-> x, entries |-> new, synced |-> b, exists |-> y]
  BY <1>1, SyncedUpdates
<1>3. w.next = [Document(new) EXCEPT !.synced = w.next.synced]
  BY DEF Computed, new
<1>4. w.next = [whole |-> x, entries |-> new, synced |-> w.next.synced, exists |-> y]
  BY <1>2, <1>3
<1> QED
  BY <1>4, <1>5 DEF new

\* What is lost and what is synced changes nothing else of a document.
Lost(d, a, s) == [d EXCEPT !.whole = a, !.synced = s]

LEMMA LossUpdates ==
  ASSUME NEW x, NEW es, NEW b, NEW y, NEW d,
         d = [whole |-> x, entries |-> es, synced |-> b, exists |-> y]
  PROVE  \A a, s : Lost(d, a, s) = [whole |-> a, entries |-> es, synced |-> s, exists |-> y]
<1> SUFFICES ASSUME NEW a, NEW s
             PROVE  Lost(d, a, s) = [whole |-> a, entries |-> es, synced |-> s, exists |-> y]
  OBVIOUS
<1>1. PICK e : e = [d EXCEPT !.whole = a]
  OBVIOUS
<1>2. e = [whole |-> a, entries |-> es, synced |-> b, exists |-> y]
  BY <1>1
<1>3. [e EXCEPT !.synced = s] = [whole |-> a, entries |-> es, synced |-> s, exists |-> y]
  BY <1>2, SyncedUpdates
<1>4. Lost(d, a, s) = [e EXCEPT !.synced = s]
  BY <1>1 DEF Lost
<1> QED
  BY <1>3, <1>4

\* A sound document survives a loss of power.
LEMMA SoundSurvives ==
  ASSUME NEW k, NEW doc, Sound(k, doc), NEW whole \in BOOLEAN, doc.synced => whole = doc.whole
  PROVE  Lost(doc, whole, TRUE) = doc
<1>1. PICK x, es, s, y : doc = [whole |-> x, entries |-> es, synced |-> s, exists |-> y]
  BY DEF Sound
<1>0. doc.synced = TRUE
  BY DEF Sound
<1>2. doc.synced = TRUE /\ doc.whole = x /\ s = TRUE
  BY <1>0, <1>1
<1>3. whole = x
  BY <1>2
<1>4. \A a, b : Lost(doc, a, b)
                    = [whole |-> a, entries |-> es, synced |-> b, exists |-> y]
  BY <1>1, LossUpdates
<1>5. Lost(doc, x, s) = doc
  BY <1>1, <1>4
<1>6. Lost(doc, whole, TRUE) = Lost(doc, x, s)
  BY <1>2, <1>3
<1> QED
  BY <1>5, <1>6


\* The phases of a step, and the temporary files.
PhaseInv ==
    /\ temps \subseteq Callers \cup {None}
    /\ \A c \in Callers : work[c].at \in {"idle", "read", "open", "write", "sync", "rename"}
    /\ crashes \in 0 .. MaxCrashes

\* Who is idle is at no step.
LEMMA IdlePhase == Idle.at = "idle"
  BY DEF Idle

\* The phase of the work after each step of a caller.
LEMMA PhaseStep ==
  ASSUME IInv, PhaseInv, NEW c \in Callers, Step(c)
  PROVE  PhaseInv'
<1>1. /\ work \in [Callers -> Range(work)] /\ UNCHANGED crashes
  BY DEF IInv, ShapeInv, Step, Compute, ReadFails, OpenTemporary, OpenFails, WriteTemporary,
    SyncTemporary, RenameTemporary, WriteFails
<1>2. temps' \subseteq Callers \cup {None}
  BY DEF PhaseInv, Step, Compute, ReadFails, OpenTemporary, OpenFails, WriteTemporary,
    SyncTemporary, RenameTemporary, WriteFails, TemporaryName
<1>3. \E w : /\ work' = [work EXCEPT ![c] = w]
             /\ w.at \in {"idle", "read", "open", "write", "sync", "rename"}
  <2>0. Shaped(work[c])
    BY WorkByCaller DEF IInv, Working
  <2>1. \A at : [work[c] EXCEPT !.at = at].at = at
    <3>1. PICK a, n, s : work[c] = [at |-> a, next |-> n, answer |-> s]
      BY <2>0 DEF Shaped
    <3>2. \A at : [work[c] EXCEPT !.at = at] = [at |-> at, next |-> n, answer |-> s]
      BY <3>1, AtUpdates
    <3> QED
      BY <3>2
  <2>2. CASE Settle(c, Failed) \/ \E answer : Settle(c, answer)
    <3>1. work' = [work EXCEPT ![c] = Idle]
      BY <2>2 DEF Settle
    <3> QED
      BY <3>1, IdlePhase
  <2>3. CASE Compute(c) /\ ~ \E answer : Settle(c, answer)
    <3> DEFINE outcome == Perform(kind, asked[c], Target.entries)
               w == [at |-> "open", next |-> Document(outcome.entries), answer |-> outcome.answer]
    <3>1. work' = [work EXCEPT ![c] = w]
      BY <2>3 DEF Compute
    <3>2. w.at = "open"
      OBVIOUS
    <3> HIDE DEF w
    <3> QED
      BY <3>1, <3>2
  <2>4. CASE OpenTemporary(c)
    BY <2>1, <2>4 DEF OpenTemporary
  <2>5. CASE WriteTemporary(c)
    <3>1. work' = [work EXCEPT ![c] = [work[c] EXCEPT !.at = AfterWrite]]
      BY <2>5 DEF WriteTemporary
    <3>2. AfterWrite \in {"sync", "rename"}
      BY DEF AfterWrite
    <3> QED
      BY <2>1, <3>1, <3>2
  <2>6. CASE SyncTemporary(c)
    <3> DEFINE w == [at |-> "rename", answer |-> work[c].answer,
                     next |-> [work[c].next EXCEPT !.synced = TRUE]]
    <3>1. work' = [work EXCEPT ![c] = w] /\ w.at = "rename"
      BY <2>6 DEF SyncTemporary
    <3> HIDE DEF w
    <3> QED
      BY <3>1
  <2> QED
    BY <2>2, <2>3, <2>4, <2>5, <2>6 DEF Step, Compute, ReadFails, OpenFails, RenameTemporary, WriteFails
<1>4. \A d \in Callers : work'[d].at \in {"idle", "read", "open", "write", "sync", "rename"}
  <2>1. PICK w : /\ work' = [work EXCEPT ![c] = w]
                 /\ w.at \in {"idle", "read", "open", "write", "sync", "rename"}
    BY <1>3
  <2>2. work'[c] = w /\ \A d \in Callers : d # c => work'[d] = work[d]
    BY <1>1, <2>1, Updated
  <2> QED
    BY <2>1, <2>2 DEF PhaseInv
<1> QED
  BY <1>1, <1>2, <1>4 DEF PhaseInv

\* The queue holds the callers that wait, each once.
WaitInv == QueueInv /\ Range(queue) = {c \in Callers : asked[c] # None /\ answers[c] = None}

\* A queue without repetition is as long as the set of those in it.
LEMMA QueueLength ==
  ASSUME queue \in Seq(Callers), QueueInv
  PROVE  Len(queue) = Cardinality(Range(queue))
<1> DEFINE n == Len(queue)
           R == Range(queue)
<1>1. n \in Nat /\ DOMAIN queue = 1..n
  OBVIOUS
<1>2. queue \in Bijection(1..n, R)
  <2>1. R = {queue[i] : i \in 1..n}
    BY <1>1 DEF Range
  <2>2. queue \in [1..n -> R] /\ \A t \in R : \E s \in 1..n : queue[s] = t
    BY <1>1, <2>1
  <2>3. \A a, b \in 1..n : queue[a] = queue[b] => a = b
    BY <1>1 DEF QueueInv
  <2> QED
    BY <2>2, <2>3 DEF Bijection, Injection, Surjection, IsInjective
<1>3. ExistsBijection(1..n, R)
  BY <1>2 DEF ExistsBijection
<1> HIDE DEF n, R
<1>4. IsFiniteSet(1..n) /\ Cardinality(1..n) = n
  BY <1>1, FS_Interval
<1>5. Cardinality(R) = n
  BY <1>3, <1>4, FS_Bijection
<1> QED
  BY <1>5 DEF n, R

\* A step of a caller leaves the queue and the answers, or settles with an answer.
LEMMA StepAnswers ==
  ASSUME StoreAssumption, IInv, DocumentInv, NEW c \in Callers, Step(c)
  PROVE  /\ UNCHANGED <<asked, kind>> /\ Turn(c)
         /\ UNCHANGED <<queue, answers>> \/ \E answer \in Answers : Settle(c, answer)
<1>1. UNCHANGED <<asked, kind>> /\ Turn(c) /\ asked[c] \in Operations(kind) /\ kind \in Kinds
  BY WorkByCaller DEF IInv, Working, ShapeInv, Step, Compute, ReadFails, OpenTemporary, OpenFails,
       WriteTemporary, SyncTemporary, RenameTemporary, WriteFails, At
<1> DEFINE answer == Perform(kind, asked[c], Target.entries).answer
<1>2. answer \in Answers
  <2>1. ASSUME kind # "backup_policies" PROVE Target.entries \in Seq(StoreEntries)
    <3>1. PICK i \in DOMAIN versions : Target = versions[i]
      BY TargetIsVersion DEF IInv
    <3>2. Sound(kind, Target)
      BY <2>1, <3>1, SoundVersions
    <3> QED
      BY <3>2 DEF Sound, StoreEntries
  <2> QED
    BY <1>1, <2>1, OperationsAnswer
<1>3. Failed \in Answers
  BY DEF Failed, Answers
<1> HIDE DEF answer
<1>4. CASE Compute(c)
  <2>1. UNCHANGED <<queue, answers>> \/ Settle(c, answer)
    BY <1>4 DEF Compute, answer
  <2> QED
    BY <1>1, <1>2, <2>1
<1>5. CASE RenameTemporary(c)
  <2>1. Computed(work[c], kind, asked[c], Target.entries)
    BY <1>5, WorkByCaller DEF IInv, Working, RenameTemporary, At
  <2>2. Settle(c, answer)
    BY <1>5, <2>1 DEF RenameTemporary, Computed, answer
  <2> QED
    BY <1>1, <1>2, <2>2
<1>6. CASE ReadFails(c) \/ OpenFails(c) \/ WriteFails(c)
  BY <1>1, <1>3, <1>6 DEF ReadFails, OpenFails, WriteFails
<1>7. CASE OpenTemporary(c) \/ WriteTemporary(c) \/ SyncTemporary(c)
  BY <1>1, <1>7 DEF OpenTemporary, WriteTemporary, SyncTemporary
<1> QED
  BY <1>4, <1>5, <1>6, <1>7 DEF Step

\* The head leaves the queue when it is answered.
LEMMA WaitAfterSettle ==
  ASSUME StoreAssumption, IInv, WaitInv, NEW c \in Callers, Turn(c), NEW answer \in Answers,
         Settle(c, answer), UNCHANGED asked
  PROVE  WaitInv'
<1>1. /\ queue \in Seq(Callers) /\ queue # <<>> /\ queue[1] = c
      /\ queue' = Tail(queue) /\ answers' = [answers EXCEPT ![c] = answer]
      /\ answers \in [Callers -> Range(answers)] /\ answer # None
  BY DEF IInv, ShapeInv, Turn, Settle, StoreAssumption
<1>2. /\ Len(queue) \in Nat \ {0} /\ DOMAIN queue = 1..Len(queue)
      /\ DOMAIN queue' = 1..(Len(queue) - 1)
      /\ \A i \in 1..(Len(queue) - 1) : queue'[i] = queue[i + 1] /\ i + 1 \in 1..Len(queue)
  BY <1>1
<1>3. /\ answers'[c] = answer /\ \A d \in Callers : d # c => answers'[d] = answers[d]
  BY <1>1, Updated
<1>4. QueueInv'
  <2>1. ASSUME NEW i \in DOMAIN queue', NEW j \in DOMAIN queue', queue'[i] = queue'[j] PROVE i = j
    <3>1. /\ i + 1 \in DOMAIN queue /\ j + 1 \in DOMAIN queue
          /\ queue[i + 1] = queue[j + 1] /\ i \in Nat /\ j \in Nat
      BY <1>2, <2>1
    <3>2. i + 1 = j + 1
      BY <3>1 DEF WaitInv, QueueInv
    <3> QED
      BY <3>1, <3>2
  <2>2. asked[c] # None
    <3>1. c \in Range(queue)
      BY <1>1, <1>2 DEF Range
    <3> QED
      BY <3>1 DEF WaitInv
  <2>3. \A d \in Callers : /\ answers'[d] \in Answers \cup {None}
                           /\ asked[d] = None => answers'[d] = None
    BY <1>3, <2>2 DEF WaitInv, QueueInv
  <2> QED
    BY <2>1, <2>3 DEF QueueInv
<1>5. Range(queue') = Range(queue) \ {c}
  <2>1. ASSUME NEW i \in DOMAIN queue' PROVE queue'[i] \in Range(queue) \ {c}
    <3>1. i + 1 \in DOMAIN queue /\ queue'[i] = queue[i + 1] /\ i + 1 # 1 /\ 1 \in DOMAIN queue
      BY <1>2
    <3>2. queue[i + 1] # queue[1]
      BY <3>1 DEF WaitInv, QueueInv
    <3> QED
      BY <1>1, <3>1, <3>2 DEF Range
  <2>2. ASSUME NEW d \in Range(queue), d # c PROVE d \in Range(queue')
    <3>1. PICK i \in DOMAIN queue : queue[i] = d
      BY DEF Range
    <3>2. i # 1
      BY <1>1, <2>2, <3>1
    <3>3. i - 1 \in DOMAIN queue' /\ queue'[i - 1] = queue[(i - 1) + 1] /\ (i - 1) + 1 = i
      BY <1>2, <3>1, <3>2
    <3> QED
      BY <3>1, <3>3 DEF Range
  <2>3. Range(queue') = {queue'[i] : i \in DOMAIN queue'}
    BY DEF Range
  <2> QED
    BY <2>1, <2>2, <2>3
<1>6. {d \in Callers : asked'[d] # None /\ answers'[d] = None}
          = {d \in Callers : asked[d] # None /\ answers[d] = None} \ {c}
  BY <1>1, <1>3
<1> QED
  BY <1>4, <1>5, <1>6 DEF WaitInv

\* A caller that asks joins the queue.
LEMMA WaitAfterAsk ==
  ASSUME StoreAssumption, IInv, WaitInv, NEW c \in Callers, NEW op \in Operations(kind), Ask(c, op)
  PROVE  WaitInv'
<1>1. /\ queue \in Seq(Callers) /\ queue' = Append(queue, c) /\ answers' = answers
      /\ asked[c] = None /\ asked' = [asked EXCEPT ![c] = op] /\ op # None
      /\ asked \in [Callers -> Operations(kind) \cup {None}]
  BY DEF IInv, ShapeInv, Ask, StoreAssumption
<1>2. /\ Len(queue) \in Nat /\ DOMAIN queue = 1..Len(queue)
      /\ DOMAIN queue' = 1..(Len(queue) + 1) /\ queue'[Len(queue) + 1] = c
      /\ \A i \in 1..Len(queue) : queue'[i] = queue[i]
  BY <1>1
<1>3. asked'[c] = op /\ \A d \in Callers : d # c => asked'[d] = asked[d]
  BY <1>1
<1>4. c \notin Range(queue)
  BY <1>1 DEF WaitInv
<1>5. \A i \in DOMAIN queue : queue[i] # c
  BY <1>4 DEF Range
<1>6. \A i, j \in DOMAIN queue' : queue'[i] = queue'[j] => i = j
  <2>1. ASSUME NEW i \in DOMAIN queue', NEW j \in DOMAIN queue', queue'[i] = queue'[j] PROVE i = j
    <3>1. CASE i \in 1..Len(queue) /\ j \in 1..Len(queue)
      BY <1>2, <2>1, <3>1 DEF WaitInv, QueueInv
    <3>2. CASE i = Len(queue) + 1 /\ j = Len(queue) + 1
      BY <3>2
    <3>3. CASE i = Len(queue) + 1 /\ j \in 1..Len(queue)
      BY <1>2, <1>5, <2>1, <3>3
    <3>4. CASE i \in 1..Len(queue) /\ j = Len(queue) + 1
      BY <1>2, <1>5, <2>1, <3>4
    <3> QED
      BY <1>2, <3>1, <3>2, <3>3, <3>4
  <2> QED
    BY <2>1
<1>7. Range(queue') = Range(queue) \cup {c}
  <2>1. /\ Range(queue') = {queue'[i] : i \in DOMAIN queue'}
        /\ Range(queue) = {queue[i] : i \in DOMAIN queue}
    BY DEF Range
  <2>2. DOMAIN queue' = (DOMAIN queue) \cup {Len(queue) + 1}
    BY <1>2
  <2> QED
    BY <1>2, <2>1, <2>2
<1>8. answers[c] = None
  BY <1>1 DEF WaitInv, QueueInv
<1>9. {d \in Callers : asked'[d] # None /\ answers'[d] = None}
          = {d \in Callers : asked[d] # None /\ answers[d] = None} \cup {c}
  BY <1>1, <1>3, <1>8
<1>10. \A d \in Callers : /\ answers'[d] \in Answers \cup {None}
                          /\ asked'[d] = None => answers'[d] = None
  BY <1>1, <1>3 DEF WaitInv, QueueInv
<1> QED
  BY <1>6, <1>7, <1>9, <1>10 DEF WaitInv, QueueInv

\* A stop empties the queue and answers those in it.
LEMMA WaitAfterStop ==
  ASSUME StoreAssumption, WaitInv, Interrupted
  PROVE  WaitInv'
<1>1. /\ queue' = <<>> /\ UNCHANGED asked
      /\ \A c \in Callers : answers'[c] = IF asked[c] # None /\ answers[c] = None THEN Failed
                                         ELSE answers[c]
  BY DEF Interrupted
<1>2. Failed \in Answers /\ Failed # None
  BY DEF Failed, Answers, StoreAssumption
<1>3. Range(queue') = {} /\ DOMAIN queue' = {}
  BY <1>1 DEF Range
<1>4. \A c \in Callers : /\ answers'[c] \in Answers \cup {None}
                         /\ asked[c] = None => answers'[c] = None
                         /\ asked[c] # None => answers'[c] # None
  BY <1>1, <1>2 DEF WaitInv, QueueInv
<1> QED
  BY <1>1, <1>3, <1>4 DEF WaitInv, QueueInv

\* The documents, after each step of a caller.
LEMMA DocumentStep ==
  ASSUME StoreAssumption, IInv, DocumentInv, NEW c \in Callers, Step(c)
  PROVE  DocumentInv'
<1> SUFFICES ASSUME kind' # "backup_policies"
             PROVE  /\ \A i \in DOMAIN versions' : Sound(kind', versions'[i])
                    /\ \A d \in Callers : Writing(work'[d], kind', asked'[d], Target'.entries)
  BY SoundVersions
<1>1. /\ UNCHANGED <<asked, kind>> /\ Turn(c) /\ asked[c] \in Operations(kind) /\ kind \in Kinds
      /\ work \in [Callers -> Range(work)] /\ versions \in Seq(Range(versions)) /\ versions # <<>>
  BY WorkByCaller DEF IInv, Working, ShapeInv, Step, Compute, ReadFails, OpenTemporary, OpenFails,
       WriteTemporary, SyncTemporary, RenameTemporary, WriteFails, At
<1>2. /\ \A i \in DOMAIN versions : Sound(kind, versions[i])
      /\ \A d \in Callers : Writing(work[d], kind, asked[d], Target.entries)
      /\ kind # "backup_policies"
  BY <1>1, SoundVersions
<1>3. Shaped(work[c])
  BY WorkByCaller DEF IInv, Working
<1> DEFINE outcome == Perform(kind, asked[c], Target.entries)
<1>4. ASSUME ~ \E answer : Settle(c, answer)
      PROVE  \E w : /\ work' = [work EXCEPT ![c] = w] /\ versions' = versions
                    /\ w.at = "rename" => w.next.synced
                    /\ outcome.writes
  <2>1. \A at : [work[c] EXCEPT !.at = at].at = at
    <3>1. PICK a, n, s : work[c] = [at |-> a, next |-> n, answer |-> s]
      BY <1>3 DEF Shaped
    <3>2. \A at : [work[c] EXCEPT !.at = at] = [at |-> at, next |-> n, answer |-> s]
      BY <3>1, AtUpdates
    <3> QED
      BY <3>2
  <2>2. CASE Compute(c)
    <3> DEFINE w == [at |-> "open", next |-> Document(outcome.entries), answer |-> outcome.answer]
    <3>1. work' = [work EXCEPT ![c] = w] /\ versions' = versions /\ outcome.writes
      BY <1>4, <2>2 DEF Compute
    <3>2. w.at = "open"
      OBVIOUS
    <3> HIDE DEF w, outcome
    <3> QED
      BY <3>1, <3>2
  <2>3. CASE ~Compute(c)
    <3>1. CASE OpenTemporary(c)
      <4>1. work[c].at = "open" /\ outcome.writes
        BY <1>2, <3>1 DEF OpenTemporary, At, Writing
      <4> HIDE DEF outcome
      <4> QED
        BY <2>1, <3>1, <4>1 DEF OpenTemporary
    <3>2. CASE WriteTemporary(c)
      <4>1. work[c].at = "write" /\ outcome.writes
        BY <1>2, <3>2 DEF WriteTemporary, At, Writing
      <4> HIDE DEF outcome
      <4>2. work' = [work EXCEPT ![c] = [work[c] EXCEPT !.at = "sync"]] /\ versions' = versions
        BY <1>2, <3>2 DEF WriteTemporary, AfterWrite
      <4> QED
        BY <2>1, <4>1, <4>2
    <3>3. CASE SyncTemporary(c)
      <4> DEFINE next == [work[c].next EXCEPT !.synced = TRUE]
                 w == [at |-> "rename", answer |-> work[c].answer, next |-> next]
      <4>1. work[c].at = "sync" /\ outcome.writes
        BY <1>2, <3>3 DEF SyncTemporary, At, Writing
      <4>2. work' = [work EXCEPT ![c] = w] /\ w.next = next /\ versions' = versions
        BY <3>3 DEF SyncTemporary
      <4>3. Computed(work[c], kind, asked[c], Target.entries)
        BY <3>3, WorkByCaller DEF IInv, Working, SyncTemporary, At
      <4>4. work[c].next = [whole |-> TRUE, entries |-> outcome.entries,
                            synced |-> work[c].next.synced, exists |-> TRUE]
        BY <4>3, ComputedDocument
      <4>5. \E x, es, b, y : work[c].next = [whole |-> x, entries |-> es, synced |-> b, exists |-> y]
        BY <4>4
      <4>6. next.synced = TRUE
        <5>1. PICK x, es, b, y : work[c].next = [whole |-> x, entries |-> es, synced |-> b, exists |-> y]
          BY <4>5
        <5>2. \A b2 : [work[c].next EXCEPT !.synced = b2]
                         = [whole |-> x, entries |-> es, synced |-> b2, exists |-> y]
          BY <5>1, SyncedUpdates
        <5> QED
          BY <5>2
      <4> HIDE DEF w, outcome
      <4> QED
        BY <4>1, <4>2, <4>6
    <3> QED
      BY <1>4, <2>3, <3>1, <3>2, <3>3 DEF Step, ReadFails, OpenFails, RenameTemporary, WriteFails
  <2> QED
    BY <2>2, <2>3
<1>5. \A d \in Callers : Writing(work'[d], kind', asked'[d], Target'.entries)
  <2>1. \A d \in Callers : d # c => work[d].at \in {"idle", "read"}
    BY <1>1, OthersWait
  <2>2. \A w, k, op, es : w.at \in {"idle", "read"} => Writing(w, k, op, es)
    BY DEF Writing
  <2>3. CASE \E answer : Settle(c, answer)
    <3>1. work' = [work EXCEPT ![c] = Idle]
      BY <2>3 DEF Settle
    <3>2. work'[c] = Idle /\ \A d \in Callers : d # c => work'[d] = work[d]
      BY <1>1, <3>1, Updated
    <3>3. \A d \in Callers : work'[d].at \in {"idle", "read"}
      BY <2>1, <3>2, IdlePhase
    <3> QED
      BY <2>2, <3>3
  <2>4. CASE ~ \E answer : Settle(c, answer)
    <3>1. PICK w : /\ work' = [work EXCEPT ![c] = w] /\ versions' = versions
                   /\ w.at = "rename" => w.next.synced
                   /\ outcome.writes
      BY <1>4, <2>4
    <3>2. work'[c] = w /\ \A d \in Callers : d # c => work'[d] = work[d]
      BY <1>1, <3>1, Updated
    <3>3. Target' = Target
      BY <3>1 DEF Target
    <3>4. Writing(work'[c], kind', asked'[c], Target'.entries)
      BY <1>1, <3>1, <3>2, <3>3 DEF Writing
    <3>5. \A d \in Callers : d # c => work'[d].at \in {"idle", "read"}
      BY <2>1, <3>2
    <3> QED
      BY <2>2, <3>4, <3>5
  <2> QED
    BY <2>3, <2>4
<1>6. CASE RenameTemporary(c)
  <2>1. /\ Computed(work[c], kind, asked[c], Target.entries)
        /\ work[c].at = "rename" /\ versions' = Append(versions, work[c].next)
    BY <1>6, WorkByCaller DEF IInv, Working, RenameTemporary, At
  <2> DEFINE doc == work[c].next
  <2>2. doc = [whole |-> TRUE, entries |-> outcome.entries, synced |-> doc.synced, exists |-> TRUE]
    BY <2>1, ComputedDocument
  <2>3. doc.synced /\ outcome.writes
    BY <1>2, <2>1 DEF Writing
  <2>4. PICK k \in DOMAIN versions : Target = versions[k]
    BY TargetIsVersion DEF IInv
  <2>5. WellFormed(kind, Target.entries)
    BY <1>1, <1>2, <2>4, SoundIsWellFormed
  <2>6. WellFormed(kind, outcome.entries) /\ Established(kind, outcome.entries)
    BY <1>1, <1>2, <2>3, <2>5, OperationsWriteInOrder
  <2> HIDE DEF outcome
  <2>7. doc = [whole |-> TRUE, entries |-> outcome.entries, synced |-> TRUE, exists |-> TRUE]
    BY <2>2, <2>3
  <2> HIDE DEF doc
  <2>8. Sound(kind, doc)
    BY <1>1, <1>2, <2>6, <2>7, OrderedIsSound
  <2>9. \A i \in DOMAIN versions' : versions'[i] = doc \/ (i \in DOMAIN versions /\ versions'[i] = versions[i])
    BY <1>1, <2>1 DEF doc
  <2> QED
    BY <1>1, <1>2, <1>5, <2>8, <2>9
<1>7. CASE ~RenameTemporary(c)
  <2>1. versions' = versions
    BY <1>7 DEF Step, Compute, ReadFails, OpenTemporary, OpenFails, WriteTemporary, SyncTemporary,
      WriteFails
  <2> QED
    BY <1>1, <1>2, <1>5, <2>1
<1> QED
  BY <1>6, <1>7

StoreInv == IInv /\ WaitInv /\ PhaseInv /\ DocumentInv

\* The invariant is kept, ...
LEMMA StoreStep ==
  ASSUME StoreAssumption, MaxCrashes \in Nat, StoreInv, [Next]_vars
  PROVE  StoreInv'
<1>1. IInv' /\ IInv /\ WaitInv /\ PhaseInv /\ DocumentInv
  BY NextStep DEF StoreInv
<1>2. ASSUME NEW c \in Callers, NEW op \in Operations(kind), Ask(c, op)
      PROVE  WaitInv' /\ PhaseInv' /\ DocumentInv'
  <2>1. WaitInv'
    BY <1>1, <1>2, WaitAfterAsk
  <2>2. /\ work' = [work EXCEPT ![c] = [work[c] EXCEPT !.at = "read"]]
        /\ asked' = [asked EXCEPT ![c] = op]
        /\ asked \in [Callers -> Operations(kind) \cup {None}] /\ asked[c] = None
        /\ UNCHANGED <<kind, versions, temps, crashes>>
        /\ work \in [Callers -> Range(work)]
    BY <1>1, <1>2 DEF Ask, IInv, ShapeInv
  <2>3. [work[c] EXCEPT !.at = "read"].at = "read"
    <3>1. PICK a, n, s : work[c] = [at |-> a, next |-> n, answer |-> s]
      BY <1>1, WorkByCaller DEF IInv, Working, Shaped
    <3>2. [work[c] EXCEPT !.at = "read"] = [at |-> "read", next |-> n, answer |-> s]
      BY <3>1, AtUpdates
    <3> QED
      BY <3>2
  <2>4. work'[c].at = "read" /\ \A d \in Callers : d # c => work'[d] = work[d]
    BY <2>2, <2>3, Updated
  <2>5. PhaseInv'
    BY <1>1, <2>2, <2>4 DEF PhaseInv
  <2>6. \A d \in Callers : d # c => asked'[d] = asked[d]
    BY <2>2
  <2>7. Target' = Target
    BY <2>2 DEF Target
  <2>8. ASSUME kind' # "backup_policies"
        PROVE  /\ \A i \in DOMAIN versions' : Sound(kind', versions'[i])
               /\ \A d \in Callers : Writing(work'[d], kind', asked'[d], Target'.entries)
    <3>1. /\ \A i \in DOMAIN versions : Sound(kind, versions[i])
          /\ \A d \in Callers : Writing(work[d], kind, asked[d], Target.entries)
      BY <1>1, <2>2, <2>8, SoundVersions
    <3>2. Writing(work'[c], kind', asked'[c], Target'.entries)
      BY <2>4 DEF Writing
    <3> QED
      BY <2>2, <2>4, <2>6, <2>7, <3>1, <3>2
  <2>9. DocumentInv'
    BY <2>8, SoundVersions
  <2> QED
    BY <2>1, <2>5, <2>9
<1>3. ASSUME NEW c \in Callers, Step(c)
      PROVE  WaitInv' /\ PhaseInv' /\ DocumentInv'
  <2>1. PhaseInv' /\ DocumentInv'
    BY <1>1, <1>3, PhaseStep, DocumentStep
  <2>2. /\ UNCHANGED <<asked, kind>> /\ Turn(c)
        /\ UNCHANGED <<queue, answers>> \/ \E answer \in Answers : Settle(c, answer)
    BY <1>1, <1>3, StepAnswers
  <2>3. CASE UNCHANGED <<queue, answers>>
    BY <1>1, <2>1, <2>2, <2>3 DEF WaitInv, QueueInv
  <2>4. CASE \E answer \in Answers : Settle(c, answer)
    BY <1>1, <2>1, <2>2, <2>4, WaitAfterSettle
  <2> QED
    BY <2>2, <2>3, <2>4
<1>4. CASE Crash \/ PowerLoss
  <2>1. Interrupted
    BY <1>4 DEF Crash, PowerLoss
  <2>2. WaitInv'
    BY <1>1, <2>1, WaitAfterStop
  <2>3. /\ \A c \in Callers : work'[c] = Idle
        /\ UNCHANGED <<kind, temps, asked>> /\ crashes < MaxCrashes /\ crashes' = crashes + 1
    BY <2>1 DEF Interrupted
  <2>4. PhaseInv'
    <3>1. crashes' \in 0..MaxCrashes
      BY <1>1, <2>3 DEF PhaseInv
    <3> QED
      BY <1>1, <2>3, <3>1, IdlePhase DEF PhaseInv
  <2>5. ASSUME kind' # "backup_policies"
        PROVE  /\ \A i \in DOMAIN versions' : Sound(kind', versions'[i])
               /\ \A d \in Callers : Writing(work'[d], kind', asked'[d], Target'.entries)
    <3>1. \A i \in DOMAIN versions : Sound(kind, versions[i]) /\ versions[i].synced
      BY <1>1, <2>3, <2>5, SoundVersions DEF DocumentInv
    <3>2. \A d \in Callers : Writing(work'[d], kind', asked'[d], Target'.entries)
      BY <2>3, IdlePhase DEF Writing
    <3>3. CASE Crash
      BY <2>3, <3>1, <3>2, <3>3 DEF Crash
    <3>4. CASE PowerLoss
      <4>1. PICK k \in DOMAIN versions, whole \in BOOLEAN :
                /\ versions[k].synced => whole = versions[k].whole
                /\ versions' = <<Lost(versions[k], whole, TRUE)>>
        BY <3>4 DEF PowerLoss, Lost
      <4>2. Lost(versions[k], whole, TRUE) = versions[k]
        BY <3>1, <4>1, SoundSurvives
      <4>3. versions' = <<versions[k]>>
        BY <4>1, <4>2
      <4>4. \A i \in DOMAIN versions' : versions'[i] = versions[k]
        BY <4>3
      <4> QED
        BY <2>3, <3>1, <3>2, <4>4
    <3> QED
      BY <1>4, <3>3, <3>4
  <2>6. DocumentInv'
    BY <2>5, SoundVersions
  <2> QED
    BY <1>1, <2>2, <2>4, <2>6 DEF StoreInv
<1>5. CASE UNCHANGED vars
  <2>1. WaitInv' /\ PhaseInv'
    BY <1>1, <1>5 DEF vars, WaitInv, QueueInv, PhaseInv
  <2>2. Target' = Target
    BY <1>5 DEF vars, Target
  <2>3. DocumentInv'
    BY <1>1, <1>5, <2>2, SoundVersions DEF vars
  <2> QED
    BY <1>1, <2>1, <2>3 DEF StoreInv
<1> QED
  BY <1>1, <1>2, <1>3, <1>4, <1>5 DEF Next, StoreInv

\* ... holds at first, ...
LEMMA StoreStarts ==
  ASSUME StoreAssumption, MaxCrashes \in Nat, Init
  PROVE  StoreInv
<1>1. IInv
  BY InitStep
<1>2. WaitInv
  <2>1. queue = <<>> /\ \A c \in Callers : asked[c] = None /\ answers[c] = None
    BY DEF Init
  <2>2. Range(queue) = {} /\ DOMAIN queue = {}
    BY <2>1 DEF Range
  <2> QED
    BY <2>1, <2>2 DEF WaitInv, QueueInv
<1>3. PhaseInv
  BY IdlePhase DEF Init, PhaseInv
<1>4. DocumentInv
  <2>1. versions = <<Missing>> /\ \A c \in Callers : work[c] = Idle
    BY DEF Init
  <2>2. \A i \in DOMAIN versions : versions[i] = Missing
    BY <2>1
  <2>3. /\ Missing = [whole |-> Missing.whole, entries |-> Missing.entries,
                      synced |-> TRUE, exists |-> Missing.exists]
        /\ Missing.entries = <<>> /\ ~Missing.exists
    BY DEF Missing
  <2>4. <<>> \in Seq([id : Nat, value : Nat]) /\ StrictlyAscending(<<>>, ByOccurrence)
    BY DEF StrictlyAscending
  <2>5. \A k : Sound(k, Missing)
    BY <2>3, <2>4 DEF Sound
  <2>6. \A c \in Callers : Writing(work[c], kind, asked[c], Target.entries)
    BY <2>1, IdlePhase DEF Writing
  <2> QED
    BY <2>2, <2>5, <2>6, SoundVersions
<1> QED
  BY <1>1, <1>2, <1>3, <1>4 DEF StoreInv

\* ... and says that the queue is in turn and the documents can be read.
LEMMA StoreIsRead ==
  ASSUME StoreAssumption, StoreInv
  PROVE  StoreReadsWhatItWrites
<1>1. Len(queue) = Cardinality(Range(queue))
  BY QueueLength DEF StoreInv, WaitInv, IInv, ShapeInv
<1>2. TypeOK
  BY <1>1 DEF StoreInv, WaitInv, PhaseInv, IInv, ShapeInv, TypeOK
<1>3. ASSUME kind # "backup_policies", NEW i \in DOMAIN versions PROVE Readable(versions[i])
  <2>1. Sound(kind, versions[i])
    BY <1>3, SoundVersions DEF StoreInv
  <2> QED
    BY <2>1 DEF Sound, Readable
<1> QED
  BY <1>2, <1>3 DEF StoreReadsWhatItWrites, DocumentsAreReadable

\* Operations of a store run in turn, one for each caller that waits; and whatever is
\* found under its name after a stop or a loss of power is a document the store
\* accepts: in order, without duplicates, never torn (persist, parse and #enqueue of
\* each store; the file of the backup policies, which is not synchronised, excepted).
THEOREM StoresReadWhatTheyWrite ==
  ASSUME StoreAssumption, MaxCrashes \in Nat
  PROVE  Spec => []StoreReadsWhatItWrites
<1>1. Init => StoreInv
  BY StoreStarts
<1>2. StoreInv /\ [Next]_vars => StoreInv'
  BY StoreStep
<1>3. StoreInv => StoreReadsWhatItWrites
  BY StoreIsRead
<1> QED
  BY <1>1, <1>2, <1>3, PTL DEF Spec
-----------------------------------------------------------------------------
(* The event history. *)

Hashes == Events \cup {Genesis}
SegmentFiles == [records : Seq(Records) \ {<<>>}, name : {"candidate", "jsonl"},
                 manifest : {"none", "final"}, previous : Hashes]
Anchors == [next : Nat \ {0}, prev : Hashes, head : Hashes]

\* Types; a sealed segment is never empty.
FilesInv ==
    /\ active \in Seq(Records) /\ segments \in Seq(SegmentFiles)
    /\ ledger \in Seq(Anchors)
    /\ transaction \in BOOLEAN /\ written \in 0..MaxEvents /\ policy \in Policies

Increasing(records) == \A i, j \in DOMAIN records : i < j => records[i].seq < records[j].seq

\* Numbers increase within a file, from one segment to the next, and on to the
\* active segment.
OrderInv ==
    /\ Increasing(active)
    /\ \A i \in DOMAIN segments :
          /\ Increasing(segments[i].records)
          /\ \A r \in ToSet(segments[i].records) :
                /\ \A j \in DOMAIN segments : i < j =>
                      \A q \in ToSet(segments[j].records) : r.seq < q.seq
                /\ \A q \in ToSet(active) : r.seq < q.seq

\* The steps at which there is a journal and no segment left to remove.
Journalled == {"move", "seal", "publish", "ledger", "done"}

\* Nothing before the anchor is left, unless a removal is journalled.
FloorInv ==
    /\ \A q \in ToSet(active) : q.seq >= Anchor.next
    /\ (transaction => pc \in Journalled) => \A r \in Held : r.seq >= Anchor.next

\* What an operation relies on: a record is only written without a journal, and
\* what a pruning has left to remove ends before the segment the anchor names.
JobInv ==
    /\ job = [op |-> job.op, recovery |-> job.recovery, drop |-> job.drop, doomed |-> job.doomed,
              made |-> job.made]
    /\ pc \in {"append", "sync", "clear"} => job.op = "record" /\ ~transaction
    /\ pc \in {"data", "manifest", "rm_data", "rm_manifest"} => job.op # "record"
    /\ pc = "move" => active # <<>>
    /\ pc \in {"seal", "publish"} => segments # <<>>
    /\ pc \in {"ledger", "remove"} =>
          /\ job.op # "record" /\ transaction /\ job.drop \in 1..(Len(segments) - 1)
    /\ pc = "remove" => segments[job.drop + 1].records[1].seq = Anchor.next

\* What is acknowledged was written and synchronised; what is not synchronised
\* is the last line.
AckInv ==
    /\ acked \subseteq 1..written
    /\ unsynced # 0 =>
          /\ active # <<>> /\ Last(active).event = unsynced
          /\ unsynced \in 1..written /\ unsynced \notin acked
    /\ pc \in {"sync", "clear", "unlock"} /\ job.op = "record"
          => active # <<>> /\ Last(active).event = written
    /\ pc \in {"clear", "unlock"} /\ job.op = "record" => unsynced = 0

HistoryInv == FilesInv /\ OrderInv /\ FloorInv /\ JobInv /\ AckInv
-----------------------------------------------------------------------------
LEMMA AnchorType == FilesInv => /\ Anchor \in Anchors
                                /\ Anchor.next \in Nat \ {0} /\ Anchor.prev \in Hashes
                                /\ Anchor.head \in Hashes
<1> SUFFICES ASSUME FilesInv PROVE Anchor \in Anchors
  BY DEF Anchors
<1>1. CASE ledger = <<>>
  BY <1>1 DEF Anchor, Anchors, Hashes
<1>2. CASE ledger # <<>>
  <2>1. ledger \in Seq(Anchors) /\ Len(ledger) \in DOMAIN ledger
    BY <1>2 DEF FilesInv
  <2>2. ledger[Len(ledger)] \in Anchors
    BY <2>1
  <2> QED
    BY <1>2, <2>2 DEF Anchor, Last
<1> QED
  BY <1>1, <1>2

\* What a sealed segment is.
LEMMA SegmentType ==
  ASSUME FilesInv, NEW i \in DOMAIN segments
  PROVE  /\ segments[i] \in SegmentFiles
         /\ segments[i].records \in Seq(Records) /\ segments[i].records # <<>>
         /\ i \in Nat /\ 1 <= i /\ i <= Len(segments)
<1>1. segments \in Seq(SegmentFiles)
  BY DEF FilesInv
<1>2. segments[i] \in SegmentFiles /\ i \in Nat /\ 1 <= i /\ i <= Len(segments)
  BY <1>1
<1> QED
  BY <1>2 DEF SegmentFiles

\* What is in a sequence of records.
LEMMA InSequence ==
  ASSUME NEW s \in Seq(Records)
  PROVE  /\ ToSet(s) \subseteq Records
         /\ \A r \in ToSet(s) : \E i \in 1..Len(s) : r = s[i]
         /\ \A i \in 1..Len(s) : s[i] \in ToSet(s)
BY DEF ToSet

\* The records held, one by one.
LEMMA HeldRecords ==
  ASSUME FilesInv
  PROVE  /\ Held \subseteq Records
         /\ \A r : r \in Held <=> \/ r \in ToSet(active)
                                  \/ \E i \in DOMAIN segments : r \in ToSet(segments[i].records)
<1>1. \A i \in DOMAIN segments : ToSet(segments[i].records) \subseteq Records
  BY SegmentType, InSequence
<1>2. ToSet(active) \subseteq Records
  BY InSequence DEF FilesInv
<1> QED
  BY <1>1, <1>2 DEF Held

\* A number belongs to one record.
LEMMA OneRecordEach ==
  ASSUME FilesInv, OrderInv, NEW r \in Held, NEW q \in Held, r.seq = q.seq
  PROVE  r = q
<1>1. ASSUME NEW s, s \in Seq(Records), Increasing(s), r \in ToSet(s), q \in ToSet(s) PROVE r = q
  <2>1. PICK i \in DOMAIN s : r = s[i]
    BY <1>1 DEF ToSet
  <2>2. PICK j \in DOMAIN s : q = s[j]
    BY <1>1 DEF ToSet
  <2>3. i \in Nat /\ j \in Nat /\ r.seq \in Nat /\ q.seq \in Nat
    BY <1>1, <2>1, <2>2, HeldRecords DEF Records
  <2> QED
    BY <1>1, <2>1, <2>2, <2>3 DEF Increasing
<1>2. r.seq \in Nat /\ q.seq \in Nat
  BY HeldRecords DEF Records
<1>3. CASE r \in ToSet(active) /\ q \in ToSet(active)
  BY <1>1, <1>3 DEF FilesInv, OrderInv
<1>4. ASSUME NEW i \in DOMAIN segments, r \in ToSet(segments[i].records)
      PROVE  r = q
  <2>1. q \notin ToSet(active)
    BY <1>2, <1>4 DEF OrderInv
  <2>2. PICK j \in DOMAIN segments : q \in ToSet(segments[j].records)
    BY <2>1, HeldRecords
  <2>3. i \in Nat /\ j \in Nat
    BY DEF FilesInv
  <2>4. ~(i < j) /\ ~(j < i)
    BY <1>2, <1>4, <2>2 DEF OrderInv
  <2>5. i = j
    BY <2>3, <2>4
  <2>6. segments[i].records \in Seq(Records)
    BY SegmentType
  <2> QED
    BY <1>1, <1>4, <2>2, <2>5, <2>6 DEF OrderInv
<1>5. ASSUME r \in ToSet(active), NEW j \in DOMAIN segments, q \in ToSet(segments[j].records)
      PROVE  FALSE
  BY <1>2, <1>5 DEF OrderInv
<1> QED
  BY <1>3, <1>4, <1>5, HeldRecords

\* What the history is: the kept records, by number.
KeptByNumber ==
    /\ DOMAIN Entries = {r.seq : r \in Kept}
    /\ \A r \in Kept : Entries[r.seq] = r.event
    /\ Kept \subseteq Records
    /\ Entries = [n \in DOMAIN Entries |-> Entries[n]]

LEMMA EntriesAre == FilesInv /\ OrderInv => KeptByNumber
<1> SUFFICES ASSUME FilesInv, OrderInv PROVE KeptByNumber
  OBVIOUS
<1>1. Kept \subseteq Held /\ Held \subseteq Records
  BY HeldRecords DEF Kept
<1>2. ASSUME NEW r \in Kept PROVE Entries[r.seq] = r.event
  <2>1. (CHOOSE q \in Kept : q.seq = r.seq) = r
    BY <1>1, OneRecordEach
  <2> QED
    BY <2>1 DEF Entries
<1> QED
  BY <1>1, <1>2 DEF Entries, KeptByNumber
-----------------------------------------------------------------------------
(* Steps that leave the records alone. *)

LEMMA FilesUnchanged ==
  ASSUME HistoryInv, UNCHANGED <<active, segments, ledger, written>>, transaction' \in BOOLEAN,
         policy' \in Policies
  PROVE  /\ FilesInv' /\ OrderInv'
         /\ Anchor' = Anchor /\ Held' = Held /\ Entries' = Entries
<1>1. Anchor' = Anchor /\ Held' = Held
  BY DEF Anchor, Held
<1>2. Kept' = Kept
  BY <1>1 DEF Kept
<1>3. Entries' = Entries
  BY <1>2 DEF Entries
<1> QED
  BY <1>1, <1>3 DEF HistoryInv, FilesInv, OrderInv

\* A step that begins, continues or ends an operation, given what the place it
\* goes to relies on.
LEMMA QuietStep ==
  ASSUME HistoryInv,
         UNCHANGED <<active, segments, ledger, transaction, written, unsynced, acked>>,
         policy' \in Policies,
         job' = [op |-> job'.op, recovery |-> job'.recovery, drop |-> job'.drop,
                 doomed |-> job'.doomed, made |-> job'.made],
         pc' \notin Journalled \union {"remove", "sync", "clear"},
         pc' = "append" => job'.op = "record" /\ ~transaction,
         pc' \in {"data", "manifest", "rm_data", "rm_manifest", "unlock"} => job'.op # "record"
  PROVE  HistoryInv'
<1>1. FilesInv' /\ OrderInv' /\ Anchor' = Anchor /\ Held' = Held
  BY FilesUnchanged DEF HistoryInv, FilesInv
<1>2. FloorInv'
  BY <1>1 DEF HistoryInv, FloorInv, Journalled
<1>3. JobInv'
  BY DEF HistoryInv, JobInv, Journalled
<1>4. AckInv'
  BY DEF HistoryInv, AckInv, Journalled
<1> QED
  BY <1>1, <1>2, <1>3, <1>4 DEF HistoryInv

\* The step leaves the log as it is.
LogUnchanged == Entries' = Entries /\ Anchor' = Anchor /\ acked' = acked

LEMMA QuietSteps ==
  ASSUME HistoryInv,
         \/ \E op \in HistoryOperations : Lock(op)
         \/ NameLock \/ Refused \/ RecordBegins \/ ClearReceipt \/ RotateUnchanged
         \/ \E p \in Policies : SetRetentionPolicy(p)
         \/ \E from, through \in Events : ExportRefused(from, through)
         \/ \E from, through \in Events : \E i \in 1..(Len(exports) + 1) :
               ExportBegins(from, through, i)
         \/ PublishExport \/ \E old \in SUBSET DOMAIN exports : PruneExportsBegins(old)
         \/ RemoveExport \/ CallFails \/ NameFails \/ ServerDies
  PROVE  HistoryInv' /\ LogUnchanged
<1>0. policy' \in Policies
  BY DEF Lock, NameLock, Refused, RecordBegins, ClearReceipt, RotateUnchanged, SetRetentionPolicy,
         ExportRefused, ExportBegins, PublishExport, PruneExportsBegins, RemoveExport, CallFails,
         NameFails, ServerDies, Goto, files, HistoryInv, FilesInv
<1>1. UNCHANGED <<active, segments, ledger, transaction, written, unsynced, acked>>
  BY DEF Lock, NameLock, Refused, RecordBegins, ClearReceipt, RotateUnchanged, SetRetentionPolicy,
         ExportRefused, ExportBegins, PublishExport, PruneExportsBegins, RemoveExport, CallFails,
         NameFails, ServerDies, Goto, files, ghosts
<1>2. LogUnchanged
  BY <1>0, <1>1, FilesUnchanged DEF HistoryInv, FilesInv, LogUnchanged
<1>3. job = [op |-> job.op, recovery |-> job.recovery, drop |-> job.drop, doomed |-> job.doomed,
             made |-> job.made]
  BY DEF HistoryInv, JobInv
<1>4. /\ job' = [op |-> job'.op, recovery |-> job'.recovery, drop |-> job'.drop,
                 doomed |-> job'.doomed, made |-> job'.made]
      /\ pc' \notin Journalled \union {"remove", "sync", "clear"}
      /\ pc' = "append" => job'.op = "record" /\ ~transaction
      /\ pc' \in {"data", "manifest", "rm_data", "rm_manifest", "unlock"} => job'.op # "record"
  <2>1. CASE \/ \E op \in HistoryOperations : Lock(op)
             \/ NameLock \/ Refused \/ CallFails \/ NameFails \/ ServerDies
             \/ \E from, through \in Events : ExportRefused(from, through)
    BY <2>1, <1>3 DEF Lock, NameLock, Refused, CallFails, NameFails, ServerDies, Restarts,
       ExportRefused, Goto, NoOperation, Journalled
  <2>2. CASE RecordBegins
    BY <2>2, <1>3 DEF RecordBegins, Begins, Reconstructs, Goto, Journalled
  <2>3. CASE ClearReceipt
    BY <2>3, <1>3 DEF ClearReceipt, Goto, Journalled, HistoryInv, JobInv
  <2>4. CASE \/ RotateUnchanged \/ \E p \in Policies : SetRetentionPolicy(p)
    BY <2>4, <1>3 DEF RotateUnchanged, SetRetentionPolicy, Begins, Goto, Journalled
  <2>5. CASE \E from, through \in Events : \E i \in 1..(Len(exports) + 1) :
                ExportBegins(from, through, i)
    BY <2>5, <1>3 DEF ExportBegins, Begins, Goto, Journalled
  <2>6. CASE PublishExport
    BY <2>6, <1>3 DEF PublishExport, Goto, Journalled, HistoryInv, JobInv
  <2>7. CASE \E old \in SUBSET DOMAIN exports : PruneExportsBegins(old)
    BY <2>7, <1>3 DEF PruneExportsBegins, Begins, Goto, Journalled
  <2>8. CASE RemoveExport
    BY <2>8, <1>3 DEF RemoveExport, Goto, Journalled, HistoryInv, JobInv
  <2> QED
    BY <2>1, <2>2, <2>3, <2>4, <2>5, <2>6, <2>7, <2>8
<1> QED
  BY <1>0, <1>1, <1>2, <1>4, QuietStep

\* Clients, the maintenance tool and steps of nobody.
LEMMA OthersStep ==
  ASSUME HistoryInv,
         \/ UNCHANGED historyVars
         \/ \E size \in PageSizes : Query(size)
         \/ \E o \in Operators : \/ RecoveryBegins(o) \/ RecoveryRemoves(o)
                                 \/ RecoveryReceipt(o) \/ RecoveryDies(o)
  PROVE  HistoryInv' /\ LogUnchanged
<1>1. UNCHANGED <<active, segments, ledger, transaction, written, unsynced, acked, pc, job,
                 policy>>
  BY DEF historyVars, files, server, ghosts, Query, RecoveryBegins, RecoveryRemoves,
         RecoveryReceipt, RecoveryDies
<1>2. FilesInv' /\ OrderInv' /\ Anchor' = Anchor /\ Held' = Held /\ Entries' = Entries
  BY <1>1, FilesUnchanged DEF HistoryInv, FilesInv
<1>3. FloorInv' /\ JobInv' /\ AckInv'
  BY <1>1, <1>2 DEF HistoryInv, FloorInv, JobInv, AckInv
<1> QED
  BY <1>1, <1>2, <1>3 DEF HistoryInv, LogUnchanged

\* A line that was read back is synchronised, and the last one.
LEMMA SyncStep ==
  ASSUME HistoryInv, SyncLine
  PROVE  HistoryInv' /\ LogUnchanged
<1>1. /\ pc = "sync" /\ unsynced' = 0 /\ pc' \in {"throw", "clear", "unlock"}
      /\ UNCHANGED <<active, segments, ledger, transaction, written, job, acked, policy>>
  BY DEF SyncLine, Goto, files
<1>2. FilesInv' /\ OrderInv' /\ Anchor' = Anchor /\ Held' = Held /\ Entries' = Entries
  BY <1>1, FilesUnchanged DEF HistoryInv, FilesInv
<1>3. FloorInv' /\ JobInv' /\ AckInv'
  BY <1>1, <1>2 DEF HistoryInv, FloorInv, JobInv, AckInv, Journalled
<1> QED
  BY <1>1, <1>2, <1>3 DEF HistoryInv, LogUnchanged

\* A journal is written or removed; a pruning leaves a segment at least.
LEMMA JournalSteps ==
  ASSUME HistoryInv,
         \/ RotateBegins \/ RemoveJournal
         \/ \E old \in SUBSET DOMAIN segments : \E drop \in 0..Len(segments) : PruneBegins(old, drop)
  PROVE  HistoryInv' /\ LogUnchanged
<1>0. UNCHANGED <<active, segments, ledger, written, unsynced, acked, policy>>
  BY DEF RotateBegins, RemoveJournal, PruneBegins, Goto
<1>1. transaction' \in BOOLEAN
  <2>1. ASSUME NEW n PROVE (n > 0) \in BOOLEAN
    OBVIOUS
  <2> QED
    BY <2>1 DEF RotateBegins, RemoveJournal, PruneBegins
<1>2. FilesInv' /\ OrderInv' /\ Anchor' = Anchor /\ Held' = Held /\ Entries' = Entries
  BY <1>0, <1>1, FilesUnchanged DEF HistoryInv, FilesInv
<1>3. FloorInv' /\ JobInv' /\ AckInv'
  <2>1. CASE RotateBegins
    <3>1. /\ active # <<>> /\ ~transaction /\ pc' = "move" /\ job' = job /\ transaction' = TRUE
      BY <2>1 DEF RotateBegins, Begins, Reconstructs, Goto, HistoryInv, JobInv
    <3> QED
      BY <1>0, <1>2, <3>1 DEF HistoryInv, FloorInv, JobInv, AckInv, Journalled
  <2>2. CASE RemoveJournal
    <3>1. /\ pc = "done" /\ job' = job /\ transaction' = FALSE
          /\ \/ pc' = "append" /\ job.op = "record"
             \/ pc' = "unlock" /\ job.op # "record"
      BY <2>2 DEF RemoveJournal, Goto
    <3> QED
      BY <1>0, <1>2, <3>1 DEF HistoryInv, FloorInv, JobInv, AckInv, Journalled
  <2>3. CASE \E old \in SUBSET DOMAIN segments : \E drop \in 0..Len(segments) :
                PruneBegins(old, drop)
    <3>1. PICK old \in SUBSET DOMAIN segments, drop \in 0..Len(segments) : PruneBegins(old, drop)
      BY <2>3
    <3>2. /\ pc = "begin" /\ job.op = "prune" /\ ~transaction
          /\ job' = [job EXCEPT !.drop = drop]
          /\ \/ pc' = "ledger" /\ drop > 0 /\ transaction'
             \/ pc' = "unlock"
          /\ \A i \in 1..drop : Leaves(i, old)
      BY <3>1 DEF PruneBegins, Begins, Reconstructs, Goto
    <3>3. drop > 0 => drop \in 1..(Len(segments) - 1)
      <4>1. Len(segments) \in Nat
        BY DEF HistoryInv, FilesInv
      <4>2. policy.minSegments \in Nat \ {0}
        BY EventHistoryAssumption DEF HistoryInv, FilesInv
      <4> QED
        BY <3>2, <4>1, <4>2 DEF Leaves
    <3>4. /\ job' = [op |-> job'.op, recovery |-> job'.recovery, drop |-> job'.drop,
                     doomed |-> job'.doomed, made |-> job'.made]
          /\ job'.op = "prune" /\ job'.drop = drop
      BY <3>2 DEF HistoryInv, JobInv
    <3>5. FloorInv'
      BY <1>0, <1>2, <3>2 DEF HistoryInv, FloorInv, Journalled
    <3>6. JobInv' /\ AckInv'
      BY <1>0, <3>2, <3>3, <3>4 DEF HistoryInv, JobInv, AckInv
    <3> QED
      BY <3>5, <3>6
  <2> QED
    BY <2>1, <2>2, <2>3
<1> QED
  BY <1>0, <1>2, <1>3 DEF HistoryInv, LogUnchanged

\* Only what the log holds is acknowledged.
LEMMA ReleaseStep ==
  ASSUME HistoryInv, Release
  PROVE  /\ HistoryInv'
         /\ LogUnchanged \/ \E e \in Events : Log!Acknowledge(e)
<1>1. /\ pc \in {"unlock", "throw"} /\ pc' = "idle" /\ job' = NoOperation
      /\ acked' = IF pc = "unlock" /\ lock = life /\ job.op = "record"
                  THEN acked \cup {written} ELSE acked
      /\ UNCHANGED <<active, segments, ledger, transaction, written, unsynced, policy>>
  BY DEF Release, files
<1>2. FilesInv' /\ OrderInv' /\ Anchor' = Anchor /\ Held' = Held /\ Entries' = Entries
  BY <1>1, FilesUnchanged DEF HistoryInv, FilesInv
<1>3. FloorInv' /\ JobInv'
  BY <1>1, <1>2 DEF HistoryInv, FloorInv, JobInv, NoOperation, Journalled
<1>4. CASE acked' = acked
  BY <1>1, <1>2, <1>3, <1>4 DEF HistoryInv, AckInv, LogUnchanged
<1>5. CASE /\ acked' = acked \cup {written} /\ pc = "unlock" /\ job.op = "record"
  <2>1. active # <<>> /\ Last(active).event = written /\ unsynced = 0
    BY <1>5 DEF HistoryInv, AckInv
  <2>2. Last(active) \in ToSet(active) /\ Last(active) \in Records
    BY <2>1 DEF HistoryInv, FilesInv, Last, ToSet
  <2>3. Last(active) \in Kept
    BY <2>2 DEF HistoryInv, FloorInv, Kept, Held
  <2>4. Entries[Last(active).seq] = written /\ Last(active).seq \in DOMAIN Entries
    BY <2>1, <2>3, EntriesAre DEF KeptByNumber, HistoryInv
  <2>5. written \in Events
    BY <2>1, <2>2 DEF Records
  <2>6. Log!Acknowledge(written)
    BY <1>2, <1>5, <2>4 DEF Log!Acknowledge
  <2>7. AckInv'
    BY <1>1, <1>5, <2>1, <2>5 DEF HistoryInv, AckInv, Events
  <2> QED
    BY <1>2, <1>3, <2>5, <2>6, <2>7 DEF HistoryInv
<1> QED
  BY <1>1, <1>4, <1>5
-----------------------------------------------------------------------------
(* The number of the next event. *)

LEMMA NextNumber ==
  ASSUME FilesInv, OrderInv
  PROVE  /\ \A r \in Kept : (\A q \in Kept : q.seq <= r.seq) => Log!NextSequence = r.seq + 1
         /\ Kept = {} => Log!NextSequence = Anchor.next
<1>1. DOMAIN Entries = {r.seq : r \in Kept} /\ \A r \in Kept : r.seq \in Nat
  BY EntriesAre DEF KeptByNumber, Records
<1>2. ASSUME NEW r \in Kept, \A q \in Kept : q.seq <= r.seq PROVE Log!NextSequence = r.seq + 1
  <2>1. r.seq \in DOMAIN Entries /\ \A m \in DOMAIN Entries : m <= r.seq /\ m \in Nat
    BY <1>1, <1>2
  <2>2. \A n \in DOMAIN Entries : (\A m \in DOMAIN Entries : m <= n) => n = r.seq
    BY <2>1
  <2>3. (CHOOSE n \in DOMAIN Entries : \A m \in DOMAIN Entries : m <= n) = r.seq
    BY <2>1, <2>2
  <2> QED
    BY <2>1, <2>3 DEF Log!NextSequence
<1>3. Kept = {} => Log!NextSequence = Anchor.next
  BY <1>1 DEF Log!NextSequence
<1> QED
  BY <1>2, <1>3

\* The last of a sequence, and what is left without it.
LEMMA LastAndFront ==
  ASSUME NEW s \in Seq(Records), s # <<>>
  PROVE  /\ Last(s) = s[Len(s)] /\ Last(s) \in ToSet(s) /\ Last(s) \in Records
         /\ Increasing(s) => \A r \in ToSet(s) : r.seq <= Last(s).seq
         /\ Front(s) \in Seq(Records) /\ Len(Front(s)) = Len(s) - 1
         /\ \A i \in 1..(Len(s) - 1) : Front(s)[i] = s[i]
<1>1. Len(s) \in 1..Len(s) /\ Last(s) = s[Len(s)]
  BY DEF Last
<1>2. Last(s) \in ToSet(s) /\ Last(s) \in Records
  BY <1>1, InSequence
<1>3. Increasing(s) => \A r \in ToSet(s) : r.seq <= Last(s).seq
  <2>1. \A i \in 1..Len(s) : s[i].seq \in Nat
    <3>1. \A i \in 1..Len(s) : s[i] \in Records
      OBVIOUS
    <3> QED
      BY <3>1 DEF Records
  <2>2. \A i \in 1..Len(s) : i = Len(s) \/ i < Len(s)
    OBVIOUS
  <2>3. Increasing(s) => \A i \in 1..Len(s) : s[i].seq <= s[Len(s)].seq
    BY <1>1, <2>1, <2>2 DEF Increasing
  <2> QED
    BY <1>1, <2>3, InSequence
<1>4. Front(s) \in Seq(Records) /\ Len(Front(s)) = Len(s) - 1
      /\ \A i \in 1..(Len(s) - 1) : Front(s)[i] = s[i]
  <2> DEFINE n == Len(s) - 1
  <2>1. n \in Nat /\ \A i \in 1..n : s[i] \in Records
    BY <1>1
  <2>2. Front(s) = SubSeq(s, 1, n)
    BY DEF Front
  <2> HIDE DEF n
  <2>3. /\ Front(s) \in Seq(Records) /\ Len(Front(s)) = IF 1 <= n THEN n - 1 + 1 ELSE 0
        /\ \A i \in 1..(n - 1 + 1) : Front(s)[i] = s[1 + i - 1]
    BY <2>1, <2>2, SubSeqProperties
  <2>4. Front(s) \in Seq(Records) /\ Len(Front(s)) = n /\ \A i \in 1..n : Front(s)[i] = s[i]
    BY <2>1, <2>3
  <2> QED
    BY <2>4 DEF n
<1> QED
  BY <1>1, <1>2, <1>3, <1>4

\* LatestSequence is the largest number held, or the one before the anchor.
LEMMA LatestNumber ==
  ASSUME FilesInv, OrderInv, \A r \in Held : r.seq >= Anchor.next
  PROVE  /\ LatestSequence \in Nat /\ LatestSequence + 1 >= Anchor.next
         /\ LastRecordHash \in Hashes
         /\ \A r \in Held : r.seq <= LatestSequence
         /\ Log!NextSequence = LatestSequence + 1
<1>1. Kept = Held
  BY DEF Kept
<1>2. Anchor.next \in Nat \ {0} /\ Anchor.prev \in Hashes
  BY AnchorType
<1>3. CASE NothingRetained
  <2>1. Held = {}
    BY <1>3 DEF NothingRetained, Held, ToSet
  <2> QED
    BY <1>1, <1>2, <1>3, <2>1, NextNumber DEF LatestSequence, LastRecordHash
<1>4. CASE ~NothingRetained
  <2>1. LastRecord \in Held /\ \A r \in Held : r.seq <= LastRecord.seq
    <3>1. CASE active # <<>>
      <4>1. active \in Seq(Records) /\ LastRecord = Last(active)
        BY <3>1 DEF LastRecord, FilesInv
      <4>2. LastRecord \in ToSet(active) /\ \A r \in ToSet(active) : r.seq <= LastRecord.seq
        BY <3>1, <4>1, LastAndFront DEF OrderInv
      <4>3. LastRecord \in Held
        BY <4>2 DEF Held
      <4>4. \A i \in DOMAIN segments : \A r \in ToSet(segments[i].records) : r.seq < LastRecord.seq
        BY <4>2 DEF OrderInv
      <4> QED
        BY <4>2, <4>3, <4>4, HeldRecords DEF Records
    <3>2. CASE active = <<>>
      <4> DEFINE n == Len(segments)
      <4>1. n \in DOMAIN segments /\ LastRecord = Last(segments[n].records)
        BY <1>4, <3>2 DEF LastRecord, NothingRetained, Last, FilesInv
      <4>2. segments[n].records \in Seq(Records) /\ segments[n].records # <<>>
        BY <4>1, SegmentType
      <4>3. /\ LastRecord \in ToSet(segments[n].records)
            /\ \A r \in ToSet(segments[n].records) : r.seq <= LastRecord.seq
        BY <4>1, <4>2, LastAndFront DEF OrderInv
      <4>4. LastRecord \in Held
        BY <4>1, <4>3, HeldRecords
      <4>5. ASSUME NEW i \in DOMAIN segments, NEW q \in ToSet(segments[i].records)
            PROVE  q.seq <= LastRecord.seq
        <5>1. i = n \/ i < n
          BY SegmentType, <4>1
        <5>2. q.seq \in Nat /\ LastRecord.seq \in Nat
          BY <4>4, HeldRecords DEF Records
        <5> QED
          BY <4>1, <4>3, <5>1, <5>2 DEF OrderInv
      <4>6. ToSet(active) = {}
        BY <3>2 DEF ToSet
      <4> QED
        BY <4>4, <4>5, <4>6, HeldRecords
    <3> QED
      BY <3>1, <3>2
  <2>2. LastRecord \in Records
    BY <2>1, HeldRecords
  <2> QED
    BY <1>1, <1>2, <1>4, <2>1, <2>2, NextNumber
       DEF LatestSequence, LastRecordHash, Records, Hashes
<1> QED
  BY <1>3, <1>4
-----------------------------------------------------------------------------
(* Steps that change the files. *)

\* A segment gets its name, or its manifest.
LEMMA PublishSteps ==
  ASSUME HistoryInv, SealSegment \/ PublishManifest
  PROVE  HistoryInv' /\ LogUnchanged
<1> DEFINE n == Len(segments)
<1>1. /\ UNCHANGED <<active, ledger, transaction, policy, job, written, unsynced, acked>>
      /\ \/ pc = "seal" /\ pc' = "publish" /\ segments' = [segments EXCEPT ![n].name = "jsonl"]
         \/ pc = "publish" /\ pc' = "done" /\ segments' = [segments EXCEPT ![n].manifest = "final"]
  BY DEF SealSegment, PublishManifest, Goto
<1>2. segments \in Seq(SegmentFiles) /\ segments # <<>> /\ n \in DOMAIN segments
  BY <1>1 DEF HistoryInv, FilesInv, JobInv
<1>3. segments[n] \in SegmentFiles
  BY <1>2
<1>4. /\ [segments[n] EXCEPT !.name = "jsonl"] \in SegmentFiles
      /\ [segments[n] EXCEPT !.manifest = "final"] \in SegmentFiles
      /\ [segments[n] EXCEPT !.name = "jsonl"].records = segments[n].records
      /\ [segments[n] EXCEPT !.manifest = "final"].records = segments[n].records
  BY <1>3 DEF SegmentFiles
<1>5. PICK s \in SegmentFiles :
         s.records = segments[n].records /\ segments' = [segments EXCEPT ![n] = s]
  BY <1>1, <1>4
<1>6. /\ segments' \in Seq(SegmentFiles) /\ DOMAIN segments' = DOMAIN segments
      /\ segments' # <<>>
      /\ \A i \in DOMAIN segments : segments'[i].records = segments[i].records
  BY <1>2, <1>5
<1>7. FilesInv'
  BY <1>1, <1>6 DEF HistoryInv, FilesInv
<1>8. OrderInv'
  BY <1>1, <1>6 DEF HistoryInv, OrderInv
<1>9. Anchor' = Anchor /\ Held' = Held
  BY <1>1, <1>6 DEF Anchor, Held
<1>10. LogUnchanged
  <2>1. Kept' = Kept
    BY <1>9 DEF Kept
  <2> QED
    BY <1>1, <1>9, <2>1 DEF LogUnchanged, Entries
<1>11. FloorInv' /\ JobInv' /\ AckInv'
  BY <1>1, <1>6, <1>9 DEF HistoryInv, FloorInv, JobInv, AckInv, Journalled
<1> QED
  BY <1>7, <1>8, <1>10, <1>11 DEF HistoryInv

\* The active segment becomes the newest sealed one.
LEMMA MoveStep ==
  ASSUME HistoryInv, MoveActive
  PROVE  HistoryInv' /\ LogUnchanged
<1> DEFINE n == Len(segments)
           s == [records |-> active, name |-> "candidate", manifest |-> "none",
                 previous |-> LastSegmentHash]
<1>1. /\ pc = "move" /\ pc' = "seal" /\ segments' = Append(segments, s)
      /\ active' = <<>> /\ unsynced' = 0
      /\ UNCHANGED <<ledger, transaction, policy, job, written, acked>>
  BY DEF MoveActive, Goto
<1>2. /\ active \in Seq(Records) /\ active # <<>> /\ segments \in Seq(SegmentFiles)
      /\ n \in Nat /\ DOMAIN segments = 1..n
  BY <1>1 DEF HistoryInv, FilesInv, JobInv
<1>3. LastSegmentHash \in Hashes
  <2>1. CASE segments = <<>>
    BY <2>1, AnchorType DEF LastSegmentHash, HistoryInv
  <2>2. CASE segments # <<>>
    <3>1. n \in DOMAIN segments
      BY <1>2, <2>2
    <3>2. segments[n].records \in Seq(Records) /\ segments[n].records # <<>>
      BY <3>1, SegmentType DEF HistoryInv
    <3>3. segments[n].records[1] \in Records
      BY <3>2
    <3> QED
      BY <2>2, <3>3 DEF LastSegmentHash, ManifestHash, Last, Records, Hashes
  <2> QED
    BY <2>1, <2>2
<1>4. s \in SegmentFiles /\ s.records = active
  BY <1>2, <1>3 DEF SegmentFiles
<1> HIDE DEF s
<1>5. /\ segments' \in Seq(SegmentFiles) /\ DOMAIN segments' = 1..(n + 1) /\ segments' # <<>>
      /\ \A i \in 1..n : segments'[i] = segments[i]
      /\ segments'[n + 1] = s
  BY <1>1, <1>2, <1>4
<1>6. FilesInv'
  BY <1>1, <1>5 DEF HistoryInv, FilesInv
<1>7. ToSet(active') = {} /\ Increasing(active')
  BY <1>1 DEF ToSet, Increasing
<1>8. Held' = Held
  <2>1. \A r : r \in Held' <=> \E i \in 1..(n + 1) : r \in ToSet(segments'[i].records)
    BY <1>5, <1>7 DEF Held
  <2>2. \A r : r \in Held <=> r \in ToSet(active) \/ \E i \in 1..n : r \in ToSet(segments[i].records)
    BY <1>2 DEF Held
  <2>3. \A i \in 1..(n + 1) : i \in 1..n \/ i = n + 1
    BY <1>2
  <2>4. \A r : r \in Held' <=> r \in Held
    BY <1>2, <1>4, <1>5, <2>1, <2>2, <2>3
  <2> QED
    BY <2>4
<1>9. Anchor' = Anchor
  BY <1>1 DEF Anchor
<1>10. LogUnchanged
  <2>1. Kept' = Kept
    BY <1>8, <1>9 DEF Kept
  <2> QED
    BY <1>1, <1>9, <2>1 DEF LogUnchanged, Entries
<1>11. OrderInv'
  <2>1. ASSUME NEW i \in 1..(n + 1) PROVE Increasing(segments'[i].records)
    BY <1>2, <1>4, <1>5 DEF HistoryInv, OrderInv
  <2>2. ASSUME NEW i \in 1..(n + 1), NEW j \in 1..(n + 1), i < j,
               NEW r \in ToSet(segments'[i].records), NEW q \in ToSet(segments'[j].records)
        PROVE  r.seq < q.seq
    <3>1. i \in 1..n /\ segments'[i] = segments[i]
      BY <1>2, <1>5, <2>2
    <3>2. CASE j = n + 1
      BY <1>2, <1>4, <1>5, <2>2, <3>1, <3>2 DEF HistoryInv, OrderInv
    <3>3. CASE j \in 1..n
      BY <1>2, <1>5, <2>2, <3>1, <3>3 DEF HistoryInv, OrderInv
    <3> QED
      BY <1>2, <3>2, <3>3
  <2> QED
    BY <1>5, <1>7, <2>1, <2>2 DEF OrderInv
<1>12. FloorInv'
  BY <1>1, <1>7, <1>8, <1>9 DEF HistoryInv, FloorInv, Journalled
<1>13. JobInv' /\ AckInv'
  BY <1>1, <1>5 DEF HistoryInv, JobInv, AckInv
<1> QED
  BY <1>6, <1>10, <1>11, <1>12, <1>13 DEF HistoryInv

\* The next event is appended to the log.
LEMMA AppendStep ==
  ASSUME HistoryInv, AppendLine
  PROVE  HistoryInv' /\ \E e \in Events : Log!AppendEvent(e)
<1> DEFINE m == Len(active)
           r == [seq |-> LatestSequence + 1, event |-> written + 1, prev |-> LastRecordHash]
<1>1. /\ pc = "append" /\ pc' = "sync" /\ active' = Append(active, r) /\ written < MaxEvents
      /\ written' = written + 1 /\ unsynced' = written + 1
      /\ UNCHANGED <<segments, ledger, transaction, policy, job, acked>>
  BY DEF AppendLine, Goto
<1>2. /\ active \in Seq(Records) /\ m \in Nat /\ DOMAIN active = 1..m
      /\ written \in 0..MaxEvents /\ MaxEvents \in Nat
      /\ ~transaction /\ job.op = "record"
  BY <1>1, EventHistoryAssumption DEF HistoryInv, FilesInv, JobInv
<1>3. \A q \in Held : q.seq >= Anchor.next
  BY <1>2 DEF HistoryInv, FloorInv
<1>4. /\ LatestSequence \in Nat /\ LatestSequence + 1 >= Anchor.next /\ LastRecordHash \in Hashes
      /\ \A q \in Held : q.seq <= LatestSequence
      /\ Log!NextSequence = LatestSequence + 1
  BY <1>3, LatestNumber DEF HistoryInv
<1>5. r \in Records /\ r.seq = LatestSequence + 1 /\ r.event = written + 1 /\ written + 1 \in Events
  BY <1>1, <1>2, <1>4 DEF Records, Hashes, Events
<1>6. \A q \in Held : q.seq \in Nat /\ q.seq < r.seq
  BY <1>4, <1>5, HeldRecords DEF HistoryInv, Records
<1> HIDE DEF r
<1>7. /\ active' \in Seq(Records) /\ DOMAIN active' = 1..(m + 1) /\ active' # <<>>
      /\ \A i \in 1..m : active'[i] = active[i]
      /\ active'[m + 1] = r /\ Last(active') = r
      /\ ToSet(active') = ToSet(active) \union {r}
  <2>1. /\ active' \in Seq(Records) /\ DOMAIN active' = 1..(m + 1) /\ active' # <<>>
        /\ Len(active') = m + 1
        /\ \A i \in 1..m : active'[i] = active[i]
        /\ active'[m + 1] = r
    BY <1>1, <1>2, <1>5
  <2>2. Last(active') = r
    BY <2>1 DEF Last
  <2>3. \A i \in 1..(m + 1) : i \in 1..m \/ i = m + 1
    BY <1>2
  <2>4. \A i \in 1..m : i \in 1..(m + 1)
    BY <1>2
  <2>5. m + 1 \in 1..(m + 1)
    BY <1>2
  <2>6. ToSet(active') = ToSet(active) \union {r}
    BY <1>2, <2>1, <2>3, <2>4, <2>5 DEF ToSet
  <2> QED
    BY <2>1, <2>2, <2>6
<1>8. FilesInv'
  BY <1>1, <1>2, <1>7 DEF HistoryInv, FilesInv
<1>9. Held' = Held \union {r} /\ Anchor' = Anchor
  BY <1>1, <1>7 DEF Held, Anchor
<1>10. ToSet(active) \subseteq Held /\ \A i \in DOMAIN segments : ToSet(segments[i].records) \subseteq Held
  BY HeldRecords DEF HistoryInv
<1>11. OrderInv'
  <2>1. ASSUME NEW i \in 1..(m + 1), NEW j \in 1..(m + 1), i < j
        PROVE  active'[i].seq < active'[j].seq
    <3>1. i \in 1..m /\ active'[i] = active[i]
      BY <1>2, <1>7, <2>1
    <3>2. CASE j = m + 1
      <4>1. active[i] \in Held
        BY <1>2, <1>10, <3>1, InSequence
      <4> QED
        BY <1>6, <1>7, <3>1, <3>2, <4>1
    <3>3. CASE j \in 1..m
      BY <1>2, <1>7, <2>1, <3>1, <3>3 DEF HistoryInv, OrderInv, Increasing
    <3> QED
      BY <1>2, <3>2, <3>3
  <2>2. \A i \in DOMAIN segments : \A p \in ToSet(segments[i].records) : \A q \in ToSet(active') :
           p.seq < q.seq
    BY <1>6, <1>7, <1>10 DEF HistoryInv, OrderInv
  <2> QED
    BY <1>1, <1>7, <2>1, <2>2 DEF HistoryInv, OrderInv, Increasing
<1>12. FloorInv'
  BY <1>2, <1>3, <1>4, <1>5, <1>7, <1>9, <1>10 DEF FloorInv
<1>13. JobInv'
  BY <1>1, <1>2 DEF HistoryInv, JobInv
<1>14. AckInv'
  BY <1>1, <1>2, <1>5, <1>7 DEF HistoryInv, AckInv
<1>15. Log!AppendEvent(written + 1)
  <2>1. Kept = Held /\ Kept' = Held \union {r}
    BY <1>3, <1>4, <1>5, <1>9 DEF Kept
  <2>2. /\ DOMAIN Entries = {q.seq : q \in Held} /\ \A q \in Held : Entries[q.seq] = q.event
    BY <2>1, EntriesAre DEF KeptByNumber, HistoryInv
  <2>3. /\ DOMAIN Entries' = {q.seq : q \in Held \union {r}}
        /\ \A q \in Held \union {r} : Entries'[q.seq] = q.event
        /\ Entries' = [n \in DOMAIN Entries' |-> Entries'[n]]
    <3>1. KeptByNumber'
      BY <1>8, <1>11, EntriesAre, PTL
    <3> QED
      BY <2>1, <3>1 DEF KeptByNumber
  <2>4. r.seq = Log!NextSequence /\ r.event = written + 1
    BY <1>4, <1>5
  <2>5. DOMAIN Entries' = DOMAIN Entries \union {r.seq} /\ r.seq \notin DOMAIN Entries
    BY <1>6, <1>4, <1>5, <2>2, <2>3
  <2>6. \A n \in DOMAIN Entries : Entries'[n] = Entries[n]
    BY <2>2, <2>3
  <2>7. Entries' = [n \in DOMAIN Entries \union {r.seq} |->
                       IF n = r.seq THEN written + 1 ELSE Entries[n]]
    BY <2>3, <2>4, <2>5, <2>6
  <2> QED
    BY <1>1, <1>9, <2>4, <2>7 DEF Log!AppendEvent
<1> QED
  BY <1>5, <1>8, <1>11, <1>12, <1>13, <1>14, <1>15 DEF HistoryInv

\* The first record of a segment, and where its others are.
LEMMA SegmentStart ==
  ASSUME FilesInv, OrderInv, NEW i \in DOMAIN segments
  PROVE  /\ segments[i].records[1] \in ToSet(segments[i].records)
         /\ segments[i].records[1] \in Records /\ segments[i].records[1] \in Held
         /\ segments[i].records[1].seq \in Nat \ {0}
         /\ \A r \in ToSet(segments[i].records) :
               r.seq \in Nat /\ r.seq >= segments[i].records[1].seq
<1> DEFINE s == segments[i].records
<1>1. s \in Seq(Records) /\ s # <<>> /\ 1 \in 1..Len(s)
  BY SegmentType
<1>2. Increasing(s)
  BY DEF OrderInv
<1> HIDE DEF s
<1>3. s[1] \in ToSet(s) /\ s[1] \in Records
  BY <1>1, InSequence
<1>4. s[1].seq \in Nat \ {0}
  BY <1>3 DEF Records
<1>5. ASSUME NEW r \in ToSet(s) PROVE r.seq \in Nat /\ r.seq >= s[1].seq
  <2>1. PICK j \in 1..Len(s) : r = s[j]
    BY <1>1, InSequence
  <2>2. r \in Records
    BY <1>1, InSequence
  <2>3. r.seq \in Nat
    BY <2>2 DEF Records
  <2>4. j = 1 \/ 1 < j
    OBVIOUS
  <2> QED
    BY <1>1, <1>2, <1>4, <2>1, <2>3, <2>4 DEF Increasing
<1>6. s[1] \in Held
  BY <1>3, HeldRecords DEF s
<1> QED
  BY <1>3, <1>4, <1>5, <1>6 DEF s

\* The segments before the d-th one hold what comes before its first record,
\* and the others what follows.
LEMMA SegmentsSplit ==
  ASSUME FilesInv, OrderInv, NEW d \in DOMAIN segments
  PROVE  /\ \A i \in DOMAIN segments : \A r \in ToSet(segments[i].records) :
               /\ r.seq \in Nat
               /\ IF i < d THEN r.seq < segments[d].records[1].seq
                           ELSE r.seq >= segments[d].records[1].seq
         /\ \A r \in ToSet(active) : r.seq \in Nat /\ r.seq > segments[d].records[1].seq
<1> DEFINE first == segments[d].records[1]
<1>1. /\ first \in ToSet(segments[d].records) /\ first.seq \in Nat
      /\ \A r \in ToSet(segments[d].records) : r.seq \in Nat /\ r.seq >= first.seq
  BY SegmentStart
<1>2. ASSUME NEW i \in DOMAIN segments, NEW r \in ToSet(segments[i].records)
      PROVE  /\ r.seq \in Nat
             /\ IF i < d THEN r.seq < first.seq ELSE r.seq >= first.seq
  <2>1. r.seq \in Nat
    BY SegmentStart
  <2>2. i < d \/ i = d \/ d < i
    BY SegmentType
  <2>3. CASE i < d
    BY <1>1, <2>1, <2>3 DEF OrderInv
  <2>4. CASE i = d
    BY <1>1, <2>1, <2>4, SegmentType
  <2>5. CASE d < i
    <3>1. ~(i < d)
      BY <2>5, SegmentType
    <3> QED
      BY <1>1, <2>1, <2>5, <3>1 DEF OrderInv
  <2> QED
    BY <2>2, <2>3, <2>4, <2>5
<1>3. ASSUME NEW r \in ToSet(active) PROVE r.seq \in Nat /\ r.seq > first.seq
  <2>1. r.seq \in Nat
    BY InSequence DEF FilesInv, Records
  <2> QED
    BY <1>1, <2>1 DEF OrderInv
<1> QED
  BY <1>2, <1>3

\* The anchor moves to the first segment that stays: the log is pruned, at once.
LEMMA AnchorStep ==
  ASSUME HistoryInv, AppendAnchor
  PROVE  HistoryInv' /\ \E n \in DOMAIN Entries : Log!PruneBefore(n)
<1> DEFINE d == job.drop
           a == RetentionAnchor(d)
           n == segments[d + 1].records[1].seq
<1>1. /\ pc = "ledger" /\ pc' = "remove" /\ ledger' = Append(ledger, a)
      /\ UNCHANGED <<active, segments, transaction, policy, job, written, unsynced, acked>>
  BY DEF AppendAnchor, Goto
<1>2. /\ d \in 1..(Len(segments) - 1) /\ transaction /\ job.op # "record"
      /\ segments \in Seq(SegmentFiles) /\ ledger \in Seq(Anchors)
  BY <1>1 DEF HistoryInv, FilesInv, JobInv
<1>3. d \in DOMAIN segments /\ d + 1 \in DOMAIN segments /\ 1 \in DOMAIN segments
  BY <1>2
<1>4. /\ segments[d + 1].records[1] \in Records /\ segments[d + 1].records[1] \in Held
      /\ segments[d].records[1] \in Records /\ segments[1].records[1] \in Held
  BY <1>3, SegmentStart DEF HistoryInv
<1>5. a \in Anchors /\ a.next = n /\ n \in Nat
  BY <1>4 DEF RetentionAnchor, ManifestHash, Anchors, Records, Hashes
<1> HIDE DEF a
<1>6. ledger' \in Seq(Anchors) /\ Anchor' = a
  <2>1. ledger' \in Seq(Anchors) /\ ledger' # <<>> /\ Len(ledger') = Len(ledger) + 1
        /\ ledger'[Len(ledger) + 1] = a
    BY <1>1, <1>2, <1>5
  <2> QED
    BY <2>1 DEF Anchor, Last
<1>7. /\ \A i \in DOMAIN segments : \A r \in ToSet(segments[i].records) :
            r.seq \in Nat /\ IF i < d + 1 THEN r.seq < n ELSE r.seq >= n
      /\ \A r \in ToSet(active) : r.seq \in Nat /\ r.seq > n
  BY <1>3, SegmentsSplit DEF HistoryInv
<1>8. FilesInv'
  BY <1>1, <1>6 DEF HistoryInv, FilesInv
<1>9. OrderInv' /\ Held' = Held
  BY <1>1 DEF HistoryInv, OrderInv, Held
<1>10. FloorInv'
  BY <1>1, <1>2, <1>5, <1>6, <1>7 DEF FloorInv, Journalled
<1>11. JobInv'
  BY <1>1, <1>2, <1>5, <1>6 DEF HistoryInv, JobInv
<1>12. AckInv'
  BY <1>1 DEF HistoryInv, AckInv
<1>13. Log!PruneBefore(n) /\ n \in DOMAIN Entries
  <2>1. \A r \in Held : r.seq >= Anchor.next
    BY <1>1 DEF HistoryInv, FloorInv, Journalled
  <2>2. Kept = Held /\ Kept' = {r \in Held : r.seq >= n}
    BY <2>1, <1>5, <1>6, <1>9 DEF Kept
  <2>3. KeptByNumber /\ KeptByNumber'
    BY <1>8, <1>9, EntriesAre, PTL DEF HistoryInv
  <2>4. n \in DOMAIN Entries
    BY <1>4, <2>2, <2>3 DEF KeptByNumber
  <2>5. n > Anchor.next
    <3>1. segments[1].records[1].seq >= Anchor.next
      BY <1>4, <2>1
    <3>2. segments[1].records[1].seq < n /\ segments[1].records[1].seq \in Nat
      <4>1. segments[1].records[1] \in ToSet(segments[1].records)
        BY <1>3, SegmentStart DEF HistoryInv
      <4> QED
        BY <1>2, <1>3, <1>7, <4>1
    <3> QED
      BY <1>5, <3>1, <3>2, AnchorType DEF HistoryInv
  <2>6. DOMAIN Entries' = {m \in DOMAIN Entries : m >= n}
    BY <2>2, <2>3 DEF KeptByNumber
  <2>7. \A m \in DOMAIN Entries' : Entries'[m] = Entries[m]
    BY <2>2, <2>3 DEF KeptByNumber
  <2>8. Entries' = [m \in {m \in DOMAIN Entries : m >= n} |-> Entries[m]]
    BY <2>3, <2>6, <2>7 DEF KeptByNumber
  <2>9. Entries' = Log!Restrict(Entries, {m \in DOMAIN Entries : m >= n})
    BY <2>8 DEF Log!Restrict
  <2>10. Anchor'.next = n /\ acked' = acked
    BY <1>1, <1>5, <1>6
  <2> HIDE DEF n
  <2> QED
    BY <2>4, <2>5, <2>9, <2>10 DEF Log!PruneBefore
<1> QED
  BY <1>8, <1>9, <1>10, <1>11, <1>12, <1>13 DEF HistoryInv

\* What is removed is behind the anchor already.
LEMMA RemoveStep ==
  ASSUME HistoryInv, RemoveSegment
  PROVE  HistoryInv' /\ LogUnchanged
<1> DEFINE d == job.drop
           n == Len(segments)
<1>1. /\ pc = "remove" /\ segments' = Tail(segments) /\ job' = [job EXCEPT !.drop = d - 1]
      /\ pc' = IF d = 1 THEN "done" ELSE "remove"
      /\ UNCHANGED <<active, ledger, transaction, policy, written, unsynced, acked>>
  BY DEF RemoveSegment, Goto
<1>2. /\ d \in 1..(n - 1) /\ transaction /\ job.op # "record"
      /\ segments[d + 1].records[1].seq = Anchor.next
      /\ segments \in Seq(SegmentFiles) /\ n \in Nat /\ segments # <<>>
  BY <1>1 DEF HistoryInv, FilesInv, JobInv
<1>3. d + 1 \in DOMAIN segments /\ 1 \in DOMAIN segments /\ DOMAIN segments = 1..n
  BY <1>2
<1>4. /\ segments' \in Seq(SegmentFiles) /\ DOMAIN segments' = 1..(n - 1) /\ Len(segments') = n - 1
      /\ \A i \in 1..(n - 1) : segments'[i] = segments[i + 1] /\ i + 1 \in DOMAIN segments
  BY <1>1, <1>2
<1>5. /\ \A i \in DOMAIN segments : \A r \in ToSet(segments[i].records) :
            r.seq \in Nat /\ IF i < d + 1 THEN r.seq < Anchor.next ELSE r.seq >= Anchor.next
      /\ \A r \in ToSet(active) : r.seq \in Nat /\ r.seq > Anchor.next
  BY <1>2, <1>3, SegmentsSplit DEF HistoryInv
<1>6. Anchor' = Anchor /\ Anchor.next \in Nat
  BY <1>1, AnchorType DEF Anchor, HistoryInv
<1>7. FilesInv'
  BY <1>1, <1>4 DEF HistoryInv, FilesInv
<1>8. OrderInv'
  <2>1. ASSUME NEW i \in 1..(n - 1)
        PROVE  /\ Increasing(segments'[i].records)
               /\ \A r \in ToSet(segments'[i].records) : \A q \in ToSet(active) : r.seq < q.seq
    BY <1>4 DEF HistoryInv, OrderInv
  <2>2. ASSUME NEW i \in 1..(n - 1), NEW j \in 1..(n - 1), i < j
        PROVE  \A r \in ToSet(segments'[i].records) : \A q \in ToSet(segments'[j].records) :
                  r.seq < q.seq
    <3>1. i + 1 < j + 1
      BY <2>2
    <3> QED
      BY <3>1, <1>4 DEF HistoryInv, OrderInv
  <2> QED
    BY <1>1, <1>4, <2>1, <2>2 DEF HistoryInv, OrderInv
<1>9. \A r : r \in Held <=> r \in Held' \/ r \in ToSet(segments[1].records)
  <2>1. \A r : r \in Held' <=> r \in ToSet(active)
                               \/ \E i \in 1..(n - 1) : r \in ToSet(segments[i + 1].records)
    BY <1>1, <1>4 DEF Held
  <2>2. \A i \in 1..n : i = 1 \/ (i - 1 \in 1..(n - 1) /\ (i - 1) + 1 = i)
    BY <1>2
  <2>3. \A r : r \in Held <=> r \in ToSet(active) \/ \E i \in 1..n : r \in ToSet(segments[i].records)
    BY <1>3 DEF Held
  <2>4. ASSUME NEW r, r \in Held, r \notin ToSet(segments[1].records) PROVE r \in Held'
    <3>1. CASE r \in ToSet(active)
      BY <2>1, <3>1
    <3>2. ASSUME NEW i \in 1..n, r \in ToSet(segments[i].records) PROVE r \in Held'
      <4>1. i - 1 \in 1..(n - 1) /\ (i - 1) + 1 = i
        BY <2>2, <2>4, <3>2
      <4>2. r \in ToSet(segments[(i - 1) + 1].records)
        BY <3>2, <4>1
      <4> QED
        BY <2>1, <4>1, <4>2
    <3> QED
      BY <2>3, <2>4, <3>1, <3>2
  <2>5. ASSUME NEW r, r \in Held' PROVE r \in Held
    <3>1. ASSUME NEW i \in 1..(n - 1), r \in ToSet(segments[i + 1].records) PROVE r \in Held
      BY <1>3, <1>4, <2>3, <3>1
    <3> QED
      BY <2>1, <2>3, <2>5, <3>1
  <2>6. ASSUME NEW r \in ToSet(segments[1].records) PROVE r \in Held
    BY <1>3, <2>3
  <2> QED
    BY <2>4, <2>5, <2>6
<1>10. \A r \in ToSet(segments[1].records) : ~(r.seq >= Anchor.next)
  BY <1>2, <1>3, <1>5, <1>6
<1>11. Kept' = Kept
  BY <1>6, <1>9, <1>10 DEF Kept
<1>12. LogUnchanged
  BY <1>1, <1>6, <1>11 DEF LogUnchanged, Entries
<1>13. FloorInv'
  <2>1. \A q \in ToSet(active) : q.seq >= Anchor.next
    BY DEF HistoryInv, FloorInv
  <2>2. CASE d = 1
    <3>1. ASSUME NEW i \in 1..(n - 1), NEW r \in ToSet(segments'[i].records)
          PROVE  r.seq >= Anchor.next
      <4>1. ~(i + 1 < d + 1)
        BY <2>2
      <4> QED
        BY <4>1, <1>4, <1>5
    <3>2. \A r \in Held' : r.seq >= Anchor.next
      BY <1>1, <1>4, <2>1, <3>1 DEF Held
    <3> QED
      BY <1>1, <1>6, <2>1, <3>2 DEF FloorInv
  <2>3. CASE d # 1
    BY <1>1, <1>2, <1>6, <2>1, <2>3 DEF FloorInv, Journalled
  <2> QED
    BY <2>2, <2>3
<1>14. JobInv'
  <2>1. /\ job' = [op |-> job'.op, recovery |-> job'.recovery, drop |-> job'.drop,
                   doomed |-> job'.doomed, made |-> job'.made]
        /\ job'.op # "record" /\ job'.drop = d - 1
    BY <1>1, <1>2 DEF HistoryInv, JobInv
  <2>2. CASE d = 1
    BY <1>1, <2>1, <2>2 DEF JobInv
  <2>3. CASE d # 1
    <3>1. d - 1 \in 1..((n - 1) - 1) /\ (d - 1) + 1 \in 1..(n - 1) /\ ((d - 1) + 1) + 1 = d + 1
      BY <1>2, <2>3
    <3>2. segments'[(d - 1) + 1] = segments[d + 1]
      BY <1>4, <3>1
    <3> QED
      BY <1>1, <1>2, <1>4, <1>6, <2>1, <2>3, <3>1, <3>2 DEF JobInv
  <2> QED
    BY <2>2, <2>3
<1>15. AckInv'
  BY <1>1 DEF HistoryInv, AckInv
<1> QED
  BY <1>7, <1>8, <1>12, <1>13, <1>14, <1>15 DEF HistoryInv

\* The machine loses power: the log is as it was, or without its last event.
LEMMA PowerStep ==
  ASSUME HistoryInv, PowerFails
  PROVE  HistoryInv' /\ (LogUnchanged \/ Log!LoseLast)
<1>1. /\ pc' = "idle" /\ job' = NoOperation /\ unsynced' = 0
      /\ UNCHANGED <<segments, ledger, transaction, policy, written, acked>>
  BY DEF PowerFails, Restarts
<1>2. JobInv'
  BY <1>1 DEF JobInv, NoOperation
<1>3. AckInv'
  BY <1>1 DEF HistoryInv, AckInv
<1>4. CASE active' = active
  <2>1. FilesInv' /\ OrderInv' /\ Anchor' = Anchor /\ Held' = Held /\ Entries' = Entries
    BY <1>1, <1>4, FilesUnchanged DEF HistoryInv, FilesInv
  <2>2. FloorInv'
    BY <1>1, <1>4, <2>1 DEF HistoryInv, FloorInv, Journalled
  <2> QED
    BY <1>1, <1>2, <1>3, <2>1, <2>2 DEF HistoryInv, LogUnchanged
<1>5. CASE unsynced # 0 /\ active' = Front(active)
  <2> DEFINE m == Len(active)
             last == Last(active)
  <2>1. /\ active \in Seq(Records) /\ active # <<>> /\ m \in Nat \ {0}
        /\ last.event = unsynced /\ unsynced \notin acked
    BY <1>5 DEF HistoryInv, FilesInv, AckInv
  <2>2. /\ last = active[m] /\ last \in ToSet(active) /\ last \in Records
        /\ \A r \in ToSet(active) : r.seq <= last.seq
        /\ active' \in Seq(Records) /\ Len(active') = m - 1
        /\ \A i \in 1..(m - 1) : active'[i] = active[i]
    BY <1>5, <2>1, LastAndFront DEF HistoryInv, OrderInv
  <2>3. last.seq \in Nat
    BY <2>2 DEF Records
  <2> HIDE DEF last
  <2>4. DOMAIN active' = 1..(m - 1) /\ \A i \in 1..(m - 1) : i \in 1..m /\ i < m
    BY <2>1, <2>2
  <2>5. \A i \in 1..(m - 1) : active[i].seq < last.seq
    <3>1. \A i, j \in 1..m : i < j => active[i].seq < active[j].seq
      BY <2>1 DEF HistoryInv, OrderInv, Increasing
    <3>2. m \in 1..m
      BY <2>1
    <3> QED
      BY <2>2, <2>4, <3>1, <3>2
  <2>6. \A r : r \in ToSet(active') <=> r \in ToSet(active) /\ r # last
    <3>1. \A r : r \in ToSet(active') <=> \E i \in 1..(m - 1) : r = active[i]
      BY <2>2, <2>4 DEF ToSet
    <3>2. \A r : r \in ToSet(active) <=> \E i \in 1..m : r = active[i]
      BY <2>1 DEF ToSet
    <3>3. \A i \in 1..m : i \in 1..(m - 1) \/ i = m
      BY <2>1
    <3>4. \A i \in 1..(m - 1) : active[i] # last
      BY <2>3, <2>5
    <3> QED
      BY <2>2, <2>4, <3>1, <3>2, <3>3, <3>4
  <2>7. \A i \in DOMAIN segments : \A r \in ToSet(segments[i].records) : r.seq < last.seq
    BY <2>2 DEF HistoryInv, OrderInv
  <2>8. Anchor' = Anchor
    BY <1>1 DEF Anchor
  <2>9. Held' = Held \ {last}
    <3>1. \A r : r \in Held' <=> \/ r \in ToSet(active')
                                 \/ \E i \in DOMAIN segments : r \in ToSet(segments[i].records)
      BY <1>1 DEF Held
    <3>2. \A i \in DOMAIN segments : last \notin ToSet(segments[i].records)
      BY <2>3, <2>7
    <3> QED
      BY <2>6, <3>1, <3>2, HeldRecords DEF HistoryInv
  <2>10. FilesInv'
    BY <1>1, <2>2 DEF HistoryInv, FilesInv
  <2>11. OrderInv'
    <3>1. \A i, j \in 1..m : i < j => active[i].seq < active[j].seq
      BY <2>1 DEF HistoryInv, OrderInv, Increasing
    <3>2. \A i, j \in 1..(m - 1) : i < j => active'[i].seq < active'[j].seq
      BY <2>2, <2>4, <3>1
    <3>3. Increasing(active')
      BY <2>4, <3>2 DEF Increasing
    <3> QED
      BY <1>1, <2>6, <3>3 DEF HistoryInv, OrderInv
  <2>12. FloorInv'
    BY <1>1, <2>6, <2>8, <2>9 DEF HistoryInv, FloorInv, Journalled
  <2>13. Log!LoseLast
    <3>1. last \in Kept
      BY <2>2, HeldRecords DEF HistoryInv, FloorInv, Kept
    <3>2. \A q \in Kept : q.seq <= last.seq
      BY <2>2, <2>3, <2>7, HeldRecords DEF Kept, HistoryInv, Records
    <3>3. Log!NextSequence = last.seq + 1
      BY <3>1, <3>2, NextNumber DEF HistoryInv
    <3>4. Kept' = Kept \ {last}
      BY <2>8, <2>9 DEF Kept
    <3>5. KeptByNumber /\ KeptByNumber'
      BY <2>10, <2>11, EntriesAre, PTL DEF HistoryInv
    <3>6. /\ Log!NextSequence - 1 = last.seq /\ last.seq \in DOMAIN Entries
          /\ Entries[last.seq] = unsynced
      BY <2>1, <2>3, <3>1, <3>3, <3>5 DEF KeptByNumber, last
    <3>7. \A r \in Kept : r.seq = last.seq => r = last
      BY <3>1, OneRecordEach DEF HistoryInv, Kept
    <3>8. DOMAIN Entries' = DOMAIN Entries \ {last.seq}
      BY <3>4, <3>5, <3>7 DEF KeptByNumber
    <3>9. \A n \in DOMAIN Entries' : Entries'[n] = Entries[n]
      BY <3>4, <3>5 DEF KeptByNumber
    <3>10. Entries' = [n \in DOMAIN Entries' |-> Entries[n]]
      BY <3>5, <3>9 DEF KeptByNumber
    <3>11. Entries' = [n \in DOMAIN Entries \ {last.seq} |-> Entries[n]]
      BY <3>8, <3>10
    <3>12. Entries' = Log!Restrict(Entries, DOMAIN Entries \ {last.seq})
      BY <3>11 DEF Log!Restrict
    <3>13. Anchor'.next = Anchor.next /\ acked' = acked
      BY <1>1, <2>8
    <3> QED
      BY <2>1, <3>6, <3>12, <3>13 DEF Log!LoseLast
  <2> QED
    BY <1>2, <1>3, <2>10, <2>11, <2>12, <2>13 DEF HistoryInv
<1> QED
  BY <1>4, <1>5 DEF PowerFails
-----------------------------------------------------------------------------
LEMMA HistoryStarts == HistoryInit => HistoryInv /\ Log!Init
<1> SUFFICES ASSUME HistoryInit PROVE HistoryInv /\ Log!Init
  OBVIOUS
<1>1. /\ active = <<>> /\ segments = <<>> /\ ledger = <<>> /\ transaction = FALSE
      /\ policy \in Policies /\ pc = "idle" /\ job = NoOperation
      /\ written = 0 /\ unsynced = 0 /\ acked = {}
  BY DEF HistoryInit
<1>2. FilesInv
  <2>1. 0 \in 0..MaxEvents
    BY EventHistoryAssumption
  <2>2. <<>> \in Seq(Records) /\ <<>> \in Seq(SegmentFiles) /\ <<>> \in Seq(Anchors)
    OBVIOUS
  <2>3. transaction \in BOOLEAN
    BY <1>1
  <2> QED
    BY <1>1, <2>1, <2>2, <2>3 DEF FilesInv
<1>3. ToSet(active) = {} /\ DOMAIN segments = {} /\ DOMAIN active = {}
  BY <1>1 DEF ToSet
<1>4. OrderInv
  BY <1>3 DEF OrderInv, Increasing
<1>5. Held = {}
  BY <1>3 DEF Held
<1>6. FloorInv /\ JobInv /\ AckInv
  BY <1>1, <1>3, <1>5 DEF FloorInv, JobInv, AckInv, NoOperation, Journalled
<1>7. Log!Init
  <2>1. Kept = {}
    BY <1>5 DEF Kept
  <2>2. Entries = <<>>
    <3>1. {r.seq : r \in Kept} = {}
      BY <2>1
    <3>2. Entries = [n \in {} |-> (CHOOSE r \in Kept : r.seq = n).event]
      BY <3>1 DEF Entries
    <3> QED
      BY <3>2
  <2>3. Anchor.next = 1
    BY <1>1 DEF Anchor
  <2> QED
    BY <1>1, <2>2, <2>3 DEF Log!Init
<1> QED
  BY <1>2, <1>4, <1>6, <1>7 DEF HistoryInv

\* Every step keeps the invariant, and is a step of the log or none.
LEMMA HistorySteps ==
  ASSUME HistoryInv, [HistoryNext]_historyVars
  PROVE  HistoryInv' /\ [Log!Next]_(Log!vars)
<1>1. LogUnchanged => UNCHANGED Log!vars
  BY DEF LogUnchanged, Log!vars
<1>2. CASE \/ UNCHANGED historyVars
           \/ \E size \in PageSizes : Query(size)
           \/ \E o \in Operators : \/ RecoveryBegins(o) \/ RecoveryRemoves(o)
                                   \/ RecoveryReceipt(o) \/ RecoveryDies(o)
  BY <1>1, <1>2, OthersStep
<1>3. CASE \/ \E op \in HistoryOperations : Lock(op)
           \/ NameLock \/ Refused \/ RecordBegins \/ ClearReceipt \/ RotateUnchanged
           \/ \E p \in Policies : SetRetentionPolicy(p)
           \/ \E from, through \in Events : ExportRefused(from, through)
           \/ \E from, through \in Events : \E i \in 1..(Len(exports) + 1) :
                 ExportBegins(from, through, i)
           \/ PublishExport \/ \E old \in SUBSET DOMAIN exports : PruneExportsBegins(old)
           \/ RemoveExport \/ CallFails \/ NameFails \/ ServerDies
  BY <1>1, <1>3, QuietSteps
<1>4. CASE Release
  BY <1>1, <1>4, ReleaseStep DEF Log!Next
<1>5. CASE SyncLine
  BY <1>1, <1>5, SyncStep
<1>6. CASE AppendLine
  BY <1>6, AppendStep DEF Log!Next
<1>7. CASE \/ RotateBegins \/ RemoveJournal
           \/ \E old \in SUBSET DOMAIN segments : \E drop \in 0..Len(segments) :
                 PruneBegins(old, drop)
  BY <1>1, <1>7, JournalSteps
<1>8. CASE MoveActive
  BY <1>1, <1>8, MoveStep
<1>9. CASE SealSegment \/ PublishManifest
  BY <1>1, <1>9, PublishSteps
<1>10. CASE AppendAnchor
  BY <1>10, AnchorStep DEF Log!Next
<1>11. CASE RemoveSegment
  BY <1>1, <1>11, RemoveStep
<1>12. CASE PowerFails
  BY <1>1, <1>12, PowerStep DEF Log!Next
<1> QED
  BY <1>2, <1>3, <1>4, <1>5, <1>6, <1>7, <1>8, <1>9, <1>10, <1>11, <1>12 DEF HistoryNext

\* The segmented history of file-segmented-administrative-event-history.ts is an
\* audit log (AuditLog), through crashes, power failures, failed calls and the
\* recovery of its lock, whatever the limits, policies and numbers of operators.
THEOREM HistoryIsAnAuditLog == HistorySpec => ImplementsAuditLog
<1>1. HistoryInit => HistoryInv /\ Log!Init
  BY HistoryStarts
<1>2. HistoryInv /\ [HistoryNext]_historyVars => HistoryInv' /\ [Log!Next]_(Log!vars)
  BY HistorySteps
<1> QED
  BY <1>1, <1>2, PTL DEF HistorySpec, ImplementsAuditLog, Log!Spec
-----------------------------------------------------------------------------
(* What is on disk, in the exports and with a client. *)

\* The next record of the chain.
Follows(r, q) == q.seq = r.seq + 1 /\ q.prev = r.event

Linked(records) == \A i \in 1..(Len(records) - 1) : Follows(records[i], records[i + 1])

\* The records are one chain, from the first segment to the end of the active
\* one, and so are the manifests.
LinkInv ==
    /\ Linked(active)
    /\ \A i \in DOMAIN segments : Linked(segments[i].records)
    /\ \A i \in 1..(Len(segments) - 1) :
          /\ Follows(Last(segments[i].records), segments[i + 1].records[1])
          /\ segments[i + 1].previous = ManifestHash(segments[i])
    /\ segments # <<>> /\ active # <<>> => Follows(Last(Last(segments).records), active[1])

\* A segment that starts where the anchor says.
AtAnchor(s) ==
    /\ s.records[1].seq = Anchor.next /\ s.records[1].prev = Anchor.prev
    /\ s.previous = Anchor.head

\* A journal that an operation under way has written.
JournalInUse == transaction => pc \in Journalled \cup {"remove"}

\* The chain starts at the anchor, but for the segments a pruning has still to
\* remove.
StartInv ==
    JournalInUse =>
        /\ pc = "remove" => AtAnchor(segments[job.drop + 1])
        /\ pc # "remove" /\ segments # <<>> => AtAnchor(segments[1])
        /\ segments = <<>> /\ active # <<>> =>
              active[1].seq = Anchor.next /\ active[1].prev = Anchor.prev

\* As long as nothing failed, all there is in the directories is finished, except
\* for the segment or the export an operation is about.
SealedInv ==
    fault = "none" =>
        /\ ~damaged /\ JournalInUse
        /\ \A i \in DOMAIN segments :
              /\ segments[i].name = "jsonl" \/ (i = Len(segments) /\ pc = "seal")
              /\ segments[i].manifest = "final"
                    \/ (i = Len(segments) /\ pc \in {"seal", "publish"})

PublishedInv ==
    fault = "none" =>
        \A i \in DOMAIN exports :
            \/ exports[i].data /\ exports[i].manifest
            \/ pc = "data" /\ i = job.made
            \/ pc = "manifest" /\ i = job.made /\ exports[i].data
            \/ pc = "rm_manifest" /\ i = job.doomed[1]

ExportFiles == [from : Events, through : Events, events : Seq(Records),
                data : BOOLEAN, manifest : BOOLEAN]

\* An export holds what it says, finished or not.
Complete(e) ==
    /\ Len(e.events) = e.through - e.from + 1 /\ Linked(e.events)
    /\ e.events # <<>> /\ e.events[1].seq = e.from

ExportInv ==
    /\ exports \in Seq(ExportFiles)
    /\ \A i \in DOMAIN exports : Complete(exports[i])
    /\ pc \in {"data", "manifest"} => job.made \in DOMAIN exports
    /\ pc \in {"rm_data", "rm_manifest"} =>
          /\ job.doomed \in Seq(DOMAIN exports) /\ job.doomed # <<>>
          /\ \A i, j \in DOMAIN job.doomed : i < j => job.doomed[i] < job.doomed[j]

\* Whatever comes after r in the history, now or later, follows it.
Continues(r) ==
    /\ r.seq <= LatestSequence
    /\ \A q \in Held : q.seq = r.seq + 1 => q.prev = r.event
    /\ r.seq = LatestSequence => LastRecordHash = r.event

ReaderInv ==
    /\ reader = [from |-> reader.from, after |-> reader.after, read |-> reader.read]
    /\ reader.read \in Seq(Records)
    /\ reader.read = <<>> => reader.after = 0
    /\ reader.read # <<>> => reader.after = Last(reader.read).seq
    /\ fault # "loss" /\ reader.read # <<>> =>
          /\ Linked(reader.read) /\ reader.read[1].seq = reader.from
          /\ Continues(Last(reader.read))

\* The lock of an operation is its own; the maintenance tool removes one that
\* stays behind.
LockInv ==
    /\ life \in 1..MaxLives /\ lock \in {NoLock, Unnamed} \cup 1..life
    /\ tool \in [Operators -> {"idle", "remove", "receipt"}]
    /\ pc = "name" => lock = Unnamed
    /\ pc \notin {"idle", "name"} => lock = life
    /\ \A o \in Operators : tool[o] = "remove" => LockStale

RestInv ==
    /\ limit \in Limits /\ damaged \in BOOLEAN /\ receipt \in BOOLEAN
    /\ fault \in {"none", "fault", "loss"}
-----------------------------------------------------------------------------
(* Sequences of records. *)

\* Flattening is appending one sequence after the other.
LEMMA FlattenSeqAppends ==
  ASSUME NEW T, NEW bs \in Seq(Seq(T)), Len(bs) # 0
  PROVE  \E fl \in [1..Len(bs) -> Seq(T)] :
             /\ fl[1] = bs[1]
             /\ \A i \in 1..(Len(bs) - 1) : fl[i + 1] = fl[i] \o bs[i + 1]
             /\ FlattenSeq(bs) = fl[Len(bs)]
<1> DEFINE n == Len(bs)
           Flattens(g, k) == /\ g \in [1..k -> Seq(T)] /\ g[1] = bs[1]
                             /\ \A i \in 1..(k - 1) : g[i + 1] = g[i] \o bs[i + 1]
           P == {k \in Nat : k + 1 <= n => \E g : Flattens(g, k + 1)}
<1>1. n \in Nat \ {0} /\ \A i \in 1..n : bs[i] \in Seq(T)
  OBVIOUS
<1> HIDE DEF n
<1>2. 0 \in P
  <2>1. Flattens([i \in 1..(0 + 1) |-> bs[1]], 0 + 1)
    BY <1>1
  <2> HIDE DEF Flattens
  <2> QED
    BY <2>1
<1>3. ASSUME NEW k \in Nat, k \in P PROVE k + 1 \in P
  <2>1. ASSUME (k + 1) + 1 <= n PROVE \E g : Flattens(g, (k + 1) + 1)
    <3>0. k + 1 <= n
      BY <1>1, <2>1
    <3>1. PICK g : Flattens(g, k + 1)
      <4> HIDE DEF Flattens
      <4> QED
        BY <1>3, <3>0
    <3> DEFINE h == [i \in 1..((k + 1) + 1) |->
                        IF i = (k + 1) + 1 THEN g[k + 1] \o bs[(k + 1) + 1] ELSE g[i]]
    <3>2. g[k + 1] \o bs[(k + 1) + 1] \in Seq(T)
      <4>1. g[k + 1] \in Seq(T) /\ bs[(k + 1) + 1] \in Seq(T)
        BY <1>1, <2>1, <3>1
      <4> QED
        BY <4>1
    <3>3. h \in [1..((k + 1) + 1) -> Seq(T)] /\ h[1] = bs[1]
      BY <3>1, <3>2
    <3>4. ASSUME NEW i \in 1..(((k + 1) + 1) - 1) PROVE h[i + 1] = h[i] \o bs[i + 1]
      <4>1. CASE i = k + 1
        <5>1. /\ k + 1 \in 1..((k + 1) + 1) /\ k + 1 # (k + 1) + 1
              /\ (k + 1) + 1 \in 1..((k + 1) + 1)
          OBVIOUS
        <5>2. h[(k + 1) + 1] = g[k + 1] \o bs[(k + 1) + 1]
          BY <5>1, Zenon
        <5>3. h[k + 1] = g[k + 1]
          BY <5>1, Zenon
        <5> HIDE DEF h
        <5> QED
          BY <4>1, <5>2, <5>3
      <4>2. CASE i # k + 1
        <5>1. i \in 1..((k + 1) - 1) /\ h[i] = g[i] /\ h[i + 1] = g[i + 1]
          BY <4>2
        <5> QED
          BY <3>1, <5>1
      <4> QED
        BY <4>1, <4>2
    <3> HIDE DEF h
    <3> QED
      BY <3>3, <3>4
  <2> HIDE DEF Flattens
  <2> QED
    BY <2>1
<1> HIDE DEF P
<1>4. Nat \subseteq P
  BY <1>2, <1>3, InductionOnSet
<1>5. n - 1 \in P /\ n - 1 \in Nat /\ (n - 1) + 1 = n
  BY <1>1, <1>4
<1>6. PICK g : Flattens(g, n)
  <2> HIDE DEF Flattens
  <2>1. n - 1 \in Nat /\ (n - 1) + 1 <= n /\ \E g : Flattens(g, (n - 1) + 1)
    BY <1>1, <1>5 DEF P
  <2> QED
    BY <1>5, <2>1
<1> DEFINE Unfolded(f) == f = [i \in 1..Len(bs) |-> IF i = 1 THEN bs[i] ELSE f[i - 1] \o bs[i]]
<1>7. Unfolded(g)
  <2>1. ASSUME NEW i \in 1..n PROVE g[i] = IF i = 1 THEN bs[i] ELSE g[i - 1] \o bs[i]
    <3>1. CASE i # 1
      <4>1. i - 1 \in 1..(n - 1) /\ (i - 1) + 1 = i
        BY <1>1, <3>1
      <4> QED
        BY <1>6, <3>1, <4>1
    <3> QED
      BY <1>6, <3>1
  <2> QED
    BY <1>6, <2>1 DEF n
<1> DEFINE flatten == CHOOSE f : Unfolded(f)
<1>8. Unfolded(flatten)
  BY <1>7
<1>9. FlattenSeq(bs) = flatten[n]
  BY <1>1 DEF FlattenSeq, n
<1> HIDE DEF flatten
<1>10. \A i \in 1..n : flatten[i] = IF i = 1 THEN bs[i] ELSE flatten[i - 1] \o bs[i]
  BY <1>8 DEF n
<1> DEFINE Q == {k \in Nat : k + 1 <= n => flatten[k + 1] \in Seq(T)}
<1>11. 0 \in Q
  BY <1>1, <1>10
<1>12. ASSUME NEW k \in Nat, k \in Q PROVE k + 1 \in Q
  <2>1. ASSUME (k + 1) + 1 <= n PROVE flatten[(k + 1) + 1] \in Seq(T)
    <3>1. flatten[k + 1] \in Seq(T) /\ bs[(k + 1) + 1] \in Seq(T)
      BY <1>1, <1>12, <2>1
    <3>2. flatten[(k + 1) + 1] = flatten[k + 1] \o bs[(k + 1) + 1]
      <4>1. (k + 1) + 1 \in 1..n /\ (k + 1) + 1 # 1 /\ ((k + 1) + 1) - 1 = k + 1
        BY <1>1, <2>1
      <4> QED
        BY <1>10, <4>1
    <3> QED
      BY <3>1, <3>2
  <2> QED
    BY <2>1
<1> HIDE DEF Q
<1>13. Nat \subseteq Q
  BY <1>11, <1>12, InductionOnSet
<1>14. flatten \in [1..n -> Seq(T)]
  <2>1. ASSUME NEW i \in 1..n PROVE flatten[i] \in Seq(T)
    <3>1. i - 1 \in Nat /\ (i - 1) + 1 = i /\ i - 1 \in Q
      BY <1>1, <1>13
    <3> QED
      BY <1>1, <3>1 DEF Q
  <2> QED
    BY <1>8, <2>1 DEF n
<1>15. flatten[1] = bs[1] /\ \A i \in 1..(n - 1) : flatten[i + 1] = flatten[i] \o bs[i + 1]
  <2>1. 1 \in 1..n /\ \A i \in 1..(n - 1) : i + 1 \in 1..n /\ i + 1 # 1 /\ (i + 1) - 1 = i
    BY <1>1
  <2> QED
    BY <1>10, <2>1
<1> QED
  BY <1>9, <1>14, <1>15 DEF n

LEMMA RecordFields ==
  \A r \in Records : r.seq \in Nat \ {0} /\ r.event \in Events /\ r.prev \in Hashes
BY DEF Records, Hashes

\* The parts of a joined sequence.
LEMMA Joined ==
  ASSUME NEW s \in Seq(Records), NEW t \in Seq(Records)
  PROVE  /\ s \o t \in Seq(Records) /\ Len(s \o t) = Len(s) + Len(t)
         /\ \A i \in 1..Len(s) : (s \o t)[i] = s[i]
         /\ \A i \in 1..Len(t) : (s \o t)[Len(s) + i] = t[i]
         /\ \A i \in 1..Len(s \o t) :
               \/ i \in 1..Len(s)
               \/ i > Len(s) /\ i - Len(s) \in 1..Len(t) /\ (s \o t)[i] = t[i - Len(s)]
         /\ ToSet(s \o t) = ToSet(s) \cup ToSet(t)
<1>1. s \o t \in Seq(Records) /\ Len(s \o t) = Len(s) + Len(t) /\ Len(s) \in Nat /\ Len(t) \in Nat
  OBVIOUS
<1>2. /\ \A i \in 1..Len(s) : (s \o t)[i] = s[i]
      /\ \A i \in 1..Len(t) : (s \o t)[Len(s) + i] = t[i]
  OBVIOUS
<1>3. ASSUME NEW i \in 1..Len(s \o t), i \notin 1..Len(s)
      PROVE  i > Len(s) /\ i - Len(s) \in 1..Len(t) /\ (s \o t)[i] = t[i - Len(s)]
  <2>1. i \in Nat /\ i > Len(s) /\ i - Len(s) \in 1..Len(t) /\ Len(s) + (i - Len(s)) = i
    BY <1>1, <1>3
  <2> QED
    BY <1>2, <2>1
<1>4. ToSet(s \o t) = ToSet(s) \cup ToSet(t)
  <2>1. /\ DOMAIN s = 1..Len(s) /\ DOMAIN t = 1..Len(t)
        /\ DOMAIN (s \o t) = 1..Len(s \o t)
    BY <1>1
  <2>2. ASSUME NEW r \in ToSet(s \o t) PROVE r \in ToSet(s) \cup ToSet(t)
    <3>1. PICK i \in 1..Len(s \o t) : r = (s \o t)[i]
      BY <2>1 DEF ToSet
    <3> QED
      BY <1>2, <1>3, <2>1, <3>1 DEF ToSet
  <2>3. ASSUME NEW r \in ToSet(s) PROVE r \in ToSet(s \o t)
    <3>1. PICK i \in 1..Len(s) : r = s[i]
      BY <2>1 DEF ToSet
    <3>2. i \in 1..Len(s \o t) /\ r = (s \o t)[i]
      BY <1>1, <1>2, <3>1
    <3> QED
      BY <2>1, <3>2 DEF ToSet
  <2>4. ASSUME NEW r \in ToSet(t) PROVE r \in ToSet(s \o t)
    <3>1. PICK i \in 1..Len(t) : r = t[i]
      BY <2>1 DEF ToSet
    <3>2. Len(s) + i \in 1..Len(s \o t) /\ r = (s \o t)[Len(s) + i]
      BY <1>1, <1>2, <3>1
    <3> QED
      BY <2>1, <3>2 DEF ToSet
  <2> QED
    BY <2>2, <2>3, <2>4
<1> QED
  BY <1>1, <1>2, <1>3, <1>4

\* A sequence that is not empty has a first and a last record.
LEMMA Ends ==
  ASSUME NEW s \in Seq(Records), s # <<>>
  PROVE  /\ Len(s) \in Nat \ {0} /\ 1 \in 1..Len(s) /\ Len(s) \in 1..Len(s) /\ DOMAIN s = 1..Len(s)
         /\ s[1] \in Records /\ Last(s) = s[Len(s)] /\ Last(s) \in Records
BY DEF Last

\* A chain and what continues it make a chain.
LEMMA JoinedIsLinked ==
  ASSUME NEW s \in Seq(Records), NEW t \in Seq(Records), Linked(s), Linked(t),
         s # <<>>, t # <<>>, Follows(Last(s), t[1])
  PROVE  Linked(s \o t) /\ s \o t # <<>> /\ (s \o t)[1] = s[1] /\ Last(s \o t) = Last(t)
<1> DEFINE u == s \o t
           m == Len(s)
           n == Len(t)
<1>1. /\ m \in Nat \ {0} /\ n \in Nat \ {0} /\ u \in Seq(Records) /\ Len(u) = m + n
      /\ Last(s) = s[m] /\ Last(t) = t[n]
  BY Ends, Joined
<1>2. /\ \A i \in 1..m : u[i] = s[i]
      /\ \A i \in 1..n : u[m + i] = t[i]
  BY Joined
<1>3. /\ \A i \in 1..(m - 1) : Follows(s[i], s[i + 1])
      /\ \A i \in 1..(n - 1) : Follows(t[i], t[i + 1])
  BY DEF Linked
<1>4. Follows(s[m], t[1])
  BY <1>1
<1> HIDE DEF u, m, n
<1>5. ASSUME NEW i \in 1..(Len(u) - 1) PROVE Follows(u[i], u[i + 1])
  <2>1. CASE i < m
    <3>1. i \in 1..m /\ i + 1 \in 1..m /\ i \in 1..(m - 1)
      BY <1>1, <2>1
    <3> QED
      BY <1>2, <1>3, <3>1
  <2>2. CASE i = m
    <3>1. m \in 1..m /\ 1 \in 1..n
      BY <1>1
    <3> QED
      BY <1>2, <1>4, <2>2, <3>1
  <2>3. CASE i > m
    <3>1. PICK j \in Nat : j = i - m
      BY <1>1, <2>3
    <3>2. j \in 1..n /\ j + 1 \in 1..n /\ j \in 1..(n - 1) /\ i = m + j /\ i + 1 = m + (j + 1)
      BY <1>1, <2>3, <3>1
    <3> QED
      BY <1>2, <1>3, <3>2
  <2> QED
    BY <1>1, <2>1, <2>2, <2>3
<1>6. u # <<>> /\ u[1] = s[1] /\ Last(u) = t[n]
  <2>1. u # <<>> /\ 1 \in 1..m /\ n \in 1..n /\ Last(u) = u[m + n]
    BY <1>1 DEF Last
  <2> QED
    BY <1>2, <2>1
<1> QED
  BY <1>1, <1>5, <1>6 DEF Linked, u

\* The numbers of a chain are dense.
LEMMA NumbersAreDense ==
  ASSUME NEW s \in Seq(Records), Linked(s)
  PROVE  \A i \in 1..Len(s) : s[i].seq = s[1].seq + i - 1
<1> DEFINE n == Len(s)
           P == {k \in Nat : k + 1 <= n => s[k + 1].seq = s[1].seq + k}
<1>1. n \in Nat /\ \A i \in 1..n : s[i] \in Records
  OBVIOUS
<1>2. \A i \in 1..n : s[i].seq \in Nat
  BY <1>1, RecordFields
<1>3. \A i \in 1..(n - 1) : s[i + 1].seq = s[i].seq + 1
  BY DEF Linked, Follows
<1> HIDE DEF n
<1>4. 0 \in P
  <2>1. ASSUME 0 + 1 <= n PROVE s[0 + 1].seq = s[1].seq + 0
    <3>1. 1 \in 1..n /\ 0 + 1 = 1
      BY <1>1, <2>1
    <3> QED
      BY <1>2, <3>1
  <2> QED
    BY <2>1
<1>5. ASSUME NEW k \in Nat, k \in P PROVE k + 1 \in P
  <2>1. ASSUME (k + 1) + 1 <= n PROVE s[(k + 1) + 1].seq = s[1].seq + (k + 1)
    <3>1. k + 1 <= n /\ k + 1 \in 1..(n - 1) /\ 1 \in 1..n
      BY <1>1, <2>1
    <3>2. s[k + 1].seq = s[1].seq + k /\ s[(k + 1) + 1].seq = s[k + 1].seq + 1
      BY <1>3, <1>5, <3>1
    <3> QED
      BY <1>2, <3>1, <3>2
  <2> QED
    BY <2>1
<1> HIDE DEF P
<1>6. Nat \subseteq P
  BY <1>4, <1>5, InductionOnSet
<1>7. ASSUME NEW i \in 1..n PROVE s[i].seq = s[1].seq + i - 1
  <2>1. i - 1 \in P /\ i - 1 \in Nat /\ (i - 1) + 1 = i /\ i <= n /\ 1 \in 1..n
    BY <1>1, <1>6
  <2>2. s[i].seq = s[1].seq + (i - 1)
    BY <2>1 DEF P
  <2> QED
    BY <1>2, <2>1, <2>2
<1> QED
  BY <1>7 DEF n

\* What the reader of the files checks is that they are a chain from the anchor.
LEMMA LinkedIsChained ==
  ASSUME NEW s \in Seq(Records), s # <<>>, NEW first \in Nat, NEW prev
  PROVE  Chained(s, first, prev) <=> Linked(s) /\ s[1].seq = first /\ s[1].prev = prev
<1> DEFINE n == Len(s)
<1>1. n \in Nat \ {0} /\ \A i \in 1..n : s[i] \in Records /\ s[i].seq \in Nat
  BY Ends, RecordFields
<1>2. DOMAIN s = 1..n
  OBVIOUS
<1>3. Chained(s, first, prev) <=>
          \A i \in 1..n : /\ s[i].seq = first + i - 1
                          /\ s[i].prev = IF i = 1 THEN prev ELSE s[i - 1].event
  BY <1>2 DEF Chained
<1>4. Linked(s) <=> \A i \in 1..(n - 1) : s[i + 1].seq = s[i].seq + 1 /\ s[i + 1].prev = s[i].event
  BY DEF Linked, Follows
<1> HIDE DEF n
<1>5. ASSUME Linked(s), s[1].seq = first, s[1].prev = prev PROVE Chained(s, first, prev)
  <2>1. \A i \in 1..n : s[i].seq = first + i - 1
    BY <1>5, NumbersAreDense DEF n
  <2>2. ASSUME NEW i \in 1..n PROVE s[i].prev = IF i = 1 THEN prev ELSE s[i - 1].event
    <3>1. CASE i # 1
      <4>1. i - 1 \in 1..(n - 1) /\ (i - 1) + 1 = i
        BY <1>1, <3>1
      <4> QED
        BY <1>4, <1>5, <3>1, <4>1
    <3> QED
      BY <1>5, <3>1
  <2> QED
    BY <1>3, <2>1, <2>2
<1>6. ASSUME Chained(s, first, prev) PROVE Linked(s) /\ s[1].seq = first /\ s[1].prev = prev
  <2>1. 1 \in 1..n /\ s[1].seq = first + 1 - 1 /\ s[1].prev = prev
    BY <1>1, <1>3, <1>6
  <2>2. s[1].seq = first
    BY <2>1
  <2>3. ASSUME NEW i \in 1..(n - 1)
        PROVE  s[i + 1].seq = s[i].seq + 1 /\ s[i + 1].prev = s[i].event
    <3>1. i \in 1..n /\ i + 1 \in 1..n /\ i + 1 # 1 /\ (i + 1) - 1 = i
      BY <1>1
    <3>2. s[i].seq = first + i - 1 /\ s[i + 1].seq = first + (i + 1) - 1
      BY <1>3, <1>6, <3>1
    <3>3. s[i + 1].prev = s[i].event
      BY <1>3, <1>6, <3>1
    <3> QED
      BY <3>1, <3>2, <3>3
  <2> QED
    BY <1>4, <2>1, <2>2, <2>3
<1> QED
  BY <1>5, <1>6
-----------------------------------------------------------------------------
(* What is retained, and a range of it. *)

\* u holds the records of the first k segments.
SealedTo(k, u) ==
    /\ u \in Seq(Records) /\ u # <<>> /\ Linked(u)
    /\ u[1] = segments[1].records[1] /\ Last(u) = Last(segments[k].records)
    /\ \A r : r \in ToSet(u) <=> \E j \in 1..k : r \in ToSet(segments[j].records)

LEMMA SealedRecords ==
  ASSUME FilesInv, LinkInv, segments # <<>>
  PROVE  SealedTo(Len(segments), SegmentRecords)
<1> DEFINE n == Len(segments)
           bs == [i \in DOMAIN segments |-> segments[i].records]
<1>1. n \in Nat \ {0} /\ DOMAIN segments = 1..n
  BY DEF FilesInv
<1>2. \A i \in 1..n : segments[i].records \in Seq(Records) /\ segments[i].records # <<>>
  BY <1>1, SegmentType
<1>3. bs \in Seq(Seq(Records)) /\ Len(bs) = n /\ \A i \in 1..n : bs[i] = segments[i].records
  BY <1>1, <1>2
<1>4. SegmentRecords = FlattenSeq(bs)
  BY DEF SegmentRecords
<1> HIDE DEF n, bs
<1>5. PICK fl \in [1..n -> Seq(Records)] :
          /\ fl[1] = bs[1]
          /\ \A i \in 1..(n - 1) : fl[i + 1] = fl[i] \o bs[i + 1]
          /\ FlattenSeq(bs) = fl[n]
  BY <1>1, <1>3, FlattenSeqAppends
<1> DEFINE P == {k \in Nat : k + 1 <= n => SealedTo(k + 1, fl[k + 1])}
<1>6. 0 \in P
  <2>1. ASSUME 0 + 1 <= n PROVE SealedTo(0 + 1, fl[0 + 1])
    <3>1. 0 + 1 = 1 /\ 1 \in 1..n /\ fl[1] = segments[1].records
      BY <1>1, <1>3, <1>5
    <3>2. Linked(segments[1].records)
      BY <1>1, <3>1 DEF LinkInv
    <3>3. \A j \in 1..1 : j = 1
      OBVIOUS
    <3>4. SealedTo(1, segments[1].records)
      BY <1>2, <3>1, <3>2, <3>3 DEF SealedTo
    <3> QED
      BY <3>1, <3>4
  <2> QED
    BY <2>1
<1>7. ASSUME NEW k \in Nat, k \in P PROVE k + 1 \in P
  <2>1. ASSUME (k + 1) + 1 <= n PROVE SealedTo((k + 1) + 1, fl[(k + 1) + 1])
    <3> DEFINE s == fl[k + 1]
               t == segments[(k + 1) + 1].records
    <3>1. k + 1 \in 1..n /\ (k + 1) + 1 \in 1..n /\ k + 1 \in 1..(n - 1) /\ k + 1 <= n
      BY <1>1, <2>1
    <3>2. SealedTo(k + 1, s)
      BY <1>7, <3>1
    <3>3. t \in Seq(Records) /\ t # <<>> /\ Linked(t)
      BY <1>1, <1>2, <3>1 DEF LinkInv
    <3>4. Follows(Last(s), t[1])
      <4>1. Follows(Last(segments[k + 1].records), segments[(k + 1) + 1].records[1])
        BY <3>1 DEF LinkInv, n
      <4> QED
        BY <3>2, <4>1 DEF SealedTo
    <3>5. fl[(k + 1) + 1] = s \o t
      BY <1>3, <1>5, <3>1
    <3> HIDE DEF s, t
    <3>6. s \in Seq(Records) /\ s # <<>> /\ Linked(s)
      BY <3>2 DEF SealedTo
    <3>7. /\ Linked(s \o t) /\ s \o t # <<>> /\ (s \o t)[1] = s[1] /\ Last(s \o t) = Last(t)
          /\ s \o t \in Seq(Records) /\ ToSet(s \o t) = ToSet(s) \cup ToSet(t)
      BY <3>3, <3>4, <3>6, JoinedIsLinked, Joined
    <3>8. ASSUME NEW r
          PROVE  r \in ToSet(s \o t) <=>
                     \E j \in 1..((k + 1) + 1) : r \in ToSet(segments[j].records)
      <4>1. r \in ToSet(s) <=> \E j \in 1..(k + 1) : r \in ToSet(segments[j].records)
        BY <3>2 DEF SealedTo
      <4>2. \A j : j \in 1..((k + 1) + 1) <=> j \in 1..(k + 1) \/ j = (k + 1) + 1
        OBVIOUS
      <4> QED
        BY <3>7, <4>1, <4>2 DEF t
    <3>9. (s \o t)[1] = segments[1].records[1]
          /\ Last(s \o t) = Last(segments[(k + 1) + 1].records)
      BY <3>2, <3>7 DEF SealedTo, t
    <3> QED
      BY <3>5, <3>7, <3>8, <3>9 DEF SealedTo
  <2> QED
    BY <2>1
<1> HIDE DEF P
<1>8. Nat \subseteq P
  BY <1>6, <1>7, InductionOnSet
<1>9. n - 1 \in P /\ (n - 1) + 1 = n
  BY <1>1, <1>8
<1>10. SealedTo(n, fl[n])
  BY <1>1, <1>9 DEF P
<1> QED
  BY <1>4, <1>5, <1>10 DEF n

LEMMA RetainedRecords ==
  ASSUME FilesInv, LinkInv
  PROVE  /\ Retained \in Seq(Records) /\ Linked(Retained) /\ ToSet(Retained) = Held
         /\ Retained = <<>> <=> NothingRetained
         /\ ~NothingRetained => Last(Retained) = LastRecord
         /\ segments = <<>> => Retained = active
         /\ segments # <<>> => Retained[1] = segments[1].records[1]
<1>1. active \in Seq(Records) /\ Linked(active) /\ segments \in Seq(SegmentFiles)
  BY DEF FilesInv, LinkInv
<1>2. CASE segments = <<>>
  <2>1. SegmentRecords = <<>>
    <3>1. [i \in DOMAIN segments |-> segments[i].records] = <<>>
      BY <1>2
    <3> QED
      BY <3>1 DEF SegmentRecords, FlattenSeq
  <2>2. Retained = active
    BY <1>1, <2>1 DEF Retained
  <2>3. \A r : r \in Held <=> r \in ToSet(active)
    BY <1>2, HeldRecords
  <2> QED
    BY <1>1, <1>2, <2>2, <2>3 DEF NothingRetained, LastRecord
<1>3. CASE segments # <<>>
  <2> DEFINE s == SegmentRecords
  <2>1. SealedTo(Len(segments), s)
    BY <1>3, SealedRecords
  <2>2. Retained = s \o active /\ DOMAIN segments = 1..Len(segments)
    BY <1>1 DEF Retained
  <2>3. Last(s) = Last(Last(segments).records) /\ Last(segments) = segments[Len(segments)]
    BY <2>1 DEF SealedTo, Last
  <2> HIDE DEF s
  <2>4. s \in Seq(Records) /\ s # <<>> /\ Linked(s) /\ s[1] = segments[1].records[1]
    BY <2>1 DEF SealedTo
  <2>5. ToSet(s \o active) = ToSet(s) \cup ToSet(active) /\ s \o active \in Seq(Records)
    BY <1>1, <2>4, Joined
  <2>6. ToSet(Retained) = Held
    <3>1. \A r : r \in Held <=> r \in ToSet(Retained)
      BY <2>1, <2>2, <2>5, HeldRecords DEF SealedTo
    <3> QED
      BY <3>1
  <2>7. CASE active = <<>>
    <3>1. Retained = s
      BY <2>2, <2>4, <2>7
    <3> QED
      BY <1>3, <2>3, <2>4, <2>6, <2>7, <3>1 DEF NothingRetained, LastRecord
  <2>8. CASE active # <<>>
    <3>1. Follows(Last(s), active[1])
      BY <1>3, <2>3, <2>8 DEF LinkInv
    <3>2. /\ Linked(s \o active) /\ s \o active # <<>> /\ (s \o active)[1] = s[1]
          /\ Last(s \o active) = Last(active)
      BY <1>1, <2>4, <2>8, <3>1, JoinedIsLinked
    <3> QED
      BY <1>3, <2>2, <2>4, <2>5, <2>6, <2>8, <3>2 DEF NothingRetained, LastRecord
  <2> QED
    BY <2>7, <2>8
<1> QED
  BY <1>2, <1>3

\* The entries from index a to index b.
LEMMA PickedInterval ==
  ASSUME NEW E, NEW s \in Seq(E), NEW a \in Nat \ {0}, NEW b \in Nat, b <= Len(s), a <= b + 1
  PROVE  /\ Picked(s, a..b) \in Seq(E) /\ Len(Picked(s, a..b)) = b - a + 1
         /\ \A k \in 1..(b - a + 1) : Picked(s, a..b)[k] = s[a + k - 1]
<1> DEFINE I == a..b
           n == b - a + 1
           B == {ij \in I \X I : ij[1] < ij[2]}
           q == Listing(I, B)
           p == [i \in 1..n |-> q[i] - a + 1]
<1>1. n \in Nat /\ IsFiniteSet(I) /\ Cardinality(I) = n
  <2>1. a \in Int /\ b \in Int /\ n \in Nat
    OBVIOUS
  <2>2. IsFiniteSet(I) /\ Cardinality(I) = IF a > b THEN 0 ELSE n
    BY <2>1, FS_Interval
  <2>3. a > b => n = 0
    OBVIOUS
  <2> QED
    BY <2>1, <2>2, <2>3
<1>2. \A i, j \in I : <<i, j>> \in B <=> i < j
  OBVIOUS
<1>3. I \subseteq Int
  OBVIOUS
<1> HIDE DEF B
<1>4. Orders(B, I)
  BY <1>2, <1>3 DEF Orders
<1> HIDE DEF I
<1>5. ListsInOrder(q, I, B)
  BY <1>1, <1>4, ListingIsComplete
<1>6. q \in [1..n -> I] /\ \A i, j \in 1..n : i < j => <<q[i], q[j]>> \in B
  BY <1>1, <1>5 DEF ListsInOrder
<1>7. \A i, j \in 1..n : i < j => q[i] < q[j]
  BY <1>2, <1>6
<1>8. \A i \in 1..n : q[i] \in a..b
  BY <1>6 DEF I
<1>9. Picked(s, I) = EntriesAt(s, q)
  BY DEF Picked, Ascending, B
<1> HIDE DEF q
<1>10. p \in [1..n -> 1..n] /\ \A i, j \in 1..n : i < j => p[i] < p[j]
  <2>1. \A i \in 1..n : q[i] - a + 1 \in 1..n
    BY <1>8
  <2>2. \A i, j \in 1..n : i < j => q[i] - a + 1 < q[j] - a + 1
    BY <1>7, <1>8
  <2> QED
    BY <2>1, <2>2
<1>11. \A i \in 1..n : p[i] = i
  <2> HIDE DEF p, n
  <2> QED
    BY <1>1, <1>10, AscendingIsIdentity
<1>12. ASSUME NEW i \in 1..n PROVE q[i] = a + i - 1 /\ q[i] \in 1..Len(s)
  <2>1. q[i] - a + 1 = i /\ q[i] \in a..b
    BY <1>8, <1>11
  <2>2. \A x \in a..b : x - a + 1 = i => x = a + i - 1 /\ x \in 1..Len(s)
    OBVIOUS
  <2> QED
    BY <2>1, <2>2
<1> DEFINE r == [k \in 1..n |-> s[q[k]]]
<1>13. Picked(s, I) = r
  BY <1>6, <1>9 DEF EntriesAt
<1>14. \A k \in 1..n : s[q[k]] \in E /\ s[q[k]] = s[a + k - 1]
  <2>1. \A i \in 1..Len(s) : s[i] \in E
    OBVIOUS
  <2> QED
    BY <1>12, <2>1
<1> HIDE DEF n
<1>15. r \in Seq(E) /\ Len(r) = n /\ \A k \in 1..n : r[k] = s[a + k - 1]
  BY <1>1, <1>14
<1> QED
  BY <1>13, <1>15 DEF I, n
-----------------------------------------------------------------------------
(* The chain through the files, and where it starts. *)

\* Anchors are taken from records that have a predecessor.
LedgerInv == \A i \in DOMAIN ledger : ledger[i].prev \in Events

ChainInv == LinkInv /\ StartInv /\ LedgerInv

\* Where a journal was found in use it still is, or there is none.
LEMMA JournalFound ==
  ASSUME HistoryInv, JournalInUse', UNCHANGED transaction, pc' \notin Journalled \cup {"remove"}
  PROVE  JournalInUse /\ pc # "remove" /\ ~transaction
BY DEF JournalInUse, HistoryInv, JobInv

LEMMA ChainStays ==
  ASSUME HistoryInv, ChainInv, UNCHANGED <<active, segments, ledger>>,
         JournalInUse' => JournalInUse /\ pc # "remove", pc' # "remove"
  PROVE  ChainInv'
<1>1. Anchor' = Anchor
  BY DEF Anchor
<1>2. LinkInv'
  BY DEF ChainInv, LinkInv
<1>3. StartInv'
  BY <1>1 DEF ChainInv, StartInv, AtAnchor
<1>4. LedgerInv'
  BY DEF ChainInv, LedgerInv
<1> QED
  BY <1>2, <1>3, <1>4 DEF ChainInv

\* Steps that leave the files of the records alone.
LEMMA ChainQuietSteps ==
  ASSUME HistoryInv, ChainInv,
         \/ \E op \in HistoryOperations : Lock(op)
         \/ NameLock \/ Refused \/ RecordBegins \/ ClearReceipt \/ RotateUnchanged
         \/ \E p \in Policies : SetRetentionPolicy(p)
         \/ \E from, through \in Events : ExportRefused(from, through)
         \/ \E from, through \in Events : \E i \in 1..(Len(exports) + 1) :
               ExportBegins(from, through, i)
         \/ PublishExport \/ \E old \in SUBSET DOMAIN exports : PruneExportsBegins(old)
         \/ RemoveExport \/ CallFails \/ NameFails \/ ServerDies
         \/ Release \/ SyncLine
  PROVE  ChainInv'
<1>1. UNCHANGED <<active, segments, ledger, transaction>>
  BY DEF Lock, NameLock, Refused, RecordBegins, ClearReceipt, RotateUnchanged, SetRetentionPolicy,
         ExportRefused, ExportBegins, PublishExport, PruneExportsBegins, RemoveExport, CallFails,
         NameFails, ServerDies, Goto, files, ghosts, Release, SyncLine
<1>2. pc' \notin Journalled \cup {"remove"}
  BY DEF Lock, NameLock, Refused, RecordBegins, ClearReceipt, RotateUnchanged, SetRetentionPolicy,
         ExportRefused, ExportBegins, PublishExport, PruneExportsBegins, RemoveExport, CallFails,
         NameFails, ServerDies, Restarts, Goto, Release, SyncLine, Journalled
<1> QED
  BY <1>1, <1>2, JournalFound, ChainStays

LEMMA ChainOthersStep ==
  ASSUME HistoryInv, ChainInv,
         \/ UNCHANGED historyVars
         \/ \E size \in PageSizes : Query(size)
         \/ \E o \in Operators : \/ RecoveryBegins(o) \/ RecoveryRemoves(o)
                                 \/ RecoveryReceipt(o) \/ RecoveryDies(o)
  PROVE  ChainInv'
<1>1. UNCHANGED <<active, segments, ledger, transaction, pc, job>>
  BY DEF historyVars, files, server, ghosts, Query, RecoveryBegins, RecoveryRemoves,
         RecoveryReceipt, RecoveryDies
<1>2. Anchor' = Anchor
  BY <1>1 DEF Anchor
<1> QED
  BY <1>1, <1>2 DEF ChainInv, LinkInv, StartInv, LedgerInv, AtAnchor, JournalInUse

\* A journal is written, when there is none, or removed.
LEMMA ChainJournalSteps ==
  ASSUME HistoryInv, ChainInv,
         \/ RotateBegins \/ RemoveJournal
         \/ \E old \in SUBSET DOMAIN segments : \E drop \in 0..Len(segments) : PruneBegins(old, drop)
  PROVE  ChainInv'
<1>1. UNCHANGED <<active, segments, ledger>> /\ pc' # "remove" /\ pc # "remove"
  BY DEF RotateBegins, RemoveJournal, PruneBegins, Begins, Goto
<1>2. JournalInUse
  BY DEF RotateBegins, RemoveJournal, PruneBegins, Begins, Reconstructs, JournalInUse, Journalled,
         HistoryInv, JobInv
<1> QED
  BY <1>1, <1>2, ChainStays

\* A segment gets its name, or its manifest.
LEMMA ChainPublishSteps ==
  ASSUME HistoryInv, ChainInv, SealSegment \/ PublishManifest
  PROVE  ChainInv'
<1> DEFINE n == Len(segments)
<1>1. /\ UNCHANGED <<active, ledger, transaction>>
      /\ pc \in {"seal", "publish"} /\ pc' \in {"publish", "done"}
      /\ \/ segments' = [segments EXCEPT ![n].name = "jsonl"]
         \/ segments' = [segments EXCEPT ![n].manifest = "final"]
  BY DEF SealSegment, PublishManifest, Goto
<1>2. segments \in Seq(SegmentFiles) /\ segments # <<>> /\ n \in DOMAIN segments
  BY <1>1 DEF HistoryInv, FilesInv, JobInv
<1>3. segments[n] \in SegmentFiles
  BY <1>2
<1>4. /\ [segments[n] EXCEPT !.name = "jsonl"] \in SegmentFiles
      /\ [segments[n] EXCEPT !.manifest = "final"] \in SegmentFiles
      /\ [segments[n] EXCEPT !.name = "jsonl"].records = segments[n].records
      /\ [segments[n] EXCEPT !.manifest = "final"].records = segments[n].records
      /\ [segments[n] EXCEPT !.name = "jsonl"].previous = segments[n].previous
      /\ [segments[n] EXCEPT !.manifest = "final"].previous = segments[n].previous
  BY <1>3 DEF SegmentFiles
<1>5. PICK s \in SegmentFiles :
         /\ s.records = segments[n].records /\ s.previous = segments[n].previous
         /\ segments' = [segments EXCEPT ![n] = s]
  BY <1>1, <1>4
<1>6. /\ segments' \in Seq(SegmentFiles) /\ DOMAIN segments' = DOMAIN segments
      /\ Len(segments') = n /\ segments' # <<>>
      /\ \A i \in DOMAIN segments : /\ segments'[i].records = segments[i].records
                                    /\ segments'[i].previous = segments[i].previous
  BY <1>2, <1>5
<1>7. DOMAIN segments = 1..n /\ n \in Nat /\ Last(segments).records = segments[n].records
      /\ Last(segments').records = segments[n].records
  BY <1>2, <1>6 DEF Last
<1>8. \A i \in 1..(n - 1) : i \in 1..n /\ i + 1 \in 1..n
  BY <1>7
<1>9. LinkInv'
  BY <1>1, <1>2, <1>6, <1>7, <1>8 DEF ChainInv, LinkInv, ManifestHash
<1>10. Anchor' = Anchor /\ 1 \in DOMAIN segments
  BY <1>1, <1>2, <1>7 DEF Anchor
<1>11. StartInv'
  BY <1>1, <1>2, <1>6, <1>10 DEF ChainInv, StartInv, AtAnchor, JournalInUse, Journalled
<1> QED
  BY <1>1, <1>9, <1>11 DEF ChainInv, LedgerInv

\* The active segment becomes the newest sealed one, and names the one before.
LEMMA ChainMoveStep ==
  ASSUME HistoryInv, ChainInv, MoveActive
  PROVE  ChainInv'
<1> DEFINE n == Len(segments)
<1>1. PICK s : /\ s.records = active /\ s.previous = LastSegmentHash
               /\ segments' = Append(segments, s)
  BY DEF MoveActive
<1>2. /\ pc = "move" /\ pc' = "seal" /\ active' = <<>>
      /\ UNCHANGED <<ledger, transaction>>
  BY DEF MoveActive, Goto
<1>3. /\ active \in Seq(Records) /\ active # <<>> /\ segments \in Seq(SegmentFiles)
      /\ n \in Nat /\ DOMAIN segments = 1..n
  BY <1>2 DEF HistoryInv, FilesInv, JobInv
<1>4. /\ DOMAIN segments' = 1..(n + 1) /\ Len(segments') = n + 1 /\ segments' # <<>>
      /\ \A i \in 1..n : segments'[i] = segments[i]
      /\ segments'[n + 1] = s
  BY <1>1, <1>3
<1>5. Anchor' = Anchor /\ JournalInUse
  BY <1>2 DEF Anchor, JournalInUse, Journalled
<1>6. LinkInv'
  <2>1. Linked(active')
    BY <1>2 DEF Linked
  <2>2. ASSUME NEW i \in 1..(n + 1) PROVE Linked(segments'[i].records)
    <3>1. i \in 1..n \/ i = n + 1
      BY <1>3
    <3> QED
      BY <1>1, <1>3, <1>4, <3>1 DEF ChainInv, LinkInv
  <2>3. ASSUME NEW i \in 1..((n + 1) - 1)
        PROVE  /\ Follows(Last(segments'[i].records), segments'[i + 1].records[1])
               /\ segments'[i + 1].previous = ManifestHash(segments'[i])
    <3>1. CASE i = n
      <4>1. n \in 1..n /\ segments # <<>> /\ Last(segments) = segments[n]
        BY <1>3, <2>3, <3>1 DEF Last
      <4>2. Follows(Last(segments[n].records), active[1])
        BY <1>3, <4>1 DEF ChainInv, LinkInv
      <4>3. LastSegmentHash = ManifestHash(segments[n])
        BY <4>1 DEF LastSegmentHash
      <4> QED
        BY <1>1, <1>4, <3>1, <4>1, <4>2, <4>3
    <3>2. CASE i # n
      <4>0. ASSUME NEW m \in Nat, NEW j \in 1..((m + 1) - 1), j # m
            PROVE  j \in 1..m /\ j + 1 \in 1..m /\ j \in 1..(m - 1)
        BY <4>0
      <4>1. i \in 1..n /\ i + 1 \in 1..n /\ i \in 1..(n - 1)
        BY <1>3, <2>3, <3>2, <4>0
      <4> QED
        BY <1>4, <4>1 DEF ChainInv, LinkInv
    <3> QED
      BY <3>1, <3>2
  <2> QED
    BY <1>2, <1>4, <2>1, <2>2, <2>3 DEF LinkInv
<1>7. StartInv'
  <2>1. CASE segments = <<>>
    <3>1. n = 0 /\ LastSegmentHash = Anchor.head
      BY <2>1 DEF LastSegmentHash
    <3>2. active[1].seq = Anchor.next /\ active[1].prev = Anchor.prev
      BY <1>3, <1>5, <2>1 DEF ChainInv, StartInv
    <3>3. segments'[1] = s
      BY <1>4, <3>1
    <3>4. AtAnchor(segments[1])'
      BY <1>1, <1>5, <3>1, <3>2, <3>3 DEF AtAnchor
    <3> QED
      BY <1>2, <3>4 DEF StartInv
  <2>2. CASE segments # <<>>
    <3>1. segments'[1] = segments[1]
      BY <1>3, <1>4, <2>2
    <3>2. AtAnchor(segments[1])
      BY <1>2, <1>5, <2>2 DEF ChainInv, StartInv
    <3>3. AtAnchor(segments[1])'
      BY <1>5, <3>1, <3>2 DEF AtAnchor
    <3> QED
      BY <1>2, <3>3 DEF StartInv
  <2> QED
    BY <2>1, <2>2
<1> QED
  BY <1>2, <1>6, <1>7 DEF ChainInv, LedgerInv

\* A pruning writes where what it leaves starts.
LEMMA ChainAnchorStep ==
  ASSUME HistoryInv, ChainInv, AppendAnchor
  PROVE  ChainInv'
<1> DEFINE d == job.drop
           n == Len(segments)
           a == RetentionAnchor(d)
<1>1. /\ pc = "ledger" /\ pc' = "remove" /\ ledger' = Append(ledger, a)
      /\ UNCHANGED <<active, segments, transaction, job>>
  BY DEF AppendAnchor, Goto
<1>2. /\ d \in 1..(n - 1) /\ n \in Nat /\ DOMAIN segments = 1..n /\ ledger \in Seq(Anchors)
      /\ segments # <<>>
  BY <1>1 DEF HistoryInv, FilesInv, JobInv
<1>3. d \in 1..n /\ d + 1 \in 1..n
  BY <1>2
<1>4. /\ segments[d].records \in Seq(Records) /\ segments[d].records # <<>>
      /\ segments[d + 1].records \in Seq(Records) /\ segments[d + 1].records # <<>>
  BY <1>2, <1>3, SegmentType DEF HistoryInv
<1>5. /\ segments[d + 1].records[1].prev = Last(segments[d].records).event
      /\ segments[d + 1].previous = ManifestHash(segments[d])
  BY <1>2 DEF ChainInv, LinkInv, Follows
<1>6. Last(segments[d].records) \in Records
  BY <1>4, Ends
<1>7. a.prev \in Events /\ a.head = segments[d + 1].previous
      /\ a.next = segments[d + 1].records[1].seq /\ a.prev = segments[d + 1].records[1].prev
  BY <1>5, <1>6, RecordFields DEF RetentionAnchor
<1> HIDE DEF a
<1>8. /\ ledger' # <<>> /\ Last(ledger') = a
      /\ \A i \in DOMAIN ledger' : (i \in DOMAIN ledger /\ ledger'[i] = ledger[i]) \/ ledger'[i] = a
  BY <1>1, <1>2 DEF Last
<1>9. Anchor' = a
  BY <1>8 DEF Anchor
<1>10. LinkInv'
  BY <1>1 DEF ChainInv, LinkInv
<1>11. StartInv'
  <2>1. AtAnchor(segments[d + 1])'
    BY <1>1, <1>7, <1>9 DEF AtAnchor
  <2> QED
    BY <1>1, <1>2, <2>1 DEF StartInv
<1>12. LedgerInv'
  BY <1>7, <1>8 DEF ChainInv, LedgerInv
<1> QED
  BY <1>10, <1>11, <1>12 DEF ChainInv

\* The oldest segment goes.
LEMMA ChainRemoveStep ==
  ASSUME HistoryInv, ChainInv, RemoveSegment
  PROVE  ChainInv'
<1> DEFINE d == job.drop
           n == Len(segments)
<1>1. /\ pc = "remove" /\ segments' = Tail(segments) /\ job' = [job EXCEPT !.drop = d - 1]
      /\ pc' = IF d = 1 THEN "done" ELSE "remove"
      /\ UNCHANGED <<active, ledger, transaction>>
  BY DEF RemoveSegment, Goto
<1>2. /\ d \in 1..(n - 1) /\ segments \in Seq(SegmentFiles) /\ n \in Nat /\ segments # <<>>
      /\ DOMAIN segments = 1..n
  BY <1>1 DEF HistoryInv, FilesInv, JobInv
<1>3. job'.drop = d - 1
  <2>1. job = [op |-> job.op, recovery |-> job.recovery, drop |-> d, doomed |-> job.doomed,
               made |-> job.made]
    BY DEF HistoryInv, JobInv
  <2> QED
    BY <1>1, <2>1
<1>4. /\ DOMAIN segments' = 1..(n - 1) /\ Len(segments') = n - 1
      /\ \A i \in 1..(n - 1) : segments'[i] = segments[i + 1] /\ i + 1 \in 1..n
  BY <1>1, <1>2
<1>5. n - 1 \in 1..n /\ n - 1 # 0 /\ (n - 1) + 1 = n /\ segments' # <<>>
  BY <1>2, <1>4
<1>6. Last(segments') = Last(segments)
  BY <1>4, <1>5 DEF Last
<1>7. Anchor' = Anchor
  BY <1>1 DEF Anchor
<1>8. LinkInv'
  <2>1. \A i \in 1..(n - 1) : Linked(segments'[i].records)
    BY <1>2, <1>4 DEF ChainInv, LinkInv
  <2>2. ASSUME NEW i \in 1..((n - 1) - 1)
        PROVE  /\ Follows(Last(segments'[i].records), segments'[i + 1].records[1])
               /\ segments'[i + 1].previous = ManifestHash(segments'[i])
    <3>1. i \in 1..(n - 1) /\ i + 1 \in 1..(n - 1)
      BY <1>2
    <3>2. segments'[i] = segments[i + 1] /\ segments'[i + 1] = segments[(i + 1) + 1]
      BY <1>4, <3>1
    <3> QED
      BY <3>1, <3>2 DEF ChainInv, LinkInv
  <2>3. Linked(active)' /\ (active' # <<>> => Follows(Last(Last(segments').records), active'[1]))
    BY <1>1, <1>2, <1>6 DEF ChainInv, LinkInv
  <2> QED
    BY <1>4, <2>1, <2>2, <2>3 DEF LinkInv
<1>9. StartInv'
  <2>1. AtAnchor(segments[d + 1])
    BY <1>1 DEF ChainInv, StartInv, JournalInUse
  <2>2. CASE d = 1
    <3>1. 1 \in 1..(n - 1) /\ segments'[1] = segments[d + 1]
      BY <1>2, <1>4, <2>2
    <3>2. AtAnchor(segments[1])'
      BY <1>7, <2>1, <3>1 DEF AtAnchor
    <3>3. pc' = "done"
      BY <1>1, <2>2
    <3> QED
      BY <1>5, <3>2, <3>3 DEF StartInv
  <2>3. CASE d # 1
    <3>1. d \in 1..(n - 1) /\ segments'[d] = segments[d + 1] /\ (d - 1) + 1 = d
      BY <1>2, <1>4
    <3>2. pc' = "remove" /\ job'.drop + 1 = d
      BY <1>1, <1>2, <1>3, <2>3
    <3>3. AtAnchor(segments[job.drop + 1])'
      BY <1>7, <2>1, <3>1, <3>2 DEF AtAnchor
    <3> QED
      BY <1>5, <3>2, <3>3 DEF StartInv
  <2> QED
    BY <2>2, <2>3
<1> QED
  BY <1>1, <1>8, <1>9 DEF ChainInv, LedgerInv

\* The next event continues the chain, or starts it at the anchor.
LEMMA ChainAppendStep ==
  ASSUME HistoryInv, ChainInv, AppendLine, FilesInv'
  PROVE  ChainInv'
<1> DEFINE m == Len(active)
<1>1. PICK r : /\ r.seq = LatestSequence + 1 /\ r.prev = LastRecordHash
               /\ active' = Append(active, r)
  BY DEF AppendLine
<1>2. /\ pc = "append" /\ pc' = "sync"
      /\ UNCHANGED <<segments, ledger, transaction>>
  BY DEF AppendLine, Goto
<1>3. ~transaction /\ active \in Seq(Records) /\ m \in Nat /\ active' \in Seq(Records)
      /\ Anchor' = Anchor
  BY <1>2 DEF HistoryInv, FilesInv, JobInv, Anchor
<1>4. /\ Len(active') = m + 1 /\ active' # <<>>
      /\ \A i \in 1..m : active'[i] = active[i]
      /\ active'[m + 1] = r
  BY <1>1, <1>3
<1>5. r \in Records /\ r.seq \in Nat
  <2>1. m + 1 \in 1..Len(active')
    BY <1>3, <1>4
  <2> QED
    BY <1>3, <1>4, <2>1, RecordFields
<1>6. JournalInUse
  BY <1>3 DEF JournalInUse
<1>7. CASE active # <<>>
  <2>1. m \in 1..m /\ 1 \in 1..m /\ Last(active) = active[m] /\ active'[1] = active[1]
    BY <1>3, <1>4, <1>7 DEF Last
  <2>2. Follows(active[m], r)
    BY <1>1, <1>7, <2>1 DEF LatestSequence, LastRecordHash, LastRecord, NothingRetained, Follows
  <2>3. Linked(active')
    <3>1. ASSUME NEW i \in 1..((m + 1) - 1) PROVE Follows(active'[i], active'[i + 1])
      <4>1. CASE i = m
        BY <1>4, <2>1, <2>2, <4>1
      <4>2. CASE i # m
        <5>0. ASSUME NEW k \in Nat, NEW j \in 1..((k + 1) - 1), j # k
              PROVE  j \in 1..k /\ j + 1 \in 1..k /\ j \in 1..(k - 1)
          BY <5>0
        <5>1. i \in 1..m /\ i + 1 \in 1..m /\ i \in 1..(m - 1)
          BY <1>3, <3>1, <4>2, <5>0
        <5> QED
          BY <1>4, <5>1 DEF ChainInv, LinkInv, Linked
      <4> QED
        BY <4>1, <4>2
    <3> QED
      BY <1>4, <3>1 DEF Linked
  <2>4. LinkInv'
    BY <1>2, <1>7, <2>1, <2>3 DEF ChainInv, LinkInv
  <2>5. StartInv'
    BY <1>2, <1>3, <1>6, <1>7, <2>1 DEF ChainInv, StartInv, AtAnchor
  <2> QED
    BY <1>2, <2>4, <2>5 DEF ChainInv, LedgerInv
<1>8. CASE active = <<>>
  <2>1. m = 0 /\ active'[1] = r /\ Linked(active')
    BY <1>4, <1>8 DEF Linked
  <2>2. segments # <<>> => Follows(Last(Last(segments).records), r)
    BY <1>1, <1>8 DEF LatestSequence, LastRecordHash, LastRecord, NothingRetained, Follows
  <2>3. LinkInv'
    BY <1>2, <2>1, <2>2 DEF ChainInv, LinkInv
  <2>4. segments = <<>> => r.seq = Anchor.next /\ r.prev = Anchor.prev
    <3>1. Anchor.next \in Nat \ {0}
      BY AnchorType DEF HistoryInv
    <3>2. \A x \in Nat \ {0} : (x - 1) + 1 = x
      OBVIOUS
    <3> QED
      BY <1>1, <1>8, <3>1, <3>2 DEF LatestSequence, LastRecordHash, NothingRetained
  <2>5. StartInv'
    BY <1>2, <1>3, <1>6, <2>1, <2>4 DEF ChainInv, StartInv, AtAnchor
  <2> QED
    BY <1>2, <2>3, <2>5 DEF ChainInv, LedgerInv
<1> QED
  BY <1>7, <1>8

\* A loss of power takes the last line at most.
LEMMA ChainPowerStep ==
  ASSUME HistoryInv, ChainInv, PowerFails
  PROVE  ChainInv'
<1>1. /\ UNCHANGED <<segments, ledger, transaction>> /\ pc' = "idle"
      /\ active' = active \/ (unsynced # 0 /\ active' = Front(active))
  BY DEF PowerFails, Restarts
<1>2. JournalInUse' => JournalInUse /\ pc # "remove"
  BY <1>1, JournalFound DEF Journalled
<1>3. CASE active' = active
  BY <1>1, <1>2, <1>3, ChainStays
<1>4. CASE unsynced # 0 /\ active' = Front(active)
  <2> DEFINE n == Len(active) - 1
  <2>1. active \in Seq(Records) /\ active # <<>> /\ Len(active) \in Nat \ {0}
    BY <1>4, Ends DEF HistoryInv, FilesInv, AckInv
  <2>2. /\ active' \in Seq(Records) /\ Len(active') = n
        /\ \A i \in 1..n : active'[i] = active[i]
    BY <1>4, <2>1, LastAndFront
  <2>3. n \in Nat
    BY <2>1
  <2>4. Linked(active')
    <3>1. ASSUME NEW i \in 1..(n - 1) PROVE Follows(active'[i], active'[i + 1])
      <4>1. i \in 1..n /\ i + 1 \in 1..n /\ i \in 1..(Len(active) - 1)
        BY <2>3
      <4> QED
        BY <2>2, <4>1 DEF ChainInv, LinkInv, Linked
    <3> QED
      BY <2>2, <3>1 DEF Linked
  <2>5. active' # <<>> => active'[1] = active[1]
    <3>1. active' # <<>> => Len(active') # 0
      BY <2>2
    <3>2. active' # <<>> => 1 \in 1..n
      BY <2>2, <2>3, <3>1
    <3> QED
      BY <2>2, <3>2
  <2>6. LinkInv'
    BY <1>1, <2>1, <2>4, <2>5 DEF ChainInv, LinkInv
  <2>7. Anchor' = Anchor
    BY <1>1 DEF Anchor
  <2>8. StartInv'
    BY <1>1, <1>2, <2>1, <2>5, <2>7 DEF ChainInv, StartInv, AtAnchor
  <2> QED
    BY <1>1, <2>6, <2>8 DEF ChainInv, LedgerInv
<1> QED
  BY <1>1, <1>3, <1>4

LEMMA ChainSteps ==
  ASSUME HistoryInv, ChainInv, [HistoryNext]_historyVars
  PROVE  ChainInv'
<1>1. FilesInv'
  BY HistorySteps DEF HistoryInv
<1>2. CASE UNCHANGED historyVars
  BY <1>2, ChainOthersStep
<1>3. CASE HistoryNext
  BY <1>1, <1>3, ChainQuietSteps, ChainOthersStep, ChainJournalSteps, ChainPublishSteps,
     ChainMoveStep, ChainAnchorStep, ChainRemoveStep, ChainAppendStep, ChainPowerStep
     DEF HistoryNext
<1> QED
  BY <1>2, <1>3
-----------------------------------------------------------------------------
(* The exports. *)

LEMMA InsertedAt ==
  ASSUME NEW S, NEW s \in Seq(S), NEW e \in S, NEW p \in 1..(Len(s) + 1)
  PROVE  /\ InsertAt(s, p, e) \in Seq(S) /\ Len(InsertAt(s, p, e)) = Len(s) + 1
         /\ \A i \in 1..(Len(s) + 1) :
               InsertAt(s, p, e)[i] = IF i < p THEN s[i] ELSE IF i = p THEN e ELSE s[i - 1]
<1> DEFINE n == Len(s)
           a == SubSeq(s, 1, p - 1)
           b == SubSeq(s, p, n)
<1>1. n \in Nat /\ p \in Nat /\ 1 <= p /\ p <= n + 1 /\ \A i \in 1..n : s[i] \in S
  OBVIOUS
<1>2. InsertAt(s, p, e) = (a \o <<e>>) \o b
  BY DEF InsertAt
<1> HIDE DEF n
<1>3. /\ a \in Seq(S) /\ Len(a) = p - 1
      /\ \A i \in 1..(p - 1) : a[i] = s[i]
  <2>1. \A i \in 1..(p - 1) : s[i] \in S
    BY <1>1
  <2>2. /\ a \in Seq(S) /\ Len(a) = (IF 1 <= p - 1 THEN p - 1 - 1 + 1 ELSE 0)
        /\ \A i \in 1..(p - 1 - 1 + 1) : a[i] = s[1 + i - 1]
    BY <1>1, <2>1, SubSeqProperties
  <2> HIDE DEF a
  <2> QED
    BY <1>1, <2>2
<1>4. /\ b \in Seq(S) /\ Len(b) = n - p + 1
      /\ \A i \in 1..(n - p + 1) : b[i] = s[p + i - 1]
  <2>1. \A i \in p..n : s[i] \in S
    BY <1>1
  <2>2. /\ b \in Seq(S) /\ Len(b) = (IF p <= n THEN n - p + 1 ELSE 0)
        /\ \A i \in 1..(n - p + 1) : b[i] = s[p + i - 1]
    BY <1>1, <2>1, SubSeqProperties
  <2> HIDE DEF b
  <2> QED
    BY <1>1, <2>2
<1> HIDE DEF a, b
<1>5. /\ a \o <<e>> \in Seq(S) /\ Len(a \o <<e>>) = p
      /\ \A i \in 1..(p - 1) : (a \o <<e>>)[i] = a[i]
      /\ (a \o <<e>>)[p] = e
  BY <1>1, <1>3
<1> DEFINE c == a \o <<e>>
<1> HIDE DEF c
<1>6. c \in Seq(S) /\ Len(c) = p /\ (\A i \in 1..(p - 1) : c[i] = a[i]) /\ c[p] = e
  BY <1>5 DEF c
<1>7. /\ c \o b \in Seq(S) /\ Len(c \o b) = n + 1
      /\ \A i \in 1..(n + 1) : (c \o b)[i] = IF i <= p THEN c[i] ELSE b[i - p]
  <2>1. /\ c \o b \in Seq(S) /\ Len(c \o b) = Len(c) + Len(b)
        /\ \A i \in 1..(Len(c) + Len(b)) :
              (c \o b)[i] = IF i <= Len(c) THEN c[i] ELSE b[i - Len(c)]
    BY <1>4, <1>6, ConcatProperties
  <2>2. Len(c) + Len(b) = n + 1 /\ Len(c) = p
    BY <1>1, <1>4, <1>6
  <2> QED
    BY <2>1, <2>2
<1>8. ASSUME NEW i \in 1..(n + 1)
      PROVE  (c \o b)[i] = IF i < p THEN s[i] ELSE IF i = p THEN e ELSE s[i - 1]
  <2>1. CASE i < p
    <3>1. i \in 1..(p - 1) /\ i <= p
      BY <1>1, <2>1
    <3> QED
      BY <1>3, <1>6, <1>7, <2>1, <3>1
  <2>2. CASE i = p
    BY <1>1, <1>6, <1>7, <2>2
  <2>3. CASE i > p
    <3>1. i - p \in 1..(n - p + 1) /\ p + (i - p) - 1 = i - 1 /\ ~(i <= p)
      BY <1>1, <2>3
    <3> QED
      BY <1>1, <1>4, <1>7, <2>3, <3>1
  <2>4. i < p \/ i = p \/ i > p
    BY <1>1
  <2> QED
    BY <2>1, <2>2, <2>3, <2>4
<1> QED
  BY <1>2, <1>7, <1>8 DEF c, n

LEMMA RemovedAt ==
  ASSUME NEW S, NEW s \in Seq(S), NEW p \in 1..Len(s)
  PROVE  /\ RemoveAt(s, p) \in Seq(S) /\ Len(RemoveAt(s, p)) = Len(s) - 1
         /\ \A i \in 1..(Len(s) - 1) : RemoveAt(s, p)[i] = IF i < p THEN s[i] ELSE s[i + 1]
<1> DEFINE n == Len(s)
           a == SubSeq(s, 1, p - 1)
           b == SubSeq(s, p + 1, n)
<1>1. n \in Nat /\ p \in Nat /\ 1 <= p /\ p <= n /\ \A i \in 1..n : s[i] \in S
  OBVIOUS
<1>2. RemoveAt(s, p) = a \o b
  BY DEF RemoveAt
<1> HIDE DEF n
<1>3. /\ a \in Seq(S) /\ Len(a) = p - 1
      /\ \A i \in 1..(p - 1) : a[i] = s[i]
  <2>1. \A i \in 1..(p - 1) : s[i] \in S
    BY <1>1
  <2>2. /\ a \in Seq(S) /\ Len(a) = (IF 1 <= p - 1 THEN p - 1 - 1 + 1 ELSE 0)
        /\ \A i \in 1..(p - 1 - 1 + 1) : a[i] = s[1 + i - 1]
    BY <1>1, <2>1, SubSeqProperties
  <2> HIDE DEF a
  <2> QED
    BY <1>1, <2>2
<1>4. /\ b \in Seq(S) /\ Len(b) = n - p
      /\ \A i \in 1..(n - p) : b[i] = s[p + i]
  <2>1. \A i \in (p + 1)..n : s[i] \in S
    BY <1>1
  <2>2. /\ b \in Seq(S) /\ Len(b) = (IF p + 1 <= n THEN n - (p + 1) + 1 ELSE 0)
        /\ \A i \in 1..(n - (p + 1) + 1) : b[i] = s[(p + 1) + i - 1]
    BY <1>1, <2>1, SubSeqProperties
  <2> HIDE DEF b
  <2> QED
    BY <1>1, <2>2
<1> HIDE DEF a, b
<1>5. /\ a \o b \in Seq(S) /\ Len(a \o b) = n - 1
      /\ \A i \in 1..(n - 1) : (a \o b)[i] = IF i <= p - 1 THEN a[i] ELSE b[i - (p - 1)]
  <2>1. /\ a \o b \in Seq(S) /\ Len(a \o b) = Len(a) + Len(b)
        /\ \A i \in 1..(Len(a) + Len(b)) :
              (a \o b)[i] = IF i <= Len(a) THEN a[i] ELSE b[i - Len(a)]
    BY <1>3, <1>4, ConcatProperties
  <2>2. Len(a) + Len(b) = n - 1 /\ Len(a) = p - 1
    BY <1>1, <1>3, <1>4
  <2> QED
    BY <2>1, <2>2
<1>6. ASSUME NEW i \in 1..(n - 1) PROVE (a \o b)[i] = IF i < p THEN s[i] ELSE s[i + 1]
  <2>1. CASE i < p
    <3>1. i \in 1..(p - 1) /\ i <= p - 1
      BY <1>1, <2>1
    <3> QED
      BY <1>3, <1>5, <2>1, <3>1
  <2>2. CASE i >= p
    <3>1. i - (p - 1) \in 1..(n - p) /\ p + (i - (p - 1)) = i + 1 /\ ~(i <= p - 1) /\ ~(i < p)
      BY <1>1, <2>2
    <3> QED
      BY <1>1, <1>4, <1>5, <3>1
  <2>3. i < p \/ i >= p
    BY <1>1
  <2> QED
    BY <2>1, <2>2, <2>3
<1> QED
  BY <1>2, <1>5, <1>6 DEF n

\* A range of a chain.
LEMMA RangeOfChain ==
  ASSUME NEW s \in Seq(Records), Linked(s), NEW a \in Nat \ {0}, NEW b \in Nat, b <= Len(s), a <= b
  PROVE  /\ Picked(s, a..b) \in Seq(Records) /\ Picked(s, a..b) # <<>>
         /\ Len(Picked(s, a..b)) = b - a + 1 /\ Linked(Picked(s, a..b))
         /\ \A k \in 1..(b - a + 1) : Picked(s, a..b)[k] = s[a + k - 1] /\ a + k - 1 \in a..b
<1> DEFINE p == Picked(s, a..b)
           n == b - a + 1
<1>1. a <= b + 1 /\ n \in Nat \ {0}
  OBVIOUS
<1>2. p \in Seq(Records) /\ Len(p) = n /\ \A k \in 1..n : p[k] = s[a + k - 1]
  BY <1>1, PickedInterval
<1> HIDE DEF p
<1>3. \A k \in 1..n : a + k - 1 \in a..b
  OBVIOUS
<1>4. ASSUME NEW k \in 1..(n - 1) PROVE Follows(p[k], p[k + 1])
  <2>1. k \in 1..n /\ k + 1 \in 1..n /\ a + (k + 1) - 1 = (a + k - 1) + 1
        /\ a + k - 1 \in 1..(Len(s) - 1)
    OBVIOUS
  <2>2. Follows(s[a + k - 1], s[(a + k - 1) + 1])
    BY <2>1 DEF Linked
  <2> QED
    BY <1>2, <2>1, <2>2
<1> HIDE DEF n
<1>5. p # <<>> /\ Linked(p)
  BY <1>1, <1>2, <1>4 DEF Linked
<1> QED
  BY <1>2, <1>3, <1>5 DEF p, n

\* The indexes of a set of numbers, the smallest first.
LEMMA AscendingLists ==
  ASSUME NEW n \in Nat, NEW U \in SUBSET (1..n), U # {}
  PROVE  /\ Ascending(U) \in Seq(U) /\ Ascending(U) # <<>>
         /\ \A i, j \in DOMAIN Ascending(U) : i < j => Ascending(U)[i] < Ascending(U)[j]
<1> DEFINE B == {ij \in U \X U : ij[1] < ij[2]}
           q == Listing(U, B)
           m == Cardinality(U)
<1>1. IsFiniteSet(U)
  <2>1. 1 \in Int /\ n \in Int
    OBVIOUS
  <2> QED
    BY <2>1, FS_Interval, FS_Subset
<1>2. (\A i, j \in U : <<i, j>> \in B <=> i < j) /\ U \subseteq Nat
  OBVIOUS
<1>3. Ascending(U) = q
  BY DEF Ascending
<1> HIDE DEF B
<1>4. Orders(B, U)
  BY <1>2 DEF Orders
<1>5. ListsInOrder(q, U, B)
  BY <1>1, <1>4, ListingIsComplete
<1> HIDE DEF q, m
<1>6. /\ m \in Nat /\ q \in [1..m -> U]
      /\ \A i, j \in 1..m : i < j => <<q[i], q[j]>> \in B
      /\ \A x \in U : \E i \in 1..m : q[i] = x
  BY <1>5 DEF ListsInOrder, m
<1>7. q \in Seq(U) /\ DOMAIN q = 1..m /\ Len(q) = m
  BY <1>6
<1>8. m # 0
  <2>1. PICK x \in U : TRUE
    OBVIOUS
  <2>2. PICK i \in 1..m : q[i] = x
    BY <1>6
  <2> QED
    BY <1>6, <2>2
<1> QED
  BY <1>2, <1>3, <1>6, <1>7, <1>8

\* What a history that reconstructs retains: the numbers from the anchor to the
\* latest, each once.
LEMMA RetainedNumbers ==
  ASSUME FilesInv, LinkInv, Reconstructs
  PROVE  /\ Anchor.next \in Nat \ {0} /\ Len(Retained) \in Nat
         /\ Retained \in Seq(Records) /\ Linked(Retained)
         /\ \A i \in 1..Len(Retained) : Retained[i].seq = Anchor.next + i - 1
         /\ LatestSequence = Anchor.next + Len(Retained) - 1
<1>1. /\ Retained \in Seq(Records) /\ Linked(Retained)
      /\ Retained = <<>> <=> NothingRetained
      /\ ~NothingRetained => Last(Retained) = LastRecord
  BY RetainedRecords
<1>2. Anchor.next \in Nat \ {0}
  BY AnchorType
<1>3. Chained(Retained, Anchor.next, Anchor.prev) /\ DOMAIN Retained = 1..Len(Retained)
  BY <1>1 DEF Reconstructs
<1>4. \A i \in 1..Len(Retained) : Retained[i].seq = Anchor.next + i - 1
  BY <1>3 DEF Chained
<1>5. CASE Retained = <<>>
  <2>1. Len(Retained) = 0 /\ LatestSequence = Anchor.next - 1
    BY <1>1, <1>5 DEF LatestSequence
  <2> QED
    BY <1>1, <1>2, <1>4, <2>1
<1>6. CASE Retained # <<>>
  <2>1. Len(Retained) \in 1..Len(Retained) /\ Len(Retained) \in Nat
        /\ Last(Retained) = Retained[Len(Retained)]
    BY <1>1, <1>6, Ends
  <2>2. LatestSequence = Retained[Len(Retained)].seq
    BY <1>1, <1>6, <2>1 DEF LatestSequence
  <2> QED
    BY <1>1, <1>2, <1>4, <2>1, <2>2
<1> QED
  BY <1>5, <1>6

\* An export begins with all it will hold.
LEMMA RetainedRange ==
  ASSUME FilesInv, LinkInv, Reconstructs, NEW from \in Events, NEW through \in Events,
         RangeRetained(from, through),
         NEW p, p = Picked(Retained, {i \in DOMAIN Retained : Retained[i].seq \in from..through})
  PROVE  /\ p \in Seq(Records) /\ p # <<>> /\ Len(p) = through - from + 1
         /\ Linked(p) /\ p[1].seq = from
<1> DEFINE n == Len(Retained)
           f == Anchor.next
           a == from - f + 1
           b == through - f + 1
<1>1. /\ f \in Nat \ {0} /\ n \in Nat /\ Retained \in Seq(Records) /\ Linked(Retained)
      /\ \A i \in 1..n : Retained[i].seq = f + i - 1
      /\ LatestSequence = f + n - 1
  BY RetainedNumbers
<1>2. from \in Nat /\ through \in Nat /\ from >= f /\ through <= LatestSequence /\ from <= through
  BY DEF RangeRetained, Events
<1>3. DOMAIN Retained = 1..n
  BY <1>1
<1> HIDE DEF n, f
<1>4. a \in Nat \ {0} /\ b \in Nat /\ b <= n /\ a <= b /\ b - a + 1 = through - from + 1
  BY <1>1, <1>2
<1>5. {i \in DOMAIN Retained : Retained[i].seq \in from..through} = a..b
  <2>1. ASSUME NEW i \in 1..n PROVE f + i - 1 \in from..through <=> i \in a..b
    BY <1>1, <1>2
  <2>2. \A i \in a..b : i \in 1..n
    BY <1>1, <1>4
  <2>3. \A i \in 1..n : Retained[i].seq \in from..through <=> i \in a..b
    BY <1>1, <2>1
  <2> HIDE DEF a, b
  <2> QED
    BY <1>3, <2>2, <2>3
<1>6. f + a - 1 = from /\ a \in 1..n /\ a + 1 - 1 = a /\ 1 \in 1..(b - a + 1)
  BY <1>1, <1>2, <1>4
<1>7. p = Picked(Retained, a..b)
  BY <1>5
<1> HIDE DEF a, b
<1>8. /\ p \in Seq(Records) /\ p # <<>> /\ Len(p) = b - a + 1 /\ Linked(p)
      /\ \A k \in 1..(b - a + 1) : p[k] = Retained[a + k - 1]
  <2>1. b <= Len(Retained)
    BY <1>4 DEF n
  <2>2. /\ Picked(Retained, a..b) \in Seq(Records) /\ Picked(Retained, a..b) # <<>>
        /\ Len(Picked(Retained, a..b)) = b - a + 1 /\ Linked(Picked(Retained, a..b))
        /\ \A k \in 1..(b - a + 1) :
              Picked(Retained, a..b)[k] = Retained[a + k - 1] /\ a + k - 1 \in a..b
    BY <1>1, <1>4, <2>1, RangeOfChain
  <2> QED
    BY <1>7, <2>2
<1>9. p[1] = Retained[a]
  BY <1>6, <1>8
<1> QED
  BY <1>1, <1>4, <1>6, <1>8, <1>9

Exporting == {"data", "manifest", "rm_data", "rm_manifest"}

\* Steps that leave the exports alone.
LEMMA ExportsStay ==
  ASSUME ExportInv, PublishedInv, UNCHANGED exports, fault' = "none" => fault = "none",
         \/ UNCHANGED <<pc, job>>
         \/ /\ pc' \notin Exporting
            /\ fault' = "none" => pc \notin {"data", "manifest", "rm_manifest"}
  PROVE  ExportInv' /\ PublishedInv'
BY DEF ExportInv, PublishedInv, Exporting

LEMMA ExportQuietSteps ==
  ASSUME ExportInv, PublishedInv,
         \/ \E op \in HistoryOperations : Lock(op)
         \/ NameLock \/ Release \/ Refused \/ RecordBegins \/ AppendLine \/ SyncLine \/ ClearReceipt
         \/ RotateUnchanged \/ RotateBegins \/ MoveActive \/ SealSegment \/ PublishManifest
         \/ RemoveJournal
         \/ \E old \in SUBSET DOMAIN segments : \E drop \in 0..Len(segments) : PruneBegins(old, drop)
         \/ AppendAnchor \/ RemoveSegment
         \/ \E p \in Policies : SetRetentionPolicy(p)
         \/ \E from, through \in Events : ExportRefused(from, through)
  PROVE  ExportInv' /\ PublishedInv'
<1>1. UNCHANGED <<exports, fault>>
  BY DEF Lock, NameLock, Release, Refused, RecordBegins, AppendLine, SyncLine, ClearReceipt,
         RotateUnchanged, RotateBegins, MoveActive, SealSegment, PublishManifest, RemoveJournal,
         PruneBegins, AppendAnchor, RemoveSegment, SetRetentionPolicy, ExportRefused, Goto, files,
         ghosts
<1>2. pc' \notin Exporting
  BY DEF Lock, NameLock, Release, Refused, RecordBegins, AppendLine, SyncLine, ClearReceipt,
         RotateUnchanged, RotateBegins, MoveActive, SealSegment, PublishManifest, RemoveJournal,
         PruneBegins, AppendAnchor, RemoveSegment, SetRetentionPolicy, ExportRefused, Goto,
         Exporting
<1>3. pc \notin {"data", "manifest", "rm_manifest"}
  BY DEF Lock, NameLock, Release, Refused, RecordBegins, AppendLine, SyncLine, ClearReceipt,
         RotateUnchanged, RotateBegins, MoveActive, SealSegment, PublishManifest, RemoveJournal,
         PruneBegins, AppendAnchor, RemoveSegment, SetRetentionPolicy, ExportRefused, Begins
<1> QED
  BY <1>1, <1>2, <1>3, ExportsStay

\* What fails or stops, and what others do.
LEMMA ExportFaults ==
  ASSUME ExportInv, PublishedInv,
         \/ UNCHANGED historyVars
         \/ \E size \in PageSizes : Query(size)
         \/ \E o \in Operators : \/ RecoveryBegins(o) \/ RecoveryRemoves(o)
                                 \/ RecoveryReceipt(o) \/ RecoveryDies(o)
         \/ CallFails \/ NameFails \/ ServerDies \/ PowerFails
  PROVE  ExportInv' /\ PublishedInv'
<1>1. CASE \/ UNCHANGED historyVars
           \/ \E size \in PageSizes : Query(size)
           \/ \E o \in Operators : \/ RecoveryBegins(o) \/ RecoveryRemoves(o)
                                   \/ RecoveryReceipt(o) \/ RecoveryDies(o)
  <2>1. UNCHANGED <<exports, fault, pc, job>>
    BY <1>1 DEF historyVars, files, server, ghosts, Query, RecoveryBegins, RecoveryRemoves,
            RecoveryReceipt, RecoveryDies
  <2> QED
    BY <2>1, ExportsStay
<1>2. CASE CallFails \/ NameFails \/ ServerDies \/ PowerFails
  <2>1. UNCHANGED exports /\ pc' \notin Exporting
    BY <1>2 DEF CallFails, NameFails, ServerDies, PowerFails, Restarts, files, Exporting
  <2>2. fault' = "none" => fault = "none" /\ pc \in {"idle"}
    BY <1>2 DEF CallFails, NameFails, ServerDies, PowerFails, Faulted
  <2> QED
    BY <2>1, <2>2, ExportsStay
<1> QED
  BY <1>1, <1>2

\* An export is put among the others, with all its events and no file yet.
LEMMA ExportBeginsStep ==
  ASSUME HistoryInv, LinkInv, ExportInv, PublishedInv, NEW from \in Events, NEW through \in Events,
         NEW p \in 1..(Len(exports) + 1), ExportBegins(from, through, p)
  PROVE  ExportInv' /\ PublishedInv'
<1> DEFINE n == Len(exports)
           events == Picked(Retained, {i \in DOMAIN Retained : Retained[i].seq \in from..through})
<1>1. PICK no \in BOOLEAN : no = FALSE
  OBVIOUS
<1> DEFINE e == [from |-> from, through |-> through, events |-> events, data |-> no, manifest |-> no]
<1>2. /\ pc = "begin" /\ Reconstructs /\ RangeRetained(from, through)
      /\ exports' = InsertAt(exports, p, e) /\ job' = [job EXCEPT !.made = p]
      /\ pc' = "data" /\ fault' = fault
  BY <1>1 DEF ExportBegins, Begins, Goto
<1>3. /\ events \in Seq(Records) /\ events # <<>> /\ Len(events) = through - from + 1
      /\ Linked(events) /\ events[1].seq = from
  BY <1>2, RetainedRange DEF HistoryInv
<1> HIDE DEF events
<1>4. e \in ExportFiles /\ Complete(e)
  BY <1>3 DEF ExportFiles, Complete
<1> HIDE DEF e
<1>5. exports \in Seq(ExportFiles) /\ n \in Nat /\ DOMAIN exports = 1..n
  BY DEF ExportInv
<1>6. /\ exports' \in Seq(ExportFiles) /\ Len(exports') = n + 1
      /\ \A i \in 1..(n + 1) :
            exports'[i] = IF i < p THEN exports[i] ELSE IF i = p THEN e ELSE exports[i - 1]
  <2>1. p \in 1..(Len(exports) + 1)
    OBVIOUS
  <2> HIDE DEF n
  <2>2. ASSUME NEW s \in Seq(ExportFiles), NEW x \in ExportFiles, NEW q \in 1..(Len(s) + 1)
        PROVE  /\ InsertAt(s, q, x) \in Seq(ExportFiles) /\ Len(InsertAt(s, q, x)) = Len(s) + 1
               /\ \A i \in 1..(Len(s) + 1) :
                     InsertAt(s, q, x)[i] = IF i < q THEN s[i] ELSE IF i = q THEN x ELSE s[i - 1]
    BY InsertedAt
  <2>3. /\ InsertAt(exports, p, e) \in Seq(ExportFiles)
        /\ Len(InsertAt(exports, p, e)) = Len(exports) + 1
        /\ \A i \in 1..(Len(exports) + 1) :
              InsertAt(exports, p, e)[i]
                = IF i < p THEN exports[i] ELSE IF i = p THEN e ELSE exports[i - 1]
    BY <1>4, <1>5, <2>1, <2>2
  <2> QED
    BY <1>2, <2>3 DEF n
<1>7. DOMAIN exports' = 1..(n + 1) /\ p \in 1..(n + 1)
  BY <1>5, <1>6
<1>8. \A i \in 1..(n + 1) : \/ i < p /\ i \in 1..n
                            \/ i = p
                            \/ i > p /\ i - 1 \in 1..n
  BY <1>5
<1>9. job'.made = p
  <2>1. job = [op |-> job.op, recovery |-> job.recovery, drop |-> job.drop, doomed |-> job.doomed,
               made |-> job.made]
    BY DEF HistoryInv, JobInv
  <2> QED
    BY <1>2, <2>1
<1>10. ASSUME NEW i \in 1..(n + 1)
       PROVE  i = p \/ \E j \in 1..n : exports'[i] = exports[j]
  BY <1>6, <1>7, <1>8
<1>11. exports'[p] = e
  BY <1>6, <1>7
<1>12. \A i \in 1..(n + 1) : Complete(exports'[i])
  BY <1>4, <1>5, <1>10, <1>11 DEF ExportInv
<1>13. ExportInv'
  BY <1>2, <1>6, <1>7, <1>9, <1>12 DEF ExportInv
<1>14. PublishedInv'
  <2>1. ASSUME fault' = "none", NEW i \in 1..(n + 1), i # p
        PROVE  exports'[i].data /\ exports'[i].manifest
    <3>1. PICK j \in 1..n : exports'[i] = exports[j]
      BY <1>10, <2>1
    <3>2. exports[j].data /\ exports[j].manifest
      BY <1>2, <1>5, <2>1 DEF PublishedInv
    <3> QED
      BY <3>1, <3>2
  <2> QED
    BY <1>2, <1>7, <1>9, <2>1 DEF PublishedInv
<1> QED
  BY <1>13, <1>14

LEMMA ReplacedAt ==
  ASSUME NEW S, NEW s \in Seq(S), NEW e \in S, NEW p \in 1..Len(s)
  PROVE  /\ [s EXCEPT ![p] = e] \in Seq(S) /\ Len([s EXCEPT ![p] = e]) = Len(s)
         /\ \A i \in 1..Len(s) : [s EXCEPT ![p] = e][i] = IF i = p THEN e ELSE s[i]
OBVIOUS

\* The content of an export gets its name, then its manifest.
LEMMA PublishExportStep ==
  ASSUME HistoryInv, ExportInv, PublishedInv, PublishExport
  PROVE  ExportInv' /\ PublishedInv'
<1> DEFINE n == Len(exports)
           k == job.made
           e == exports[k]
<1>1. PICK yes \in BOOLEAN : yes = TRUE
  OBVIOUS
<1> DEFINE f == IF pc = "data" THEN [e EXCEPT !.data = yes] ELSE [e EXCEPT !.manifest = yes]
<1>2. /\ pc \in {"data", "manifest"} /\ exports' = [exports EXCEPT ![k] = f]
      /\ pc' = (IF pc = "data" THEN "manifest" ELSE "unlock")
      /\ fault' = fault /\ job' = job
  BY <1>1 DEF PublishExport, Goto
<1>3. /\ exports \in Seq(ExportFiles) /\ n \in Nat /\ DOMAIN exports = 1..n /\ k \in 1..n
      /\ e \in ExportFiles /\ Complete(e)
  BY <1>2 DEF ExportInv
<1>4. /\ f \in ExportFiles /\ f.from = e.from /\ f.through = e.through /\ f.events = e.events
      /\ pc = "data" => f.data
      /\ pc # "data" => f.manifest /\ f.data = e.data
  BY <1>1, <1>3 DEF ExportFiles
<1> HIDE DEF f
<1>5. Complete(f)
  BY <1>3, <1>4 DEF Complete
<1> HIDE DEF n, k
<1>6. /\ exports' \in Seq(ExportFiles) /\ Len(exports') = n
      /\ \A i \in 1..n : exports'[i] = IF i = k THEN f ELSE exports[i]
  <2>1. ASSUME NEW s \in Seq(ExportFiles), NEW x \in ExportFiles, NEW q \in 1..Len(s)
        PROVE  /\ [s EXCEPT ![q] = x] \in Seq(ExportFiles) /\ Len([s EXCEPT ![q] = x]) = Len(s)
               /\ \A i \in 1..Len(s) : [s EXCEPT ![q] = x][i] = IF i = q THEN x ELSE s[i]
    BY ReplacedAt
  <2>2. k \in 1..Len(exports)
    BY <1>3 DEF n
  <2>3. /\ [exports EXCEPT ![k] = f] \in Seq(ExportFiles)
        /\ Len([exports EXCEPT ![k] = f]) = Len(exports)
        /\ \A i \in 1..Len(exports) :
              [exports EXCEPT ![k] = f][i] = IF i = k THEN f ELSE exports[i]
    BY <1>3, <1>4, <2>1, <2>2
  <2> QED
    BY <1>2, <2>3 DEF n
<1>7. DOMAIN exports' = 1..n
  BY <1>3, <1>6
<1>8. ExportInv'
  <2>1. \A i \in 1..n : Complete(exports'[i])
    BY <1>3, <1>5, <1>6 DEF ExportInv
  <2> QED
    BY <1>2, <1>3, <1>6, <1>7, <2>1 DEF ExportInv, k
<1>9. PublishedInv'
  <2>1. ASSUME fault = "none", NEW i \in 1..n, i # k PROVE exports'[i].data /\ exports'[i].manifest
    BY <1>2, <1>3, <1>6, <2>1 DEF PublishedInv, k
  <2>2. ASSUME fault = "none", pc = "manifest" PROVE e.data
    BY <1>3, <2>2 DEF PublishedInv, k
  <2>3. exports'[k] = f
    BY <1>3, <1>6
  <2> QED
    BY <1>2, <1>4, <1>7, <2>1, <2>2, <2>3 DEF PublishedInv, k
<1> QED
  BY <1>8, <1>9

\* A retention of exports lists those to remove, the oldest first.
LEMMA PruneExportsStep ==
  ASSUME HistoryInv, ExportInv, PublishedInv, NEW old \in SUBSET DOMAIN exports,
         PruneExportsBegins(old)
  PROVE  ExportInv' /\ PublishedInv'
<1> DEFINE doomed == {i \in DOMAIN exports :
                         /\ Len(exports) - i + 1 > policy.minExports
                         /\ Len(exports) - i + 1 > policy.maxExports \/ i \in old}
           n == Len(exports)
<1>1. /\ pc = "begin" /\ job' = [job EXCEPT !.doomed = Ascending(doomed)]
      /\ pc' = (IF doomed = {} THEN "unlock" ELSE "rm_data")
      /\ fault' = fault /\ exports' = exports
  BY DEF PruneExportsBegins, Begins, Goto, files
<1>2. n \in Nat /\ DOMAIN exports = 1..n
  BY DEF ExportInv
<1>3. doomed \in SUBSET (1..n)
  BY <1>2
<1> HIDE DEF doomed, n
<1>4. job'.doomed = Ascending(doomed)
  <2>1. job = [op |-> job.op, recovery |-> job.recovery, drop |-> job.drop, doomed |-> job.doomed,
               made |-> job.made]
    BY DEF HistoryInv, JobInv
  <2> QED
    BY <1>1, <2>1
<1>5. doomed # {} =>
        /\ Ascending(doomed) \in Seq(doomed) /\ Ascending(doomed) # <<>>
        /\ \A i, j \in DOMAIN Ascending(doomed) :
              i < j => Ascending(doomed)[i] < Ascending(doomed)[j]
  BY <1>2, <1>3, AscendingLists
<1>6. doomed # {} => Ascending(doomed) \in Seq(1..n)
  <2>1. ASSUME NEW S, NEW T, S \subseteq T, NEW s \in Seq(S) PROVE s \in Seq(T)
    <3>1. Len(s) \in Nat /\ s \in [1..Len(s) -> S]
      OBVIOUS
    <3>2. s \in [1..Len(s) -> T]
      BY <2>1, <3>1
    <3> QED
      BY <3>1, <3>2
  <2> QED
    BY <1>3, <1>5, <2>1
<1>7. ExportInv'
  BY <1>1, <1>2, <1>4, <1>5, <1>6 DEF ExportInv
<1>8. PublishedInv'
  BY <1>1 DEF PublishedInv
<1> QED
  BY <1>7, <1>8

\* The content of the next export goes ...
LEMMA RemoveContentStep ==
  ASSUME HistoryInv, ExportInv, PublishedInv, RemoveExport, pc = "rm_data"
  PROVE  ExportInv' /\ PublishedInv'
<1> DEFINE n == Len(exports)
           k == job.doomed[1]
           e == exports[k]
<1>1. PICK no \in BOOLEAN : no = FALSE
  OBVIOUS
<1> DEFINE f == [e EXCEPT !.data = no]
<1>2. /\ exports' = [exports EXCEPT ![k] = f]
      /\ pc' = "rm_manifest" /\ fault' = fault /\ job' = job
  BY <1>1 DEF RemoveExport, Goto
<1>3. /\ exports \in Seq(ExportFiles) /\ n \in Nat /\ DOMAIN exports = 1..n
      /\ job.doomed \in Seq(1..n) /\ job.doomed # <<>>
  BY DEF ExportInv
<1>4. k \in 1..n
  BY <1>3
<1>5. e \in ExportFiles /\ Complete(e)
  BY <1>3, <1>4 DEF ExportInv
<1>6. f \in ExportFiles /\ f.from = e.from /\ f.through = e.through /\ f.events = e.events
  BY <1>1, <1>5 DEF ExportFiles
<1> HIDE DEF f
<1>7. Complete(f)
  BY <1>5, <1>6 DEF Complete
<1> HIDE DEF n, k
<1>8. /\ exports' \in Seq(ExportFiles) /\ Len(exports') = n
      /\ \A i \in 1..n : exports'[i] = IF i = k THEN f ELSE exports[i]
  <2>1. ASSUME NEW s \in Seq(ExportFiles), NEW x \in ExportFiles, NEW q \in 1..Len(s)
        PROVE  /\ [s EXCEPT ![q] = x] \in Seq(ExportFiles) /\ Len([s EXCEPT ![q] = x]) = Len(s)
               /\ \A i \in 1..Len(s) : [s EXCEPT ![q] = x][i] = IF i = q THEN x ELSE s[i]
    BY ReplacedAt
  <2>2. k \in 1..Len(exports)
    BY <1>4 DEF n
  <2>3. /\ [exports EXCEPT ![k] = f] \in Seq(ExportFiles)
        /\ Len([exports EXCEPT ![k] = f]) = Len(exports)
        /\ \A i \in 1..Len(exports) :
              [exports EXCEPT ![k] = f][i] = IF i = k THEN f ELSE exports[i]
    BY <1>3, <1>6, <2>1, <2>2
  <2> QED
    BY <1>2, <2>3 DEF n
<1>9. DOMAIN exports' = 1..n
  BY <1>3, <1>8
<1>10. ExportInv'
  <2>1. \A i \in 1..n : Complete(exports'[i])
    BY <1>3, <1>7, <1>8 DEF ExportInv
  <2> QED
    BY <1>2, <1>3, <1>8, <1>9, <2>1 DEF ExportInv
<1>11. PublishedInv'
  <2>1. ASSUME fault = "none", NEW i \in 1..n, i # k PROVE exports'[i].data /\ exports'[i].manifest
    BY <1>3, <1>8, <2>1 DEF PublishedInv
  <2> QED
    BY <1>2, <1>9, <2>1 DEF PublishedInv, k
<1> QED
  BY <1>10, <1>11

\* ... and then its manifest, which moves the ones behind it.
LEMMA RemoveManifestStep ==
  ASSUME HistoryInv, ExportInv, PublishedInv, RemoveExport, pc = "rm_manifest"
  PROVE  ExportInv' /\ PublishedInv'
<1> DEFINE n == Len(exports)
           d == job.doomed
           m == Len(d)
           k == d[1]
           s == [i \in 1..(m - 1) |-> d[i + 1] - 1]
<1>1. /\ exports' = RemoveAt(exports, k) /\ job' = [job EXCEPT !.doomed = s]
      /\ pc' = (IF m = 1 THEN "unlock" ELSE "rm_data") /\ fault' = fault
  BY DEF RemoveExport, Goto
<1>2. /\ exports \in Seq(ExportFiles) /\ n \in Nat /\ DOMAIN exports = 1..n
      /\ d \in Seq(1..n) /\ d # <<>>
      /\ \A i, j \in DOMAIN d : i < j => d[i] < d[j]
  BY DEF ExportInv
<1>3. k \in 1..n /\ m \in Nat \ {0} /\ DOMAIN d = 1..m /\ \A i \in 1..m : d[i] \in 1..n
  BY <1>2
<1>4. ASSUME NEW i \in 1..(m - 1) PROVE d[i + 1] - 1 \in 1..(n - 1)
  <2>1. 1 \in 1..m /\ i + 1 \in 1..m /\ 1 < i + 1
    BY <1>3
  <2>2. d[1] < d[i + 1]
    <3>1. 1 \in DOMAIN d /\ i + 1 \in DOMAIN d
      BY <1>3, <2>1
    <3>2. \A x, y \in DOMAIN d : x < y => d[x] < d[y]
      BY <1>2
    <3> HIDE DEF d
    <3> QED
      BY <2>1, <3>1, <3>2
  <2>3. d[1] \in 1..n /\ d[i + 1] \in 1..n
    BY <1>3, <2>1
  <2> QED
    BY <1>2, <2>2, <2>3
<1>5. /\ s \in Seq(1..(n - 1)) /\ Len(s) = m - 1 /\ DOMAIN s = 1..(m - 1)
      /\ \A i \in 1..(m - 1) : s[i] = d[i + 1] - 1
  BY <1>3, <1>4
<1>6. ASSUME NEW i \in 1..(m - 1), NEW j \in 1..(m - 1), i < j PROVE s[i] < s[j]
  <2>1. i + 1 \in 1..m /\ j + 1 \in 1..m /\ i + 1 < j + 1
    BY <1>3, <1>6
  <2>2. d[i + 1] < d[j + 1]
    <3>1. i + 1 \in DOMAIN d /\ j + 1 \in DOMAIN d
      BY <1>3, <2>1
    <3>2. \A x, y \in DOMAIN d : x < y => d[x] < d[y]
      BY <1>2
    <3> HIDE DEF d
    <3> QED
      BY <2>1, <3>1, <3>2
  <2>3. d[i + 1] \in Nat /\ d[j + 1] \in Nat
    BY <1>3, <2>1
  <2> QED
    BY <1>5, <2>2, <2>3
<1>7. job'.doomed = s
  <2> HIDE DEF s
  <2>1. job = [op |-> job.op, recovery |-> job.recovery, drop |-> job.drop, doomed |-> d,
               made |-> job.made]
    BY DEF HistoryInv, JobInv
  <2> QED
    BY <1>1, <2>1
<1> HIDE DEF s, n, k
<1>8. /\ exports' \in Seq(ExportFiles) /\ Len(exports') = n - 1
      /\ \A i \in 1..(n - 1) : exports'[i] = IF i < k THEN exports[i] ELSE exports[i + 1]
  <2>1. ASSUME NEW x \in Seq(ExportFiles), NEW q \in 1..Len(x)
        PROVE  /\ RemoveAt(x, q) \in Seq(ExportFiles) /\ Len(RemoveAt(x, q)) = Len(x) - 1
               /\ \A i \in 1..(Len(x) - 1) : RemoveAt(x, q)[i] = IF i < q THEN x[i] ELSE x[i + 1]
    BY RemovedAt
  <2>2. k \in 1..Len(exports)
    BY <1>3 DEF n
  <2>3. /\ RemoveAt(exports, k) \in Seq(ExportFiles) /\ Len(RemoveAt(exports, k)) = Len(exports) - 1
        /\ \A i \in 1..(Len(exports) - 1) :
              RemoveAt(exports, k)[i] = IF i < k THEN exports[i] ELSE exports[i + 1]
    BY <1>2, <2>1, <2>2
  <2> QED
    BY <1>1, <2>3 DEF n
<1>9. DOMAIN exports' = 1..(n - 1)
  BY <1>2, <1>8
<1>10. ASSUME NEW i \in 1..(n - 1)
       PROVE  \E j \in 1..n : j # k /\ exports'[i] = exports[j]
  <2>1. CASE i < k
    <3>1. i \in 1..n /\ i # k /\ exports'[i] = exports[i]
      BY <1>2, <1>3, <1>8, <2>1
    <3> QED
      BY <3>1
  <2>2. CASE ~(i < k)
    <3>1. i + 1 \in 1..n /\ i + 1 # k /\ exports'[i] = exports[i + 1]
      BY <1>2, <1>3, <1>8, <2>2
    <3> QED
      BY <3>1
  <2> QED
    BY <2>1, <2>2
<1>11. ExportInv'
  <2>1. \A i \in 1..(n - 1) : Complete(exports'[i])
    BY <1>2, <1>10 DEF ExportInv
  <2>2. ASSUME pc' \in {"rm_data", "rm_manifest"} PROVE s # <<>>
    <3>1. m # 1
      BY <1>1, <2>2
    <3>2. Len(s) # 0
      BY <1>3, <1>5, <3>1
    <3> QED
      BY <3>2
  <2>3. pc' \notin {"data", "manifest"}
    BY <1>1
  <2> QED
    BY <1>5, <1>6, <1>7, <1>8, <1>9, <2>1, <2>2, <2>3 DEF ExportInv
<1>12. PublishedInv'
  <2>1. ASSUME fault = "none", NEW j \in 1..n, j # k PROVE exports[j].data /\ exports[j].manifest
    BY <1>2, <2>1 DEF PublishedInv, k
  <2> QED
    BY <1>1, <1>9, <1>10, <2>1 DEF PublishedInv
<1> QED
  BY <1>11, <1>12

LEMMA ExportSteps ==
  ASSUME HistoryInv, LinkInv, ExportInv, PublishedInv, [HistoryNext]_historyVars
  PROVE  ExportInv' /\ PublishedInv'
<1>1. CASE UNCHANGED historyVars
  BY <1>1, ExportFaults
<1>2. CASE RemoveExport
  BY <1>2, RemoveContentStep, RemoveManifestStep DEF RemoveExport
<1>3. CASE HistoryNext
  BY <1>2, <1>3, ExportQuietSteps, ExportFaults, ExportBeginsStep, PublishExportStep,
     PruneExportsStep DEF HistoryNext
<1> QED
  BY <1>1, <1>3
-----------------------------------------------------------------------------
(* What is finished. *)

\* Steps that leave the sealed segments and the journal alone.
LEMMA SealedStays ==
  ASSUME SealedInv, UNCHANGED <<segments, transaction>>,
         fault' = "none" => /\ fault = "none" /\ damaged' = damaged
                            /\ pc' = pc \/ pc \notin Journalled \cup {"remove"}
  PROVE  SealedInv'
BY DEF SealedInv, JournalInUse, Journalled

LEMMA SealedQuietSteps ==
  ASSUME SealedInv,
         \/ \E op \in HistoryOperations : Lock(op)
         \/ NameLock \/ Release \/ Refused \/ RecordBegins \/ AppendLine \/ SyncLine \/ ClearReceipt
         \/ RotateUnchanged
         \/ \E p \in Policies : SetRetentionPolicy(p)
         \/ \E from, through \in Events : ExportRefused(from, through)
         \/ \E from, through \in Events : \E i \in 1..(Len(exports) + 1) :
               ExportBegins(from, through, i)
         \/ PublishExport \/ \E old \in SUBSET DOMAIN exports : PruneExportsBegins(old)
         \/ RemoveExport
  PROVE  SealedInv'
<1>1. UNCHANGED <<segments, transaction, fault, damaged>>
  BY DEF Lock, NameLock, Release, Refused, RecordBegins, AppendLine, SyncLine, ClearReceipt,
         RotateUnchanged, SetRetentionPolicy, ExportRefused, ExportBegins, PublishExport,
         PruneExportsBegins, RemoveExport, Goto, files, ghosts
<1>2. pc \notin Journalled \cup {"remove"}
  BY DEF Lock, NameLock, Release, Refused, RecordBegins, AppendLine, SyncLine, ClearReceipt,
         RotateUnchanged, SetRetentionPolicy, ExportRefused, ExportBegins, PublishExport,
         PruneExportsBegins, RemoveExport, Begins, Journalled
<1> QED
  BY <1>1, <1>2, SealedStays

\* What fails or stops, and what others do.
LEMMA SealedFaults ==
  ASSUME HistoryInv, SealedInv, fault \in {"none", "fault", "loss"}, damaged \in BOOLEAN,
         \/ UNCHANGED historyVars
         \/ \E size \in PageSizes : Query(size)
         \/ \E o \in Operators : \/ RecoveryBegins(o) \/ RecoveryRemoves(o)
                                 \/ RecoveryReceipt(o) \/ RecoveryDies(o)
         \/ CallFails \/ NameFails \/ ServerDies \/ PowerFails
  PROVE  SealedInv'
<1>1. CASE \/ UNCHANGED historyVars
           \/ \E size \in PageSizes : Query(size)
           \/ \E o \in Operators : \/ RecoveryBegins(o) \/ RecoveryRemoves(o)
                                   \/ RecoveryReceipt(o) \/ RecoveryDies(o)
  <2>1. UNCHANGED <<segments, transaction, fault, damaged, pc>>
    BY <1>1 DEF historyVars, files, server, ghosts, Query, RecoveryBegins, RecoveryRemoves,
            RecoveryReceipt, RecoveryDies
  <2> QED
    BY <2>1, SealedStays
<1>2. CASE CallFails \/ NameFails \/ ServerDies \/ PowerFails
  <2>1. UNCHANGED <<segments, transaction>>
    BY <1>2 DEF CallFails, NameFails, ServerDies, PowerFails, files
  <2>2. fault' = "none" => fault = "none" /\ pc = "idle" /\ (ServerDies \/ PowerFails)
    BY <1>2 DEF CallFails, NameFails, ServerDies, PowerFails, Faulted
  <2>3. pc = "idle" => ~Tearing
    BY DEF Tearing
  <2>4. ASSUME fault' = "none" PROVE damaged' = damaged
    <3>1. damaged' \in {damaged, damaged \/ Tearing} /\ ~Tearing
      BY <2>2, <2>3, <2>4 DEF ServerDies, PowerFails
    <3> QED
      BY <3>1
  <2> QED
    BY <2>1, <2>2, <2>4, SealedStays DEF Journalled
<1> QED
  BY <1>1, <1>2

\* The journal is written and removed.
LEMMA SealedJournalSteps ==
  ASSUME SealedInv,
         \/ RotateBegins \/ RemoveJournal
         \/ \E old \in SUBSET DOMAIN segments : \E drop \in 0..Len(segments) : PruneBegins(old, drop)
         \/ AppendAnchor
  PROVE  SealedInv'
<1>1. /\ UNCHANGED <<segments, fault, damaged>> /\ pc \notin {"seal", "publish"}
      /\ pc' \notin {"seal", "publish"}
  BY DEF RotateBegins, RemoveJournal, PruneBegins, AppendAnchor, Begins, Goto
<1>2. JournalInUse'
  BY DEF RotateBegins, RemoveJournal, PruneBegins, AppendAnchor, Goto, JournalInUse, Journalled
<1> QED
  BY <1>1, <1>2 DEF SealedInv

\* A segment is moved, named and gets its manifest.
LEMMA SealedPublishSteps ==
  ASSUME HistoryInv, SealedInv, MoveActive \/ SealSegment \/ PublishManifest
  PROVE  SealedInv'
<1> DEFINE n == Len(segments)
<1>1. /\ UNCHANGED <<transaction, fault, damaged>> /\ pc' \in Journalled
  BY DEF MoveActive, SealSegment, PublishManifest, Goto, Journalled
<1>2. segments \in Seq(SegmentFiles) /\ n \in Nat /\ DOMAIN segments = 1..n
  BY DEF HistoryInv, FilesInv
<1>3. JournalInUse'
  BY <1>1 DEF JournalInUse
<1>4. CASE MoveActive
  <2>1. PICK s : segments' = Append(segments, s)
    BY <1>4 DEF MoveActive
  <2>2. pc = "move" /\ pc' = "seal"
    BY <1>4 DEF MoveActive, Goto
  <2>3. /\ DOMAIN segments' = 1..(n + 1) /\ Len(segments') = n + 1
        /\ \A i \in 1..n : segments'[i] = segments[i]
    BY <1>2, <2>1
  <2>4. segments'[n + 1].manifest = "final" \/ pc' \in {"seal", "publish"}
    BY <2>2
  <2>5. \A i \in 1..(n + 1) : i \in 1..n \/ i = n + 1
    BY <1>2
  <2> QED
    BY <1>1, <1>2, <1>3, <2>2, <2>3, <2>5 DEF SealedInv
<1>5. CASE SealSegment \/ PublishManifest
  <2>1. n \in 1..n
    BY <1>2, <1>5 DEF HistoryInv, JobInv, SealSegment, PublishManifest
  <2>2. segments[n] \in SegmentFiles
    BY <1>2, <2>1
  <2>3. segments[n] = [records |-> segments[n].records, name |-> segments[n].name,
                       manifest |-> segments[n].manifest, previous |-> segments[n].previous]
    BY <2>2 DEF SegmentFiles
  <2>4. /\ DOMAIN segments' = 1..n /\ Len(segments') = n
        /\ \A i \in 1..n : i # n => segments'[i] = segments[i]
    BY <1>2, <1>5 DEF SealSegment, PublishManifest
  <2>5. CASE SealSegment
    <3>1. pc = "seal" /\ pc' = "publish" /\ segments'[n].name = "jsonl"
      BY <1>2, <2>1, <2>3, <2>5 DEF SealSegment, Goto
    <3> QED
      BY <1>1, <1>2, <1>3, <2>4, <3>1 DEF SealedInv
  <2>6. CASE PublishManifest
    <3>1. /\ pc = "publish" /\ pc' = "done" /\ segments'[n].manifest = "final"
          /\ segments'[n].name = segments[n].name
      BY <1>2, <2>1, <2>3, <2>6 DEF PublishManifest, Goto
    <3> QED
      BY <1>1, <1>2, <1>3, <2>1, <2>4, <3>1 DEF SealedInv
  <2> QED
    BY <1>5, <2>5, <2>6
<1> QED
  BY <1>4, <1>5

LEMMA SealedRemoveStep ==
  ASSUME HistoryInv, SealedInv, RemoveSegment
  PROVE  SealedInv'
<1> DEFINE n == Len(segments)
<1>1. /\ pc = "remove" /\ pc' \in {"done", "remove"} /\ segments' = Tail(segments)
      /\ UNCHANGED <<transaction, fault, damaged>>
  BY DEF RemoveSegment, Goto
<1>2. segments \in Seq(SegmentFiles) /\ n \in Nat \ {0} /\ DOMAIN segments = 1..n /\ segments # <<>>
  BY <1>1 DEF HistoryInv, FilesInv, JobInv
<1>3. /\ DOMAIN segments' = 1..(n - 1)
      /\ \A i \in 1..(n - 1) : segments'[i] = segments[i + 1] /\ i + 1 \in 1..n
  BY <1>1, <1>2
<1>4. JournalInUse'
  BY <1>1 DEF JournalInUse, Journalled
<1> QED
  BY <1>1, <1>2, <1>3, <1>4 DEF SealedInv

LEMMA SealedSteps ==
  ASSUME HistoryInv, SealedInv, fault \in {"none", "fault", "loss"}, damaged \in BOOLEAN,
         [HistoryNext]_historyVars
  PROVE  SealedInv'
<1>1. CASE UNCHANGED historyVars
  BY <1>1, SealedFaults
<1>2. CASE HistoryNext
  BY <1>2, SealedQuietSteps, SealedFaults, SealedJournalSteps, SealedPublishSteps,
     SealedRemoveStep DEF HistoryNext
<1> QED
  BY <1>1, <1>2
-----------------------------------------------------------------------------
(* What a client has read. *)

\* The end of the history stays, and nothing is added to it.
EndStays ==
    /\ Held' \subseteq Held
    /\ LatestSequence' = LatestSequence /\ LastRecordHash' = LastRecordHash

LEMMA SameRecords ==
  ASSUME UNCHANGED <<active, segments, ledger>> PROVE EndStays
BY DEF EndStays, Held, LatestSequence, LastRecordHash, LastRecord, NothingRetained, Anchor

\* Where the last record is the same one.
LEMMA SameLast ==
  ASSUME ~NothingRetained, ~NothingRetained', LastRecord' = LastRecord
  PROVE  LatestSequence' = LatestSequence /\ LastRecordHash' = LastRecordHash
BY DEF LatestSequence, LastRecordHash

LEMMA EndAfterMove ==
  ASSUME HistoryInv, MoveActive
  PROVE  EndStays
<1> DEFINE n == Len(segments)
<1>1. PICK s : s.records = active /\ segments' = Append(segments, s)
  BY DEF MoveActive
<1>2. pc = "move" /\ active' = <<>>
  BY DEF MoveActive
<1>3. active # <<>> /\ n \in Nat /\ segments \in Seq(SegmentFiles) /\ DOMAIN segments = 1..n
  BY <1>2 DEF HistoryInv, FilesInv, JobInv
<1>4. /\ segments' # <<>> /\ Len(segments') = n + 1 /\ DOMAIN segments' = 1..(n + 1)
      /\ \A i \in 1..n : segments'[i] = segments[i]
      /\ segments'[n + 1] = s
  BY <1>1, <1>3
<1>5. LastRecord' = LastRecord
  BY <1>1, <1>2, <1>3, <1>4 DEF LastRecord, Last
<1>6. Held' \subseteq Held
  <2>1. ToSet(active') = {}
    BY <1>2 DEF ToSet
  <2>2. \A i \in 1..(n + 1) : i \in 1..n \/ i = n + 1
    BY <1>3
  <2>3. ASSUME NEW i \in 1..(n + 1) PROVE ToSet(segments'[i].records) \subseteq Held
    BY <1>1, <1>3, <1>4, <2>2 DEF Held
  <2> QED
    BY <1>4, <2>1, <2>3 DEF Held
<1> QED
  BY <1>3, <1>4, <1>5, <1>6, SameLast DEF NothingRetained, EndStays

LEMMA EndAfterPublish ==
  ASSUME HistoryInv, SealSegment \/ PublishManifest
  PROVE  EndStays
<1> DEFINE n == Len(segments)
<1>1. /\ active' = active /\ pc \in {"seal", "publish"}
      /\ \/ segments' = [segments EXCEPT ![n].name = "jsonl"]
         \/ segments' = [segments EXCEPT ![n].manifest = "final"]
  BY DEF SealSegment, PublishManifest, Goto
<1>2. segments \in Seq(SegmentFiles) /\ segments # <<>> /\ n \in DOMAIN segments
  BY <1>1 DEF HistoryInv, FilesInv, JobInv
<1>3. segments[n] \in SegmentFiles
  BY <1>2
<1>4. /\ [segments[n] EXCEPT !.name = "jsonl"].records = segments[n].records
      /\ [segments[n] EXCEPT !.manifest = "final"].records = segments[n].records
  BY <1>3 DEF SegmentFiles
<1>5. PICK s : s.records = segments[n].records /\ segments' = [segments EXCEPT ![n] = s]
  BY <1>1, <1>4
<1>6. /\ DOMAIN segments' = DOMAIN segments /\ Len(segments') = n /\ segments' # <<>>
      /\ \A i \in DOMAIN segments : segments'[i].records = segments[i].records
  BY <1>2, <1>5
<1>7. Last(segments').records = Last(segments).records
  BY <1>2, <1>6 DEF Last
<1>8. LastRecord' = LastRecord
  BY <1>1, <1>7 DEF LastRecord
<1>9. Held' = Held
  BY <1>1, <1>6 DEF Held
<1> QED
  BY <1>2, <1>6, <1>8, <1>9, SameLast DEF NothingRetained, EndStays

LEMMA EndAfterPrune ==
  ASSUME HistoryInv, AppendAnchor \/ RemoveSegment
  PROVE  EndStays
<1> DEFINE n == Len(segments)
<1>1. /\ pc \in {"ledger", "remove"} /\ active' = active
      /\ segments' = segments \/ segments' = Tail(segments)
  BY DEF AppendAnchor, RemoveSegment, Goto
<1>2. /\ segments \in Seq(SegmentFiles) /\ n \in Nat /\ DOMAIN segments = 1..n
      /\ job.drop \in 1..(n - 1)
  BY <1>1 DEF HistoryInv, FilesInv, JobInv
<1>3. n > 1 /\ segments # <<>>
  BY <1>2
<1>4. CASE segments' = segments
  BY <1>1, <1>3, <1>4, SameLast DEF EndStays, Held, NothingRetained, LastRecord
<1>5. CASE segments' = Tail(segments)
  <2>1. /\ DOMAIN segments' = 1..(n - 1) /\ Len(segments') = n - 1 /\ segments' # <<>>
        /\ \A i \in 1..(n - 1) : segments'[i] = segments[i + 1] /\ i + 1 \in 1..n
    BY <1>2, <1>3, <1>5
  <2>2. n - 1 \in 1..(n - 1) /\ (n - 1) + 1 = n
    BY <1>2, <1>3
  <2>3. Last(segments') = Last(segments)
    BY <2>1, <2>2 DEF Last
  <2>4. Held' \subseteq Held
    BY <1>1, <1>2, <2>1 DEF Held
  <2> QED
    BY <1>1, <1>3, <2>1, <2>3, <2>4, SameLast DEF EndStays, NothingRetained, LastRecord
<1> QED
  BY <1>1, <1>4, <1>5

\* What has been read is continued by what is left.
LEMMA ReaderStays ==
  ASSUME ReaderInv, reader' = reader, fault' # "loss" => fault # "loss" /\ EndStays
  PROVE  ReaderInv'
BY DEF ReaderInv, EndStays, Continues

\* A record that is appended is numbered and chained after the last.
LEMMA ReaderAppendStep ==
  ASSUME HistoryInv, ReaderInv, AppendLine
  PROVE  ReaderInv'
<1> DEFINE m == Len(active)
           x == [seq |-> LatestSequence + 1, event |-> written + 1, prev |-> LastRecordHash]
<1>1. /\ pc = "append" /\ active' = Append(active, x) /\ segments' = segments /\ ledger' = ledger
      /\ reader' = reader /\ fault' = fault
  BY DEF AppendLine, Goto
<1>2. x.seq = LatestSequence + 1 /\ x.event = written + 1 /\ x.prev = LastRecordHash
  OBVIOUS
<1> HIDE DEF x
<1>3. active \in Seq(Records) /\ m \in Nat /\ ~transaction
  BY <1>1 DEF HistoryInv, FilesInv, JobInv
<1>4. \A q \in Held : q.seq >= Anchor.next
  BY <1>3 DEF HistoryInv, FloorInv
<1>5. LatestSequence \in Nat /\ \A q \in Held : q.seq <= LatestSequence
  BY <1>4, LatestNumber DEF HistoryInv
<1>6. /\ active' # <<>> /\ Last(active') = x
      /\ \A i \in DOMAIN active' :
            (i \in DOMAIN active /\ active'[i] = active[i]) \/ active'[i] = x
  BY <1>1, <1>3 DEF Last
<1>7. \A q \in Held' : q \in Held \/ q = x
  <2>1. \A q \in ToSet(active') : q \in ToSet(active) \/ q = x
    BY <1>6 DEF ToSet
  <2> QED
    BY <1>1, <2>1 DEF Held
<1>8. LatestSequence' = x.seq /\ LastRecordHash' = x.event
  BY <1>6 DEF LatestSequence, LastRecordHash, LastRecord, NothingRetained
<1>9. ASSUME NEW r \in Records, Continues(r)
      PROVE  /\ r.seq <= LatestSequence'
             /\ \A q \in Held' : q.seq = r.seq + 1 => q.prev = r.event
             /\ r.seq = LatestSequence' => LastRecordHash' = r.event
  <2>1. r.seq \in Nat /\ r.seq <= LatestSequence
    BY <1>9, RecordFields DEF Continues
  <2>2. r.seq <= LatestSequence' /\ r.seq # LatestSequence'
    BY <1>2, <1>5, <1>8, <2>1
  <2>3. x.seq = r.seq + 1 => x.prev = r.event
    BY <1>2, <1>5, <1>9, <2>1 DEF Continues
  <2> QED
    BY <1>7, <1>9, <2>2, <2>3 DEF Continues
<1>10. reader.read # <<>> => Last(reader.read) \in Records
  BY Ends DEF ReaderInv
<1> QED
  BY <1>1, <1>9, <1>10 DEF ReaderInv, Continues

\* Any record that is retained is continued by the others.
LEMMA RetainedContinues ==
  ASSUME FilesInv, LinkInv, Reconstructs, NEW m \in 1..Len(Retained)
  PROVE  Continues(Retained[m])
<1> DEFINE n == Len(Retained)
           f == Anchor.next
<1>1. /\ f \in Nat \ {0} /\ n \in Nat /\ Retained \in Seq(Records) /\ Linked(Retained)
      /\ \A i \in 1..n : Retained[i].seq = f + i - 1
      /\ LatestSequence = f + n - 1
  BY RetainedNumbers
<1>2. ToSet(Retained) = Held /\ (~NothingRetained => Last(Retained) = LastRecord)
      /\ (Retained = <<>> <=> NothingRetained)
  BY RetainedRecords
<1> HIDE DEF f
<1>3. Retained[m].seq = f + m - 1 /\ Retained[m].seq <= LatestSequence /\ m \in Nat
  BY <1>1
<1>4. ASSUME NEW q \in Held, q.seq = Retained[m].seq + 1 PROVE q.prev = Retained[m].event
  <2>1. PICK j \in 1..n : q = Retained[j]
    BY <1>1, <1>2 DEF ToSet
  <2>2. q.seq = f + j - 1
    BY <1>1, <2>1
  <2>3. j = m + 1 /\ m \in 1..(n - 1)
    BY <1>1, <1>3, <1>4, <2>2
  <2>4. Follows(Retained[m], Retained[m + 1])
    BY <1>1, <2>3 DEF Linked
  <2> QED
    BY <2>1, <2>3, <2>4 DEF Follows
<1>5. ASSUME Retained[m].seq = LatestSequence PROVE LastRecordHash = Retained[m].event
  <2>1. m = n
    BY <1>1, <1>3, <1>5
  <2>2. Retained # <<>> /\ Last(Retained) = Retained[m]
    BY <1>1, <2>1 DEF Last
  <2> QED
    BY <1>2, <2>2 DEF LastRecordHash
<1> QED
  BY <1>3, <1>4, <1>5 DEF Continues

\* The first records of a chain are one.
LEMMA BeginningOfChain ==
  ASSUME NEW s \in Seq(Records), Linked(s), NEW c \in Nat \ {0}, c <= Len(s)
  PROVE  /\ SubSeq(s, 1, c) \in Seq(Records) /\ SubSeq(s, 1, c) # <<>>
         /\ Linked(SubSeq(s, 1, c)) /\ SubSeq(s, 1, c)[1] = s[1] /\ Last(SubSeq(s, 1, c)) = s[c]
<1> DEFINE p == SubSeq(s, 1, c)
<1>1. /\ p \in Seq(Records) /\ Len(p) = c /\ \A i \in 1..c : p[i] = s[i]
  <2>1. \A i \in 1..c : s[i] \in Records
    OBVIOUS
  <2>2. /\ p \in Seq(Records) /\ Len(p) = (IF 1 <= c THEN c - 1 + 1 ELSE 0)
        /\ \A i \in 1..(c - 1 + 1) : p[i] = s[1 + i - 1]
    BY <2>1, SubSeqProperties
  <2> HIDE DEF p
  <2> QED
    BY <2>2
<1> HIDE DEF p
<1>2. ASSUME NEW i \in 1..(c - 1) PROVE Follows(p[i], p[i + 1])
  <2>1. i \in 1..c /\ i + 1 \in 1..c /\ i \in 1..(Len(s) - 1)
    OBVIOUS
  <2> QED
    BY <1>1, <2>1 DEF Linked
<1>3. p # <<>> /\ 1 \in 1..c /\ c \in 1..c
  BY <1>1
<1> QED
  BY <1>1, <1>2, <1>3 DEF Linked, Last, p

\* What #queryOne finds, and the page it answers.
Matches(after) == Picked(Retained, {i \in DOMAIN Retained : Retained[i].seq > after})
Page(after, size) ==
    SubSeq(Matches(after), 1, IF Len(Matches(after)) < size THEN Len(Matches(after)) ELSE size)

\* A page is a piece of the chain that starts after the last event of the client.
LEMMA PageIs ==
  ASSUME FilesInv, LinkInv, Reconstructs, NEW after \in Nat,
         after > 0 => after >= Anchor.next - 1, NEW size \in Nat \ {0}, Page(after, size) # <<>>
  PROVE  /\ Page(after, size) \in Seq(Records) /\ Linked(Page(after, size))
         /\ Page(after, size)[1] \in Held
         /\ after > 0 => Page(after, size)[1].seq = after + 1
         /\ \E m \in 1..Len(Retained) : Last(Page(after, size)) = Retained[m]
<1> DEFINE matches == Matches(after)
           page == Page(after, size)
           c == IF Len(matches) < size THEN Len(matches) ELSE size
<1>0. page = SubSeq(matches, 1, c) /\ page # <<>>
  BY DEF Page
<1> HIDE DEF page, c
<1> DEFINE n == Len(Retained)
           f == Anchor.next
           a == IF after = 0 THEN 1 ELSE after - f + 2
           I == {i \in DOMAIN Retained : Retained[i].seq > after}
<1>1. /\ f \in Nat \ {0} /\ n \in Nat /\ Retained \in Seq(Records) /\ Linked(Retained)
      /\ \A i \in 1..n : Retained[i].seq = f + i - 1
  BY RetainedNumbers
<1>2. ToSet(Retained) = Held /\ DOMAIN Retained = 1..n
  BY <1>1, RetainedRecords
<1>3. after > 0 => after >= f - 1
  OBVIOUS
<1> HIDE DEF n, f
<1>4. a \in Nat \ {0} /\ (after > 0 => f + a - 1 = after + 1)
  BY <1>1, <1>3
<1>5. \A i \in 1..n : f + i - 1 > after <=> i >= a
  BY <1>1, <1>3
<1>6. \A i \in 1..n : Retained[i].seq > after <=> i >= a
  BY <1>1, <1>5
<1> HIDE DEF a
<1>7. \A i : i \in I <=> i \in 1..n /\ i >= a
  BY <1>2, <1>6
<1>8. a <= n
  <2>1. SUFFICES ASSUME ~(a <= n) PROVE FALSE
    OBVIOUS
  <2>2. I = (n + 1)..n
    <3>1. \A i \in 1..n : ~(i >= a)
      BY <1>1, <1>4, <2>1
    <3>2. \A i : i \notin (n + 1)..n
      BY <1>1
    <3> HIDE DEF I
    <3> QED
      BY <1>7, <3>1, <3>2
  <2>3. n + 1 \in Nat \ {0} /\ n <= Len(Retained) /\ n + 1 <= n + 1 /\ n - (n + 1) + 1 = 0
    BY <1>1 DEF n
  <2>4. matches \in Seq(Records) /\ Len(matches) = 0
    <3>1. /\ Picked(Retained, (n + 1)..n) \in Seq(Records)
          /\ Len(Picked(Retained, (n + 1)..n)) = n - (n + 1) + 1
      BY <1>1, <2>3, PickedInterval
    <3>2. matches = Picked(Retained, (n + 1)..n)
      BY <2>2 DEF Matches
    <3> QED
      BY <2>3, <3>1, <3>2
  <2>5. page = SubSeq(matches, 1, 0)
    BY <1>0, <2>4 DEF c
  <2>6. page = <<>>
    BY <2>4, <2>5
  <2> QED
    BY <1>0, <2>6
<1>9. I = a..n
  <2>1. \A i : i \in a..n <=> i \in 1..n /\ i >= a
    BY <1>1, <1>4
  <2> HIDE DEF I
  <2> QED
    BY <1>7, <2>1
<1>10. matches = Picked(Retained, a..n)
  BY <1>9 DEF Matches
<1> HIDE DEF matches
<1>11. /\ matches \in Seq(Records) /\ matches # <<>> /\ Len(matches) = n - a + 1 /\ Linked(matches)
       /\ \A k \in 1..(n - a + 1) : matches[k] = Retained[a + k - 1]
  <2>1. n <= Len(Retained)
    BY <1>1 DEF n
  <2>2. /\ Picked(Retained, a..n) \in Seq(Records) /\ Picked(Retained, a..n) # <<>>
        /\ Len(Picked(Retained, a..n)) = n - a + 1 /\ Linked(Picked(Retained, a..n))
        /\ \A k \in 1..(n - a + 1) : Picked(Retained, a..n)[k] = Retained[a + k - 1]
                                    /\ a + k - 1 \in a..n
    BY <1>1, <1>4, <1>8, <2>1, RangeOfChain
  <2> QED
    BY <1>10, <2>2
<1>12. c \in Nat \ {0} /\ c <= Len(matches)
  <2>1. Len(matches) \in Nat \ {0}
    BY <1>1, <1>4, <1>8, <1>11
  <2> QED
    BY <2>1 DEF c
<1>13. /\ page \in Seq(Records) /\ Linked(page) /\ page[1] = matches[1] /\ Last(page) = matches[c]
  <2>1. /\ SubSeq(matches, 1, c) \in Seq(Records) /\ Linked(SubSeq(matches, 1, c))
        /\ SubSeq(matches, 1, c)[1] = matches[1] /\ Last(SubSeq(matches, 1, c)) = matches[c]
    BY <1>11, <1>12, BeginningOfChain
  <2> QED
    BY <1>0, <2>1
<1>14. /\ 1 \in 1..(n - a + 1) /\ c \in 1..(n - a + 1) /\ a + 1 - 1 = a /\ a \in 1..n
       /\ a + c - 1 \in 1..n
  BY <1>1, <1>4, <1>8, <1>11, <1>12
<1>15. page[1] = Retained[a] /\ Last(page) = Retained[a + c - 1]
  BY <1>11, <1>13, <1>14
<1>16. page[1] \in Held
  BY <1>2, <1>14, <1>15 DEF ToSet
<1>17. after > 0 => page[1].seq = after + 1
  BY <1>1, <1>4, <1>14, <1>15
<1> QED
  BY <1>13, <1>14, <1>15, <1>16, <1>17 DEF n, page

\* A client's next page continues what it has read.
LEMMA ReaderQueryStep ==
  ASSUME HistoryInv, LinkInv, ReaderInv, NEW size \in PageSizes, Query(size)
  PROVE  ReaderInv'
<1> DEFINE page == Page(reader.after, size)
<1>1. /\ Reconstructs /\ UNCHANGED <<active, segments, ledger, fault>>
      /\ HistoryPruned \/ page # <<>>
      /\ reader' = IF HistoryPruned THEN [from |-> 0, after |-> 0, read |-> <<>>]
                   ELSE [from |-> IF reader.after = 0 THEN page[1].seq ELSE reader.from,
                         after |-> Last(page).seq, read |-> reader.read \o page]
  BY DEF Query, files, ghosts, Page, Matches
<1>2. UNCHANGED <<LatestSequence, LastRecordHash, Held>>
  BY <1>1 DEF LatestSequence, LastRecordHash, LastRecord, NothingRetained, Anchor, Held
<1>3. CASE HistoryPruned
  <2> HIDE DEF page
  <2> QED
    BY <1>1, <1>3 DEF ReaderInv
<1>4. CASE ~HistoryPruned
  <2>1. /\ reader.read \in Seq(Records)
        /\ reader.read = <<>> => reader.after = 0
        /\ reader.read # <<>> =>
             /\ Last(reader.read) \in Records /\ reader.after = Last(reader.read).seq
             /\ reader.after \in Nat \ {0}
    BY Ends, RecordFields DEF ReaderInv
  <2>2. reader.after \in Nat /\ (reader.after > 0 <=> reader.read # <<>>)
    <3>1. CASE reader.read = <<>>
      BY <2>1, <3>1
    <3>2. CASE reader.read # <<>>
      BY <2>1, <3>2
    <3> QED
      BY <3>1, <3>2
  <2>3. Anchor.next \in Nat \ {0}
    BY AnchorType DEF HistoryInv
  <2>4. reader.after > 0 => reader.after >= Anchor.next - 1
    BY <1>4, <2>2, <2>3 DEF HistoryPruned
  <2>5. size \in Nat \ {0} /\ page # <<>>
    BY <1>1, <1>4, EventHistoryAssumption
  <2>6. /\ page \in Seq(Records) /\ Linked(page) /\ page[1] \in Held
        /\ reader.after > 0 => page[1].seq = reader.after + 1
        /\ \E m \in 1..Len(Retained) : Last(page) = Retained[m]
    <3>1. ASSUME NEW after \in Nat, after > 0 => after >= Anchor.next - 1, Page(after, size) # <<>>
          PROVE  /\ Page(after, size) \in Seq(Records) /\ Linked(Page(after, size))
                 /\ Page(after, size)[1] \in Held
                 /\ after > 0 => Page(after, size)[1].seq = after + 1
                 /\ \E m \in 1..Len(Retained) : Last(Page(after, size)) = Retained[m]
      BY <1>1, <2>5, <3>1, PageIs DEF HistoryInv
    <3> QED
      BY <2>2, <2>4, <2>5, <3>1
  <2>7. Continues(Last(page))
    BY <1>1, <2>6, RetainedContinues DEF HistoryInv
  <2>8. reader' = [from |-> IF reader.after = 0 THEN page[1].seq ELSE reader.from,
                   after |-> Last(page).seq, read |-> reader.read \o page]
    BY <1>1, <1>4
  <2> HIDE DEF page
  <2>9. /\ reader' = [from |-> reader'.from, after |-> reader'.after, read |-> reader'.read]
        /\ reader'.from = (IF reader.after = 0 THEN page[1].seq ELSE reader.from)
        /\ reader'.after = Last(page).seq /\ reader'.read = reader.read \o page
    BY <2>8
  <2>10. /\ reader'.read \in Seq(Records) /\ reader'.read # <<>> /\ Last(reader'.read) = Last(page)
         /\ fault # "loss" => Linked(reader'.read) /\ reader'.read[1].seq = reader'.from
    <3>1. CASE reader.read = <<>>
      <4>1. reader'.read = page
        BY <2>6, <2>9, <3>1
      <4> QED
        BY <2>1, <2>5, <2>6, <2>9, <3>1, <4>1
    <3>2. CASE reader.read # <<>>
      <4>1. /\ reader'.read \in Seq(Records)
            /\ Len(reader'.read) = Len(reader.read) + Len(page)
            /\ \A i \in 1..Len(page) : reader'.read[Len(reader.read) + i] = page[i]
        <5>1. ASSUME NEW s \in Seq(Records), NEW t \in Seq(Records)
              PROVE  /\ s \o t \in Seq(Records) /\ Len(s \o t) = Len(s) + Len(t)
                     /\ \A i \in 1..Len(t) : (s \o t)[Len(s) + i] = t[i]
          BY Joined
        <5>2. /\ reader.read \o page \in Seq(Records)
              /\ Len(reader.read \o page) = Len(reader.read) + Len(page)
              /\ \A i \in 1..Len(page) : (reader.read \o page)[Len(reader.read) + i] = page[i]
          BY <2>1, <2>6, <5>1
        <5> QED
          BY <2>9, <5>2
      <4>2. Len(reader.read) \in Nat /\ Len(page) \in 1..Len(page)
            /\ Last(page) = page[Len(page)]
        BY <2>1, <2>5, <2>6, Ends
      <4>3. reader'.read # <<>> /\ Last(reader'.read) = Last(page)
        BY <4>1, <4>2 DEF Last
      <4>4. ASSUME fault # "loss" PROVE Linked(reader'.read) /\ reader'.read[1].seq = reader'.from
        <5>1. Linked(reader.read) /\ reader.read[1].seq = reader.from /\ Continues(Last(reader.read))
          BY <3>2, <4>4 DEF ReaderInv
        <5>2. page[1].seq = Last(reader.read).seq + 1
          BY <2>1, <2>2, <2>6, <3>2
        <5>3. Follows(Last(reader.read), page[1])
          BY <2>6, <5>1, <5>2 DEF Continues, Follows
        <5>4. Linked(reader.read \o page) /\ (reader.read \o page)[1] = reader.read[1]
          <6>1. ASSUME NEW s \in Seq(Records), NEW t \in Seq(Records), Linked(s), Linked(t),
                       s # <<>>, t # <<>>, Follows(Last(s), t[1])
                PROVE  Linked(s \o t) /\ (s \o t)[1] = s[1]
            BY <6>1, JoinedIsLinked
          <6> QED
            BY <2>1, <2>5, <2>6, <3>2, <5>1, <5>3, <6>1
        <5> QED
          BY <2>1, <2>9, <3>2, <5>1, <5>4
      <4> QED
        BY <4>1, <4>3, <4>4
    <3> QED
      BY <3>1, <3>2
  <2> QED
    BY <1>1, <1>2, <2>7, <2>9, <2>10 DEF ReaderInv, Continues
<1> QED
  BY <1>3, <1>4


\* Of the other steps none touches what the client has.
LEMMA ReaderOthersSteps ==
  ASSUME ReaderInv, fault \in {"none", "fault", "loss"},
         \/ UNCHANGED historyVars
         \/ \E op \in HistoryOperations : Lock(op)
         \/ NameLock \/ Release \/ Refused \/ RecordBegins \/ SyncLine \/ ClearReceipt
         \/ RotateUnchanged \/ RotateBegins \/ RemoveJournal
         \/ \E old \in SUBSET DOMAIN segments : \E drop \in 0..Len(segments) : PruneBegins(old, drop)
         \/ \E p \in Policies : SetRetentionPolicy(p)
         \/ \E from, through \in Events : ExportRefused(from, through)
         \/ \E from, through \in Events : \E i \in 1..(Len(exports) + 1) :
               ExportBegins(from, through, i)
         \/ PublishExport \/ \E old \in SUBSET DOMAIN exports : PruneExportsBegins(old)
         \/ RemoveExport
         \/ \E o \in Operators : \/ RecoveryBegins(o) \/ RecoveryRemoves(o)
                                 \/ RecoveryReceipt(o) \/ RecoveryDies(o)
         \/ CallFails \/ NameFails \/ ServerDies
  PROVE  ReaderInv'
<1>1. UNCHANGED <<active, segments, ledger, reader>>
  BY DEF historyVars, files, ghosts, Lock, NameLock, Release, Refused, RecordBegins, SyncLine,
         ClearReceipt, RotateUnchanged, RotateBegins, RemoveJournal, PruneBegins,
         SetRetentionPolicy, ExportRefused, ExportBegins, PublishExport, PruneExportsBegins,
         RemoveExport, RecoveryBegins, RecoveryRemoves, RecoveryReceipt, RecoveryDies, CallFails,
         NameFails, ServerDies, Goto
<1>2. fault' # "loss" => fault # "loss"
  BY DEF historyVars, files, ghosts, Lock, NameLock, Release, Refused, RecordBegins, SyncLine,
         ClearReceipt, RotateUnchanged, RotateBegins, RemoveJournal, PruneBegins,
         SetRetentionPolicy, ExportRefused, ExportBegins, PublishExport, PruneExportsBegins,
         RemoveExport, RecoveryBegins, RecoveryRemoves, RecoveryReceipt, RecoveryDies, CallFails,
         NameFails, ServerDies, Goto, Faulted
<1> QED
  BY <1>1, <1>2, SameRecords, ReaderStays

LEMMA ReaderSteps ==
  ASSUME HistoryInv, LinkInv, ReaderInv, fault \in {"none", "fault", "loss"},
         [HistoryNext]_historyVars
  PROVE  ReaderInv'
<1>1. CASE UNCHANGED historyVars
  BY <1>1, ReaderOthersSteps
<1>2. CASE MoveActive \/ SealSegment \/ PublishManifest \/ AppendAnchor \/ RemoveSegment
  <2>1. reader' = reader /\ fault' = fault
    BY <1>2 DEF MoveActive, SealSegment, PublishManifest, AppendAnchor, RemoveSegment, Goto
  <2> QED
    BY <1>2, <2>1, EndAfterMove, EndAfterPublish, EndAfterPrune, ReaderStays
<1>3. CASE PowerFails
  <2>1. reader' = reader /\ UNCHANGED <<segments, ledger>>
    BY <1>3 DEF PowerFails
  <2>2. fault' # "loss" => fault # "loss" /\ active' = active
    BY <1>3 DEF PowerFails, Faulted
  <2> QED
    BY <2>1, <2>2, SameRecords, ReaderStays
<1>4. CASE HistoryNext
  BY <1>2, <1>3, <1>4, ReaderOthersSteps, ReaderAppendStep, ReaderQueryStep DEF HistoryNext
<1> QED
  BY <1>1, <1>4
-----------------------------------------------------------------------------
(* The lock. *)

\* Steps of an operation under way.
LEMMA LockStays ==
  ASSUME LockInv, UNCHANGED <<lock, life, tool>>,
         pc' = pc \/ (pc \notin {"idle", "name"} /\ pc' \notin {"idle", "name"})
  PROVE  LockInv'
BY DEF LockInv, LockStale

LEMMA LockOperationSteps ==
  ASSUME LockInv,
         \/ Refused \/ RecordBegins \/ AppendLine \/ SyncLine \/ ClearReceipt
         \/ RotateUnchanged \/ RotateBegins \/ MoveActive \/ SealSegment \/ PublishManifest
         \/ RemoveJournal
         \/ \E old \in SUBSET DOMAIN segments : \E drop \in 0..Len(segments) : PruneBegins(old, drop)
         \/ AppendAnchor \/ RemoveSegment
         \/ \E p \in Policies : SetRetentionPolicy(p)
         \/ \E from, through \in Events : ExportRefused(from, through)
         \/ \E from, through \in Events : \E i \in 1..(Len(exports) + 1) :
               ExportBegins(from, through, i)
         \/ PublishExport \/ \E old \in SUBSET DOMAIN exports : PruneExportsBegins(old)
         \/ RemoveExport \/ CallFails
  PROVE  LockInv'
<1>1. UNCHANGED <<lock, life, tool>>
  BY DEF Refused, RecordBegins, AppendLine, SyncLine, ClearReceipt, RotateUnchanged, RotateBegins,
         MoveActive, SealSegment, PublishManifest, RemoveJournal, PruneBegins, AppendAnchor,
         RemoveSegment, SetRetentionPolicy, ExportRefused, ExportBegins, PublishExport,
         PruneExportsBegins, RemoveExport, CallFails, Goto
<1>2. pc \notin {"idle", "name"}
  BY DEF Refused, RecordBegins, AppendLine, SyncLine, ClearReceipt, RotateUnchanged, RotateBegins,
         MoveActive, SealSegment, PublishManifest, RemoveJournal, PruneBegins, AppendAnchor,
         RemoveSegment, SetRetentionPolicy, ExportRefused, ExportBegins, PublishExport,
         PruneExportsBegins, RemoveExport, CallFails, Begins
<1>3. pc' \notin {"idle", "name"}
  BY DEF Refused, RecordBegins, AppendLine, SyncLine, ClearReceipt, RotateUnchanged, RotateBegins,
         MoveActive, SealSegment, PublishManifest, RemoveJournal, PruneBegins, AppendAnchor,
         RemoveSegment, SetRetentionPolicy, ExportRefused, ExportBegins, PublishExport,
         PruneExportsBegins, RemoveExport, CallFails, Goto
<1> QED
  BY <1>1, <1>2, <1>3, LockStays

\* The lock is taken, given back, or left by a process that ends.
LEMMA LockServerSteps ==
  ASSUME LockInv,
         \/ \E op \in HistoryOperations : Lock(op)
         \/ NameLock \/ Release \/ NameFails \/ ServerDies \/ PowerFails
  PROVE  LockInv'
<1>1. /\ life \in 1..MaxLives /\ life \in Nat /\ MaxLives \in Nat
      /\ lock \in {NoLock, Unnamed} \cup 1..life
      /\ \A o \in Operators : tool[o] = "remove" => lock \notin {NoLock, Unnamed, life}
      /\ tool \in [Operators -> {"idle", "remove", "receipt"}]
  BY EventHistoryAssumption DEF LockInv, LockStale
<1>2. CASE \/ \E op \in HistoryOperations : Lock(op)
           \/ NameLock \/ Release \/ NameFails
  <2>1. UNCHANGED <<life, tool>> /\ lock \in {NoLock, Unnamed, life}
    BY <1>2 DEF Lock, NameLock, Release, NameFails, LockInv
  <2>2. \A o \in Operators : tool[o] # "remove"
    BY <1>1, <2>1
  <2>3. lock' \in {NoLock, Unnamed} \cup 1..life
    BY <1>1, <1>2 DEF Lock, NameLock, Release, NameFails
  <2>4. /\ pc' = "name" => lock' = Unnamed
        /\ pc' \notin {"idle", "name"} => lock' = life
    BY <1>2 DEF Lock, NameLock, Release, NameFails
  <2> QED
    BY <1>1, <2>1, <2>2, <2>3, <2>4 DEF LockInv
<1>3. CASE ServerDies
  <2>1. life < MaxLives /\ life' = life + 1 /\ pc' = "idle" /\ UNCHANGED <<lock, tool>>
    BY <1>3 DEF ServerDies, Restarts
  <2>2. life' \in 1..MaxLives /\ lock' \in {NoLock, Unnamed} \cup 1..life'
    BY <1>1, <2>1
  <2>3. \A o \in Operators : tool'[o] = "remove" => lock' \notin {NoLock, Unnamed, life'}
    BY <1>1, <2>1 DEF NoLock, Unnamed
  <2> QED
    BY <1>1, <2>1, <2>2, <2>3 DEF LockInv, LockStale
<1>4. CASE PowerFails
  <2>1. /\ life < MaxLives /\ life' = life + 1 /\ pc' = "idle" /\ lock' = NoLock
        /\ tool' = [o \in Operators |-> "idle"]
    BY <1>4 DEF PowerFails, Restarts
  <2>2. life' \in 1..MaxLives
    BY <1>1, <2>1
  <2> QED
    BY <2>1, <2>2 DEF LockInv
<1> QED
  BY <1>2, <1>3, <1>4

\* The tool removes a lock that was stale when it looked, and nobody has taken
\* since: it is the only one that removes such a lock.
LEMMA LockOthersSteps ==
  ASSUME \A o, p \in Operators : o = p, LockInv,
         \/ UNCHANGED historyVars
         \/ \E size \in PageSizes : Query(size)
         \/ \E o \in Operators : \/ RecoveryBegins(o) \/ RecoveryRemoves(o)
                                 \/ RecoveryReceipt(o) \/ RecoveryDies(o)
  PROVE  LockInv'
<1>1. CASE UNCHANGED historyVars \/ \E size \in PageSizes : Query(size)
  <2>1. UNCHANGED <<lock, life, tool, pc>>
    BY <1>1 DEF historyVars, server, Query
  <2> QED
    BY <2>1, LockStays
<1>2. ASSUME NEW o \in Operators, RecoveryBegins(o) \/ RecoveryReceipt(o) \/ RecoveryDies(o)
      PROVE  LockInv'
  <2>1. UNCHANGED <<lock, life, pc>>
    BY <1>2 DEF RecoveryBegins, RecoveryReceipt, RecoveryDies, server
  <2>2. PICK t \in {"idle", "remove"} :
           tool' = [tool EXCEPT ![o] = t] /\ (t = "remove" => LockStale)
    BY <1>2 DEF RecoveryBegins, RecoveryReceipt, RecoveryDies
  <2>3. /\ tool' \in [Operators -> {"idle", "remove", "receipt"}]
        /\ \A p \in Operators : tool'[p] = "remove" => LockStale
    BY <2>2 DEF LockInv
  <2> QED
    BY <2>1, <2>3 DEF LockInv, LockStale
<1>3. ASSUME NEW o \in Operators, RecoveryRemoves(o) PROVE LockInv'
  <2>1. tool[o] = "remove" /\ lock' = NoLock /\ UNCHANGED <<life, pc>>
    BY <1>3 DEF RecoveryRemoves, server
  <2>2. PICK t \in {"idle", "receipt"} : tool' = [tool EXCEPT ![o] = t]
    BY <1>3 DEF RecoveryRemoves
  <2>3. pc = "idle"
    BY <2>1 DEF LockInv, LockStale
  <2>4. /\ tool' \in [Operators -> {"idle", "remove", "receipt"}]
        /\ \A p \in Operators : tool'[p] # "remove"
    BY <2>2 DEF LockInv
  <2> QED
    BY <2>1, <2>3, <2>4 DEF LockInv
<1> QED
  BY <1>1, <1>2, <1>3

LEMMA LockSteps ==
  ASSUME \A o, p \in Operators : o = p, LockInv, [HistoryNext]_historyVars
  PROVE  LockInv'
<1>1. CASE UNCHANGED historyVars
  BY <1>1, LockOthersSteps
<1>2. CASE HistoryNext
  BY <1>2, LockOperationSteps, LockServerSteps, LockOthersSteps DEF HistoryNext
<1> QED
  BY <1>1, <1>2

LEMMA RestSteps ==
  ASSUME RestInv, [HistoryNext]_historyVars
  PROVE  RestInv'
<1>1. CASE \/ \E op \in HistoryOperations : Lock(op)
           \/ NameLock \/ Release \/ Refused \/ RecordBegins \/ AppendLine \/ SyncLine
           \/ RotateUnchanged \/ RotateBegins \/ MoveActive \/ SealSegment \/ PublishManifest
           \/ RemoveJournal
           \/ \E old \in SUBSET DOMAIN segments : \E drop \in 0..Len(segments) :
                 PruneBegins(old, drop)
           \/ AppendAnchor \/ RemoveSegment
           \/ \E p \in Policies : SetRetentionPolicy(p)
           \/ \E from, through \in Events : ExportRefused(from, through)
           \/ \E from, through \in Events : \E i \in 1..(Len(exports) + 1) :
                 ExportBegins(from, through, i)
           \/ PublishExport \/ \E old \in SUBSET DOMAIN exports : PruneExportsBegins(old)
           \/ RemoveExport \/ \E size \in PageSizes : Query(size)
           \/ UNCHANGED historyVars
  <2>1. UNCHANGED <<limit, damaged, receipt, fault>>
    BY <1>1 DEF Lock, NameLock, Release, Refused, RecordBegins, AppendLine, SyncLine,
            RotateUnchanged, RotateBegins, MoveActive, SealSegment, PublishManifest, RemoveJournal,
            PruneBegins, AppendAnchor, RemoveSegment, SetRetentionPolicy, ExportRefused,
            ExportBegins, PublishExport, PruneExportsBegins, RemoveExport, Query, Goto, files,
            server, ghosts, historyVars
  <2> QED
    BY <2>1 DEF RestInv
<1>2. CASE \/ ClearReceipt
           \/ \E o \in Operators : \/ RecoveryBegins(o) \/ RecoveryRemoves(o)
                                   \/ RecoveryReceipt(o) \/ RecoveryDies(o)
  <2>1. UNCHANGED <<limit, damaged, fault>> /\ receipt' \in {receipt, TRUE, FALSE}
    BY <1>2 DEF ClearReceipt, RecoveryBegins, RecoveryRemoves, RecoveryReceipt, RecoveryDies, Goto,
            files, server, ghosts
  <2> QED
    BY <2>1 DEF RestInv
<1>3. CASE CallFails \/ NameFails \/ ServerDies \/ PowerFails
  <2>1. receipt' = receipt /\ limit' \in Limits
    BY <1>3 DEF CallFails, NameFails, ServerDies, PowerFails, Restarts, RestInv
  <2>2. fault' \in {"none", "fault", "loss"}
    BY <1>3 DEF CallFails, NameFails, ServerDies, PowerFails, Faulted, RestInv
  <2>3. damaged' \in {damaged, damaged \/ Tearing, TRUE}
    BY <1>3 DEF CallFails, NameFails, ServerDies, PowerFails, files
  <2>4. damaged \in BOOLEAN
    BY DEF RestInv
  <2>5. damaged' \in BOOLEAN
    BY <2>3, <2>4
  <2> QED
    BY <2>1, <2>2, <2>5 DEF RestInv
<1> QED
  BY <1>1, <1>2, <1>3 DEF HistoryNext
-----------------------------------------------------------------------------
(* The history is sound. *)

SoundInv ==
    /\ HistoryInv /\ ChainInv /\ SealedInv /\ PublishedInv /\ ExportInv /\ ReaderInv /\ RestInv

LEMMA SoundStarts == HistoryInit => SoundInv /\ LockInv
<1> SUFFICES ASSUME HistoryInit PROVE SoundInv /\ LockInv
  OBVIOUS
<1>1. /\ active = <<>> /\ segments = <<>> /\ ledger = <<>> /\ transaction = FALSE
      /\ damaged = FALSE /\ exports = <<>> /\ receipt = FALSE /\ lock = NoLock
      /\ life = 1 /\ limit \in Limits /\ pc = "idle" /\ fault = "none"
      /\ tool = [o \in Operators |-> "idle"]
      /\ reader = [from |-> 0, after |-> 0, read |-> <<>>]
  BY DEF HistoryInit
<1>2. DOMAIN active = {} /\ DOMAIN segments = {} /\ DOMAIN ledger = {} /\ DOMAIN exports = {}
      /\ Len(active) = 0 /\ Len(segments) = 0
  BY <1>1
<1>3. \A i : i \notin 1..(0 - 1)
  OBVIOUS
<1>4. ChainInv
  BY <1>1, <1>2, <1>3 DEF ChainInv, LinkInv, Linked, StartInv, LedgerInv
<1>5. SealedInv /\ PublishedInv
  BY <1>1, <1>2 DEF SealedInv, JournalInUse, PublishedInv
<1>6. ExportInv
  <2>1. <<>> \in Seq(ExportFiles)
    OBVIOUS
  <2> QED
    BY <1>1, <1>2, <2>1 DEF ExportInv
<1>7. ReaderInv
  <2>1. <<>> \in Seq(Records)
    OBVIOUS
  <2>2. reader.from = 0 /\ reader.after = 0 /\ reader.read = <<>>
    BY <1>1
  <2> QED
    BY <1>1, <2>1, <2>2 DEF ReaderInv
<1>8. RestInv
  <2>1. damaged \in BOOLEAN /\ receipt \in BOOLEAN
    BY <1>1
  <2> QED
    BY <1>1, <2>1 DEF RestInv
<1>9. LockInv
  BY <1>1, EventHistoryAssumption DEF LockInv
<1> QED
  BY <1>4, <1>5, <1>6, <1>7, <1>8, <1>9, HistoryStarts DEF SoundInv

LEMMA SoundSteps ==
  ASSUME SoundInv, [HistoryNext]_historyVars
  PROVE  SoundInv'
<1>1. HistoryInv' /\ ChainInv' /\ RestInv'
  BY HistorySteps, ChainSteps, RestSteps DEF SoundInv
<1>2. ExportInv' /\ PublishedInv'
  BY ExportSteps DEF SoundInv, ChainInv
<1>3. SealedInv' /\ ReaderInv'
  BY SealedSteps, ReaderSteps DEF SoundInv, ChainInv, RestInv
<1> QED
  BY <1>1, <1>2, <1>3 DEF SoundInv

LEMMA SoundTypes ==
  ASSUME SoundInv, LockInv
  PROVE  HistoryTypeOK
<1>1. /\ active \in Seq(Records) /\ transaction \in BOOLEAN /\ policy \in Policies
      /\ written \in 0..MaxEvents /\ MaxEvents \in Nat
      /\ segments \in Seq(SegmentFiles) /\ ledger \in Seq(Anchors)
  BY EventHistoryAssumption DEF SoundInv, HistoryInv, FilesInv
<1>2. ASSUME NEW i \in DOMAIN segments
      PROVE  /\ segments[i].records \in Seq(Records)
             /\ segments[i].name \in {"candidate", "jsonl"}
             /\ segments[i].manifest \in {"none", "final"}
             /\ segments[i].previous \in Events \cup {Genesis}
  <2>1. segments[i] \in SegmentFiles
    BY SegmentType DEF SoundInv, HistoryInv
  <2> QED
    BY <2>1 DEF SegmentFiles, Hashes
<1>3. ASSUME NEW i \in DOMAIN ledger PROVE ledger[i].next \in Nat /\ ledger[i].prev \in Events
  <2>1. ledger[i] \in Anchors
    BY <1>1
  <2>2. ledger[i].prev \in Events
    BY DEF SoundInv, ChainInv, LedgerInv
  <2> QED
    BY <2>1, <2>2 DEF Anchors
<1>4. ASSUME NEW i \in DOMAIN exports
      PROVE  exports[i].data \in BOOLEAN /\ exports[i].manifest \in BOOLEAN
  <2>1. exports \in Seq(ExportFiles)
    BY DEF SoundInv, ExportInv
  <2>2. exports[i] \in ExportFiles
    BY <2>1
  <2> QED
    BY <2>2 DEF ExportFiles
<1>5. unsynced \in 0..MaxEvents /\ acked \subseteq Events
  BY <1>1 DEF SoundInv, HistoryInv, AckInv, Events
<1>6. lock \in {NoLock, Unnamed} \cup 1..MaxLives
  BY EventHistoryAssumption DEF LockInv
<1>7. limit \in Limits /\ damaged \in BOOLEAN /\ receipt \in BOOLEAN
      /\ fault \in {"none", "fault", "loss"}
  BY DEF SoundInv, RestInv
<1>8. reader.read \in Seq(Records)
  BY DEF SoundInv, ReaderInv
<1> QED
  BY <1>1, <1>2, <1>3, <1>4, <1>5, <1>6, <1>7, <1>8 DEF HistoryTypeOK, LockInv

LEMMA SoundReconstructs ==
  ASSUME SoundInv
  PROVE  UndisturbedStoreReconstructs
<1> SUFFICES ASSUME fault = "none", pc = "idle", Len(active) <= limit
             PROVE  Reconstructs /\ ExportsListed
  BY DEF UndisturbedStoreReconstructs
<1>1. ~damaged /\ JournalInUse /\ ~transaction
  BY DEF SoundInv, SealedInv, JournalInUse, Journalled
<1>2. segments \in Seq(SegmentFiles) /\ DOMAIN segments = 1..Len(segments) /\ Len(segments) \in Nat
  BY DEF SoundInv, HistoryInv, FilesInv
<1>3. ASSUME NEW i \in DOMAIN segments PROVE SegmentVerified(i)
  <2>1. segments[i].name = "jsonl" /\ segments[i].manifest = "final"
    BY DEF SoundInv, SealedInv
  <2>2. segments[i].records # <<>>
    BY SegmentType DEF SoundInv, HistoryInv
  <2>3. CASE i = 1
    <3>1. AtAnchor(segments[1])
      BY <1>1, <1>2, <2>3 DEF SoundInv, ChainInv, StartInv
    <3> QED
      BY <2>1, <2>2, <2>3, <3>1 DEF AtAnchor, SegmentVerified
  <2>4. CASE i # 1
    <3>1. i - 1 \in 1..(Len(segments) - 1) /\ (i - 1) + 1 = i
      BY <1>2, <2>4
    <3>2. segments[i].previous = ManifestHash(segments[i - 1])
      BY <3>1 DEF SoundInv, ChainInv, LinkInv
    <3> QED
      BY <2>1, <2>2, <2>4, <3>2 DEF SegmentVerified
  <2> QED
    BY <2>3, <2>4
<1>4. Chained(Retained, Anchor.next, Anchor.prev)
  <2>1. /\ Retained \in Seq(Records) /\ Linked(Retained)
        /\ Retained = <<>> <=> NothingRetained
        /\ segments = <<>> => Retained = active
        /\ segments # <<>> => Retained[1] = segments[1].records[1]
    BY RetainedRecords DEF SoundInv, HistoryInv, ChainInv
  <2>2. Anchor.next \in Nat
    BY AnchorType DEF SoundInv, HistoryInv
  <2>3. CASE Retained = <<>>
    <3>1. DOMAIN Retained = {}
      BY <2>3
    <3> QED
      BY <3>1 DEF Chained
  <2>4. CASE Retained # <<>>
    <3>1. Retained[1].seq = Anchor.next /\ Retained[1].prev = Anchor.prev
      <4>1. CASE segments = <<>>
        <5>1. active # <<>> /\ Retained = active
          BY <2>1, <2>4, <4>1
        <5> QED
          BY <1>1, <4>1, <5>1 DEF SoundInv, ChainInv, StartInv
      <4>2. CASE segments # <<>>
        <5>1. AtAnchor(segments[1])
          BY <1>1, <4>2 DEF SoundInv, ChainInv, StartInv
        <5> QED
          BY <2>1, <4>2, <5>1 DEF AtAnchor
      <4> QED
        BY <4>1, <4>2
    <3> QED
      BY <2>1, <2>2, <2>4, <3>1, LinkedIsChained
  <2> QED
    BY <2>3, <2>4
<1>5. ExportsListed
  BY DEF SoundInv, PublishedInv, ExportsListed
<1> QED
  BY <1>1, <1>3, <1>4, <1>5 DEF Reconstructs

LEMMA SoundPages ==
  ASSUME SoundInv
  PROVE  ReaderMissesNothing
<1> SUFFICES ASSUME fault # "loss", reader.read # <<>>
             PROVE  Chained(reader.read, reader.from, reader.read[1].prev)
  BY DEF ReaderMissesNothing
<1>1. reader.read \in Seq(Records) /\ Linked(reader.read) /\ reader.read[1].seq = reader.from
  BY DEF SoundInv, ReaderInv
<1>2. reader.from \in Nat
  BY <1>1, Ends, RecordFields
<1> QED
  BY <1>1, <1>2, LinkedIsChained

LEMMA SoundExports ==
  ASSUME SoundInv
  PROVE  ExportsAreComplete
<1> SUFFICES ASSUME NEW i \in DOMAIN exports
             PROVE  /\ Len(exports[i].events) = exports[i].through - exports[i].from + 1
                    /\ Chained(exports[i].events, exports[i].from, exports[i].events[1].prev)
  BY DEF ExportsAreComplete
<1> DEFINE e == exports[i]
           s == e.events
<1>1. e \in ExportFiles /\ Complete(e)
  BY DEF SoundInv, ExportInv
<1>2. /\ s \in Seq(Records) /\ s # <<>> /\ Linked(s) /\ s[1].seq = e.from
      /\ Len(s) = e.through - e.from + 1
  BY <1>1 DEF ExportFiles, Complete
<1>3. e.from \in Nat
  BY <1>1 DEF ExportFiles, Events
<1> QED
  BY <1>2, <1>3, LinkedIsChained

\* What file-segmented-administrative-event-history.ts writes it can read back:
\* whatever rotations, retentions and exports there were, whatever the number of
\* operators, an undisturbed history reconstructs and its exports are listed, a
\* client that pages through it misses nothing, and every export is complete.
THEOREM HistoryReadsBack ==
  HistorySpec => [](UndisturbedStoreReconstructs /\ ReaderMissesNothing /\ ExportsAreComplete)
<1>1. HistoryInit => SoundInv
  BY SoundStarts
<1>2. SoundInv /\ [HistoryNext]_historyVars => SoundInv'
  BY SoundSteps
<1>3. SoundInv => UndisturbedStoreReconstructs /\ ReaderMissesNothing /\ ExportsAreComplete
  BY SoundReconstructs, SoundPages, SoundExports
<1> QED
  BY <1>1, <1>2, <1>3, PTL DEF HistorySpec

\* With one operator at a time, the lock of file-event-history-writer-lock.ts
\* also belongs to the server throughout each of its operations, whatever the
\* stale-lock recovery of src/maintenance/event-history.ts does meanwhile.  With
\* two, the second may remove a lock that the server has taken since the first
\* removed the stale one.
THEOREM HistoryStaysSound ==
  ASSUME \A o, p \in Operators : o = p
  PROVE  HistorySpec => []HistoryIsSound
<1>1. HistoryInit => SoundInv /\ LockInv
  BY SoundStarts
<1>2. SoundInv /\ LockInv /\ [HistoryNext]_historyVars => (SoundInv /\ LockInv)'
  BY SoundSteps, LockSteps
<1>3. SoundInv /\ LockInv => HistoryIsSound
  <2> SUFFICES ASSUME SoundInv, LockInv PROVE HistoryIsSound
    OBVIOUS
  <2>1. WriterHoldsLock
    BY DEF LockInv, WriterHoldsLock
  <2> QED
    BY <2>1, SoundTypes, SoundReconstructs, SoundPages, SoundExports DEF HistoryIsSound
<1> QED
  BY <1>1, <1>2, <1>3, PTL DEF HistorySpec
=============================================================================
