--------------------------- MODULE StoreOperations ---------------------------
(***************************************************************************)
(* What the operations of the small file stores compute: the overrides and  *)
(* the availability policies of services, the operating policy of the       *)
(* machine, the cursors and the claims of the two schedulers, the policies  *)
(* of backup targets.  Each store keeps one JSON document; here it is the   *)
(* sequence of its entries [id, value], in the order they are written.      *)
(*                                                                          *)
(* An id is a service, a target, or the time an occurrence is scheduled     *)
(* for; the value is the policy, the override, the cursor, or the rest of   *)
(* the occurrence.                                                          *)
(***************************************************************************)
EXTENDS Listings

CONSTANTS
    Ids,     \* identifiers of entries, in the order of their strings
    Values,  \* values of entries, in the order of their strings
    Kinds,   \* the stores to consider
    None     \* no entry, no expectation

Entry(id, value) == [id |-> id, value |-> value]

(* An operation answers, and either leaves the document or writes another.  *)
Answered(kind, value, es) ==
    [answer |-> [kind |-> kind, value |-> value], writes |-> FALSE, entries |-> es]
Writes(kind, es) ==
    [answer |-> [kind |-> kind, value |-> None], writes |-> TRUE, entries |-> es]

Lookup(es, id) ==
    IF \E i \in DOMAIN es : es[i].id = id
    THEN es[CHOOSE i \in DOMAIN es : es[i].id = id].value ELSE None

Without(es, id) == Picked(es, {i \in DOMAIN es : es[i].id # id})

ById(a, b) == a.id < b.id
ByOccurrence(a, b) == a.id < b.id \/ (a.id = b.id /\ a.value < b.value)

StrictlyAscending(es, less(_, _)) ==
    \A i \in 1 .. Len(es) - 1 : less(es[i], es[i + 1])

-----------------------------------------------------------------------------
(* The operations, one operator for each store.                             *)

Replace(es, id, value) ==
    Sorted(Append(Without(es, id), Entry(id, value)), ById)

OverrideOperation(op, es) ==
    CASE op.type = "find" -> Answered("found", Lookup(es, op.id), es)
      [] op.type = "save" -> Writes("done", Replace(es, op.id, op.value))
      [] op.type = "remove" /\ Lookup(es, op.id) = None -> Answered("done", None, es)
      [] op.type = "remove_if_matches" /\ Lookup(es, op.id) # op.value ->
             Answered("not_removed", None, es)
      [] OTHER -> Writes(IF op.type = "remove" THEN "done" ELSE "removed",
                         Without(es, op.id))

(* A removal writes even when there was nothing to remove.                  *)
PolicyOperation(op, es) ==
    CASE op.type = "find"   -> Answered("found", Lookup(es, op.id), es)
      [] op.type = "save"   -> Writes("done", Replace(es, op.id, op.value))
      [] op.type = "remove" -> Writes("done", Without(es, op.id))

(* One record; saving and removing do not look at the old document.         *)
MachinePolicyOperation(op, es) ==
    CASE op.type = "find"   -> Answered("found", Lookup(es, op.id), es)
      [] op.type = "save"   -> Writes("done", <<Entry(op.id, op.value)>>)
      [] op.type = "remove" -> Writes("done", <<>>)

(* Compare and set, forward only.                                           *)
CursorOperation(op, es) ==
    LET current == IF es = <<>> THEN None ELSE es[1].value IN
    IF op.type = "find" THEN Answered("found", current, es)
    ELSE IF op.expected # current THEN Answered("conflict", current, es)
    ELSE IF current # None /\ op.value <= current
    THEN Answered("non_forward_cursor", None, es)
    ELSE Writes("advanced", <<Entry(op.id, op.value)>>)

(* A claim is taken once; claims up to the cursor are dropped.              *)
ClaimOperation(op, es) ==
    LET retained == Picked(es, {i \in DOMAIN es : es[i].id > op.id})
        taken == \E i \in DOMAIN es : es[i] = Entry(op.id, op.value)
    IN CASE op.type = "claim" /\ taken -> Answered("duplicate", None, es)
         [] op.type = "claim" /\ ~taken ->
                Writes("claimed",
                       Sorted(Append(es, Entry(op.id, op.value)), ByOccurrence))
         [] op.type = "prune" /\ Len(retained) = Len(es) ->
                Answered("unchanged", None, es)
         [] OTHER -> Writes("pruned", retained)

(* The whole catalogue of targets is written from memory.                   *)
BackupPolicyOperation(op, es) ==
    Writes("done", [i \in Ids |-> Entry(i, op.value)])

Perform(kind, op, es) ==
    CASE kind = "overrides"       -> OverrideOperation(op, es)
      [] kind = "policies"        -> PolicyOperation(op, es)
      [] kind = "machine_policy"  -> MachinePolicyOperation(op, es)
      [] kind \in {"service_cursor", "power_cursor"} -> CursorOperation(op, es)
      [] kind \in {"service_claims", "power_claims"} -> ClaimOperation(op, es)
      [] kind = "backup_policies" -> BackupPolicyOperation(op, es)

(* Stores whose writers do not read the document first.                     *)
WritesBlindly(kind, op) ==
    \/ kind = "machine_policy" /\ op.type # "find"
    \/ kind = "backup_policies"

-----------------------------------------------------------------------------
(* The documents each store accepts.  A document is whole when it is UTF-8  *)
(* JSON of exactly the expected fields and version; a torn one is not.      *)

ParseOverrides(doc) == doc.whole /\ StrictlyAscending(doc.entries, ById)
ParsePolicies(doc)  == doc.whole /\ StrictlyAscending(doc.entries, ById)
ParseMachinePolicy(doc) == doc.whole /\ Len(doc.entries) <= 1
ParseServiceCursor(doc) == doc.whole /\ Len(doc.entries) = 1
ParsePowerCursor(doc)   == doc.whole /\ Len(doc.entries) = 1
ParseServiceClaims(doc) == doc.whole /\ StrictlyAscending(doc.entries, ByOccurrence)

(* No claim equals the one before it, and sorting moves none.               *)
ParsePowerClaims(doc) ==
    /\ doc.whole
    /\ \A i \in 1 .. Len(doc.entries) - 1 : doc.entries[i] # doc.entries[i + 1]
    /\ doc.entries = Sorted(doc.entries, ByOccurrence)

(* Every target exactly once.                                               *)
LoadBackupPolicies(doc) ==
    /\ doc.whole
    /\ Len(doc.entries) = Cardinality(Ids)
    /\ {doc.entries[i].id : i \in DOMAIN doc.entries} = Ids

Accepts(kind, doc) ==
    CASE kind = "overrides"       -> ParseOverrides(doc)
      [] kind = "policies"        -> ParsePolicies(doc)
      [] kind = "machine_policy"  -> ParseMachinePolicy(doc)
      [] kind = "service_cursor"  -> ParseServiceCursor(doc)
      [] kind = "power_cursor"    -> ParsePowerCursor(doc)
      [] kind = "service_claims"  -> ParseServiceClaims(doc)
      [] kind = "power_claims"    -> ParsePowerClaims(doc)
      [] kind = "backup_policies" -> LoadBackupPolicies(doc)

(* The operations callers ask of each store.                                *)
Operations(kind) ==
    LET keyed(types) == [type : types, id : Ids, value : Values, expected : {None}]
        single(types) == [type : types, id : {1}, value : Values, expected : {None}]
    IN CASE kind = "overrides"      -> keyed({"find", "save", "remove", "remove_if_matches"})
         [] kind = "policies"       -> keyed({"find", "save", "remove"})
         [] kind = "machine_policy" -> single({"find", "save", "remove"})
         [] kind \in {"service_cursor", "power_cursor"} ->
                [type : {"find", "advance"}, id : {1}, value : Values,
                 expected : Values \cup {None}]
         [] kind \in {"service_claims", "power_claims"} -> keyed({"claim", "prune"})
         [] kind = "backup_policies" -> single({"save"})

(* What callers are told.                                                   *)
Answers ==
    [kind : {"failed", "found", "done", "removed", "not_removed", "advanced", "conflict",
             "non_forward_cursor", "claimed", "duplicate", "unchanged", "pruned"},
     value : Nat \cup {None}]

(* The ids and values are ordered like numbers, the stores are those above, *)
(* and None is neither an operation nor an answer.                          *)
StoreAssumption ==
    /\ Ids = 1 .. Cardinality(Ids) /\ Values \subseteq Nat
    /\ Kinds \subseteq {"overrides", "policies", "machine_policy", "service_cursor",
                        "power_cursor", "service_claims", "power_claims", "backup_policies"}
    /\ \A kind \in Kinds : None \notin Operations(kind)
    /\ None \notin Answers
=============================================================================
