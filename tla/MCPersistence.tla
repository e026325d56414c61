--------------------------- MODULE MCPersistence ---------------------------
(***************************************************************************)
(* What is kept in files: the event history with its lock, segments,       *)
(* retention and exports, and the small stores of the schedulers and       *)
(* policies.  They share no file, so a behaviour is one of a single part,  *)
(* and the others rest in an initial state.                                *)
(***************************************************************************)
EXTENDS EventHistory, FileStores

CONSTANTS
    Parts,    \* the parts to consider
    c1, c2    \* callers of a store

VARIABLES
    part      \* the part this behaviour is of

\* The smallest policy the code accepts, and one that keeps two segments.
Smallest == [minSegments |-> 1, maxSegments |-> 1, minExports |-> 0, maxExports |-> 1]
TwoSegments == [minSegments |-> 2, maxSegments |-> 2, minExports |-> 0, maxExports |-> 1]
MCPolicies == {Smallest, TwoSegments}

\* Two lives of the server, the maintenance tool and a client.
History == INSTANCE EventHistory WITH
               Limits <- {1}, Policies <- {Smallest}, MaxExports <- 0

\* Retention and exports in one life of the server, nobody else being there.
Retention == INSTANCE EventHistory WITH Limits <- {1}, PageSizes <- {}, MaxLives <- 1

\* A restart with another segment size.
Resized == INSTANCE EventHistory WITH
               Policies <- {Smallest}, MaxEvents <- 2, MaxExports <- 0

Symmetry == Permutations({c1, c2})

\* Every store, with two entries and two values.
MCKinds == {"overrides", "policies", "machine_policy", "service_cursor",
            "power_cursor", "service_claims", "power_claims", "backup_policies"}

ASSUME StoreAssumption

MCInit ==
    /\ part \in Parts
    /\ part # "stores" => kind = "overrides"
    /\ CASE part = "retention" -> Retention!HistoryInit
         [] part = "resized" -> Resized!HistoryInit
         [] OTHER -> History!HistoryInit
    /\ Init

MCNext ==
    \/ part = "history" /\ History!HistoryNext /\ UNCHANGED <<part, vars>>
    \/ part = "retention" /\ Retention!HistoryNext /\ UNCHANGED <<part, vars>>
    \/ part = "resized" /\ Resized!HistoryNext /\ UNCHANGED <<part, vars>>
    \/ part = "stores" /\ Next /\ UNCHANGED <<part, historyVars>>

MCSpec == MCInit /\ [][MCNext]_<<part, historyVars, vars>>
=============================================================================
