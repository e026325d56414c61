------------------------ MODULE ReconciliationLedger ------------------------
(***************************************************************************)
(* What the reconciliation scheduler promises, as a ledger with two        *)
(* entries: how far reconciliation is complete, and how often each         *)
(* occurrence was handed to the orchestrator.                              *)
(***************************************************************************)
EXTENDS Naturals

CONSTANTS
    Occurrences,   \* scheduled operations, each with a field scheduledFor
    MaxStep        \* minutes one completion may span

VARIABLES
    through,       \* every minute up to this one is complete; 0 at first
    deliveries     \* [Occurrences -> Nat]

vars == <<through, deliveries>>

Init ==
    /\ through = 0
    /\ deliveries = [o \in Occurrences |-> 0]

\* An occurrence is delivered once, and never behind the completed minutes.
Deliver(o) ==
    /\ deliveries[o] = 0
    /\ o.scheduledFor > through
    /\ deliveries' = [deliveries EXCEPT ![o] = 1]
    /\ UNCHANGED through

\* Completion moves forward, after the first time by a bounded step.
Complete ==
    /\ through' > through
    /\ through = 0 \/ through' <= through + MaxStep
    /\ UNCHANGED deliveries

Next == Complete \/ \E o \in Occurrences : Deliver(o)

Spec == Init /\ [][Next]_vars
=============================================================================
