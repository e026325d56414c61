------------------------------ MODULE AuditLog ------------------------------
(***************************************************************************)
(* What the administrative event history promises its callers: events get  *)
(* dense sequence numbers in the order they are appended, an acknowledged  *)
(* event can only leave by the removal of a prefix, and an event that was  *)
(* never acknowledged may be lost, but only from the end.                  *)
(***************************************************************************)
EXTENDS Naturals, Functions

CONSTANT Events

VARIABLES
    entries,   \* [from..to -> Events], the history
    floor,     \* the sequence number before which events were pruned
    acked      \* the events whose record() call returned

vars == <<entries, floor, acked>>

Init == entries = <<>> /\ floor = 1 /\ acked = {}

\* The number the next event gets.
NextSequence == IF DOMAIN entries = {} THEN floor
                ELSE 1 + CHOOSE n \in DOMAIN entries : \A m \in DOMAIN entries : m <= n

AppendEvent(e) ==
    /\ entries' = [n \in DOMAIN entries \cup {NextSequence} |->
                       IF n = NextSequence THEN e ELSE entries[n]]
    /\ UNCHANGED <<floor, acked>>

Acknowledge(e) ==
    /\ \E n \in DOMAIN entries : entries[n] = e
    /\ acked' = acked \cup {e}
    /\ UNCHANGED <<entries, floor>>

\* What is pruned is a prefix, and never everything.
PruneBefore(n) ==
    /\ n \in DOMAIN entries /\ n > floor
    /\ entries' = Restrict(entries, {m \in DOMAIN entries : m >= n})
    /\ floor' = n
    /\ UNCHANGED acked

LoseLast ==
    /\ DOMAIN entries # {} /\ entries[NextSequence - 1] \notin acked
    /\ entries' = Restrict(entries, DOMAIN entries \ {NextSequence - 1})
    /\ UNCHANGED <<floor, acked>>

Next == \/ \E e \in Events : AppendEvent(e) \/ Acknowledge(e)
        \/ \E n \in DOMAIN entries : PruneBefore(n)
        \/ LoseLast

Spec == Init /\ [][Next]_vars
=============================================================================
