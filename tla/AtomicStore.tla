---------------------------- MODULE AtomicStore ----------------------------
(***************************************************************************)
(* What a file store promises its callers: an operation either takes effect *)
(* and answers in one step, or fails and leaves the document as it was; a   *)
(* stop of the process leaves the document as it was and answers nobody.    *)
(***************************************************************************)
EXTENDS StoreOperations

CONSTANTS Callers

VARIABLES
    kind,     \* which store this is
    entries,  \* the entries of its document
    asked,    \* what each caller asked, or None
    answers   \* what each caller was answered, or None

Failed == [kind |-> "failed", value |-> None]

Init ==
    /\ kind \in Kinds
    /\ entries = <<>>
    /\ asked = [c \in Callers |-> None]
    /\ answers = [c \in Callers |-> None]

Ask(c, op) ==
    /\ asked[c] = None
    /\ asked' = [asked EXCEPT ![c] = op]
    /\ UNCHANGED <<kind, entries, answers>>

(* The operation happens.                                                   *)
Do(c) ==
    LET outcome == Perform(kind, asked[c], entries) IN
    /\ asked[c] # None /\ answers[c] = None
    /\ entries' = outcome.entries
    /\ answers' = [answers EXCEPT ![c] = outcome.answer]
    /\ UNCHANGED <<kind, asked>>

(* The operation does not happen, and the caller is told.                   *)
Refuse(c) ==
    /\ asked[c] # None /\ answers[c] = None
    /\ answers' = [answers EXCEPT ![c] = Failed]
    /\ UNCHANGED <<kind, entries, asked>>

(* The process stops: whoever waits is never answered, which is the same to *)
(* the document as a failure.                                               *)
Stop ==
    /\ answers' = [c \in Callers |->
                      IF asked[c] # None /\ answers[c] = None THEN Failed
                      ELSE answers[c]]
    /\ UNCHANGED <<kind, entries, asked>>

Next ==
    \/ \E c \in Callers : \/ \E op \in Operations(kind) : Ask(c, op)
                          \/ Do(c)
                          \/ Refuse(c)
    \/ Stop

Spec == Init /\ [][Next]_<<kind, entries, asked, answers>>
=============================================================================
