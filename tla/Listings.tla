------------------------------- MODULE Listings -------------------------------
(***************************************************************************)
(* filter and sort of the language, defined by the order in which they     *)
(* visit the indexes of an array: what a listing of a set in a given order *)
(* is does not depend on the library of sequences.                         *)
(***************************************************************************)
EXTENDS Naturals, Sequences, FiniteSets

(* The members of S once each, in the order of the relation R.             *)
Listing(S, R) ==
    CHOOSE q \in [1..Cardinality(S) -> S] :
        \A i, j \in DOMAIN q : i < j => <<q[i], q[j]>> \in R

\* A set of numbers, the smallest first.
Ascending(I) == Listing(I, {ij \in I \X I : ij[1] < ij[2]})

EntriesAt(es, indexes) == [k \in DOMAIN indexes |-> es[indexes[k]]]

(* es.filter: the entries at the indexes of I, in turn.                    *)
Picked(es, I) == EntriesAt(es, Ascending(I))

(* es.sort: entries that are neither less nor greater keep their order.    *)
SortOrder(es, less(_, _)) ==
    {ij \in (DOMAIN es) \X (DOMAIN es) :
        \/ less(es[ij[1]], es[ij[2]])
        \/ ~less(es[ij[2]], es[ij[1]]) /\ ij[1] < ij[2]}
Sorted(es, less(_, _)) == EntriesAt(es, Listing(DOMAIN es, SortOrder(es, less)))
===============================================================================
