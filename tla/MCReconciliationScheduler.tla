---------------------- MODULE MCReconciliationScheduler ----------------------
(***************************************************************************)
(* A database (1) and a service that depends on it (2).                    *)
(***************************************************************************)
EXTENDS ReconciliationScheduler

Scheduled(open) == [mode |-> "scheduled", open |-> open]

MCServices == {1, 2}
MCDeps == (1 :> {}) @@ (2 :> {1})

\* Both open in minute 2; in minute 3 the database is still open, its dependent not.
MCPolicies == {Scheduled({2, 3}), Scheduled({2})}
MCBasePolicy == (1 :> Scheduled({2, 3})) @@ (2 :> Scheduled({2}))
=============================================================================
