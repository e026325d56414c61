---------------------------- MODULE DashboardPage ----------------------------
(***************************************************************************)
(* The page of the dashboard: its sections and their loads, the list of    *)
(* events and the power controls.  They run in one browser and share no    *)
(* state, so what the page does is what each of them does.                 *)
(***************************************************************************)
EXTENDS Dashboard, DashboardEvents, DashboardPower

PageInit == Init /\ EventsInit /\ PowerInit

PageSpec == Spec /\ EventsSpec /\ PowerSpec
-----------------------------------------------------------------------------
\* The list of events, its cursor and the power controls agree with what the
\* server answered, and so do the sections, reads and loads with one another.
PageIsConsistent ==
    /\ TypeOK /\ DetailsFollow
    /\ CursorEndsTheList /\ ContiguousUnlessOverlapped
    /\ OnlyPreparedIsExecuted /\ DisabledOffersNothing

\* No answer, late or not, brings back what the page has left behind: an older
\* version of a section or of its later part, or an earlier prepared shutdown.
\* (A later read that fails does blank its part: ContentIsKept.)
NothingOldComesBack == ShownNeverGoesBack /\ PreparedNeverGoesBack
=============================================================================
