--------------------------- MODULE DashboardPower ---------------------------
(***************************************************************************)
(* The power controls of the dashboard (PowerControlsController): wake and *)
(* shutdown controls that every rendering of the overview replaces, and    *)
(* the prepared shutdown occurrence that lives across renderings.          *)
(*                                                                         *)
(* An occurrence is a number: the backend numbers the preparations it      *)
(* answers.  A server restarted with another configuration may enable or   *)
(* disable the controls, and the next overview says so.                    *)
(***************************************************************************)
EXTENDS Integers, FiniteSets

CONSTANTS
    MaxRenders,     \* bound on the renderings of the overview
    MaxMutations    \* bound on the mutations sent
ASSUME PowerControlsAssumption == MaxRenders \in Nat /\ MaxMutations \in Nat

VARIABLES
    renders,    \* #renderGeneration
    wake,       \* the wake controls are on the page
    enabled,    \* #shutdownEnabled: the preparation control is on the page
    prepared,   \* #preparedShutdownOccurrence
    offered,    \* occurrence of the execution control on the page
    mutations,  \* mutations whose handler has not returned
    sent,       \* mutations sent so far
    issued,     \* occurrences the backend returned, well formed
    executed    \* occurrences an execution was requested of

powerVars == <<renders, wake, enabled, prepared, offered, mutations, sent, issued, executed>>

None == 0
WakeMutations == {"schedule", "cancel"}     \* PUT, DELETE: a button each

PowerInit ==
    /\ renders = 0
    /\ wake = FALSE
    /\ enabled = FALSE
    /\ prepared = None
    /\ offered = None
    /\ mutations = {}
    /\ sent = 0
    /\ issued = {}
    /\ executed = {}

\* Variant: a rendering without shutdown controls keeps what is prepared.
RenderKeeping(wakeEnabled, shutdownEnabled) ==
    /\ renders < MaxRenders
    /\ renders' = renders + 1
    /\ wake' = wakeEnabled
    /\ enabled' = shutdownEnabled
    /\ prepared' = prepared
    /\ offered' = IF shutdownEnabled THEN prepared' ELSE None
    /\ UNCHANGED <<mutations, sent, issued, executed>>

\* render: by any refresh whose read of the overview succeeds.
RenderOverview(wakeEnabled, shutdownEnabled) ==
    /\ renders < MaxRenders
    /\ renders' = renders + 1
    /\ wake' = wakeEnabled
    /\ enabled' = shutdownEnabled
    /\ prepared' = IF shutdownEnabled THEN prepared ELSE None
    /\ offered' = IF shutdownEnabled THEN prepared' ELSE None
    /\ UNCHANGED <<mutations, sent, issued, executed>>
-----------------------------------------------------------------------------
(* runMutation. *)

Request(kind, occurrence) ==
    [kind |-> kind, rendering |-> renders, occurrence |-> occurrence, state |-> "sent", id |-> sent + 1]

\* Up to the await of transport.mutate: the button of this rendering was
\* enabled, and is disabled.
SendMutation(kind, occurrence) ==
    /\ sent < MaxMutations
    /\ \A r \in mutations : ~(r.kind = kind /\ r.rendering = renders)
    /\ mutations' = mutations \union {Request(kind, occurrence)}
    /\ sent' = sent + 1

MutateWake(kind) ==
    /\ wake
    /\ SendMutation(kind, None)
    /\ UNCHANGED <<renders, wake, enabled, prepared, offered, issued, executed>>

\* Variant: the occurrence is taken as prepared when its request is sent.
PrepareShutdownEagerly ==
    /\ enabled
    /\ SendMutation("preparation", None)
    /\ prepared' = sent + 1
    /\ UNCHANGED <<renders, wake, enabled, offered, issued, executed>>

\* The confirmed submit of the preparation control.
PrepareShutdown ==
    /\ enabled
    /\ SendMutation("preparation", None)
    /\ UNCHANGED <<renders, wake, enabled, prepared, offered, issued, executed>>

\* The confirmed click of the execution control.
ExecuteShutdown ==
    /\ offered # None
    /\ SendMutation("execution", offered)
    /\ executed' = executed \union {offered}
    /\ UNCHANGED <<renders, wake, enabled, prepared, offered, issued>>

\* The handler goes on to await the refresh.
Accept(r) ==
    mutations' = (mutations \ {r}) \union {[r EXCEPT !.state = "refreshing"]}

\* Variant: a late answer is taken whatever was rendered since.
PreparationAnsweredAnytime(r) ==
    /\ r.kind = "preparation" /\ r.state = "sent"
    /\ Accept(r)
    /\ issued' = issued \union {r.id}
    /\ prepared' = r.id
    /\ UNCHANGED <<renders, wake, enabled, offered, sent, executed>>

\* A well-formed occurrence is returned (readShutdownOccurrence): it counts
\* only for the rendering that asked for it.
PreparationAnswered(r) ==
    /\ r.kind = "preparation" /\ r.state = "sent"
    /\ Accept(r)
    /\ issued' = issued \union {r.id}
    /\ prepared' = IF enabled /\ r.rendering = renders THEN r.id ELSE prepared
    /\ UNCHANGED <<renders, wake, enabled, offered, sent, executed>>

\* Success clears what is prepared, whichever occurrence that is by now.
ExecutionAnswered(r) ==
    /\ r.kind = "execution" /\ r.state = "sent"
    /\ Accept(r)
    /\ prepared' = None
    /\ UNCHANGED <<renders, wake, enabled, offered, sent, issued, executed>>

WakeAnswered(r) ==
    /\ r.kind \in WakeMutations /\ r.state = "sent"
    /\ Accept(r)
    /\ UNCHANGED <<renders, wake, enabled, prepared, offered, sent, issued, executed>>

\* An error status, a lost answer, or a malformed occurrence.
MutationFailed(r) ==
    /\ r.state = "sent"
    /\ mutations' = mutations \ {r}
    /\ UNCHANGED <<renders, wake, enabled, prepared, offered, sent, issued, executed>>

\* The refresh has ended, having rendered the overview or not: the button is
\* enabled again.
MutationEnds(r) ==
    /\ r.state = "refreshing"
    /\ mutations' = mutations \ {r}
    /\ UNCHANGED <<renders, wake, enabled, prepared, offered, sent, issued, executed>>
-----------------------------------------------------------------------------
PowerAnswers ==
    \E r \in mutations :
        \/ PreparationAnswered(r) \/ ExecutionAnswered(r) \/ WakeAnswered(r)
        \/ MutationFailed(r) \/ MutationEnds(r)

PowerNext ==
    \/ \E w, s \in BOOLEAN : RenderOverview(w, s)
    \/ \E kind \in WakeMutations : MutateWake(kind)
    \/ PrepareShutdown \/ ExecuteShutdown
    \/ PowerAnswers

PowerSpec == PowerInit /\ [][PowerNext]_powerVars
-----------------------------------------------------------------------------
\* Only an occurrence that a well-formed answer of the backend returned is
\* executed, and only one the page offered: a preparation that is refused,
\* lost or malformed never leads to an execution (docs/dashboard.md:159,
\* "execution is not offered until a bounded backend response returns a valid
\* prepared occurrence").
OnlyPreparedIsExecuted == executed \subseteq issued /\ prepared \in issued \union {None}

\* While the newest overview disables shutdown, nothing is prepared and no
\* execution is offered, however late a preparation is answered: enabling it
\* again does not bring an old preparation back.
DisabledOffersNothing == ~enabled => prepared = None /\ offered = None

\* A preparation that was dropped or replaced is not taken up again: what is
\* prepared only moves to a newer preparation or to nothing.
PreparedAdvances == prepared' \in {prepared, None} \/ prepared' > prepared
PreparedNeverGoesBack == [][PreparedAdvances]_powerVars
=============================================================================
