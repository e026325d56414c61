-------------------------- MODULE MCDashboardPage --------------------------
(***************************************************************************)
(* The page of the dashboard, and the requests to the API with the keys    *)
(* they wait for, followed to their end.  Each component keeps variables   *)
(* of its own, so a behaviour is one of a single part.                     *)
(***************************************************************************)
EXTENDS DashboardPage

CONSTANTS
    Parts,   \* the parts to consider
    Absent   \* an absent claim or field

VARIABLES
    part,                                                   \* the part this behaviour is of
    asks, todo, inside, pending, raised, trail, effect, answer, gates,
    active, admitted, windowOver,                           \* the requests
    now, tenant, jwks, flight, reqs, retiredAt, history     \* the keys

\* The two sections that share a read, and one with a read of its own; the
\* later reads of the section that is also polled and reread by operations.
ThreeSections == {"Services", "Schedules", "Settings"}
DetailedSections == {"Services"}

\* Two requests for one mutation gate.
HttpRequests == {"one", "other"}
Admin == INSTANCE AdministrativeRequests WITH
             Requests <- HttpRequests, Operations <- {"cancel_wake_alarm"},
             RolesOf <- [root |-> {"administrator"}], MaximumConcurrent <- 2,
             MaximumRequests <- 2, MayCrash <- FALSE

\* Two requests in need of a key, of which the tenant may publish another.
Assertion ==
    [headers |-> 1, compact |-> TRUE, segments |-> "canonical", header |-> "strict",
     kid |-> "key", signer |-> "key", iss |-> "tenant", aud |-> {"atlas"},
     sub |-> "ana", commonName |-> Absent, type |-> "app", iat |-> 0, nbf |-> Absent,
     exp |-> 9]
Keys == INSTANCE AccessKeys WITH
            AccessRequests <- HttpRequests, Credentials <- {Assertion}, Keys <- {"key", "next"},
            Audience <- "atlas", Issuer <- "tenant", Humans <- {"ana"},
            ServiceTokens <- <<>>, CacheLifetime <- 3, FailureCooldown <- 2,
            RequestTimeout <- 1, Tolerance <- 1, MaxKeys <- 2, MaxTime <- 4,
            MaxRotations <- 1, Nothing <- Absent

adminVars == <<asks, todo, inside, pending, raised, trail, effect, answer, gates,
               active, admitted, windowOver>>
keyVars == <<now, tenant, jwks, flight, reqs, retiredAt, history>>

ASSUME Admin!RequestsAssumption /\ Keys!AccessKeysAssumption

MCInit ==
    /\ part \in Parts
    /\ part # "events" => total = 0
    /\ part # "keys" => tenant = {"key"}
    /\ PageInit /\ Admin!Init /\ Keys!AccessInit

MCNext ==
    \/ /\ part = "sections" /\ Next
       /\ UNCHANGED <<part, eventVars, powerVars, adminVars, keyVars>>
    \/ /\ part = "events" /\ EventsNext
       /\ UNCHANGED <<part, vars, powerVars, adminVars, keyVars>>
    \/ /\ part = "power" /\ PowerNext
       /\ UNCHANGED <<part, vars, eventVars, adminVars, keyVars>>
    \/ /\ part = "requests" /\ Admin!Next
       /\ UNCHANGED <<part, vars, eventVars, powerVars, keyVars>>
    \/ /\ part = "keys" /\ Keys!AccessNext
       /\ UNCHANGED <<part, vars, eventVars, powerVars, adminVars>>

MCVars == <<part, vars, eventVars, powerVars, adminVars, keyVars>>

\* The server answers what it was asked, and the browser delivers it; the
\* fairness of the other components is theirs.
MCFairSpec ==
    /\ MCInit /\ [][MCNext]_MCVars
    /\ WF_vars(part = "sections" /\ Server)
    /\ WF_vars(part = "sections" /\ Browser)
    /\ \A r \in HttpRequests : WF_adminVars(part = "requests" /\ Admin!Handle(r))
    /\ WF_keyVars(part = "keys" /\ Keys!HeadersSettle)
    /\ WF_keyVars(part = "keys" /\ Keys!BodySettles)

-----------------------------------------------------------------------------
\* Nothing waits for ever: no section for its load, no button for its
\* operation, no client for its answer, a gate, or a refresh of the keys that
\* another one started.
EverythingSettles ==
    /\ part = "sections" => EverySectionSettles /\ EveryOperationEnds
    /\ Admin!RequestsAreAnswered /\ Admin!GatesBecomeFree
    /\ Keys!WaitingRequestsAreAnswered
=============================================================================
