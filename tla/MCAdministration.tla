-------------------------- MODULE MCAdministration --------------------------
(***************************************************************************)
(* Requests to the administrative API, how their callers prove who they    *)
(* are, and the editor of the dashboard that composes the largest of them. *)
(* The API takes the outcome of the proof, and the body that arrives, as   *)
(* given, so the three share no state and a behaviour is one of a single   *)
(* part.                                                                   *)
(***************************************************************************)
EXTENDS AdministrativeRequests, AccessKeys, ScheduleEditor, TLC

CONSTANTS
  Parts,                 \* the parts to consider
  k1, k2, r1, r2, r3     \* keys and requests

VARIABLES
  part                   \* the part this behaviour is of

Contenders == {r1, r2, r3}
Symmetry == Permutations(Contenders)

-----------------------------------------------------------------------------
(* Three requests of one operation compete for two permits and a gate; one *)
(* request asks for any operation of the catalogue.                        *)

MCRoles ==
  [root |-> {"administrator"}, power |-> {"power_operator", "auditor"},
   stranger |-> {}]

Contended ==
  INSTANCE AdministrativeRequests WITH
    Operations <- {"cancel_wake_alarm"}, RolesOf <- [root |-> {"administrator"}]

ASSUME RequestsAssumption /\ Contended!RequestsAssumption

-----------------------------------------------------------------------------
(* For each kind of defect of an assertion, one credential that has it and *)
(* is good otherwise.                                                      *)

Human ==
  [headers |-> 1, compact |-> TRUE, segments |-> "canonical",
   header |-> "strict", kid |-> k1, signer |-> k1, iss |-> "tenant",
   aud |-> {"atlas"}, sub |-> "ana", commonName |-> Nothing, type |-> "app",
   iat |-> 0, nbf |-> Nothing, exp |-> 5]
Service == [Human EXCEPT !.sub = "", !.commonName = "cli"]
OtherKey == [Human EXCEPT !.kid = k2, !.signer = k2]

MCCredentials ==
  {Human, Service, OtherKey,
   [Human EXCEPT !.signer = k2],
   [Human EXCEPT !.headers = 0],
   [Human EXCEPT !.headers = 2],
   [Human EXCEPT !.compact = FALSE],
   [Human EXCEPT !.segments = "loose"],
   [Human EXCEPT !.header = "embedded"],
   [Human EXCEPT !.iss = Nothing],
   [Human EXCEPT !.iss = "elsewhere"],
   [Human EXCEPT !.aud = {"other"}],
   [Human EXCEPT !.aud = {"other", "atlas"}, !.exp = 2],
   [Human EXCEPT !.nbf = 3],
   [Human EXCEPT !.iat = 3],
   [Human EXCEPT !.type = "org"],
   [Service EXCEPT !.commonName = "unknown"],
   [Service EXCEPT !.sub = "guest"]}

MCServiceTokens == [cli |-> "cli-robot"]

\* Requests with good credentials, for either key.
Refreshing == INSTANCE AccessKeys WITH Credentials <- {Human, OtherKey}

ASSUME AccessKeysAssumption /\ Refreshing!AccessKeysAssumption

-----------------------------------------------------------------------------
(* Two days, two well-formed windows, and servers that hold one window on  *)
(* each day, two on one day, or no schedule.                               *)

Weekend == {"saturday", "sunday"}
Scheduled(saturday, sunday) ==
  [mode |-> "scheduled",
   windows |-> [d \in Weekend |-> IF d = "saturday" THEN saturday ELSE sunday]]
Daily == Scheduled(<<"morning">>, <<"evening">>)
TwiceADay == Scheduled(<<"morning", "evening">>, <<>>)

MCPolicies == {Daily, TwiceADay, [Scheduled(<<>>, <<>>) EXCEPT !.mode = "manual"]}

\* Two edits and a request at a time, or an edit and two requests.
Savings == INSTANCE ScheduleEditor WITH MaxEdits <- 1, MaxRequests <- 2

-----------------------------------------------------------------------------
MCInit ==
  /\ part \in Parts
  /\ part \notin {"credentials", "refreshes"} => tenant = {k1}
  /\ part \notin {"edits", "savings"} => subject = "machine" /\ stored = Daily
  /\ Init /\ AccessInit /\ EditorInit
  /\ part = "refreshes" => tenant # {k2}   \* which is {k1} with the keys swapped

MCNext ==
  \/ /\ part = "permits" /\ Contended!Next
     /\ UNCHANGED <<part, accessVars, editorVars>>
  \/ /\ part = "catalogue" /\ Next
     /\ Cardinality({r \in Contenders : asks'[r] # NoRequest}) <= 1
     /\ UNCHANGED <<part, accessVars, editorVars>>
  \/ /\ part = "credentials" /\ AccessNext
     /\ tenant' = tenant /\ Cardinality({r \in Contenders : reqs'[r].pc # "idle"}) <= 2
     /\ UNCHANGED <<part, vars, editorVars>>
  \/ /\ part = "refreshes" /\ Refreshing!AccessNext
     /\ UNCHANGED <<part, vars, editorVars>>
  \/ part = "edits" /\ EditorNext /\ UNCHANGED <<part, vars, accessVars>>
  \/ part = "savings" /\ Savings!EditorNext /\ UNCHANGED <<part, vars, accessVars>>

MCSpec == MCInit /\ [][MCNext]_<<part, vars, accessVars, editorVars>>
=============================================================================
