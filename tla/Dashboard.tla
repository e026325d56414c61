----------------------------- MODULE Dashboard -----------------------------
(***************************************************************************)
(* The page of the administrative dashboard in one browser: sections that  *)
(* load on their own, the refresh coordinator that numbers their loads,    *)
(* the one read of the service list that Services and Schedules share, the *)
(* poll of Services, and the operation buttons of a service's card.        *)
(*                                                                         *)
(* The server's state of the service is a version, which every operation   *)
(* it carries out increases.  A read answers with the version it finds, at *)
(* some moment between its sending and its answer.  Some sections are read *)
(* in two steps: first what decides whether the load has failed, then, all *)
(* together, what fills in the rest.  The later reads of a load stand here *)
(* for one of them; when it fails, its part of the section is rendered     *)
(* blank.                                                                  *)
(***************************************************************************)
EXTENDS Integers, FiniteSets, Sequences

CONSTANTS
    Sections,       \* sections of the page
    Detailed,       \* those whose loader reads more after its first read
    Operations,     \* presses of one operation button of one service
    MaxLoads        \* bound on the loads of one section
ASSUME DashboardAssumption ==
    /\ "Services" \in Sections /\ {"list", "no read"} \intersect Sections = {}
    /\ Detailed \subseteq Sections
    /\ IsFiniteSet(Operations) /\ {"alone"} \intersect Operations = {}
    /\ MaxLoads \in Nat

VARIABLES
    version,    \* the server's state of the service
    generation, \* #generations: the newest load of each section
    status,     \* state of each section's status region
    shown,      \* version each section shows, Nothing before its first render
    details,    \* version its later read showed last
    blank,      \* sections rendered without what their later read brings
    reads,      \* reads in flight, and what the server answered to them
    shared,     \* sharedServiceList: the list read that may be joined
    loads,      \* runs of the coordinator that have not returned
    refreshes,  \* calls of refresh that have not returned
    button,     \* the refresh button is enabled
    health,     \* the health label
    cards,      \* how often the cards of Services were rendered
    operation   \* each operation: its state, its card, the version it made

vars == <<version, generation, status, shown, details, blank, reads, shared, loads,
          refreshes, button, health, cards, operation>>
page == <<generation, status, shown, details, blank, reads, shared, loads, cards>>

Nothing == 0
Pending == -1
Failed == -2
NoRead == <<"no read", 0>>
Sharing == {"Services", "Schedules"}
Callers == {"first", "manual"} \union Operations
Alone == <<"alone", 0>>     \* a load of one section, by the poll or a retry

Init ==
    /\ version = 1
    /\ generation = [s \in Sections |-> 0]
    /\ status = [s \in Sections |-> "loading"]
    /\ shown = [s \in Sections |-> Nothing]
    /\ details = shown
    /\ blank = {}
    /\ reads = <<>>
    /\ shared = NoRead
    /\ loads = {}
    /\ refreshes = {}
    /\ button = TRUE
    /\ health = "unknown"
    /\ cards = 0
    /\ operation = [o \in Operations |-> [state |-> "none", card |-> 0, made |-> 0]]
-----------------------------------------------------------------------------
(* Loads. *)

Load(s, gen, by, read, value, later) ==
    [section |-> s, generation |-> gen, by |-> by, read |-> read, value |-> value,
     later |-> later]

\* readServicesOnce: the list read in flight, or a new one.
ListRead == IF shared # NoRead THEN shared ELSE <<"list", generation["Services"] + 1>>

ReadFor(s) == IF s \in Sharing THEN ListRead ELSE <<s, generation[s] + 1>>

\* #run up to its await, for every section in S.
Begin(S, by) ==
    /\ \A s \in S : generation[s] < MaxLoads
    /\ generation' = [s \in Sections |-> generation[s] + (IF s \in S THEN 1 ELSE 0)]
    /\ status' = [s \in Sections |-> IF s \in S THEN "loading" ELSE status[s]]
    /\ loads' = loads \union {Load(s, generation[s] + 1, by, ReadFor(s), Pending, Nothing) : s \in S}
    /\ reads' = [r \in DOMAIN reads \union {ReadFor(s) : s \in S} |->
                     IF r \in DOMAIN reads THEN reads[r] ELSE Pending]
    /\ shared' = IF S \intersect Sharing # {} THEN ListRead ELSE shared
    /\ UNCHANGED <<shown, details, blank, cards>>

\* refresh up to its await: all sections; its loads carry its name.
Refresh(caller) ==
    LET by == <<caller, generation["Services"] + 1>>
    IN  /\ refreshes' = refreshes \union {by}
        /\ button' = FALSE
        /\ Begin(Sections, by)

FirstRefresh ==
    /\ \A s \in Sections : generation[s] = 0
    /\ Refresh("first")
    /\ UNCHANGED <<version, health, operation>>

\* The click on the refresh button.
ManualRefresh ==
    /\ button /\ generation["Services"] > 0
    /\ Refresh("manual")
    /\ UNCHANGED <<version, health, operation>>

\* startServicesPolling, stopServicesPolling: the timer runs while the tab is
\* not hidden, so the poll may come at any time, or not at all.
Poll ==
    /\ generation["Services"] > 0
    /\ Begin({"Services"}, Alone)
    /\ UNCHANGED <<version, refreshes, button, health, operation>>

\* The retry button of a section that could not be read.
Retry(s) ==
    /\ status[s] \in {"failed", "stale"}
    /\ Begin({s}, Alone)
    /\ UNCHANGED <<version, refreshes, button, health, operation>>

\* The server answers a read: with what it finds, or not at all.
Answer(r) ==
    /\ reads[r] = Pending
    /\ \E value \in {version, Failed} : reads' = [reads EXCEPT ![r] = value]
    /\ UNCHANGED <<version, refreshes, button, health, operation,
                   generation, status, shown, details, blank, shared, loads, cards>>

\* And the later read of a load.
AnswerLater(l) ==
    /\ l.later = Pending
    /\ \E value \in {version, Failed} : loads' = (loads \ {l}) \union {[l EXCEPT !.later = value]}
    /\ UNCHANGED <<version, refreshes, button, health, operation,
                   generation, status, shown, details, blank, reads, shared, cards>>

\* A load after the read it awaited, with its value: a loader that has more to
\* read sends it now, unless the first read has failed.
After(l, value) ==
    [l EXCEPT !.read = NoRead, !.value = value,
              !.later = IF l.section \in Detailed /\ value # Failed THEN Pending ELSE Nothing]

\* AdministrativeApiClient.read resolves, and with it the loads that await
\* it; a shared read can no longer be joined.
Deliver(r) ==
    /\ reads[r] # Pending
    /\ reads' = [q \in DOMAIN reads \ {r} |-> reads[q]]
    /\ shared' = IF shared = r THEN NoRead ELSE shared
    /\ loads' = {IF l.read = r THEN After(l, reads[r]) ELSE l : l \in loads}
    /\ UNCHANGED <<version, refreshes, button, health, operation,
                   generation, status, shown, details, blank, cards>>

\* Variant, and the body of Apply: the result of a load whose section has a
\* newer one is applied too.
ApplyAlways(l) ==
    IF l.value = Failed
    THEN /\ status' = [status EXCEPT ![l.section] = IF shown[l.section] = Nothing THEN "failed" ELSE "stale"]
         /\ UNCHANGED <<shown, details, blank, cards>>
    ELSE /\ status' = [status EXCEPT ![l.section] = "ready"]
         /\ shown' = [shown EXCEPT ![l.section] = l.value]
         /\ details' = IF l.later \in {Nothing, Failed} THEN details
                       ELSE [details EXCEPT ![l.section] = l.later]
         /\ blank' = IF l.later = Failed THEN blank \union {l.section} ELSE blank \ {l.section}
         /\ cards' = IF l.section = "Services" THEN cards + 1 ELSE cards

\* The end of #run, and #apply: a load that is no longer the newest of its
\* section is dropped; one whose first read failed leaves what is shown; one
\* whose later read failed is rendered without it, as ready.
Apply(l) ==
    IF generation[l.section] # l.generation
    THEN UNCHANGED <<status, shown, details, blank, cards>>
    ELSE ApplyAlways(l)

\* The reads of a section loader have ended.
Finish(l) ==
    /\ l.read = NoRead /\ l.later # Pending
    /\ loads' = loads \ {l}
    /\ Apply(l)
    /\ UNCHANGED <<version, generation, reads, shared, refreshes, button, health, operation>>

\* reportGlobalHealth.
HealthOf(states) ==
    IF \A s \in Sections : states[s] = "ready" THEN "Healthy"
    ELSE IF \A s \in Sections : states[s] = "failed" THEN "Unavailable"
    ELSE "Degraded"

\* Every load of a refresh has settled: the labels are written, the refresh
\* button is enabled, also under another refresh, and so is the button of the
\* operation that awaited this one.
RefreshEnds(by) ==
    /\ \A l \in loads : l.by # by
    /\ refreshes' = refreshes \ {by}
    /\ button' = TRUE
    /\ health' = HealthOf(status)
    /\ operation' = IF by[1] \in Operations
                    THEN [operation EXCEPT ![by[1]].state = "done"] ELSE operation
    /\ UNCHANGED version /\ UNCHANGED page
-----------------------------------------------------------------------------
(* Operations of a service card. *)

InFlight(o) == operation[o].state \in {"sent", "executed", "refused", "refreshing"}

\* The submit handler: the button of this rendering of the card is disabled.
Submit(o) ==
    /\ cards > 0
    /\ operation[o].state = "none"
    /\ \A p \in Operations : InFlight(p) => operation[p].card # cards
    /\ operation' = [operation EXCEPT ![o].state = "sent", ![o].card = cards]
    /\ UNCHANGED <<version, refreshes, button, health>> /\ UNCHANGED page

\* The server carries the operation out, or refuses it.
Carry(o) ==
    /\ operation[o].state = "sent"
    /\ \/ /\ version' = version + 1
          /\ operation' = [operation EXCEPT ![o].state = "executed", ![o].made = version + 1]
       \/ /\ operation' = [operation EXCEPT ![o].state = "refused"]
          /\ UNCHANGED version
    /\ UNCHANGED <<refreshes, button, health>> /\ UNCHANGED page

\* The answer arrives: the page is refreshed before the button is enabled.
Accepted(o) ==
    /\ operation[o].state = "executed"
    /\ operation' = [operation EXCEPT ![o].state = "refreshing"]
    /\ Refresh(o)
    /\ UNCHANGED <<version, health>>

\* A refusal, or an answer that is lost: reported, nothing is reread.
Refused(o) ==
    /\ operation[o].state \in {"executed", "refused"}
    /\ operation' = [operation EXCEPT ![o].state = "reported"]
    /\ UNCHANGED <<version, refreshes, button, health>> /\ UNCHANGED page
-----------------------------------------------------------------------------
Server ==
    \/ \E r \in DOMAIN reads : Answer(r)
    \/ \E l \in loads : AnswerLater(l)
    \/ \E o \in Operations : Carry(o)

Browser ==
    \/ \E r \in DOMAIN reads : Deliver(r)
    \/ \E l \in loads : Finish(l)
    \/ \E by \in refreshes : RefreshEnds(by)
    \/ \E o \in Operations : Accepted(o) \/ Refused(o)

Operator ==
    \/ FirstRefresh \/ ManualRefresh
    \/ \E s \in Sections : Retry(s)
    \/ \E o \in Operations : Submit(o)

Next == Server \/ Browser \/ Operator \/ Poll

Spec == Init /\ [][Next]_vars

\* The server answers what it was asked, and the browser delivers it.
FairSpec == Spec /\ WF_vars(Server) /\ WF_vars(Browser)
-----------------------------------------------------------------------------
TypeOK ==
    /\ version \in 1..(1 + Cardinality(Operations))
    /\ generation \in [Sections -> 0..MaxLoads]
    /\ status \in [Sections -> {"loading", "ready", "failed", "stale"}]
    /\ shown \in [Sections -> 0..version]
    /\ details \in [Sections -> 0..version]
    /\ blank \subseteq Detailed
    /\ \A r \in DOMAIN reads : reads[r] \in {Pending, Failed} \union 1..version
    /\ shared \in DOMAIN reads \union {NoRead}
    /\ \A l \in loads : l.read \in DOMAIN reads \union {NoRead}
    /\ refreshes \subseteq Callers \X (1..MaxLoads)
    /\ button \in BOOLEAN
    /\ health \in {"unknown", "Healthy", "Degraded", "Unavailable"}

\* What is read first and what is read later make one rendering: of a section
\* that has been rendered with both, the later part is no older than the rest
\* (main.ts, the section loaders).
DetailsFollow == \A s \in Detailed \ blank : details[s] >= shown[s]

\* Neither part of a section is ever replaced by an older answer, however
\* refreshes, polls, retries and the shared list read overlap and whichever of
\* them fail, nor does the later part come back older after it was blank
\* (refresh-coordinator.ts, #run and #apply).
ShownAdvances == \A s \in Sections : shown'[s] >= shown[s] /\ details'[s] >= details[s]
ShownNeverGoesBack == [][ShownAdvances]_vars

\* A section does not stay on "Loading": its newest load settles unless a
\* newer one supersedes it, also when its reads fail or another load of the
\* same refresh does.
EverySectionSettles ==
    \A s \in Sections : \A g \in 1..MaxLoads :
        (status[s] = "loading" /\ generation[s] = g)
            ~> (status[s] # "loading" \/ generation[s] # g)

\* The button of an operation is enabled again, whatever the server answers
\* and however its refresh is overtaken.
EveryOperationEnds ==
    \A o \in Operations : InFlight(o) ~> ~InFlight(o)

\* docs/dashboard.md:117: "The result is reread after the operation."
ResultIsReread ==
    \A o \in Operations :
        operation[o].state = "done" /\ status["Services"] = "ready"
            => shown["Services"] >= operation[o].made

\* api-client.ts:3-7: a payload is "never silently degraded into an empty
\* authoritative state".  main.ts:753, 785-806 and 871 render a later read that
\* failed as no resources, an unknown service, and no runs.
ReadySectionsAreWhole == \A s \in Sections : status[s] = "ready" => s \notin blank

\* section-state.ts:7-10: "A section that already rendered content keeps it and
\* reports "stale" rather than blanking".
ContentIsKept == [][blank' \subseteq blank]_vars

\* docs/dashboard.md:157: "Mutation buttons are disabled while an operation is
\* in flight."
ButtonsDisabledInFlight ==
    \A o \in Operations : InFlight(o) => operation[o].card = cards

\* docs/dashboard.md:11: "a global health summary derived from every section's
\* current load state".
HealthIsCurrent ==
    loads = {} /\ refreshes = {} /\ health = "Healthy"
        => \A s \in Sections : status[s] = "ready"
=============================================================================
