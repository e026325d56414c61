-------------------------- MODULE DashboardEvents --------------------------
(***************************************************************************)
(* The Events section of the dashboard: the list and the cursor that       *)
(* loadEvents resets and "Load more" extends, with loads that overlap.     *)
(* loadEvents assigns the list and the cursor when its first page arrives, *)
(* before the refresh coordinator decides whether the load still counts,   *)
(* and the section is rendered only after three more reads.                *)
(*                                                                         *)
(* An event is its sequence number.  The history only grows here: what is  *)
(* pruned from its head is EventHistory's matter.                          *)
(***************************************************************************)
EXTENDS Integers, Sequences

CONSTANTS
    PageSize,      \* limit=20
    MaxEvents,     \* bound on the history
    MaxEventLoads  \* bound on the loads of the section, and on the presses

ASSUME EventsAssumption ==
    PageSize \in Nat \ {0} /\ MaxEvents \in Nat /\ MaxEventLoads \in Nat

VARIABLES
    total,      \* the history holds the events 1..total
    newest,     \* the newest load of the section
    eventLoads, \* loads in flight: generation, stage, page answered
    list,       \* eventsList
    cursor,     \* eventsCursor
    drawn,      \* the list the section shows
    drawings,   \* how often the section was rendered
    more,       \* the rendering whose "Load more" is on the page, 0 if none is
    presses,    \* presses of "Load more" in flight
    pressed,    \* how often it was pressed
    overlapped  \* history: a load touched the section under a press in flight,
                \* and none has reset the list since with no press in flight

eventVars == <<total, newest, eventLoads, list, cursor, drawn, drawings, more, presses,
               pressed, overlapped>>
section == <<list, cursor, drawn, drawings, more, overlapped>>

Undefined == 0
Cursor(follows, next) == [hasMore |-> follows, nextAfterSequence |-> next]
Unread == [events |-> <<>>, cursor |-> Cursor(TRUE, Undefined)]

\* mapAdministrativeEventHistoryResponse: the first PageSize events after a
\* sequence, and the last one's sequence if more follow.
Page(after) ==
    LET last == IF total - after > PageSize THEN after + PageSize ELSE total
    IN  [events |-> [i \in 1..(last - after) |-> after + i],
         cursor |-> Cursor(last < total, IF last < total THEN last ELSE Undefined)]

EventsInit ==
    /\ total \in 0..MaxEvents
    /\ newest = 0
    /\ eventLoads = {}
    /\ list = <<>>
    /\ cursor = Cursor(FALSE, Undefined)
    /\ drawn = <<>>
    /\ drawings = 0
    /\ more = 0
    /\ presses = {}
    /\ pressed = 0
    /\ overlapped = FALSE

Record ==
    /\ total < MaxEvents
    /\ total' = total + 1
    /\ UNCHANGED <<newest, eventLoads, presses, pressed>> /\ UNCHANGED section
-----------------------------------------------------------------------------
(* Loads of the section, by a refresh or a retry. *)

BeginLoad ==
    /\ newest < MaxEventLoads
    /\ newest' = newest + 1
    /\ eventLoads' = eventLoads \union {[generation |-> newest + 1, stage |-> "page", page |-> Unread]}
    /\ UNCHANGED <<total, presses, pressed>> /\ UNCHANGED section

\* The server answers the read of the first page.
AnswerLoad(l) ==
    /\ l.stage = "page" /\ l.page = Unread
    /\ eventLoads' = (eventLoads \ {l}) \union {[l EXCEPT !.page = Page(0)]}
    /\ UNCHANGED <<total, newest, presses, pressed>> /\ UNCHANGED section

\* A read that fails ends the load; the section keeps what it shows.
FailLoad(l) ==
    /\ l.stage = "page"
    /\ eventLoads' = eventLoads \ {l}
    /\ UNCHANGED <<total, newest, presses, pressed>> /\ UNCHANGED section

\* Variant: a superseded load keeps the list, but not the cursor.
TakeFirstPageHalf(l) ==
    /\ l.stage = "page" /\ l.page # Unread
    /\ list' = IF l.generation = newest THEN l.page.events ELSE list
    /\ cursor' = l.page.cursor
    /\ eventLoads' = (eventLoads \ {l}) \union {[l EXCEPT !.stage = "rest"]}
    /\ overlapped' = (presses # {})
    /\ UNCHANGED <<total, newest, drawn, drawings, more, presses, pressed>>

\* The first page arrives: the list and the cursor are assigned.
TakeFirstPage(l) ==
    /\ l.stage = "page" /\ l.page # Unread
    /\ list' = l.page.events
    /\ cursor' = l.page.cursor
    /\ eventLoads' = (eventLoads \ {l}) \union {[l EXCEPT !.stage = "rest"]}
    /\ overlapped' = (presses # {})
    /\ UNCHANGED <<total, newest, drawn, drawings, more, presses, pressed>>

\* renderAudit: the list as it is now, and a new, enabled button.
RenderAudit ==
    /\ drawn' = list'
    /\ drawings' = drawings + 1
    /\ more' = IF cursor'.hasMore /\ cursor'.nextAfterSequence # Undefined THEN drawings + 1 ELSE 0

\* The three reads that follow have ended; the coordinator renders the
\* section if the load is the newest one.
EndLoad(l) ==
    /\ l.stage = "rest"
    /\ eventLoads' = eventLoads \ {l}
    /\ UNCHANGED <<list, cursor>>
    /\ IF l.generation = newest
       THEN RenderAudit /\ overlapped' = (overlapped \/ presses # {})
       ELSE UNCHANGED <<drawn, drawings, more, overlapped>>
    /\ UNCHANGED <<total, newest, presses, pressed>>
-----------------------------------------------------------------------------
(* "Load more". *)

\* Variant, and the body of Press: the button is not disabled.
PressAnytime ==
    /\ more # 0 /\ pressed < MaxEventLoads
    /\ cursor.nextAfterSequence # Undefined
    /\ presses' = presses \union {[button |-> more, after |-> cursor.nextAfterSequence,
                                    page |-> Unread, id |-> pressed]}
    /\ pressed' = pressed + 1
    /\ UNCHANGED <<total, newest, eventLoads>> /\ UNCHANGED section

\* loadMoreEvents up to its await: the cursor is read, the button disabled.
Press ==
    /\ \A p \in presses : p.button # more
    /\ PressAnytime

AnswerPress(p) ==
    /\ p.page = Unread
    /\ presses' = (presses \ {p}) \union {[p EXCEPT !.page = Page(p.after)]}
    /\ UNCHANGED <<total, newest, eventLoads, pressed>> /\ UNCHANGED section

\* The read failed: the button is enabled again.
FailPress(p) ==
    /\ p.page = Unread
    /\ presses' = presses \ {p}
    /\ UNCHANGED <<total, newest, eventLoads, pressed>> /\ UNCHANGED section

\* The page arrives: appended to the list as it is now.
LoadMoreArrives(p) ==
    /\ p.page # Unread
    /\ list' = list \o p.page.events
    /\ cursor' = p.page.cursor
    /\ RenderAudit
    /\ presses' = presses \ {p}
    /\ UNCHANGED <<total, newest, eventLoads, pressed, overlapped>>
-----------------------------------------------------------------------------
EventsNext ==
    \/ Record \/ BeginLoad \/ Press
    \/ \E l \in eventLoads : AnswerLoad(l) \/ FailLoad(l) \/ TakeFirstPage(l) \/ EndLoad(l)
    \/ \E p \in presses : AnswerPress(p) \/ FailPress(p) \/ LoadMoreArrives(p)

EventsSpec == EventsInit /\ [][EventsNext]_eventVars
-----------------------------------------------------------------------------
Contiguous(s) == \A i \in DOMAIN s : s[i] = i

\* The cursor of the next page is the last event of the list, in every order
\* of resets and appends: what "Load more" fetches follows what is listed when
\* it is pressed (loadEvents and loadMoreEvents, main.ts).
CursorEndsTheList ==
    cursor.nextAfterSequence # Undefined => list # <<>> /\ list[Len(list)] = cursor.nextAfterSequence

\* The list holds the history's events from the first one on, none twice and
\* none left out, unless a load overlapped a press of "Load more": nothing else
\* (a second press, a superseded load, events recorded between the pages, a
\* failing read) breaks it.
ContiguousUnlessOverlapped == ~overlapped => Contiguous(list)

\* docs/dashboard.md:136: the Events page "offers a "Load more" button that
\* appends the next page (via the response's `nextAfterSequence` cursor)".
ShownEventsAreContiguous == Contiguous(drawn)
=============================================================================
