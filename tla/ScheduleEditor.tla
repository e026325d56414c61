--------------------------- MODULE ScheduleEditor ---------------------------
(***************************************************************************)
(* The weekly schedule editor of the dashboard: a draft kept twice, in the *)
(* form's fields and in the list `windows`, and the requests that save,    *)
(* remove and preview it.  The editor of a service and that of the machine *)
(* have the same handlers over the same helpers; they differ in the modes  *)
(* and in what they find in the server's answer: the editor of a service   *)
(* looks for the windows one level above where the server puts them, and   *)
(* finds none.  Every refresh of the section replaces the editor by a new  *)
(* one.                                                                    *)
(*                                                                         *)
(* A time stands for a start and an end; Reversed for a start that is not  *)
(* before the end, Blank for a start or an end that is not filled in.  A   *)
(* policy is a mode and, for each day, the list of its windows.            *)
(***************************************************************************)
EXTENDS Integers, FiniteSets, Sequences

CONSTANTS
    Days,       \* EDITOR_WEEKDAYS
    DayTimes,   \* well-formed windows of a day
    Reversed,   \* a window that ends before it starts
    Blank,      \* a field that is not filled in
    Policies,   \* policies the server may hold at first
    MaxEdits,   \* bound on the changes of the draft
    MaxEditors, \* bound on the renderings of the section
    MaxRequests \* bound on the requests in flight

ASSUME EditorAssumption ==
    /\ Reversed \notin DayTimes /\ Blank \notin DayTimes /\ Reversed # Blank
    /\ \A p \in Policies :
          /\ p = [mode |-> p.mode, windows |-> p.windows] /\ p.windows \in [Days -> Seq(DayTimes)]
          /\ p.mode # "scheduled" => p.windows = [d \in Days |-> <<>>]
    /\ MaxEdits \in Nat /\ MaxEditors \in Nat \ {0} /\ MaxRequests \in Nat

VARIABLES
    subject,    \* whose editor it is: a service's, or the machine's
    stored,     \* the server's policy
    editor,     \* number of the editor on the page
    mode,       \* mode.value
    windows,    \* the list kept beside the fields
    fields,     \* checkbox and time of each day
    dirty,      \* editors whose dirty flag is set
    requests,   \* requests in flight: kind, editor, policy, answer
    rendered,   \* policy the editor on the page was rendered from
    saved,      \* history: the draft as rendered, or as last saved or given up
    lost,       \* history: times another day lost to the last "Clear day" or copy
    raced,      \* history: editors changed under a request of theirs in flight
    touched,    \* history: the editor on the page was changed
    edits       \* changes of the draft so far

editorVars == <<subject, stored, editor, mode, windows, fields, dirty, requests, rendered,
                saved, lost, raced, touched, edits>>

NoWindows == [d \in Days |-> <<>>]
Policy(m, w) == [mode |-> m, windows |-> w]
Manual == Policy("manual", NoWindows)
Off == [enabled |-> FALSE, time |-> Blank]

\* applyWindowsToFields: one row a day, for the day's first window.
FieldsOf(w) ==
    [d \in Days |-> IF w[d] = <<>> THEN Off ELSE [enabled |-> TRUE, time |-> w[d][1]]]

\* readWindowsFromFields: an enabled row without its times is left out.
ReadWindowsFromFields ==
    [d \in Days |-> IF fields[d].enabled /\ fields[d].time # Blank THEN <<fields[d].time>> ELSE <<>>]

\* validateWeeklyEditorWindows; the form's own rules see to the timezone.
Valid(w) ==
    /\ \E d \in Days : w[d] # <<>>
    /\ \A d \in Days : \A i \in DOMAIN w[d] : w[d][i] # Reversed

\* copyWindowToDays: the source stays as it is.
CopyWindowToDays(w, source, targets) ==
    IF w[source] = <<>> THEN w
    ELSE [d \in Days |-> IF d \in targets \ {source} THEN <<w[source][1]>> ELSE w[d]]

\* What an editor reads of the server's policy.  The windows are in
\* policy.schedule of a service and in policy.weeklySchedule of the machine.
\* readMachinePolicy looks there; readPolicy looks for policy.windows, which is
\* missing, and falls back to none.
ReadPolicy(p) == IF subject = "machine" THEN p ELSE Policy(p.mode, NoWindows)

Draft == [fields |-> fields, mode |-> mode]

EditorInit ==
    /\ subject \in {"service", "machine"}
    /\ stored \in Policies
    /\ editor = 1
    /\ rendered = stored
    /\ mode = stored.mode
    /\ windows = ReadPolicy(stored).windows
    /\ fields = FieldsOf(windows)
    /\ dirty = {}
    /\ requests = {}
    /\ saved = Draft
    /\ lost = {}
    /\ raced = {}
    /\ touched = FALSE
    /\ edits = 0

\* Variant: the select shows its default mode, not the policy's.
RenderDefaultMode ==
    /\ editor < MaxEditors
    /\ editor' = editor + 1
    /\ rendered' = stored
    /\ mode' = "manual"
    /\ windows' = ReadPolicy(stored).windows
    /\ fields' = FieldsOf(windows')
    /\ saved' = [fields |-> fields', mode |-> mode']
    /\ touched' = FALSE
    /\ UNCHANGED <<stored, dirty, requests, lost, raced, edits>>

\* renderWeeklyScheduleEditor, by a refresh: a new editor from the policy
\* read; the old one leaves the page, its listener and its flag stay.
RenderEditor ==
    /\ editor < MaxEditors
    /\ editor' = editor + 1
    /\ rendered' = stored
    /\ mode' = stored.mode
    /\ windows' = ReadPolicy(stored).windows
    /\ fields' = FieldsOf(windows')
    /\ saved' = [fields |-> fields', mode |-> mode']
    /\ touched' = FALSE
    /\ UNCHANGED <<stored, dirty, requests, lost, raced, edits>>
-----------------------------------------------------------------------------
(* Changes of the draft; each calls markDirty. *)

Edit ==
    /\ edits < MaxEdits
    /\ edits' = edits + 1
    /\ dirty' = dirty \union {editor}
    /\ touched' = TRUE
    /\ raced' = IF \E r \in requests : r.editor = editor THEN raced \union {editor} ELSE raced
    /\ UNCHANGED <<stored, editor, requests, rendered, saved>>

ChangeMode(m) ==
    /\ Edit
    /\ mode' = m
    /\ UNCHANGED <<windows, fields, lost>>

\* The times can be filled in only while the row is enabled.
ChangeTime(d, time) ==
    /\ Edit
    /\ fields[d].enabled
    /\ fields' = [fields EXCEPT ![d].time = time]
    /\ UNCHANGED <<mode, windows, lost>>

\* Variant: the checkbox's handler leaves the flag.
ToggleUnflagged(d) ==
    /\ edits < MaxEdits
    /\ edits' = edits + 1
    /\ fields' = [fields EXCEPT ![d] = [enabled |-> ~fields[d].enabled, time |-> Blank]]
    /\ UNCHANGED <<stored, editor, mode, windows, dirty, requests, rendered, saved, lost, raced, touched>>

\* syncFieldState: a row that is switched off is emptied.
Toggle(d) ==
    /\ Edit
    /\ fields' = [fields EXCEPT ![d] = [enabled |-> ~fields[d].enabled, time |-> Blank]]
    /\ UNCHANGED <<mode, windows, lost>>

\* The times filled in on the days that an edit is not about, and gone.
Lost(by, days) ==
    {<<by, e>> : e \in {e \in days : fields[e].time # Blank /\ fields'[e] # fields[e]}}

\* "Clear day": on the list, which the fields may be ahead of.
ClearDay(d) ==
    /\ Edit
    /\ windows' = [windows EXCEPT ![d] = <<>>]
    /\ fields' = FieldsOf(windows')
    /\ lost' = Lost("clear", Days \ {d})
    /\ UNCHANGED mode

\* Variant: the copy is made on the list, which the fields may be ahead of.
CopyToSelectedStale(d, targets) ==
    /\ Edit
    /\ windows' = CopyWindowToDays(windows, d, targets)
    /\ fields' = FieldsOf(windows')
    /\ lost' = Lost("copy", Days \ (targets \ {d}))
    /\ UNCHANGED mode

\* "Copy to selected".
CopyToSelected(d, targets) ==
    /\ Edit
    /\ windows' = CopyWindowToDays(ReadWindowsFromFields, d, targets)
    /\ fields' = FieldsOf(windows')
    /\ lost' = Lost("copy", Days \ (targets \ {d}))
    /\ UNCHANGED mode

ClearWeek ==
    /\ Edit
    /\ windows' = NoWindows
    /\ fields' = FieldsOf(windows')
    /\ UNCHANGED <<mode, lost>>
-----------------------------------------------------------------------------
(* Requests. *)

\* currentPolicyInput, which also brings the list up to date.
PolicyInput ==
    Policy(mode, IF mode = "scheduled" THEN ReadWindowsFromFields ELSE NoWindows)

DraftIsValid == mode = "scheduled" => Valid(ReadWindowsFromFields)

\* The button of this editor was enabled, and is disabled.
Send(kind, policy) ==
    /\ Cardinality(requests) < MaxRequests
    /\ \A r \in requests : ~(r.kind = kind /\ r.editor = editor)
    /\ requests' = requests \union
           {[kind |-> kind, editor |-> editor, policy |-> policy, from |-> rendered,
             touched |-> touched, draft |-> Draft, answer |-> "none"]}

\* The list is read also when the draft is refused; what the preview answers
\* is only shown.
Preview ==
    /\ windows # ReadWindowsFromFields
    /\ windows' = ReadWindowsFromFields
    /\ UNCHANGED <<stored, editor, mode, fields, dirty, requests, rendered, saved, lost, raced, touched, edits>>

\* Variant: the draft is not validated.
SaveUnchecked ==
    /\ windows' = ReadWindowsFromFields
    /\ Send("save", PolicyInput)
    /\ UNCHANGED <<stored, editor, mode, fields, dirty, rendered, saved, lost, raced, touched, edits>>

\* The submit handler: a refused or unconfirmed draft is not sent, and leaves
\* the list as Preview does.
Save ==
    /\ DraftIsValid
    /\ windows' = ReadWindowsFromFields
    /\ Send("save", PolicyInput)
    /\ UNCHANGED <<stored, editor, mode, fields, dirty, rendered, saved, lost, raced, touched, edits>>

RemovePolicy ==
    /\ Send("remove", Manual)
    /\ UNCHANGED <<stored, editor, mode, windows, fields, dirty, rendered, saved, lost, raced, touched, edits>>

\* The server replaces or removes the policy; without one, the service has
\* the policy of its configuration, which is manual here.
CarryOut(r) ==
    /\ r.answer = "none"
    /\ stored' = r.policy
    /\ requests' = (requests \ {r}) \union {[r EXCEPT !.answer = "ok"]}
    /\ UNCHANGED <<editor, mode, windows, fields, dirty, rendered, saved, lost, raced, touched, edits>>

\* The answer is ok: markClean, on the editor that sent the request; the
\* refresh that follows may render a new one.
Answered(r) ==
    /\ r.answer = "ok"
    /\ dirty' = dirty \ {r.editor}
    /\ saved' = IF r.editor = editor THEN r.draft ELSE saved
    /\ requests' = requests \ {r}
    /\ UNCHANGED <<stored, editor, mode, windows, fields, rendered, lost, raced, touched, edits>>

\* An error, or an answer that is lost: the flag stays.
RequestRefused(r) ==
    /\ requests' = requests \ {r}
    /\ UNCHANGED <<stored, editor, mode, windows, fields, dirty, rendered, saved, lost, raced, touched, edits>>
-----------------------------------------------------------------------------
EditorAnswers == \E r \in requests : CarryOut(r) \/ Answered(r) \/ RequestRefused(r)

EditorSteps ==
    \/ RenderEditor \/ ClearWeek \/ Preview \/ Save \/ RemovePolicy
    \/ \E m \in {"manual", "scheduled"} : ChangeMode(m)
    \/ \E d \in Days :
           \/ \E time \in DayTimes \union {Reversed, Blank} : ChangeTime(d, time)
           \/ Toggle(d)
           \/ ClearDay(d)
           \/ \E targets \in SUBSET Days : CopyToSelected(d, targets)
    \/ EditorAnswers

EditorNext == EditorSteps /\ UNCHANGED subject

EditorSpec == EditorInit /\ [][EditorNext]_editorVars
-----------------------------------------------------------------------------
\* What is sent to be saved passes the server's rules for a schedule whatever
\* the draft went through: a scheduled policy has a window, one a day at most,
\* and none is reversed.
SentPoliciesAreValid ==
    \A r \in requests : r.policy.mode = "scheduled" =>
        Valid(r.policy.windows) /\ \A d \in Days : Len(r.policy.windows[d]) <= 1

\* Saving an editor nobody changed changes nothing: what is sent is the policy
\* it was rendered from, when that has at most one window a day.  The editor of
\* a service, which shows none of the windows, is refused instead.
UneditedSaveKeepsPolicy ==
    \A r \in requests :
        r.kind = "save" /\ ~r.touched /\ (\A d \in Days : Len(r.from.windows[d]) <= 1)
            => r.policy = r.from

\* Changes that are not saved are flagged, whatever the order of edits, saves,
\* refusals and refreshes, unless they were made while a request was in
\* flight.
FlaggedUnlessRaced ==
    Draft # saved /\ editor \notin raced => editor \in dirty

\* Copying a day to others changes nothing else that is filled in, not even
\* edits the list does not hold yet (weekly-schedule-editor.ts:44, "The source
\* day is left untouched even if it appears in the target list").
CopyKeepsOtherDays == \A e \in Days : <<"copy", e>> \notin lost

\* What the editor sends and flags follows from what it shows.
EditorKeepsPolicies ==
    /\ SentPoliciesAreValid /\ UneditedSaveKeepsPolicy
    /\ FlaggedUnlessRaced /\ CopyKeepsOtherDays

\* docs/reviews/operator-experience-slice4-gap-analysis.md:28: "Any field
\* change sets a flag surfaced in a status region".
UnsavedEditsAreFlagged == Draft # saved => editor \in dirty

\* tests/dashboard/weekly-schedule-editor.test.ts:78: "removes only the given
\* weekday's window".
ClearDayClearsOneDay == \A e \in Days : <<"clear", e>> \notin lost

\* What "weekly schedule editor" (docs/dashboard.md:138) says: an editor nobody
\* changed shows the windows the server answered
\* (tests/cli/service-schedule-mutations.test.ts:137-145), one a day at most.
EditorShowsSchedule == ~touched => fields = FieldsOf(rendered.windows)

\* And a save keeps the days whose rows were left as they were rendered.
\* weekly-schedule-editor.ts:407 makes neither so for a service.
SaveKeepsOtherDays ==
    \A r \in requests : r.kind = "save" /\ r.policy.mode = "scheduled" =>
        \A d \in Days :
            r.draft.fields[d] = FieldsOf(ReadPolicy(r.from).windows)[d]
                => FieldsOf(r.policy.windows)[d] = FieldsOf(r.from.windows)[d]

\* docs/dashboard.md:141: "seven day rows with an explicit enable checkbox
\* (replacing the earlier implicit "empty inputs mean disabled" convention)".
EnabledDaysAreSaved ==
    \A r \in requests : r.policy.mode = "scheduled" =>
        \A d \in Days : r.draft.fields[d].enabled => r.policy.windows[d] # <<>>
=============================================================================
