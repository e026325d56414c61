--------------------------- MODULE DashboardProofs ---------------------------
(***************************************************************************)
(* Theorems about the dashboard in the browser: the schedule editor, for   *)
(* any days, times and policies; the power controls; the list of events;   *)
(* and the sections of the page.                                           *)
(***************************************************************************)
EXTENDS DashboardPage, ScheduleEditor, FiniteSetTheorems, TLAPS

-----------------------------------------------------------------------------
(* The schedule editor. *)

\* p is a policy whose windows are lists of times; only a scheduled one has any.
PolicyOf(p, times) ==
    /\ p = [mode |-> p.mode, windows |-> p.windows] /\ p.windows \in [Days -> Seq(times)]
    /\ p.mode # "scheduled" => p.windows = NoWindows

Rows == [enabled : BOOLEAN, time : DayTimes \union {Reversed, Blank}]

\* Types; a row that is off is empty.
FormInv ==
    /\ fields \in [Days -> Rows]
    /\ \A d \in Days : fields[d].time # Blank => fields[d].enabled
    /\ windows \in [Days -> Seq(DayTimes \union {Reversed})]
    /\ PolicyOf(stored, DayTimes) /\ PolicyOf(rendered, DayTimes)

\* An editor nobody changed shows the policy it was rendered from.
RenderedInv ==
    ~touched => mode = rendered.mode /\ fields = FieldsOf(ReadPolicy(rendered).windows)

\* A request in flight is of this editor or an earlier one, and holds the draft
\* unless the editor raced it.
SentInv ==
    \A r \in requests :
        /\ r.editor \in 1..editor /\ PolicyOf(r.policy, DayTimes)
        /\ r.editor = editor /\ editor \notin raced => r.draft = Draft

EditorInv ==
    /\ editor \in Nat \ {0}
    /\ FormInv /\ RenderedInv /\ SentInv
    /\ EditorKeepsPolicies

\* A list of one time is a list of times.
LEMMA OneTime == ASSUME NEW S, NEW x \in S PROVE <<x>> \in Seq(S) /\ Len(<<x>>) = 1
OBVIOUS

\* What the rows show for a list of windows.
LEMMA FieldsAreRows ==
    ASSUME NEW w \in [Days -> Seq(DayTimes \union {Reversed})]
    PROVE  /\ FieldsOf(w) \in [Days -> Rows]
           /\ \A d \in Days : FieldsOf(w)[d].time # Blank => FieldsOf(w)[d].enabled
<1>1. ASSUME NEW d \in Days, w[d] # <<>> PROVE w[d][1] \in DayTimes \union {Reversed}
  <2>1. w[d] \in Seq(DayTimes \union {Reversed})
    OBVIOUS
  <2> QED BY <1>1, <2>1
<1>2. ASSUME NEW d \in Days
      PROVE  FieldsOf(w)[d] \in Rows /\ (FieldsOf(w)[d].time # Blank => FieldsOf(w)[d].enabled)
  BY <1>1, EditorAssumption DEF FieldsOf, Off, Rows
<1> QED BY <1>2 DEF FieldsOf

\* What is read from the rows: one window a day at most.
LEMMA RowsAreRead ==
    ASSUME fields \in [Days -> Rows]
    PROVE  /\ ReadWindowsFromFields \in [Days -> Seq(DayTimes \union {Reversed})]
           /\ \A d \in Days : Len(ReadWindowsFromFields[d]) <= 1
           /\ Valid(ReadWindowsFromFields) => ReadWindowsFromFields \in [Days -> Seq(DayTimes)]
<1>1. ASSUME NEW d \in Days
      PROVE  \/ ReadWindowsFromFields[d] = <<>>
             \/ \E t \in DayTimes \union {Reversed} : ReadWindowsFromFields[d] = <<t>>
  BY <1>1 DEF ReadWindowsFromFields, Rows
<1>2. ASSUME NEW d \in Days
      PROVE  ReadWindowsFromFields[d] \in Seq(DayTimes \union {Reversed})
             /\ Len(ReadWindowsFromFields[d]) <= 1
  <2>1. <<>> \in Seq(DayTimes \union {Reversed}) /\ Len(<<>>) <= 1
    OBVIOUS
  <2>2. CASE ReadWindowsFromFields[d] = <<>>
    BY <2>1, <2>2
  <2>3. CASE \E t \in DayTimes \union {Reversed} : ReadWindowsFromFields[d] = <<t>>
    <3>1. PICK t \in DayTimes \union {Reversed} : ReadWindowsFromFields[d] = <<t>>
      BY <2>3
    <3>2. <<t>> \in Seq(DayTimes \union {Reversed}) /\ Len(<<t>>) <= 1
      BY OneTime
    <3> QED BY <3>1, <3>2
  <2> QED BY <1>1, <2>2, <2>3
<1>3. ASSUME NEW d \in Days, Valid(ReadWindowsFromFields)
      PROVE  ReadWindowsFromFields[d] \in Seq(DayTimes)
  <2>1. CASE ReadWindowsFromFields[d] = <<>>
    BY <2>1
  <2>2. CASE \E t \in DayTimes \union {Reversed} : ReadWindowsFromFields[d] = <<t>>
    <3>1. PICK t \in DayTimes \union {Reversed} : ReadWindowsFromFields[d] = <<t>>
      BY <2>2
    <3>2. 1 \in DOMAIN ReadWindowsFromFields[d] /\ ReadWindowsFromFields[d][1] = t
      BY <3>1
    <3>3. t \in DayTimes
      BY <1>3, <3>1, <3>2 DEF Valid
    <3> QED BY <3>1, <3>3, OneTime
  <2> QED BY <1>1, <2>1, <2>2
<1>4. DOMAIN ReadWindowsFromFields = Days /\ ReadWindowsFromFields = [d \in Days |-> ReadWindowsFromFields[d]]
  BY DEF ReadWindowsFromFields
<1> QED BY <1>2, <1>3, <1>4

\* Rows rendered from lists of at most one window are read as those lists.
LEMMA ReadingKeepsWindows ==
    ASSUME NEW w \in [Days -> Seq(DayTimes)], \A d \in Days : Len(w[d]) <= 1,
           fields = FieldsOf(w)
    PROVE  ReadWindowsFromFields = w
<1>1. ASSUME NEW d \in Days PROVE ReadWindowsFromFields[d] = w[d]
  <2>1. w[d] \in Seq(DayTimes) /\ Len(w[d]) <= 1
    OBVIOUS
  <2>2. CASE w[d] = <<>>
    BY <2>2 DEF ReadWindowsFromFields, FieldsOf, Off
  <2>3. CASE w[d] # <<>>
    <3>1. w[d][1] \in DayTimes /\ w[d] = <<w[d][1]>>
      BY <2>1, <2>3
    <3>2. fields[d].enabled /\ fields[d].time = w[d][1] /\ w[d][1] # Blank
      BY <2>3, <3>1, EditorAssumption DEF FieldsOf
    <3> QED BY <3>1, <3>2 DEF ReadWindowsFromFields
  <2> QED BY <2>2, <2>3
<1> QED BY <1>1 DEF ReadWindowsFromFields

\* A policy without its windows is one, and so is one read back.
LEMMA PoliciesAreRead ==
    ASSUME NEW p, PolicyOf(p, DayTimes)
    PROVE  PolicyOf(ReadPolicy(p), DayTimes)
           /\ ReadPolicy(p).windows \in [Days -> Seq(DayTimes \union {Reversed})]
<1>1. <<>> \in Seq(DayTimes)
  OBVIOUS
<1>2. NoWindows \in [Days -> Seq(DayTimes)]
  BY <1>1 DEF NoWindows
<1>3. ReadPolicy(p).windows \in [Days -> Seq(DayTimes)] /\ PolicyOf(ReadPolicy(p), DayTimes)
  BY <1>2 DEF ReadPolicy, PolicyOf, Policy
<1>4. \A s \in Seq(DayTimes) : s \in Seq(DayTimes \union {Reversed})
  OBVIOUS
<1> QED BY <1>3, <1>4

LEMMA EditorInitial == EditorInit => EditorInv
<1> SUFFICES ASSUME EditorInit PROVE EditorInv
    OBVIOUS
<1>1. PolicyOf(stored, DayTimes) /\ rendered = stored
  BY EditorAssumption DEF EditorInit, PolicyOf, NoWindows
<1>2. windows = ReadPolicy(stored).windows /\ windows \in [Days -> Seq(DayTimes \union {Reversed})]
  BY <1>1, PoliciesAreRead DEF EditorInit
<1>3. fields = FieldsOf(windows)
  BY DEF EditorInit
<1>4. FormInv
  BY <1>1, <1>2, <1>3, FieldsAreRows DEF FormInv
<1>5. RenderedInv /\ SentInv /\ EditorKeepsPolicies
  BY <1>2, <1>3 DEF EditorInit, RenderedInv, SentInv, EditorKeepsPolicies, SentPoliciesAreValid,
     UneditedSaveKeepsPolicy, FlaggedUnlessRaced, CopyKeepsOtherDays
<1> QED BY <1>4, <1>5 DEF EditorInit, EditorInv

\* A new editor shows what the server holds; the requests are of older ones.
LEMMA RenderEditorStep == EditorInv /\ RenderEditor /\ subject' = subject => EditorInv'
<1> SUFFICES ASSUME EditorInv, RenderEditor, subject' = subject PROVE EditorInv'
    OBVIOUS
<1>1. PolicyOf(stored, DayTimes) /\ rendered' = stored /\ stored' = stored
  BY DEF EditorInv, FormInv, RenderEditor
<1>2. windows' = ReadPolicy(stored).windows /\ windows' \in [Days -> Seq(DayTimes \union {Reversed})]
  BY <1>1, PoliciesAreRead DEF RenderEditor
<1>3. fields' = FieldsOf(windows')
  BY DEF RenderEditor
<1>4. FormInv'
  BY <1>1, <1>2, <1>3, FieldsAreRows DEF FormInv
<1>5. RenderedInv'
  BY <1>2, <1>3 DEF RenderEditor, RenderedInv, ReadPolicy
<1>6. ASSUME NEW r \in requests PROVE r.editor \in 1..editor /\ r.editor # editor'
  BY DEF EditorInv, SentInv, RenderEditor
<1>7. SentInv'
  BY <1>6 DEF EditorInv, SentInv, RenderEditor
<1>8. EditorKeepsPolicies'
  BY DEF RenderEditor, EditorInv, EditorKeepsPolicies, SentPoliciesAreValid, Draft, Valid,
     UneditedSaveKeepsPolicy, FlaggedUnlessRaced, CopyKeepsOtherDays
<1> QED BY <1>4, <1>5, <1>7, <1>8 DEF EditorInv, RenderEditor

\* A change of the draft that keeps the form in order, and no other day's times.
LEMMA EditStep ==
    EditorInv /\ Edit /\ FormInv' /\ (\A e \in Days : <<"copy", e>> \notin lost') => EditorInv'
<1> SUFFICES ASSUME EditorInv, Edit, FormInv', \A e \in Days : <<"copy", e>> \notin lost'
             PROVE  EditorInv'
    OBVIOUS
<1>1. RenderedInv'
  BY DEF Edit, RenderedInv
<1>2. ASSUME NEW r \in requests, r.editor = editor PROVE editor' \in raced'
  BY <1>2 DEF Edit
<1>3. SentInv'
  BY <1>2 DEF Edit, EditorInv, SentInv
<1>4. FlaggedUnlessRaced'
  BY DEF Edit, FlaggedUnlessRaced
<1>5. SentPoliciesAreValid' /\ UneditedSaveKeepsPolicy' /\ CopyKeepsOtherDays'
  BY DEF Edit, EditorInv, EditorKeepsPolicies, SentPoliciesAreValid, UneditedSaveKeepsPolicy,
     CopyKeepsOtherDays, Valid
<1> QED BY <1>1, <1>3, <1>4, <1>5 DEF EditorInv, EditorKeepsPolicies, Edit

\* A copy gives the chosen days the source's first window.
LEMMA CopiedWindows ==
    ASSUME NEW w \in [Days -> Seq(DayTimes \union {Reversed})], NEW d \in Days, NEW targets
    PROVE  CopyWindowToDays(w, d, targets) \in [Days -> Seq(DayTimes \union {Reversed})]
<1>1. CASE w[d] = <<>>
  BY <1>1 DEF CopyWindowToDays
<1>2. CASE w[d] # <<>>
  <2>1. w[d] \in Seq(DayTimes \union {Reversed})
    OBVIOUS
  <2>2. w[d][1] \in DayTimes \union {Reversed}
    BY <1>2, <2>1
  <2>3. <<w[d][1]>> \in Seq(DayTimes \union {Reversed})
    BY <2>2, OneTime
  <2> QED BY <1>2, <2>3 DEF CopyWindowToDays
<1> QED BY <1>1, <1>2

\* Each change of the draft keeps the form in order, and a copy keeps the days
\* it is not about.
LEMMA ChangeSteps ==
    ASSUME EditorInv,
           \/ \E m : ChangeMode(m)
           \/ \E d \in Days, time \in DayTimes \union {Reversed, Blank} : ChangeTime(d, time)
           \/ \E d \in Days : Toggle(d) \/ ClearDay(d)
           \/ \E d \in Days, targets \in SUBSET Days : CopyToSelected(d, targets)
           \/ ClearWeek
    PROVE  EditorInv'
<1>0. /\ FormInv /\ (\A e \in Days : <<"copy", e>> \notin lost)
      /\ NoWindows \in [Days -> Seq(DayTimes \union {Reversed})]
  <2>1. <<>> \in Seq(DayTimes \union {Reversed})
    OBVIOUS
  <2> QED BY <2>1 DEF EditorInv, EditorKeepsPolicies, CopyKeepsOtherDays, NoWindows
<1>1. ASSUME Edit, windows' \in [Days -> Seq(DayTimes \union {Reversed})],
             fields' = FieldsOf(windows')
      PROVE  FormInv'
  BY <1>0, <1>1, FieldsAreRows DEF FormInv, Edit
<1>2. ASSUME NEW m, ChangeMode(m) PROVE EditorInv'
  <2>1. FormInv' /\ lost' = lost /\ Edit
    BY <1>0, <1>2 DEF ChangeMode, Edit, FormInv
  <2> QED BY <1>0, <2>1, EditStep
<1>3. ASSUME NEW d \in Days, NEW time \in DayTimes \union {Reversed, Blank}, ChangeTime(d, time)
      PROVE  EditorInv'
  <2>1. fields' \in [Days -> Rows] /\ \A e \in Days : fields'[e].time # Blank => fields'[e].enabled
    BY <1>0, <1>3 DEF ChangeTime, FormInv, Rows
  <2>2. FormInv' /\ lost' = lost /\ Edit
    BY <1>0, <1>3, <2>1 DEF ChangeTime, Edit, FormInv
  <2> QED BY <1>0, <2>2, EditStep
<1>4. ASSUME NEW d \in Days, Toggle(d) PROVE EditorInv'
  <2>1. fields' \in [Days -> Rows] /\ \A e \in Days : fields'[e].time # Blank => fields'[e].enabled
    BY <1>0, <1>4 DEF Toggle, FormInv, Rows
  <2>2. FormInv' /\ lost' = lost /\ Edit
    BY <1>0, <1>4, <2>1 DEF Toggle, Edit, FormInv
  <2> QED BY <1>0, <2>2, EditStep
<1>5. ASSUME NEW d \in Days, ClearDay(d) PROVE EditorInv'
  <2>1. windows' \in [Days -> Seq(DayTimes \union {Reversed})]
    <3>1. <<>> \in Seq(DayTimes \union {Reversed})
      OBVIOUS
    <3> QED BY <1>0, <1>5, <3>1 DEF ClearDay, FormInv
  <2>2. \A e \in Days : <<"copy", e>> \notin lost'
    BY <1>5 DEF ClearDay, Lost
  <2>3. Edit /\ fields' = FieldsOf(windows')
    BY <1>5 DEF ClearDay
  <2> QED BY <1>1, <2>1, <2>2, <2>3, EditStep
<1>6. ASSUME NEW d \in Days, NEW targets \in SUBSET Days, CopyToSelected(d, targets)
      PROVE  EditorInv'
  <2>1. windows' = CopyWindowToDays(ReadWindowsFromFields, d, targets) /\ Edit
        /\ fields' = FieldsOf(windows') /\ lost' = Lost("copy", Days \ (targets \ {d}))
    BY <1>6 DEF CopyToSelected
  <2>2. windows' \in [Days -> Seq(DayTimes \union {Reversed})]
    BY <1>0, <2>1, RowsAreRead, CopiedWindows DEF FormInv
  <2>3. ASSUME NEW e \in Days \ (targets \ {d}), fields[e].time # Blank
        PROVE  fields'[e] = fields[e]
    <3>1. windows'[e] = ReadWindowsFromFields[e]
      BY <2>1, <2>3 DEF CopyWindowToDays
    <3>2. ReadWindowsFromFields[e] = <<fields[e].time>> /\ fields[e] \in Rows /\ fields[e].enabled = TRUE
      BY <1>0, <2>3 DEF FormInv, ReadWindowsFromFields, Rows
    <3>3. fields'[e] = [enabled |-> TRUE, time |-> fields[e].time]
      <4>1. windows'[e] # <<>> /\ windows'[e][1] = fields[e].time
        BY <3>1, <3>2
      <4> QED BY <2>1, <4>1 DEF FieldsOf
    <3> QED BY <3>2, <3>3 DEF Rows
  <2>4. \A e \in Days : <<"copy", e>> \notin lost'
    BY <2>1, <2>3 DEF Lost
  <2> QED BY <1>1, <2>1, <2>2, <2>4, EditStep
<1>7. ASSUME ClearWeek PROVE EditorInv'
  <2>1. Edit /\ windows' = NoWindows /\ fields' = FieldsOf(windows') /\ lost' = lost
    BY <1>7 DEF ClearWeek
  <2> QED BY <1>0, <1>1, <2>1, EditStep
<1> QED BY <1>2, <1>3, <1>4, <1>5, <1>6, <1>7

\* What an editor submits, edited or not.
LEMMA SubmittedPolicy ==
    ASSUME EditorInv, DraftIsValid
    PROVE  /\ PolicyOf(PolicyInput, DayTimes)
           /\ PolicyInput.mode = "scheduled" =>
                 Valid(PolicyInput.windows) /\ \A d \in Days : Len(PolicyInput.windows[d]) <= 1
           /\ ~touched /\ (\A d \in Days : Len(rendered.windows[d]) <= 1)
                 => PolicyInput = rendered
<1>0. FormInv /\ RenderedInv
  BY DEF EditorInv
<1>1. CASE mode = "scheduled"
  <2>1. PolicyInput = [mode |-> mode, windows |-> ReadWindowsFromFields]
    BY <1>1 DEF PolicyInput, Policy
  <2>2. ReadWindowsFromFields \in [Days -> Seq(DayTimes)] /\ Valid(ReadWindowsFromFields)
        /\ \A d \in Days : Len(ReadWindowsFromFields[d]) <= 1
    BY <1>0, <1>1, RowsAreRead DEF FormInv, DraftIsValid
  <2>3. ASSUME ~touched, \A d \in Days : Len(rendered.windows[d]) <= 1
        PROVE  PolicyInput = rendered
    <3>1. rendered = [mode |-> mode, windows |-> rendered.windows]
          /\ rendered.windows \in [Days -> Seq(DayTimes)]
      BY <1>0, <2>3 DEF FormInv, PolicyOf, RenderedInv
    <3>2. CASE subject # "machine"
      <4>1. <<>> \in Seq(DayTimes)
        OBVIOUS
      <4>2. fields = FieldsOf(NoWindows) /\ NoWindows \in [Days -> Seq(DayTimes)]
            /\ \A d \in Days : NoWindows[d] = <<>>
        BY <1>0, <2>3, <3>2, <4>1 DEF RenderedInv, ReadPolicy, Policy, NoWindows
      <4>3. \A d \in Days : ReadWindowsFromFields[d] = <<>>
        BY <4>2 DEF ReadWindowsFromFields, FieldsOf, Off
      <4> QED BY <2>2, <4>3 DEF Valid
    <3>3. CASE subject = "machine"
      <4>1. fields = FieldsOf(rendered.windows)
        BY <1>0, <2>3, <3>3 DEF RenderedInv, ReadPolicy
      <4>2. ReadWindowsFromFields = rendered.windows
        BY <2>3, <3>1, <4>1, ReadingKeepsWindows
      <4> QED BY <2>1, <3>1, <4>2
    <3> QED BY <3>2, <3>3
  <2> QED BY <1>1, <2>1, <2>2, <2>3 DEF PolicyOf
<1>2. CASE mode # "scheduled"
  <2>1. <<>> \in Seq(DayTimes)
    OBVIOUS
  <2>2. PolicyInput = [mode |-> mode, windows |-> NoWindows] /\ NoWindows \in [Days -> Seq(DayTimes)]
    BY <1>2, <2>1 DEF PolicyInput, Policy, NoWindows
  <2>3. ~touched => PolicyInput = rendered
    BY <1>0, <1>2, <2>2 DEF RenderedInv, FormInv, PolicyOf
  <2> QED BY <1>2, <2>2, <2>3 DEF PolicyOf
<1> QED BY <1>1, <1>2

\* A request of a policy that may be saved.
LEMMA SendStep ==
    ASSUME EditorInv, NEW kind, NEW p, PolicyOf(p, DayTimes),
           p.mode = "scheduled" => Valid(p.windows) /\ \A d \in Days : Len(p.windows[d]) <= 1,
           kind = "save" /\ ~touched /\ (\A d \in Days : Len(rendered.windows[d]) <= 1)
               => p = rendered,
           Send(kind, p), windows' \in [Days -> Seq(DayTimes \union {Reversed})],
           UNCHANGED <<subject, stored, editor, mode, fields, dirty, rendered, saved, lost, raced,
                       touched, edits>>
    PROVE  EditorInv'
<1>1. PICK r : /\ requests' = requests \union {r}
               /\ r = [kind |-> kind, editor |-> editor, policy |-> p, from |-> rendered,
                       touched |-> touched, draft |-> Draft, answer |-> "none"]
  BY DEF Send
<1>2. FormInv' /\ RenderedInv'
  BY DEF EditorInv, FormInv, RenderedInv, ReadPolicy
<1>3. Draft' = Draft
  BY DEF Draft
<1>4. SentInv'
  BY <1>1, <1>3 DEF EditorInv, SentInv
<1>5. SentPoliciesAreValid'
  BY <1>1 DEF EditorInv, EditorKeepsPolicies, SentPoliciesAreValid, Valid
<1>6. UneditedSaveKeepsPolicy'
  BY <1>1 DEF EditorInv, EditorKeepsPolicies, UneditedSaveKeepsPolicy
<1>7. FlaggedUnlessRaced' /\ CopyKeepsOtherDays'
  BY <1>3 DEF EditorInv, EditorKeepsPolicies, FlaggedUnlessRaced, CopyKeepsOtherDays
<1> QED BY <1>2, <1>4, <1>5, <1>6, <1>7 DEF EditorInv, EditorKeepsPolicies

\* The buttons: what is read from the form becomes the list.
LEMMA ButtonSteps ==
    EditorInv /\ (Preview \/ Save \/ RemovePolicy) /\ subject' = subject => EditorInv'
<1> SUFFICES ASSUME EditorInv, Preview \/ Save \/ RemovePolicy, subject' = subject PROVE EditorInv'
    OBVIOUS
<1>1. FormInv /\ ReadWindowsFromFields \in [Days -> Seq(DayTimes \union {Reversed})]
  BY RowsAreRead DEF EditorInv, FormInv
<1>2. CASE Preview
  <2>1. FormInv' /\ Draft' = Draft
    BY <1>1, <1>2 DEF Preview, FormInv, Draft
  <2> QED
    BY <1>2, <2>1 DEF Preview, EditorInv, RenderedInv, ReadPolicy, SentInv, EditorKeepsPolicies,
       SentPoliciesAreValid, UneditedSaveKeepsPolicy, FlaggedUnlessRaced, CopyKeepsOtherDays, Valid
<1>3. CASE Save
  <2>1. DraftIsValid /\ Send("save", PolicyInput) /\ windows' = ReadWindowsFromFields
    BY <1>3 DEF Save
  <2> QED BY <1>1, <1>3, <2>1, SubmittedPolicy, SendStep DEF Save
<1>4. CASE RemovePolicy
  <2>1. <<>> \in Seq(DayTimes)
    OBVIOUS
  <2>2. PolicyOf(Manual, DayTimes) /\ Manual.mode = "manual"
    BY <2>1 DEF Manual, Policy, PolicyOf, NoWindows
  <2>3. Send("remove", Manual) /\ windows' = windows
    BY <1>4 DEF RemovePolicy
  <2> QED BY <1>1, <1>4, <2>2, <2>3, SendStep DEF RemovePolicy, FormInv
<1> QED BY <1>2, <1>3, <1>4

\* The end of a request: a draft that was saved and not edited since is clean.
LEMMA AnswerSteps == EditorInv /\ EditorAnswers /\ subject' = subject => EditorInv'
<1> SUFFICES ASSUME EditorInv, subject' = subject, NEW r \in requests,
                    CarryOut(r) \/ Answered(r) \/ RequestRefused(r)
             PROVE  EditorInv'
    BY DEF EditorAnswers
<1>0. Draft' = Draft /\ editor' = editor /\ raced' = raced
  BY DEF CarryOut, Answered, RequestRefused, Draft
<1>1. ASSUME NEW q \in requests'
      PROVE  \E s \in requests :
                /\ q.kind = s.kind /\ q.editor = s.editor /\ q.policy = s.policy
                /\ q.from = s.from /\ q.touched = s.touched /\ q.draft = s.draft
  <2>1. CASE q \in requests
    BY <2>1
  <2>2. CASE CarryOut(r) /\ q = [r EXCEPT !.answer = "ok"]
    BY <2>2
  <2> QED BY <1>1, <2>1, <2>2 DEF CarryOut, Answered, RequestRefused
<1>2. FormInv' /\ RenderedInv'
  BY DEF EditorInv, FormInv, RenderedInv, ReadPolicy, SentInv, CarryOut, Answered, RequestRefused
<1>3. SentInv'
  BY <1>0, <1>1 DEF EditorInv, SentInv
<1>4. SentPoliciesAreValid' /\ UneditedSaveKeepsPolicy'
  BY <1>1 DEF EditorInv, EditorKeepsPolicies, SentPoliciesAreValid, UneditedSaveKeepsPolicy, Valid
<1>5. FlaggedUnlessRaced'
  <2>1. CASE Answered(r) /\ r.editor = editor
    BY <1>0, <2>1 DEF EditorInv, SentInv, Answered, FlaggedUnlessRaced
  <2>2. CASE Answered(r) /\ r.editor # editor
    BY <1>0, <2>2 DEF EditorInv, EditorKeepsPolicies, Answered, FlaggedUnlessRaced
  <2>3. CASE CarryOut(r) \/ RequestRefused(r)
    BY <1>0, <2>3 DEF EditorInv, EditorKeepsPolicies, CarryOut, RequestRefused, FlaggedUnlessRaced
  <2> QED BY <2>1, <2>2, <2>3
<1>6. CopyKeepsOtherDays'
  BY DEF EditorInv, EditorKeepsPolicies, CopyKeepsOtherDays, CarryOut, Answered, RequestRefused
<1> QED BY <1>0, <1>2, <1>3, <1>4, <1>5, <1>6 DEF EditorInv, EditorKeepsPolicies

LEMMA EditorStep == EditorInv /\ [EditorNext]_editorVars => EditorInv'
<1> SUFFICES ASSUME EditorInv, [EditorNext]_editorVars PROVE EditorInv'
    OBVIOUS
<1>1. CASE UNCHANGED editorVars
  BY <1>1 DEF editorVars, EditorInv, FormInv, RenderedInv, ReadPolicy, SentInv, EditorKeepsPolicies, Draft,
     SentPoliciesAreValid, UneditedSaveKeepsPolicy, FlaggedUnlessRaced, CopyKeepsOtherDays, Valid
<1>2. CASE RenderEditor /\ subject' = subject
  BY <1>2, RenderEditorStep
<1>3. CASE (Preview \/ Save \/ RemovePolicy) /\ subject' = subject
  BY <1>3, ButtonSteps
<1>4. CASE EditorAnswers /\ subject' = subject
  BY <1>4, AnswerSteps
<1>5. CASE \/ ClearWeek
           \/ \E m \in {"manual", "scheduled"} : ChangeMode(m)
           \/ \E d \in Days :
                 \/ \E time \in DayTimes \union {Reversed, Blank} : ChangeTime(d, time)
                 \/ Toggle(d) \/ ClearDay(d)
                 \/ \E targets \in SUBSET Days : CopyToSelected(d, targets)
  BY <1>5, ChangeSteps
<1> QED BY <1>1, <1>2, <1>3, <1>4, <1>5 DEF EditorNext, EditorSteps

\* weekly-schedule-editor.ts, machine-schedule-editor.ts and their handlers:
\* whatever the order of edits, copies, saves, refusals and renderings, what is
\* sent passes the server's rules, an untouched editor sends nothing but the
\* policy it was rendered from, unsaved changes are flagged unless a request
\* was in flight, and a copy loses no other day.  An editor of a service does
\* not show the windows of that policy (EditorShowsSchedule).
THEOREM EditorKeepsWhatItShows == EditorSpec => []EditorKeepsPolicies
<1>1. EditorInv => EditorKeepsPolicies
  BY DEF EditorInv
<1> QED BY <1>1, EditorInitial, EditorStep, PTL DEF EditorSpec
-----------------------------------------------------------------------------
(* The power controls. *)

\* Mutations are numbered as they are sent; a rendering has one preparation in
\* flight at most, and it is newer than what is prepared.
PowerInv ==
    /\ sent \in Nat /\ renders \in Nat /\ prepared \in 0..sent
    /\ mutations \subseteq
          [kind : WakeMutations \union {"preparation", "execution"}, rendering : 0..renders,
           occurrence : issued \union {None}, state : {"sent", "refreshing"}, id : 1..sent]
    /\ \A r, q \in mutations :
          r.kind = "preparation" /\ q.kind = "preparation" /\ r.rendering = q.rendering => r = q
    /\ \A r \in mutations :
          r.kind = "preparation" /\ r.state = "sent" /\ r.rendering = renders => prepared < r.id
    /\ issued \subseteq 1..sent /\ offered \in issued \union {None}
    /\ OnlyPreparedIsExecuted /\ DisabledOffersNothing

\* An answered mutation stays in flight, awaiting the refresh; the others stay
\* as they are.
LEMMA AcceptStep ==
    ASSUME PowerInv, NEW r \in mutations, Accept(r), UNCHANGED <<renders, sent>>,
           issued \subseteq issued', prepared' \in 0..sent,
           issued' \subseteq 1..sent, offered' \in issued' \union {None},
           OnlyPreparedIsExecuted', DisabledOffersNothing',
           \A q \in mutations \ {r} :
              q.kind = "preparation" /\ q.state = "sent" /\ q.rendering = renders
                 => prepared' < q.id
    PROVE  PowerInv'
<1> DEFINE s == [r EXCEPT !.state = "refreshing"]
<1>1. /\ s.kind = r.kind /\ s.rendering = r.rendering /\ s.id = r.id /\ s.state = "refreshing"
      /\ s \in [kind : WakeMutations \union {"preparation", "execution"}, rendering : 0..renders,
                occurrence : issued \union {None}, state : {"sent", "refreshing"}, id : 1..sent]
  BY DEF PowerInv
<1>2. mutations' = (mutations \ {r}) \union {s}
  BY DEF Accept
<1> HIDE DEF s
<1>3. mutations' \subseteq
          [kind : WakeMutations \union {"preparation", "execution"}, rendering : 0..renders,
           occurrence : issued' \union {None}, state : {"sent", "refreshing"}, id : 1..sent]
  BY <1>1, <1>2 DEF PowerInv
<1>4. ASSUME NEW p \in mutations', NEW q \in mutations', p.kind = "preparation",
             q.kind = "preparation", p.rendering = q.rendering
      PROVE  p = q
  BY <1>1, <1>2, <1>4 DEF PowerInv
<1>5. ASSUME NEW q \in mutations', q.kind = "preparation", q.state = "sent",
             q.rendering = renders
      PROVE  prepared' < q.id
  BY <1>1, <1>2, <1>5
<1> QED BY <1>3, <1>4, <1>5 DEF PowerInv, WakeMutations

\* A mutation that is sent is newer than all before it.
LEMMA SendMutationStep ==
    ASSUME PowerInv, NEW kind \in WakeMutations \union {"preparation", "execution"},
           NEW occurrence \in issued \union {None}, SendMutation(kind, occurrence),
           UNCHANGED <<renders, enabled, prepared, offered, issued>>,
           executed' \subseteq issued
    PROVE  PowerInv'
<1> DEFINE s == Request(kind, occurrence)
<1>1. /\ s.kind = kind /\ s.rendering = renders /\ s.id = sent + 1 /\ s.state = "sent"
      /\ s \in [kind : WakeMutations \union {"preparation", "execution"}, rendering : 0..renders,
                occurrence : issued \union {None}, state : {"sent", "refreshing"}, id : 1..(sent + 1)]
  BY DEF PowerInv, Request
<1>2. /\ mutations' = mutations \union {s} /\ sent' = sent + 1
      /\ \A r \in mutations : ~(r.kind = kind /\ r.rendering = renders)
  BY DEF SendMutation
<1> HIDE DEF s
<1>3. mutations' \subseteq
          [kind : WakeMutations \union {"preparation", "execution"}, rendering : 0..renders,
           occurrence : issued \union {None}, state : {"sent", "refreshing"}, id : 1..(sent + 1)]
  BY <1>1, <1>2 DEF PowerInv
<1>4. ASSUME NEW p \in mutations', NEW q \in mutations', p.kind = "preparation",
             q.kind = "preparation", p.rendering = q.rendering
      PROVE  p = q
  BY <1>1, <1>2, <1>4 DEF PowerInv
<1>5. ASSUME NEW q \in mutations', q.kind = "preparation", q.state = "sent",
             q.rendering = renders
      PROVE  prepared < q.id
  BY <1>1, <1>2, <1>5 DEF PowerInv
<1>6. OnlyPreparedIsExecuted' /\ DisabledOffersNothing'
  BY DEF PowerInv, OnlyPreparedIsExecuted, DisabledOffersNothing
<1> QED BY <1>2, <1>3, <1>4, <1>5, <1>6 DEF PowerInv

LEMMA PowerStep == PowerInv /\ [PowerNext]_powerVars => PowerInv'
<1> SUFFICES ASSUME PowerInv, [PowerNext]_powerVars PROVE PowerInv'
    OBVIOUS
<1>1. CASE UNCHANGED powerVars
  BY <1>1 DEF powerVars, PowerInv, OnlyPreparedIsExecuted, DisabledOffersNothing
<1>2. ASSUME NEW w \in BOOLEAN, NEW s \in BOOLEAN, RenderOverview(w, s) PROVE PowerInv'
  <2>1. renders' = renders + 1 /\ UNCHANGED <<mutations, sent, issued, executed>>
    BY <1>2 DEF RenderOverview
  <2>2. /\ prepared' \in {prepared, None} /\ offered' \in {prepared', None}
        /\ ~enabled' => prepared' = None /\ offered' = None
    BY <1>2 DEF RenderOverview
  <2>3. \A r \in mutations : r.rendering \in 0..renders /\ r.rendering # renders'
    BY <2>1 DEF PowerInv
  <2>4. OnlyPreparedIsExecuted' /\ DisabledOffersNothing'
    BY <2>1, <2>2 DEF PowerInv, OnlyPreparedIsExecuted, DisabledOffersNothing
  <2> QED BY <2>1, <2>2, <2>3, <2>4 DEF PowerInv, OnlyPreparedIsExecuted, None
<1>3. ASSUME NEW kind \in WakeMutations, MutateWake(kind) PROVE PowerInv'
  BY <1>3, SendMutationStep DEF MutateWake, PowerInv, OnlyPreparedIsExecuted
<1>4. CASE PrepareShutdown
  BY <1>4, SendMutationStep DEF PrepareShutdown, PowerInv, OnlyPreparedIsExecuted
<1>5. CASE ExecuteShutdown
  <2>1. offered \in issued /\ executed' = executed \union {offered}
    BY <1>5 DEF ExecuteShutdown, PowerInv
  <2> QED BY <1>5, <2>1, SendMutationStep DEF ExecuteShutdown, PowerInv, OnlyPreparedIsExecuted
<1>6. ASSUME NEW r \in mutations, PreparationAnswered(r) PROVE PowerInv'
  <2>1. /\ r.kind = "preparation" /\ Accept(r) /\ issued' = issued \union {r.id}
        /\ UNCHANGED <<renders, enabled, offered, sent, executed>> /\ r.id \in 1..sent
    BY <1>6 DEF PreparationAnswered, PowerInv
  <2>2. CASE enabled /\ r.rendering = renders
    <3>1. prepared' = r.id
      BY <1>6, <2>2 DEF PreparationAnswered
    <3>2. OnlyPreparedIsExecuted' /\ DisabledOffersNothing'
      BY <2>1, <2>2, <3>1 DEF PowerInv, OnlyPreparedIsExecuted, DisabledOffersNothing
    <3>3. \A q \in mutations \ {r} : ~(q.kind = "preparation" /\ q.rendering = renders)
      BY <2>1, <2>2 DEF PowerInv
    <3>4. /\ issued \subseteq issued' /\ issued' \subseteq 1..sent /\ prepared' \in 0..sent
          /\ offered' \in issued' \union {None} /\ UNCHANGED <<renders, sent>>
      <4>1. issued \subseteq 1..sent /\ offered \in issued \union {None} /\ sent \in Nat
        BY DEF PowerInv
      <4>2. issued \union {r.id} \subseteq 1..sent /\ r.id \in 0..sent
        <5>1. r.id \in 1..sent
          BY <2>1
        <5>2. \A i \in 1..sent : issued \union {i} \subseteq 1..sent /\ i \in 0..sent
          BY <4>1
        <5> QED BY <5>1, <5>2
      <4>3. offered \in (issued \union {r.id}) \union {None}
        BY <4>1
      <4> QED BY <2>1, <3>1, <4>1, <4>2, <4>3
    <3> QED BY <2>1, <3>2, <3>3, <3>4, AcceptStep
  <2>3. CASE ~(enabled /\ r.rendering = renders)
    <3>1. prepared' = prepared
      BY <1>6, <2>3 DEF PreparationAnswered
    <3>2. OnlyPreparedIsExecuted' /\ DisabledOffersNothing'
      BY <2>1, <3>1 DEF PowerInv, OnlyPreparedIsExecuted, DisabledOffersNothing
    <3> QED BY <2>1, <3>1, <3>2, AcceptStep DEF PowerInv
  <2> QED BY <2>2, <2>3
<1>7. ASSUME NEW r \in mutations, ExecutionAnswered(r) \/ WakeAnswered(r) PROVE PowerInv'
  <2>1. /\ Accept(r) /\ prepared' \in {prepared, None}
        /\ UNCHANGED <<renders, enabled, offered, sent, issued, executed>>
    BY <1>7 DEF ExecutionAnswered, WakeAnswered
  <2>2. OnlyPreparedIsExecuted' /\ DisabledOffersNothing'
    BY <2>1 DEF PowerInv, OnlyPreparedIsExecuted, DisabledOffersNothing
  <2>3. \A q \in mutations : q.id \in 1..sent
    BY DEF PowerInv
  <2> QED BY <2>1, <2>2, <2>3, AcceptStep DEF PowerInv, None
<1>8. ASSUME NEW r \in mutations, MutationFailed(r) \/ MutationEnds(r) PROVE PowerInv'
  BY <1>8 DEF MutationFailed, MutationEnds, PowerInv, OnlyPreparedIsExecuted, DisabledOffersNothing
<1> QED BY <1>1, <1>2, <1>3, <1>4, <1>5, <1>6, <1>7, <1>8 DEF PowerNext, PowerAnswers

LEMMA PowerInitial == PowerInit => PowerInv
BY DEF PowerInit, PowerInv, OnlyPreparedIsExecuted, DisabledOffersNothing, None

\* A preparation in flight is newer than what is prepared.
LEMMA PreparedStep == PowerInv /\ [PowerNext]_powerVars => [PreparedAdvances]_powerVars
<1> SUFFICES ASSUME PowerInv, PowerNext PROVE PreparedAdvances
    OBVIOUS
<1>1. CASE \E r \in mutations : PreparationAnswered(r)
  BY <1>1 DEF PreparationAnswered, PowerInv, PreparedAdvances
<1>2. CASE ~(\E r \in mutations : PreparationAnswered(r))
  BY <1>2 DEF PowerNext, PowerAnswers, RenderOverview, MutateWake, PrepareShutdown, ExecuteShutdown,
     ExecutionAnswered, WakeAnswered, MutationFailed, MutationEnds, PreparedAdvances
<1> QED BY <1>1, <1>2
-----------------------------------------------------------------------------
(* The list of events. *)

\* What a page that was read after an event holds: the events that follow it.
FollowsFrom(answer, after) ==
    /\ answer.events \in Seq(Nat) /\ \A i \in DOMAIN answer.events : answer.events[i] = after + i
    /\ answer.cursor.nextAfterSequence \in 0..total
    /\ answer.cursor.nextAfterSequence # Undefined =>
          /\ answer.events # <<>>
          /\ answer.events[Len(answer.events)] = answer.cursor.nextAfterSequence

\* As long as nothing overlapped, there is one press at most, of the button that
\* is on the page, for what follows the list.
EventsInv ==
    /\ total \in Nat /\ list \in Seq(Nat) /\ cursor.nextAfterSequence \in 0..total
    /\ \A l \in eventLoads :
          /\ l = [generation |-> l.generation, stage |-> l.stage, page |-> l.page]
          /\ FollowsFrom(l.page, 0)
    /\ \A p \in presses :
          /\ p = [button |-> p.button, after |-> p.after, page |-> p.page, id |-> p.id]
          /\ p.after \in 1..total /\ FollowsFrom(p.page, p.after)
    /\ ~overlapped =>
          /\ \A p \in presses : p.button = more /\ p.after = Len(list)
          /\ \A p, q \in presses : p = q
    /\ CursorEndsTheList /\ ContiguousUnlessOverlapped

\* What the server answers follows from what it was asked.
LEMMA PageFollows ==
    ASSUME total \in Nat, NEW after \in 0..total
    PROVE  FollowsFrom(Page(after), after) /\ FollowsFrom(Unread, after)
<1> DEFINE last == IF total - after > PageSize THEN after + PageSize ELSE total
<1>1. last \in after..total /\ (last < total => last > after)
  BY EventsAssumption
<1>2. /\ Page(after).events = [i \in 1..(last - after) |-> after + i]
      /\ Page(after).cursor.nextAfterSequence = IF last < total THEN last ELSE Undefined
  BY DEF Page, Cursor
<1> HIDE DEF last
<1>3. /\ Page(after).events \in Seq(Nat) /\ Len(Page(after).events) = last - after
      /\ DOMAIN Page(after).events = 1..(last - after)
  BY <1>1, <1>2
<1>4. FollowsFrom(Page(after), after)
  BY <1>1, <1>2, <1>3 DEF FollowsFrom, Undefined
<1>5. FollowsFrom(Unread, after)
  BY DEF FollowsFrom, Unread, Cursor, Undefined
<1> QED BY <1>4, <1>5

\* A list up to the event before a page is extended by it without a gap.
LEMMA ListExtends ==
    ASSUME list \in Seq(Nat), NEW answer, NEW after \in Nat, FollowsFrom(answer, after), total \in Nat
    PROVE  /\ list \o answer.events \in Seq(Nat)
           /\ Contiguous(list) /\ after = Len(list) => Contiguous(list \o answer.events)
           /\ answer.cursor.nextAfterSequence # Undefined =>
                 /\ list \o answer.events # <<>>
                 /\ (list \o answer.events)[Len(list \o answer.events)] = answer.cursor.nextAfterSequence
<1>1. answer.events \in Seq(Nat) /\ list \o answer.events \in Seq(Nat)
      /\ Len(list \o answer.events) = Len(list) + Len(answer.events)
  BY DEF FollowsFrom
<1>2. \A i \in 1..(Len(list) + Len(answer.events)) :
         (list \o answer.events)[i] = IF i <= Len(list) THEN list[i] ELSE answer.events[i - Len(list)]
  BY <1>1
<1>3. ASSUME Contiguous(list), after = Len(list) PROVE Contiguous(list \o answer.events)
  <2>1. ASSUME NEW i \in 1..(Len(list) + Len(answer.events)) PROVE (list \o answer.events)[i] = i
    <3>1. CASE i <= Len(list)
      BY <1>1, <1>2, <1>3, <3>1 DEF Contiguous
    <3>2. CASE i > Len(list)
      <4>1. i - Len(list) \in DOMAIN answer.events /\ ~(i <= Len(list))
        BY <1>1, <3>2
      <4>2. answer.events[i - Len(list)] = after + (i - Len(list))
        BY <4>1 DEF FollowsFrom
      <4> QED BY <1>1, <1>2, <1>3, <4>1, <4>2
    <3> QED BY <1>1, <3>1, <3>2
  <2> QED BY <1>1, <2>1 DEF Contiguous
<1>4. ASSUME answer.cursor.nextAfterSequence # Undefined
      PROVE  /\ list \o answer.events # <<>>
             /\ (list \o answer.events)[Len(list \o answer.events)] = answer.cursor.nextAfterSequence
  <2>1. answer.events # <<>> /\ Len(answer.events) > 0
        /\ answer.events[Len(answer.events)] = answer.cursor.nextAfterSequence
    BY <1>1, <1>4 DEF FollowsFrom
  <2>2. (list \o answer.events)[Len(list) + Len(answer.events)] = answer.events[Len(answer.events)]
    BY <1>1, <1>2, <2>1
  <2> QED BY <1>1, <2>1, <2>2
<1> QED BY <1>1, <1>3, <1>4

\* A page stays one when the history grows.
LEMMA FollowsGrows ==
    ASSUME NEW answer, NEW after, FollowsFrom(answer, after), total \in Nat, total' \in Nat,
           total <= total'
    PROVE  FollowsFrom(answer, after)'
BY DEF FollowsFrom

LEMMA EventsInitial == EventsInit => EventsInv
BY EventsAssumption
   DEF EventsInit, EventsInv, Cursor, Undefined, CursorEndsTheList, ContiguousUnlessOverlapped, Contiguous

\* Loads and presses that begin, are answered or fail leave the list alone.
LEMMA WaitingSteps ==
    ASSUME EventsInv,
           \/ Record \/ BeginLoad
           \/ \E l \in eventLoads : AnswerLoad(l) \/ FailLoad(l)
           \/ \E p \in presses : AnswerPress(p) \/ FailPress(p)
    PROVE  EventsInv'
<1>1. /\ UNCHANGED <<list, cursor, overlapped, more>> /\ total' \in Nat /\ total <= total'
  BY DEF EventsInv, Record, BeginLoad, AnswerLoad, FailLoad, AnswerPress, FailPress, section
<1>2. ASSUME NEW l \in eventLoads'
      PROVE  /\ l = [generation |-> l.generation, stage |-> l.stage, page |-> l.page]
             /\ FollowsFrom(l.page, 0)'
  <2>1. \/ l \in eventLoads
        \/ l = [generation |-> newest + 1, stage |-> "page", page |-> Unread]
        \/ \E k \in eventLoads : l = [k EXCEPT !.page = Page(0)]
    BY <1>2 DEF Record, BeginLoad, AnswerLoad, FailLoad, AnswerPress, FailPress
  <2>2. /\ l = [generation |-> l.generation, stage |-> l.stage, page |-> l.page]
        /\ l \in eventLoads \/ l.page = Unread \/ l.page = Page(0)
    <3>1. ASSUME NEW k \in eventLoads, l = [k EXCEPT !.page = Page(0)]
          PROVE  l = [generation |-> k.generation, stage |-> k.stage, page |-> Page(0)]
      <4>1. k = [generation |-> k.generation, stage |-> k.stage, page |-> k.page]
        BY DEF EventsInv
      <4> QED BY <3>1, <4>1
    <3> QED BY <2>1, <3>1 DEF EventsInv
  <2>3. FollowsFrom(l.page, 0)
    BY <2>2, PageFollows DEF EventsInv
  <2> QED BY <1>1, <2>2, <2>3, FollowsGrows DEF EventsInv
<1>3. ASSUME NEW p \in presses'
      PROVE  /\ p = [button |-> p.button, after |-> p.after, page |-> p.page, id |-> p.id]
             /\ p.after \in 1..total' /\ FollowsFrom(p.page, p.after)'
             /\ \E q \in presses : p.button = q.button /\ p.after = q.after
  <2>1. \/ p \in presses
        \/ \E q \in presses : p = [q EXCEPT !.page = Page(q.after)]
    BY <1>3 DEF Record, BeginLoad, AnswerLoad, FailLoad, AnswerPress, FailPress
  <2>2. /\ p = [button |-> p.button, after |-> p.after, page |-> p.page, id |-> p.id]
        /\ p.after \in 1..total /\ FollowsFrom(p.page, p.after)
        /\ \E q \in presses : p.button = q.button /\ p.after = q.after
    <3>1. CASE p \in presses
      BY <3>1 DEF EventsInv
    <3>2. ASSUME NEW q \in presses, p = [q EXCEPT !.page = Page(q.after)]
          PROVE  /\ p = [button |-> q.button, after |-> q.after, page |-> Page(q.after), id |-> q.id]
                 /\ q.after \in 1..total /\ FollowsFrom(Page(q.after), q.after)
      <4>1. /\ q = [button |-> q.button, after |-> q.after, page |-> q.page, id |-> q.id]
            /\ q.after \in 0..total /\ q.after \in 1..total /\ total \in Nat
        BY DEF EventsInv
      <4>2. FollowsFrom(Page(q.after), q.after)
        BY <4>1, PageFollows
      <4> QED BY <3>2, <4>1, <4>2
    <3> QED BY <2>1, <3>1, <3>2
  <2> QED BY <1>1, <2>2, FollowsGrows DEF EventsInv
<1>4. ASSUME ~overlapped, NEW p \in presses', NEW q \in presses' PROVE p = q
  BY <1>4 DEF EventsInv, Record, BeginLoad, AnswerLoad, FailLoad, AnswerPress, FailPress
<1>5. cursor.nextAfterSequence \in 0..total'
  BY <1>1 DEF EventsInv
<1>6. CursorEndsTheList' /\ ContiguousUnlessOverlapped'
  BY <1>1 DEF EventsInv, CursorEndsTheList, ContiguousUnlessOverlapped, Contiguous
<1> QED BY <1>1, <1>2, <1>3, <1>4, <1>5, <1>6 DEF EventsInv

\* A first page replaces the list, whatever is in flight.
LEMMA FirstPageStep ==
    ASSUME EventsInv, NEW l \in eventLoads, TakeFirstPage(l)
    PROVE  EventsInv'
<1>1. /\ FollowsFrom(l.page, 0) /\ list' = l.page.events /\ cursor' = l.page.cursor
      /\ overlapped' = (presses # {}) /\ UNCHANGED <<total, more, presses>>
  BY DEF EventsInv, TakeFirstPage
<1>2. ASSUME NEW k \in eventLoads'
      PROVE  /\ k = [generation |-> k.generation, stage |-> k.stage, page |-> k.page]
             /\ FollowsFrom(k.page, 0)'
  <2>1. k \in eventLoads \/ k = [l EXCEPT !.stage = "rest"]
    BY <1>2 DEF TakeFirstPage
  <2>2. l = [generation |-> l.generation, stage |-> l.stage, page |-> l.page]
    BY DEF EventsInv
  <2>3. /\ k = [generation |-> k.generation, stage |-> k.stage, page |-> k.page]
        /\ FollowsFrom(k.page, 0)
    BY <1>1, <2>1, <2>2 DEF EventsInv
  <2> QED BY <1>1, <2>3, FollowsGrows DEF EventsInv
<1>3. ASSUME NEW p \in presses'
      PROVE  /\ p = [button |-> p.button, after |-> p.after, page |-> p.page, id |-> p.id]
             /\ p.after \in 1..total' /\ FollowsFrom(p.page, p.after)'
  BY <1>1, <1>3, FollowsGrows DEF EventsInv
<1>4. CursorEndsTheList' /\ Contiguous(list') /\ list' \in Seq(Nat)
      /\ cursor'.nextAfterSequence \in 0..total'
  BY <1>1 DEF FollowsFrom, CursorEndsTheList, Contiguous
<1>5. total' \in Nat
  BY <1>1 DEF EventsInv
<1> QED BY <1>1, <1>2, <1>3, <1>4, <1>5 DEF EventsInv, ContiguousUnlessOverlapped

\* The end of a load renders the list, under a press or not.
LEMMA EndLoadStep ==
    ASSUME EventsInv, NEW l \in eventLoads, EndLoad(l)
    PROVE  EventsInv'
<1>1. /\ UNCHANGED <<total, list, cursor, presses>> /\ eventLoads' \subseteq eventLoads
      /\ overlapped => overlapped'
      /\ overlapped' \/ presses = {} \/ more' = more
  BY DEF EndLoad, RenderAudit, EventsInv
<1>2. CursorEndsTheList' /\ ContiguousUnlessOverlapped'
  BY <1>1 DEF EventsInv, CursorEndsTheList, ContiguousUnlessOverlapped, Contiguous
<1>3. \A answer, after : FollowsFrom(answer, after) => FollowsFrom(answer, after)'
  BY <1>1 DEF FollowsFrom
<1> QED BY <1>1, <1>2, <1>3 DEF EventsInv

\* A press is of a new button, for what follows the list.
LEMMA PressStep == ASSUME EventsInv, Press PROVE EventsInv'
<1> DEFINE n == [button |-> more, after |-> cursor.nextAfterSequence, page |-> Unread, id |-> pressed]
<1>1. /\ presses' = presses \union {n} /\ n.button = more
      /\ n.after = cursor.nextAfterSequence /\ n.page = Unread
      /\ n = [button |-> n.button, after |-> n.after, page |-> n.page, id |-> n.id]
      /\ n.after # Undefined
  BY DEF Press, PressAnytime
<1> HIDE DEF n
<1>2. UNCHANGED <<total, eventLoads, list, cursor, more, overlapped>>
      /\ \A p \in presses : p.button # more
  BY DEF Press, PressAnytime, section
<1>3. n.after \in 1..total /\ FollowsFrom(n.page, n.after)
  BY <1>1, PageFollows DEF EventsInv, Undefined
<1>4. ASSUME ~overlapped PROVE presses = {} /\ n.after = Len(list)
  <2>1. list # <<>> /\ list[Len(list)] = n.after /\ Contiguous(list) /\ list \in Seq(Nat)
    BY <1>1, <1>4 DEF EventsInv, CursorEndsTheList, ContiguousUnlessOverlapped
  <2>2. Len(list) \in DOMAIN list
    BY <2>1
  <2> QED BY <1>2, <1>4, <2>1, <2>2 DEF EventsInv, Contiguous
<1>5. \A answer, after : FollowsFrom(answer, after) => FollowsFrom(answer, after)'
  BY <1>2 DEF FollowsFrom
<1>6. CursorEndsTheList' /\ ContiguousUnlessOverlapped'
  BY <1>2 DEF EventsInv, CursorEndsTheList, ContiguousUnlessOverlapped, Contiguous
<1> QED BY <1>1, <1>2, <1>3, <1>4, <1>5, <1>6 DEF EventsInv

\* The page of a press extends the list.
LEMMA MoreStep ==
    ASSUME EventsInv, NEW p \in presses, LoadMoreArrives(p)
    PROVE  EventsInv'
<1>1. /\ list' = list \o p.page.events /\ cursor' = p.page.cursor
      /\ presses' = presses \ {p} /\ UNCHANGED <<total, eventLoads, overlapped>>
  BY DEF LoadMoreArrives
<1>2. /\ FollowsFrom(p.page, p.after) /\ p.after \in Nat
      /\ list \in Seq(Nat) /\ total \in Nat
      /\ ~overlapped => Contiguous(list) /\ p.after = Len(list) /\ presses' = {}
  BY <1>1 DEF EventsInv, ContiguousUnlessOverlapped
<1>3. /\ list' \in Seq(Nat) /\ CursorEndsTheList'
      /\ ~overlapped => Contiguous(list')
  BY <1>1, <1>2, ListExtends DEF CursorEndsTheList
<1>4. \A answer, after : FollowsFrom(answer, after) => FollowsFrom(answer, after)'
  BY <1>1 DEF FollowsFrom
<1>5. cursor'.nextAfterSequence \in 0..total'
  BY <1>1, <1>2 DEF FollowsFrom
<1>6. ContiguousUnlessOverlapped'
  BY <1>1, <1>3 DEF ContiguousUnlessOverlapped, Contiguous
<1> QED BY <1>1, <1>2, <1>3, <1>4, <1>5, <1>6 DEF EventsInv

LEMMA EventsStep == EventsInv /\ [EventsNext]_eventVars => EventsInv'
<1> SUFFICES ASSUME EventsInv, [EventsNext]_eventVars PROVE EventsInv'
    OBVIOUS
<1>1. CASE UNCHANGED eventVars
  BY <1>1 DEF eventVars, EventsInv, FollowsFrom, CursorEndsTheList, ContiguousUnlessOverlapped,
     Contiguous
<1> QED BY <1>1, WaitingSteps, FirstPageStep, EndLoadStep, PressStep, MoreStep DEF EventsNext
-----------------------------------------------------------------------------
(* The sections. *)

Versions == {Failed} \union 1..version

\* Types, and how far the operations have taken the version.
StateInv ==
    /\ generation \in [Sections -> 0..MaxLoads]
    /\ status \in [Sections -> {"loading", "ready", "failed", "stale"}]
    /\ shown \in [Sections -> 0..version]
    /\ refreshes \subseteq Callers \X (1..MaxLoads)
    /\ button \in BOOLEAN
    /\ health \in {"unknown", "Healthy", "Degraded", "Unavailable"}
    /\ operation \in
          [Operations -> [state : {"none", "sent", "executed", "refused", "refreshing", "done",
                                   "reported"},
                          card : Nat, made : Nat]]
    /\ \A o \in Operations : operation[o].state \in {"none", "sent"} => operation[o].made = 0
    /\ cards \in Nat
    /\ version = 1 + Cardinality({o \in Operations : operation[o].made # 0})

\* A load is the only one of its number, and awaits the list read that may be
\* joined, or its own; nothing else is being read.
ReadsInv ==
    /\ \A l \in loads :
          /\ l = Load(l.section, l.generation, l.by, l.read, l.value, l.later)
          /\ l.section \in Sections /\ l.generation \in 1..generation[l.section]
          /\ l.value \in {Pending} \union Versions
          /\ l.read = NoRead => l.value # Pending
          /\ l.read # NoRead =>
                /\ l.read \in DOMAIN reads
                /\ l.read = IF l.section \in Sharing THEN shared ELSE <<l.section, l.generation>>
    /\ \A l, k \in loads : l.section = k.section /\ l.generation = k.generation => l = k
    /\ shared # NoRead => shared \in DOMAIN reads /\ shared[1] = "list"
    /\ \A r \in DOMAIN reads :
          /\ reads[r] \in {Pending} \union Versions
          /\ \/ r = shared /\ shared # NoRead
             \/ \E s \in Sections \ Sharing : \E g \in 1..generation[s] : r = <<s, g>>

\* The newest load of a section brings nothing older than what is shown; the
\* list read, nothing older than what an earlier one brought.
FreshInv ==
    /\ \A l \in loads :
          l.generation = generation[l.section] =>
             /\ l.value \in 1..version => l.value >= shown[l.section]
             /\ l.read # NoRead /\ reads[l.read] \in 1..version => reads[l.read] >= shown[l.section]
    /\ (shared # NoRead /\ reads[shared] \in 1..version) =>
          /\ \A s \in Sections \intersect Sharing : reads[shared] >= shown[s]
          /\ \A l \in loads : l.section \in Sharing /\ l.value \in 1..version
                => reads[shared] >= l.value

\* The later read of a load is sent once the first one has brought its value,
\* and finds nothing older than that, nor than what an earlier one showed.
LaterInv ==
    /\ details \in [Sections -> 0..version] /\ blank \subseteq Detailed
    /\ \A l \in loads :
          /\ l.later \in {Nothing, Pending} \union Versions
          /\ l.later # Nothing =>
                l.section \in Detailed /\ l.read = NoRead /\ l.value \in 1..version
          /\ l.read = NoRead /\ l.value # Failed /\ l.section \in Detailed => l.later # Nothing
          /\ l.later \in 1..version =>
                /\ l.later >= l.value
                /\ l.generation = generation[l.section] => l.later >= details[l.section]
    /\ DetailsFollow

SectionsInv == StateInv /\ ReadsInv /\ FreshInv /\ LaterInv

\* Nothing is loaded or read at first.
LEMMA SectionsInitial == Init => SectionsInv
<1> SUFFICES ASSUME Init PROVE SectionsInv
  OBVIOUS
<1>1. {o \in Operations : operation[o].made # 0} = {}
  BY DEF Init
<1>2. Cardinality({o \in Operations : operation[o].made # 0}) = 0
  BY <1>1, FS_EmptySet
<1>3. StateInv
  <2>0. version = 1
    BY DEF Init
  <2>1. MaxLoads \in Nat
    BY DashboardAssumption
  <2>2. 0 \in 0..MaxLoads /\ 0 \in 0..version
    BY <2>0, <2>1
  <2> QED
    BY <1>2, <2>0, <2>2 DEF Init, StateInv, Nothing
<1>4. DOMAIN reads = {} /\ loads = {} /\ shared = NoRead
  BY DEF Init
<1>5. ReadsInv
  BY <1>4 DEF ReadsInv
<1>6. FreshInv
  BY <1>4 DEF FreshInv
<1>7. LaterInv
  <2>1. details = [s \in Sections |-> 0] /\ shown = details /\ blank = {} /\ version = 1
    BY DEF Init, Nothing
  <2>2. details \in [Sections -> 0..version]
    <3>1. 0 \in 0..version
      BY <2>1
    <3> QED
      BY <2>1, <3>1
  <2>3. ASSUME NEW s \in Detailed \ blank PROVE details[s] >= shown[s]
    <3>1. s \in Sections /\ details[s] = 0 /\ shown[s] = 0
      BY <2>1, DashboardAssumption
    <3> QED
      BY <3>1
  <2> QED
    BY <1>4, <2>1, <2>2, <2>3 DEF LaterInv, DetailsFollow
<1> QED
  BY <1>3, <1>5, <1>6, <1>7 DEF SectionsInv

\* There is a version, and what is shown is one of them, or nothing.
LEMMA VersionsCounted ==
  ASSUME StateInv
  PROVE  /\ version \in Nat /\ 1 <= version
         /\ version <= 1 + Cardinality(Operations)
         /\ Cardinality(Operations) \in Nat
<1> DEFINE made == {o \in Operations : operation[o].made # 0}
<1>1. made \subseteq Operations /\ IsFiniteSet(Operations)
  BY DashboardAssumption
<1>2. Cardinality(made) \in Nat /\ Cardinality(Operations) \in Nat
      /\ Cardinality(made) <= Cardinality(Operations)
  BY <1>1, FS_Subset, FS_CardinalityType
<1>3. version = 1 + Cardinality(made)
  BY DEF StateInv
<1> QED
  BY <1>2, <1>3

\* What the invariant says of one read, and of one load.
LEMMA ReadFacts ==
  ASSUME SectionsInv, NEW r \in DOMAIN reads
  PROVE  /\ r # NoRead
         /\ reads[r] \in {Pending} \union Versions
         /\ \A k \in Nat : r = <<"list", k>> => r = shared
         /\ \A s \in Sections : r # <<s, generation[s] + 1>>
<1>1. /\ reads[r] \in {Pending} \union Versions
      /\ \/ r = shared /\ shared # NoRead
         \/ \E s \in Sections \ Sharing : \E g \in 1..generation[s] : r = <<s, g>>
  BY DEF SectionsInv, ReadsInv
<1>2. CASE r = shared /\ shared # NoRead
  <2>1. shared[1] = "list"
    BY <1>2 DEF SectionsInv, ReadsInv
  <2>2. \A s \in Sections : r # <<s, generation[s] + 1>>
    <3> SUFFICES ASSUME NEW s \in Sections, r = <<s, generation[s] + 1>> PROVE FALSE
      OBVIOUS
    <3>1. r[1] = s
      OBVIOUS
    <3> QED
      BY <2>1, <1>2, <3>1, DashboardAssumption
  <2> QED
    BY <1>1, <1>2, <2>2
<1>3. CASE \E s \in Sections \ Sharing : \E g \in 1..generation[s] : r = <<s, g>>
  <2>0. PICK s \in Sections \ Sharing : \E g \in 1..generation[s] : r = <<s, g>>
    BY <1>3
  <2>1. PICK g \in 1..generation[s] : r = <<s, g>>
    BY <2>0
  <2>2. r[1] = s /\ r[2] = g /\ s # "list" /\ s # "no read"
    BY <2>1, DashboardAssumption
  <2>3. r # NoRead /\ \A k \in Nat : r # <<"list", k>>
    <3>1. NoRead[1] = "no read"
      BY DEF NoRead
    <3>2. \A k \in Nat : r = <<"list", k>> => r[1] = "list"
      OBVIOUS
    <3> QED
      BY <2>2, <3>1, <3>2
  <2>4. generation[s] \in 0..MaxLoads /\ MaxLoads \in Nat
    BY DashboardAssumption DEF SectionsInv, StateInv
  <2>5. \A q \in Sections : r # <<q, generation[q] + 1>>
    <3> SUFFICES ASSUME NEW q \in Sections, r = <<q, generation[q] + 1>> PROVE FALSE
      OBVIOUS
    <3>1. q = s /\ g = generation[q] + 1
      BY <2>2
    <3> QED
      BY <3>1, <2>4
  <2> QED
    BY <1>1, <2>3, <2>5
<1> QED
  BY <1>1, <1>2, <1>3

\* What the invariant says of one load.
LEMMA LoadFacts ==
  ASSUME SectionsInv, NEW l \in loads
  PROVE  /\ l = Load(l.section, l.generation, l.by, l.read, l.value, l.later)
         /\ l.section \in Sections /\ generation[l.section] \in 0..MaxLoads
         /\ l.generation \in 1..generation[l.section]
         /\ shown[l.section] \in 0..version
         /\ l.value \in {Pending} \union Versions /\ (l.read = NoRead => l.value # Pending)
         /\ l.read # NoRead => l.read \in DOMAIN reads
         /\ l.read # NoRead /\ l.section \in Sharing => l.read = shared
         /\ l.read # NoRead /\ l.section \notin Sharing => l.read = <<l.section, l.generation>>
         /\ \A k \in loads : l.section = k.section /\ l.generation = k.generation => l = k
         /\ l.generation = generation[l.section] =>
               /\ l.value \in 1..version => l.value >= shown[l.section]
               /\ l.read # NoRead /\ reads[l.read] \in 1..version
                     => reads[l.read] >= shown[l.section]
         /\ (shared # NoRead /\ reads[shared] \in 1..version
               /\ l.section \in Sharing /\ l.value \in 1..version) => reads[shared] >= l.value
<1>1. l.section \in Sections
  BY DEF SectionsInv, ReadsInv
<1>2. generation[l.section] \in 0..MaxLoads /\ shown[l.section] \in 0..version
  BY <1>1 DEF SectionsInv, StateInv
<1> QED
  BY <1>1, <1>2 DEF SectionsInv, ReadsInv, FreshInv

\* What the invariant says of the later read of a load.
LEMMA LaterFacts ==
  ASSUME SectionsInv, NEW l \in loads
  PROVE  /\ details[l.section] \in 0..version /\ l.section \in Sections
         /\ l.later \in {Nothing, Pending} \union Versions
         /\ l.later # Nothing =>
               l.section \in Detailed /\ l.read = NoRead /\ l.value \in 1..version
         /\ l.read = NoRead /\ l.value # Failed /\ l.section \in Detailed => l.later # Nothing
         /\ l.later \in 1..version =>
               /\ l.later >= l.value
               /\ l.generation = generation[l.section] => l.later >= details[l.section]
BY LoadFacts DEF SectionsInv, LaterInv

\* A step that leaves what is shown and the versions alone takes nothing back.
LEMMA NothingShown ==
  ASSUME SectionsInv, UNCHANGED <<shown, details>>
  PROVE  ShownAdvances
<1>1. version \in Nat
  BY VersionsCounted DEF SectionsInv
<1>2. ASSUME NEW s \in Sections PROVE shown[s] \in 0..version /\ details[s] \in 0..version
  BY DEF SectionsInv, StateInv, LaterInv
<1> QED
  BY <1>1, <1>2 DEF ShownAdvances

\* The answer of the server is no older than anything shown or brought before.
LEMMA AnswerStep ==
  ASSUME SectionsInv, NEW r \in DOMAIN reads, Answer(r)
  PROVE  SectionsInv' /\ ShownAdvances
<1>1. PICK value \in {version, Failed} : reads' = [reads EXCEPT ![r] = value]
  BY DEF Answer
<1>2. /\ version' = version /\ generation' = generation /\ shown' = shown /\ loads' = loads
      /\ shared' = shared /\ details' = details /\ blank' = blank
  BY DEF Answer
<1>3. version \in Nat /\ 1 <= version
  BY VersionsCounted DEF SectionsInv
<1>4. value \in Versions /\ value # Pending /\ (value \in 1..version => value = version)
  BY <1>3 DEF Versions, Failed, Pending
<1>5. DOMAIN reads' = DOMAIN reads /\ \A q \in DOMAIN reads : reads'[q] = reads[q] \/ (q = r /\ reads'[q] = value)
  BY <1>1
<1>6. StateInv'
  BY <1>2 DEF Answer, SectionsInv, StateInv
<1>7. ReadsInv'
  <2>1. \A q \in DOMAIN reads : reads'[q] \in {Pending} \union Versions
    BY <1>4, <1>5 DEF SectionsInv, ReadsInv
  <2> QED
    BY <1>2, <1>5, <2>1 DEF SectionsInv, ReadsInv, Versions
<1>8. FreshInv'
  <2>1. ASSUME NEW l \in loads, l.generation = generation[l.section]
        PROVE  /\ l.value \in 1..version => l.value >= shown[l.section]
               /\ l.read # NoRead /\ reads'[l.read] \in 1..version
                     => reads'[l.read] >= shown[l.section]
    BY <2>1, <1>3, <1>4, <1>5, LoadFacts
  <2>2. ASSUME shared # NoRead, reads'[shared] \in 1..version
        PROVE  /\ \A s \in Sections \intersect Sharing : reads'[shared] >= shown[s]
               /\ \A l \in loads : l.section \in Sharing /\ l.value \in 1..version
                     => reads'[shared] >= l.value
    <3>1. shared \in DOMAIN reads
      BY <2>2 DEF SectionsInv, ReadsInv
    <3>2. CASE reads'[shared] = reads[shared]
      BY <2>2, <3>2 DEF SectionsInv, FreshInv
    <3>3. CASE reads'[shared] = version
      <4>1. \A s \in Sections : shown[s] \in 0..version
        BY DEF SectionsInv, StateInv
      <4> QED
        BY <3>3, <4>1, <1>3
    <3> QED
      BY <2>2, <3>1, <3>2, <3>3, <1>4, <1>5
  <2> QED
    BY <1>2, <2>1, <2>2 DEF FreshInv
<1>9. LaterInv'
  BY <1>2 DEF SectionsInv, LaterInv, Versions, DetailsFollow
<1>10. ShownAdvances
  BY <1>2, NothingShown
<1> QED
  BY <1>6, <1>7, <1>8, <1>9, <1>10 DEF SectionsInv

\* So is the answer to a later read.
LEMMA AnswerLaterStep ==
  ASSUME SectionsInv, NEW l \in loads, AnswerLater(l)
  PROVE  SectionsInv' /\ ShownAdvances
<1>1. PICK value \in {version, Failed} : loads' = (loads \ {l}) \union {[l EXCEPT !.later = value]}
  BY DEF AnswerLater
<1> DEFINE m == [l EXCEPT !.later = value]
<1>2. /\ l.later = Pending /\ version' = version /\ generation' = generation /\ shown' = shown
      /\ reads' = reads /\ shared' = shared /\ details' = details /\ blank' = blank
  BY DEF AnswerLater
<1>3. version \in Nat /\ 1 <= version
  BY VersionsCounted DEF SectionsInv
<1>4. value \in Versions /\ value # Nothing /\ (value \in 1..version => value = version)
  BY <1>3 DEF Versions, Failed, Nothing
<1>5. /\ m = Load(l.section, l.generation, l.by, l.read, l.value, m.later) /\ m.later = value
      /\ m.section = l.section /\ m.generation = l.generation /\ m.by = l.by
      /\ m.read = l.read /\ m.value = l.value
  <2>1. l = Load(l.section, l.generation, l.by, l.read, l.value, l.later)
    BY LoadFacts
  <2> QED
    BY <2>1 DEF Load
<1>6. loads' = (loads \ {l}) \union {m}
  BY <1>1
<1> HIDE DEF m
<1>7. StateInv'
  BY <1>2 DEF AnswerLater, SectionsInv, StateInv
<1>8. ReadsInv'
  <2>1. ASSUME NEW k \in loads'
        PROVE  /\ k = Load(k.section, k.generation, k.by, k.read, k.value, k.later)
               /\ k.section \in Sections /\ k.generation \in 1..generation[k.section]
               /\ k.value \in {Pending} \union Versions
               /\ k.read = NoRead => k.value # Pending
               /\ k.read # NoRead =>
                     /\ k.read \in DOMAIN reads
                     /\ k.read = IF k.section \in Sharing THEN shared
                                 ELSE <<k.section, k.generation>>
    <3>1. CASE k \in loads
      BY <3>1, LoadFacts
    <3>2. CASE k = m
      BY <3>2, <1>5, LoadFacts
    <3> QED
      BY <1>6, <3>1, <3>2
  <2>2. ASSUME NEW k \in loads', NEW q \in loads', k.section = q.section, k.generation = q.generation
        PROVE  k = q
    <3>1. \A p \in loads \ {l} : ~(p.section = l.section /\ p.generation = l.generation)
      BY LoadFacts
    <3> QED
      BY <1>5, <1>6, <2>2, <3>1, LoadFacts
  <2> QED
    BY <1>2, <2>1, <2>2 DEF SectionsInv, ReadsInv, Versions
<1>9. FreshInv'
  <2>1. ASSUME NEW k \in loads'
        PROVE  \E p \in loads : /\ k.section = p.section /\ k.generation = p.generation
                                /\ k.read = p.read /\ k.value = p.value
    BY <1>5, <1>6
  <2> QED
    BY <1>2, <2>1 DEF SectionsInv, FreshInv
<1>10. LaterInv'
  <2>1. l.section \in Detailed /\ l.read = NoRead /\ l.value \in 1..version
        /\ details[l.section] \in 0..version
    BY <1>2, LaterFacts DEF Pending, Nothing
  <2>2. ASSUME NEW k \in loads'
        PROVE  /\ k.later \in {Nothing, Pending} \union Versions
               /\ k.later # Nothing =>
                     k.section \in Detailed /\ k.read = NoRead /\ k.value \in 1..version
               /\ k.read = NoRead /\ k.value # Failed /\ k.section \in Detailed
                     => k.later # Nothing
               /\ k.later \in 1..version =>
                     /\ k.later >= k.value
                     /\ k.generation = generation[k.section] => k.later >= details[k.section]
    <3>1. CASE k \in loads
      BY <3>1, LaterFacts
    <3>2. CASE k = m
      BY <3>2, <2>1, <1>3, <1>4, <1>5
    <3> QED
      BY <1>6, <3>1, <3>2
  <2> QED
    BY <1>2, <2>2 DEF SectionsInv, LaterInv, Versions, DetailsFollow
<1>11. ShownAdvances
  BY <1>2, NothingShown
<1> QED
  BY <1>7, <1>8, <1>9, <1>10, <1>11 DEF SectionsInv

\* The loads that await a read take what it brought, and nothing else changes.
LEMMA DeliverStep ==
  ASSUME SectionsInv, NEW r \in DOMAIN reads, Deliver(r)
  PROVE  SectionsInv' /\ ShownAdvances
<1> DEFINE D(l) == IF l.read = r THEN After(l, reads[r]) ELSE l
           Sent(l) == IF l.section \in Detailed /\ reads[r] # Failed THEN Pending ELSE Nothing
<1>1. /\ reads[r] # Pending /\ reads' = [q \in DOMAIN reads \ {r} |-> reads[q]]
      /\ shared' = IF shared = r THEN NoRead ELSE shared
      /\ loads' = {D(l) : l \in loads}
  BY DEF Deliver
<1>2. version' = version /\ generation' = generation /\ shown' = shown
      /\ details' = details /\ blank' = blank
  BY DEF Deliver
<1>3. version \in Nat /\ 1 <= version
  BY VersionsCounted DEF SectionsInv
<1>4. r # NoRead /\ reads[r] \in Versions
  BY <1>1, ReadFacts
<1>5. ASSUME NEW l \in loads
      PROVE  /\ D(l) = Load(l.section, l.generation, l.by,
                            IF l.read = r THEN NoRead ELSE l.read,
                            IF l.read = r THEN reads[r] ELSE l.value,
                            IF l.read = r THEN Sent(l) ELSE l.later)
             /\ D(l).section = l.section /\ D(l).generation = l.generation
             /\ D(l).read = IF l.read = r THEN NoRead ELSE l.read
             /\ D(l).value = IF l.read = r THEN reads[r] ELSE l.value
             /\ D(l).later = IF l.read = r THEN Sent(l) ELSE l.later
             /\ D(l).by = l.by
  <2>1. l = Load(l.section, l.generation, l.by, l.read, l.value, l.later)
    BY LoadFacts
  <2> QED
    BY <2>1 DEF Load, After
<1>6. StateInv'
  BY <1>2 DEF Deliver, SectionsInv, StateInv
<1> HIDE DEF D, Sent
<1>7. ReadsInv'
  <2>1. ASSUME NEW l \in loads
        PROVE  /\ D(l) = Load(D(l).section, D(l).generation, D(l).by, D(l).read, D(l).value,
                              D(l).later)
               /\ D(l).section \in Sections /\ D(l).generation \in 1..generation[D(l).section]
               /\ D(l).value \in {Pending} \union Versions
               /\ D(l).read = NoRead => D(l).value # Pending
               /\ D(l).read # NoRead =>
                     /\ D(l).read \in DOMAIN reads'
                     /\ D(l).read = IF D(l).section \in Sharing THEN shared'
                                    ELSE <<D(l).section, D(l).generation>>
    BY <1>1, <1>4, <1>5, LoadFacts
  <2>2. \A l, k \in loads : D(l).section = D(k).section /\ D(l).generation = D(k).generation
           => D(l) = D(k)
    BY <1>5 DEF SectionsInv, ReadsInv
  <2>3. shared' # NoRead => shared' \in DOMAIN reads' /\ shared'[1] = "list"
    BY <1>1 DEF SectionsInv, ReadsInv
  <2>4. \A q \in DOMAIN reads' :
           /\ reads'[q] \in {Pending} \union Versions
           /\ \/ q = shared' /\ shared' # NoRead
              \/ \E s \in Sections \ Sharing : \E g \in 1..generation[s] : q = <<s, g>>
    BY <1>1 DEF SectionsInv, ReadsInv
  <2> QED
    BY <1>1, <1>2, <2>1, <2>2, <2>3, <2>4 DEF ReadsInv, Versions
<1>8. FreshInv'
  <2>1. ASSUME NEW l \in loads, D(l).generation = generation[D(l).section]
        PROVE  /\ D(l).value \in 1..version => D(l).value >= shown[D(l).section]
               /\ D(l).read # NoRead /\ reads'[D(l).read] \in 1..version
                     => reads'[D(l).read] >= shown[D(l).section]
    BY <2>1, <1>1, <1>4, <1>5, LoadFacts
  <2>2. ASSUME shared' # NoRead, reads'[shared'] \in 1..version
        PROVE  /\ \A s \in Sections \intersect Sharing : reads'[shared'] >= shown[s]
               /\ \A l \in loads : D(l).section \in Sharing /\ D(l).value \in 1..version
                     => reads'[shared'] >= D(l).value
    <3>1. shared' = shared /\ shared # r /\ shared \in DOMAIN reads
      BY <1>1, <2>2 DEF SectionsInv, ReadsInv
    <3>2. reads'[shared'] = reads[shared]
      BY <1>1, <3>1
    <3>3. \A l \in loads : l.section \in Sharing => l.read # r
      BY <3>1, <1>4, LoadFacts
    <3> QED
      BY <2>2, <3>1, <3>2, <3>3, <1>5 DEF SectionsInv, FreshInv
  <2> QED
    BY <1>1, <1>2, <2>1, <2>2 DEF FreshInv
<1>9. LaterInv'
  <2>1. ASSUME NEW l \in loads
        PROVE  /\ D(l).later \in {Nothing, Pending} \union Versions
               /\ D(l).later # Nothing =>
                     D(l).section \in Detailed /\ D(l).read = NoRead /\ D(l).value \in 1..version
               /\ D(l).read = NoRead /\ D(l).value # Failed /\ D(l).section \in Detailed
                     => D(l).later # Nothing
               /\ D(l).later \in 1..version =>
                     /\ D(l).later >= D(l).value
                     /\ D(l).generation = generation[D(l).section]
                           => D(l).later >= details[D(l).section]
    <3>1. CASE l.read = r
      <4>1. D(l).later = Sent(l) /\ D(l).read = NoRead /\ D(l).value = reads[r]
            /\ D(l).section = l.section
        BY <1>5, <3>1
      <4>2. reads[r] # Failed => reads[r] \in 1..version
        BY <1>4 DEF Versions
      <4>3. Pending # Nothing /\ Pending \notin 1..version /\ Nothing \notin 1..version
        BY <1>3 DEF Pending, Nothing
      <4> QED
        BY <4>1, <4>2, <4>3 DEF Sent
    <3>2. CASE l.read # r
      BY <3>2, <1>5, LaterFacts
    <3> QED
      BY <3>1, <3>2
  <2> QED
    BY <1>1, <1>2, <2>1 DEF SectionsInv, LaterInv, Versions, DetailsFollow
<1>10. ShownAdvances
  BY <1>2, NothingShown
<1> QED
  BY <1>6, <1>7, <1>8, <1>9, <1>10 DEF SectionsInv

\* Only the newest load of a section is applied, and it brings nothing older
\* than what is shown; no other load is the newest of that section.
LEMMA FinishStep ==
  ASSUME SectionsInv, NEW l \in loads, Finish(l)
  PROVE  SectionsInv' /\ ShownAdvances
<1>1. /\ l.read = NoRead /\ l.later # Pending /\ loads' = loads \ {l}
      /\ version' = version /\ generation' = generation /\ reads' = reads /\ shared' = shared
      /\ refreshes' = refreshes /\ button' = button /\ health' = health /\ operation' = operation
  BY DEF Finish
<1>2. version \in Nat /\ 1 <= version
  BY VersionsCounted DEF SectionsInv
<1>3. /\ l.section \in Sections /\ l.value \in Versions
      /\ status \in [Sections -> {"loading", "ready", "failed", "stale"}]
      /\ shown \in [Sections -> 0..version] /\ cards \in Nat
  BY <1>1, LoadFacts DEF SectionsInv, StateInv
<1>4. Apply(l)
  BY DEF Finish
<1>5. \/ shown' = shown
      \/ /\ l.generation = generation[l.section] /\ l.value \in 1..version
         /\ shown' = [shown EXCEPT ![l.section] = l.value] /\ l.value >= shown[l.section]
  BY <1>3, <1>4, LoadFacts DEF Apply, ApplyAlways, Versions
<1>6. /\ status' \in [Sections -> {"loading", "ready", "failed", "stale"}] /\ cards' \in Nat
      /\ shown' \in [Sections -> 0..version]
  <2>1. status' \in [Sections -> {"loading", "ready", "failed", "stale"}] /\ cards' \in Nat
    BY <1>3, <1>4 DEF Apply, ApplyAlways
  <2>2. shown' \in [Sections -> 0..version]
    BY <1>2, <1>3, <1>5
  <2> QED
    BY <2>1, <2>2
<1>7. StateInv'
  BY <1>1, <1>6 DEF SectionsInv, StateInv
<1>8. ReadsInv'
  BY <1>1 DEF SectionsInv, ReadsInv, Versions
<1>9. FreshInv'
  <2>1. ASSUME NEW k \in loads \ {l}, k.generation = generation[k.section]
        PROVE  shown'[k.section] = shown[k.section]
    BY <2>1, <1>3, <1>5, LoadFacts
  <2>2. ASSUME shared # NoRead, reads[shared] \in 1..version, NEW s \in Sections \intersect Sharing
        PROVE  reads[shared] >= shown'[s]
    <3>1. reads[shared] >= shown[s]
      BY <2>2 DEF SectionsInv, FreshInv
    <3>2. CASE shown'[s] = shown[s]
      BY <3>1, <3>2
    <3>3. CASE s = l.section /\ shown'[s] = l.value /\ l.value \in 1..version
      BY <2>2, <3>3, LoadFacts
    <3> QED
      BY <3>2, <3>3, <1>3, <1>5
  <2> QED
    BY <1>1, <2>1, <2>2 DEF SectionsInv, FreshInv
<1>10. /\ details \in [Sections -> 0..version] /\ blank \subseteq Detailed
       /\ l.later \in {Nothing} \union Versions /\ (l.later # Nothing => l.section \in Detailed)
       /\ l.value # Failed /\ l.section \in Detailed => l.later # Nothing
       /\ l.later \in 1..version => l.later >= l.value
       /\ l.later \in 1..version /\ l.generation = generation[l.section]
             => l.later >= details[l.section]
  BY <1>1, LaterFacts DEF SectionsInv, LaterInv
<1>11. \/ UNCHANGED <<shown, details, blank>>
       \/ /\ l.generation = generation[l.section] /\ l.value \in 1..version
          /\ shown' = [shown EXCEPT ![l.section] = l.value]
          /\ \/ /\ l.later \in 1..version
                /\ details' = [details EXCEPT ![l.section] = l.later]
                /\ blank' = blank \ {l.section}
             \/ l.later = Nothing /\ details' = details /\ blank' = blank \ {l.section}
             \/ l.later = Failed /\ details' = details /\ blank' = blank \union {l.section}
  <2>1. Nothing # Failed /\ Nothing \notin 1..version /\ Failed \notin 1..version
    BY <1>2 DEF Nothing, Failed
  <2> QED
    BY <1>3, <1>4, <1>10, <2>1 DEF Apply, ApplyAlways, Versions
<1>12. /\ details' \in [Sections -> 0..version] /\ blank' \subseteq Detailed
       /\ \A s \in Sections : details'[s] >= details[s]
       /\ \A s \in Sections \ {l.section} : details'[s] = details[s]
  <2>1. 1..version \subseteq 0..version /\ \A s \in Sections : details[s] \in Nat /\ details[s] >= details[s]
    BY <1>2, <1>10
  <2>2. l.later = Failed => l.section \in Detailed
    BY <1>10 DEF Failed, Nothing
  <2> QED
    BY <1>3, <1>10, <1>11, <2>1, <2>2
<1>13. DetailsFollow'
  <2> SUFFICES ASSUME NEW s \in Detailed \ blank' PROVE details'[s] >= shown'[s]
    BY DEF DetailsFollow
  <2>1. s \in Sections
    BY DashboardAssumption
  <2>2. CASE UNCHANGED <<shown, details, blank>>
    BY <2>2 DEF SectionsInv, LaterInv, DetailsFollow
  <2>3. CASE ~UNCHANGED <<shown, details, blank>> /\ s # l.section
    <3>1. s \notin blank
      BY <1>11, <2>3
    <3> QED
      BY <1>3, <1>11, <1>12, <2>1, <2>3, <3>1 DEF SectionsInv, LaterInv, DetailsFollow
  <2>4. CASE ~UNCHANGED <<shown, details, blank>> /\ s = l.section
    <3>1. l.value # Failed
      BY <1>2, <1>11, <2>4 DEF Failed
    <3>2. l.later \in 1..version /\ details'[s] = l.later /\ shown'[s] = l.value
      BY <1>3, <1>10, <1>11, <2>4, <3>1
    <3> QED
      BY <1>10, <3>2
  <2> QED
    BY <2>2, <2>3, <2>4
<1>14. LaterInv'
  <2>1. ASSUME NEW k \in loads \ {l}, k.generation = generation[k.section]
        PROVE  details'[k.section] = details[k.section]
    <3>1. CASE k.section = l.section
      <4>1. l.generation # generation[l.section]
        BY <2>1, <3>1, LoadFacts
      <4> QED
        BY <1>11, <4>1
    <3>2. CASE k.section # l.section
      BY <3>2, <1>12, LoadFacts
    <3> QED
      BY <3>1, <3>2
  <2>2. ASSUME NEW k \in loads \ {l}
        PROVE  /\ k.later \in {Nothing, Pending} \union Versions
               /\ k.later # Nothing =>
                     k.section \in Detailed /\ k.read = NoRead /\ k.value \in 1..version
               /\ k.read = NoRead /\ k.value # Failed /\ k.section \in Detailed
                     => k.later # Nothing
               /\ k.later \in 1..version =>
                     /\ k.later >= k.value
                     /\ k.generation = generation[k.section] => k.later >= details'[k.section]
    BY <2>1, LaterFacts
  <2> QED
    BY <1>1, <1>12, <1>13, <2>2 DEF LaterInv, Versions
<1>15. ShownAdvances
  <2>1. \A s \in Sections : shown'[s] >= shown[s]
    BY <1>2, <1>3, <1>5
  <2> QED
    BY <1>12, <2>1 DEF ShownAdvances
<1> QED
  BY <1>7, <1>8, <1>9, <1>14, <1>15 DEF SectionsInv

\* New loads are newer than every other load of their section; they await a
\* read of their own or the list read, which brings nothing older than what
\* its sections show.
LEMMA BeginStep ==
  ASSUME SectionsInv, NEW S \in SUBSET Sections, NEW by, Begin(S, by), version' = version
  PROVE  /\ generation' \in [Sections -> 0..MaxLoads]
         /\ status' \in [Sections -> {"loading", "ready", "failed", "stale"}]
         /\ shown' = shown /\ details' = details /\ cards' = cards
         /\ ReadsInv' /\ FreshInv' /\ LaterInv'
<1> DEFINE new == {Load(s, generation[s] + 1, by, ReadFor(s), Pending, Nothing) : s \in S}
<1>1. /\ \A s \in S : generation[s] < MaxLoads
      /\ generation' = [s \in Sections |-> generation[s] + (IF s \in S THEN 1 ELSE 0)]
      /\ status' = [s \in Sections |-> IF s \in S THEN "loading" ELSE status[s]]
      /\ loads' = loads \union new
      /\ reads' = [r \in DOMAIN reads \union {ReadFor(s) : s \in S} |->
                       IF r \in DOMAIN reads THEN reads[r] ELSE Pending]
      /\ shared' = IF S \intersect Sharing # {} THEN ListRead ELSE shared
      /\ shown' = shown /\ details' = details /\ blank' = blank /\ cards' = cards
  BY DEF Begin
<1> HIDE DEF new
<1>2. /\ version \in Nat /\ 1 <= version /\ MaxLoads \in Nat
      /\ generation \in [Sections -> 0..MaxLoads] /\ shown \in [Sections -> 0..version]
      /\ status \in [Sections -> {"loading", "ready", "failed", "stale"}]
  BY VersionsCounted, DashboardAssumption DEF SectionsInv, StateInv
<1>3. /\ generation' \in [Sections -> 0..MaxLoads]
      /\ status' \in [Sections -> {"loading", "ready", "failed", "stale"}]
      /\ \A s \in Sections : generation[s] <= generation'[s]
      /\ \A s \in S : generation'[s] = generation[s] + 1
      /\ \A s \in Sections \ S : generation'[s] = generation[s]
  BY <1>1, <1>2
<1>4. /\ shared # NoRead => ListRead = shared /\ shared \in DOMAIN reads /\ shared[1] = "list"
      /\ ListRead # NoRead /\ ListRead[1] = "list"
      /\ shared = NoRead => ListRead \notin DOMAIN reads
      /\ shared # NoRead => shared' = shared
  <2>1. shared # NoRead => shared \in DOMAIN reads /\ shared[1] = "list"
    BY DEF SectionsInv, ReadsInv
  <2>2. <<"list", generation["Services"] + 1>>[1] = "list" /\ NoRead[1] = "no read"
    BY DEF NoRead
  <2>3. generation["Services"] + 1 \in Nat
    <3>1. "Services" \in Sections
      BY DashboardAssumption
    <3>2. generation["Services"] \in 0..MaxLoads
      BY <1>2, <3>1
    <3> QED
      BY <3>2
  <2>4. shared = NoRead => <<"list", generation["Services"] + 1>> \notin DOMAIN reads
    BY <2>3, ReadFacts
  <2> QED
    BY <1>1, <2>1, <2>2, <2>4 DEF ListRead
<1>5. /\ \A s \in S \intersect Sharing : ReadFor(s) = ListRead /\ shared' = ListRead
      /\ \A s \in S \ Sharing : ReadFor(s) = <<s, generation[s] + 1>> /\ ReadFor(s) \notin DOMAIN reads
  BY <1>1, ReadFacts DEF ReadFor
<1>6. /\ \A r \in DOMAIN reads : r \in DOMAIN reads' /\ reads'[r] = reads[r]
      /\ \A s \in S : ReadFor(s) \in DOMAIN reads'
      /\ \A r \in DOMAIN reads' \ DOMAIN reads : reads'[r] = Pending
      /\ \A r \in DOMAIN reads' \ DOMAIN reads : \E s \in S : r = ReadFor(s)
  BY <1>1
<1>7. \A l \in new : \E s \in S : l = Load(s, generation[s] + 1, by, ReadFor(s), Pending, Nothing)
  BY DEF new
<1>8. ASSUME NEW l \in new
      PROVE  /\ l = Load(l.section, l.generation, l.by, l.read, l.value, l.later)
             /\ l = Load(l.section, generation'[l.section], by, ReadFor(l.section), Pending, Nothing)
             /\ l.section \in S /\ l.generation = generation'[l.section]
             /\ l.read = ReadFor(l.section) /\ l.value = Pending /\ l.later = Nothing
  <2>1. PICK s \in S : l = Load(s, generation[s] + 1, by, ReadFor(s), Pending, Nothing)
    BY <1>7
  <2>2. l.section = s /\ l.generation = generation[s] + 1 /\ l.by = by /\ l.read = ReadFor(s)
        /\ l.value = Pending /\ l.later = Nothing
    BY <2>1 DEF Load
  <2> QED
    BY <2>1, <2>2, <1>3
<1>9. \A s \in S : ReadFor(s) # NoRead
  <2>1. \A s \in S \ Sharing : ReadFor(s)[1] = s
    BY <1>5
  <2>2. NoRead[1] = "no read" /\ "no read" \notin Sections
    BY DashboardAssumption DEF NoRead
  <2> QED
    BY <1>4, <1>5, <2>1, <2>2
<1>10. ReadsInv'
  <2>1. ASSUME NEW l \in loads'
        PROVE  /\ l = Load(l.section, l.generation, l.by, l.read, l.value, l.later)
               /\ l.section \in Sections /\ l.generation \in 1..generation'[l.section]
               /\ l.value \in {Pending} \union Versions
               /\ l.read = NoRead => l.value # Pending
               /\ l.read # NoRead =>
                     /\ l.read \in DOMAIN reads'
                     /\ l.read = IF l.section \in Sharing THEN shared'
                                 ELSE <<l.section, l.generation>>
    <3>1. CASE l \in loads
      BY <3>1, <1>2, <1>3, <1>4, <1>6, LoadFacts
    <3>2. CASE l \in new
      BY <3>2, <1>2, <1>3, <1>5, <1>6, <1>8, <1>9
    <3> QED
      BY <1>1, <3>1, <3>2
  <2>2. ASSUME NEW l \in loads', NEW k \in loads', l.section = k.section, l.generation = k.generation
        PROVE  l = k
    <3>1. ASSUME NEW p \in loads, NEW q \in new
          PROVE  p.section = q.section => p.generation # q.generation
      BY <1>2, <1>3, <1>8, LoadFacts
    <3>2. CASE l \in loads /\ k \in loads
      BY <2>2, <3>2, LoadFacts
    <3>3. CASE l \in new /\ k \in new
      BY <2>2, <3>3, <1>8
    <3> QED
      BY <1>1, <2>2, <3>1, <3>2, <3>3
  <2>3. shared' # NoRead => shared' \in DOMAIN reads' /\ shared'[1] = "list"
    BY <1>1, <1>4, <1>5, <1>6
  <2>4. ASSUME NEW r \in DOMAIN reads'
        PROVE  /\ reads'[r] \in {Pending} \union Versions
               /\ \/ r = shared' /\ shared' # NoRead
                  \/ \E s \in Sections \ Sharing : \E g \in 1..generation'[s] : r = <<s, g>>
    <3>1. CASE r \in DOMAIN reads
      <4>1. reads'[r] \in {Pending} \union Versions
        BY <3>1, <1>6, ReadFacts
      <4>2. \/ r = shared /\ shared # NoRead
            \/ \E s \in Sections \ Sharing : \E g \in 1..generation[s] : r = <<s, g>>
        BY <3>1 DEF SectionsInv, ReadsInv
      <4>3. \A s \in Sections : 1..generation[s] \subseteq 1..generation'[s]
        BY <1>2, <1>3
      <4> QED
        BY <4>1, <4>2, <4>3, <1>4
    <3>2. CASE r \notin DOMAIN reads
      <4>1. reads'[r] = Pending
        BY <3>2, <1>6
      <4>2. PICK s \in S : r = ReadFor(s)
        BY <3>2, <1>6
      <4>3. generation[s] + 1 \in 1..generation'[s]
        BY <1>2, <1>3
      <4> QED
        BY <4>1, <4>2, <4>3, <1>4, <1>5
    <3> QED
      BY <3>1, <3>2
  <2>5. Versions' = Versions
    BY DEF Versions
  <2> QED
    BY <2>1, <2>2, <2>3, <2>4, <2>5 DEF ReadsInv
<1>11. FreshInv'
  <2>1. ASSUME NEW l \in loads', l.generation = generation'[l.section]
        PROVE  /\ l.value \in 1..version => l.value >= shown[l.section]
               /\ l.read # NoRead /\ reads'[l.read] \in 1..version
                     => reads'[l.read] >= shown[l.section]
    <3>1. CASE l \in loads
      <4>1. l.generation = generation[l.section]
        BY <3>1, <2>1, <1>2, <1>3, LoadFacts
      <4> QED
        BY <3>1, <4>1, <1>6, LoadFacts
    <3>2. CASE l \in new
      <4>1. l.section \in S /\ l.value \notin 1..version /\ l.read = ReadFor(l.section)
        BY <3>2, <1>8 DEF Pending
      <4>2. CASE l.read \notin DOMAIN reads
        BY <4>1, <4>2, <1>6 DEF Pending
      <4>3. CASE l.read \in DOMAIN reads
        <5>1. l.section \in Sharing /\ l.read = shared /\ shared # NoRead
          BY <4>1, <4>3, <1>4, <1>5
        <5> QED
          BY <4>1, <4>3, <5>1, <1>6 DEF SectionsInv, FreshInv
      <4> QED
        BY <4>2, <4>3
    <3> QED
      BY <1>1, <3>1, <3>2
  <2>2. ASSUME shared' # NoRead, reads'[shared'] \in 1..version
        PROVE  /\ \A s \in Sections \intersect Sharing : reads'[shared'] >= shown[s]
               /\ \A l \in loads' : l.section \in Sharing /\ l.value \in 1..version
                     => reads'[shared'] >= l.value
    <3>1. shared # NoRead
      <4>1. ASSUME shared = NoRead PROVE FALSE
        <5>1. shared' = ListRead /\ ListRead \notin DOMAIN reads
          BY <4>1, <2>2, <1>1, <1>4
        <5>2. shared' \in DOMAIN reads'
          BY <5>1, <1>1, <1>5, <1>6, <4>1, <2>2
        <5> QED
          BY <5>1, <5>2, <2>2, <1>6 DEF Pending
      <4> QED
        BY <4>1
    <3>2. shared' = shared /\ reads'[shared'] = reads[shared]
      BY <3>1, <1>4, <1>6
    <3>3. \A l \in new : l.value \notin 1..version
      BY <1>8 DEF Pending
    <3> QED
      BY <2>2, <3>1, <3>2, <3>3, <1>1 DEF SectionsInv, FreshInv
  <2> QED
    BY <1>1, <2>1, <2>2 DEF FreshInv
<1>12. LaterInv'
  <2>1. ASSUME NEW l \in loads'
        PROVE  /\ l.later \in {Nothing, Pending} \union Versions
               /\ l.later # Nothing =>
                     l.section \in Detailed /\ l.read = NoRead /\ l.value \in 1..version
               /\ l.read = NoRead /\ l.value # Failed /\ l.section \in Detailed
                     => l.later # Nothing
               /\ l.later \in 1..version =>
                     /\ l.later >= l.value
                     /\ l.generation = generation'[l.section] => l.later >= details[l.section]
    <3>1. CASE l \in loads
      <4>1. l.generation = generation'[l.section] => l.generation = generation[l.section]
        BY <3>1, <1>2, <1>3, LoadFacts
      <4> QED
        BY <3>1, <4>1, LaterFacts
    <3>2. CASE l \in new
      <4>1. l.later = Nothing /\ l.read # NoRead /\ Nothing \notin 1..version
        BY <3>2, <1>2, <1>8, <1>9 DEF Nothing
      <4> QED
        BY <4>1
    <3> QED
      BY <1>1, <3>1, <3>2
  <2> QED
    BY <1>1, <2>1 DEF SectionsInv, LaterInv, Versions, DetailsFollow
<1> QED
  BY <1>1, <1>3, <1>10, <1>11, <1>12

\* A step that leaves the sections alone leaves what is said of them alone.
LEMMA PageUnchanged ==
  ASSUME SectionsInv, version' = version, UNCHANGED page
  PROVE  ReadsInv' /\ FreshInv' /\ LaterInv' /\ ShownAdvances
<1>1. ShownAdvances
  BY NothingShown DEF page
<1> QED
  BY <1>1 DEF page, SectionsInv, ReadsInv, FreshInv, LaterInv, DetailsFollow, Versions

\* A refresh is a load of every section; its name is of this page.
LEMMA RefreshStep ==
  ASSUME SectionsInv, NEW caller \in Callers, Refresh(caller), version' = version
  PROVE  /\ generation' \in [Sections -> 0..MaxLoads]
         /\ status' \in [Sections -> {"loading", "ready", "failed", "stale"}]
         /\ shown' = shown /\ details' = details /\ cards' = cards
         /\ ReadsInv' /\ FreshInv' /\ LaterInv'
         /\ refreshes' \subseteq Callers \X (1..MaxLoads) /\ button' \in BOOLEAN
<1> DEFINE by == <<caller, generation["Services"] + 1>>
<1>1. refreshes' = refreshes \union {by} /\ button' = FALSE /\ Begin(Sections, by)
  BY DEF Refresh
<1>2. generation["Services"] < MaxLoads /\ generation["Services"] \in 0..MaxLoads
  <2>1. "Services" \in Sections
    BY DashboardAssumption
  <2> QED
    BY <1>1, <2>1 DEF Begin, SectionsInv, StateInv
<1>3. generation["Services"] + 1 \in 1..MaxLoads
  <2>1. MaxLoads \in Nat
    BY DashboardAssumption
  <2> QED
    BY <1>2, <2>1
<1>4. by \in Callers \X (1..MaxLoads)
  BY <1>3
<1>5. refreshes \subseteq Callers \X (1..MaxLoads)
  BY DEF SectionsInv, StateInv
<1> HIDE DEF by
<1> QED
  BY <1>1, <1>4, <1>5, BeginStep

\* The operations of the page that begin loads.
LEMMA LoadsBegin ==
  ASSUME SectionsInv,
         FirstRefresh \/ ManualRefresh \/ Poll \/ \E s \in Sections : Retry(s)
  PROVE  SectionsInv' /\ ShownAdvances
<1>1. version' = version /\ health' = health /\ operation' = operation
  BY DEF FirstRefresh, ManualRefresh, Poll, Retry
<1>2. /\ generation' \in [Sections -> 0..MaxLoads]
      /\ status' \in [Sections -> {"loading", "ready", "failed", "stale"}]
      /\ shown' = shown /\ details' = details /\ cards' = cards
      /\ ReadsInv' /\ FreshInv' /\ LaterInv'
      /\ refreshes' \subseteq Callers \X (1..MaxLoads) /\ button' \in BOOLEAN
  <2>1. CASE FirstRefresh \/ ManualRefresh
    BY <1>1, <2>1, RefreshStep DEF FirstRefresh, ManualRefresh, Callers
  <2>2. CASE Poll
    <3>1. {"Services"} \in SUBSET Sections
      BY DashboardAssumption
    <3>2. Begin({"Services"}, Alone) /\ refreshes' = refreshes /\ button' = button
      BY <2>2 DEF Poll
    <3> QED
      BY <1>1, <3>1, <3>2, BeginStep DEF SectionsInv, StateInv
  <2>3. CASE \E s \in Sections : Retry(s)
    <3>1. PICK s \in Sections : Begin({s}, Alone) /\ refreshes' = refreshes /\ button' = button
      BY <2>3 DEF Retry
    <3> QED
      BY <1>1, <3>1, BeginStep DEF SectionsInv, StateInv
  <2> QED
    BY <2>1, <2>2, <2>3
<1>3. StateInv'
  BY <1>1, <1>2 DEF SectionsInv, StateInv
<1>4. ShownAdvances
  BY <1>2, NothingShown
<1> QED
  BY <1>2, <1>3, <1>4 DEF SectionsInv

\* The server carries an operation out: there is one version more.
LEMMA CarryStep ==
  ASSUME SectionsInv, NEW o \in Operations, Carry(o)
  PROVE  SectionsInv' /\ ShownAdvances
<1> DEFINE made == {p \in Operations : operation[p].made # 0}
<1>1. /\ operation[o].state = "sent" /\ refreshes' = refreshes /\ button' = button
      /\ health' = health /\ UNCHANGED page
  BY DEF Carry
<1>2. generation' = generation /\ status' = status /\ shown' = shown /\ reads' = reads
      /\ shared' = shared /\ loads' = loads /\ cards' = cards
      /\ details' = details /\ blank' = blank
  BY <1>1 DEF page
<1>3. version \in Nat /\ 1 <= version
  BY VersionsCounted DEF SectionsInv
<1>4. operation[o].made = 0
  BY <1>1 DEF SectionsInv, StateInv
<1>5. CASE operation' = [operation EXCEPT ![o].state = "refused"] /\ version' = version
  <2>1. made' = made
    BY <1>5 DEF SectionsInv, StateInv
  <2>2. StateInv'
    BY <1>1, <1>2, <1>5, <2>1 DEF SectionsInv, StateInv
  <2> QED
    BY <1>1, <1>5, <2>2, PageUnchanged DEF SectionsInv
<1>6. CASE /\ version' = version + 1
           /\ operation' = [operation EXCEPT ![o].state = "executed", ![o].made = version + 1]
  <2>0. version' = version + 1 /\ version' \in Nat /\ version' # 0
    BY <1>3, <1>6
  <2>1. made' = made \union {o} /\ o \notin made
    BY <1>4, <1>6, <2>0 DEF SectionsInv, StateInv
  <2>2. IsFiniteSet(made)
    BY DashboardAssumption, FS_Subset
  <2>3. version' = 1 + Cardinality(made')
    <3>1. version = 1 + Cardinality(made)
      BY DEF SectionsInv, StateInv
    <3> HIDE DEF made
    <3>2. Cardinality(made \union {o}) = Cardinality(made) + 1
      BY <2>1, <2>2, FS_AddElement
    <3>3. Cardinality(made) \in Nat
      BY <2>2, FS_CardinalityType
    <3> QED
      BY <2>0, <2>1, <3>1, <3>2, <3>3
  <2>4. shown' \in [Sections -> 0..version']
    <3>1. 0..version \subseteq 0..version'
      BY <1>3, <2>0
    <3> QED
      BY <1>2, <3>1 DEF SectionsInv, StateInv
  <2>5. /\ operation' \in
              [Operations -> [state : {"none", "sent", "executed", "refused", "refreshing", "done",
                                       "reported"},
                              card : Nat, made : Nat]]
        /\ \A p \in Operations : operation'[p].state \in {"none", "sent"} => operation'[p].made = 0
    <3>1. operation' = [operation EXCEPT ![o].state = "executed", ![o].made = version']
      BY <1>6, <2>0
    <3> QED
      BY <2>0, <3>1 DEF SectionsInv, StateInv
  <2>6. StateInv'
    BY <1>1, <1>2, <2>3, <2>4, <2>5 DEF SectionsInv, StateInv
  <2>7. /\ Versions \subseteq Versions' /\ 1..version \subseteq 1..version'
        /\ \A v \in {Pending} \union Versions : v \in 1..version' => v \in 1..version
    BY <1>3, <2>0 DEF Versions, Pending, Failed
  <2>8. ReadsInv'
    BY <1>2, <2>7 DEF SectionsInv, ReadsInv
  <2>9. FreshInv'
    <3>1. \A l \in loads : l.value \in {Pending} \union Versions
      BY DEF SectionsInv, ReadsInv
    <3>2. \A r \in DOMAIN reads : reads[r] \in {Pending} \union Versions
      BY DEF SectionsInv, ReadsInv
    <3>3. (\A l \in loads : l.read # NoRead => l.read \in DOMAIN reads)
          /\ (shared # NoRead => shared \in DOMAIN reads)
      BY DEF SectionsInv, ReadsInv
    <3> QED
      BY <1>2, <2>7, <3>1, <3>2, <3>3 DEF SectionsInv, FreshInv
  <2>10. LaterInv'
    <3>1. details' \in [Sections -> 0..version']
      <4>1. 0..version \subseteq 0..version'
        BY <1>3, <2>0
      <4> QED
        BY <1>2, <4>1 DEF SectionsInv, LaterInv
    <3>2. ASSUME NEW l \in loads
          PROVE  /\ l.later \in {Nothing, Pending} \union Versions'
                 /\ l.later # Nothing =>
                       l.section \in Detailed /\ l.read = NoRead /\ l.value \in 1..version'
                 /\ l.read = NoRead /\ l.value # Failed /\ l.section \in Detailed
                       => l.later # Nothing
                 /\ l.later \in 1..version' =>
                       /\ l.later >= l.value
                       /\ l.generation = generation[l.section] => l.later >= details[l.section]
      <4>1. l.later \in 1..version' => l.later \in 1..version
        <5>1. CASE l.later = Nothing
          BY <5>1, <1>3, <2>0 DEF Nothing
        <5>2. CASE l.later # Nothing
          BY <5>2, <2>7, LaterFacts
        <5> QED
          BY <5>1, <5>2
      <4> QED
        BY <4>1, <2>7, LaterFacts
    <3>3. DetailsFollow' /\ blank' \subseteq Detailed
      BY <1>2 DEF SectionsInv, LaterInv, DetailsFollow
    <3> QED
      BY <1>2, <3>1, <3>2, <3>3 DEF LaterInv
  <2>11. ShownAdvances
    BY <1>2, NothingShown
  <2> QED
    BY <2>6, <2>8, <2>9, <2>10, <2>11 DEF SectionsInv
<1> QED
  BY <1>5, <1>6 DEF Carry

\* What becomes of an operation's button leaves the version it made.
LEMMA OperationSteps ==
  ASSUME SectionsInv,
         \/ \E o \in Operations : Submit(o) \/ Accepted(o) \/ Refused(o)
         \/ \E by \in refreshes : RefreshEnds(by)

  PROVE  SectionsInv' /\ ShownAdvances
<1> DEFINE made == {p \in Operations : operation[p].made # 0}
<1>1. /\ version' = version /\ version \in Nat /\ version = 1 + Cardinality(made)
      /\ shown \in [Sections -> 0..version]
  BY VersionsCounted DEF SectionsInv, StateInv, Submit, Accepted, Refused, RefreshEnds
<1>2. /\ operation' \in
            [Operations -> [state : {"none", "sent", "executed", "refused", "refreshing", "done",
                                     "reported"},
                            card : Nat, made : Nat]]
      /\ \A p \in Operations : operation'[p].made = operation[p].made
      /\ \A p \in Operations : operation'[p].state \in {"none", "sent"} => operation[p].made = 0
  <2>1. CASE \E o \in Operations : Submit(o)
    <3>1. PICK o \in Operations : /\ operation[o].state = "none"
            /\ operation' = [operation EXCEPT ![o].state = "sent", ![o].card = cards]
      BY <2>1 DEF Submit
    <3> QED
      BY <3>1 DEF SectionsInv, StateInv
  <2>2. CASE \E o \in Operations : Accepted(o)
    <3>1. PICK o \in Operations : operation' = [operation EXCEPT ![o].state = "refreshing"]
      BY <2>2 DEF Accepted
    <3> QED
      BY <3>1 DEF SectionsInv, StateInv
  <2>3. CASE \E o \in Operations : Refused(o)
    <3>1. PICK o \in Operations : operation' = [operation EXCEPT ![o].state = "reported"]
      BY <2>3 DEF Refused
    <3> QED
      BY <3>1 DEF SectionsInv, StateInv
  <2>4. CASE \E by \in refreshes : RefreshEnds(by)
    <3>1. PICK by \in refreshes :
            operation' = IF by[1] \in Operations
                         THEN [operation EXCEPT ![by[1]].state = "done"] ELSE operation
      BY <2>4 DEF RefreshEnds
    <3> DEFINE o == by[1]
    <3>2. operation' = operation
          \/ (o \in Operations /\ operation' = [operation EXCEPT ![o].state = "done"])
      BY <3>1
    <3> HIDE DEF o
    <3> QED
      BY <3>2 DEF SectionsInv, StateInv
  <2> QED
    BY <2>1, <2>2, <2>3, <2>4
<1>3. made' = made
  BY <1>2
<1>4. refreshes' \subseteq Callers \X (1..MaxLoads) /\ button' \in BOOLEAN
      /\ health' \in {"unknown", "Healthy", "Degraded", "Unavailable"}
      /\ generation' \in [Sections -> 0..MaxLoads]
      /\ status' \in [Sections -> {"loading", "ready", "failed", "stale"}]
      /\ shown' = shown /\ details' = details /\ cards' = cards
      /\ ReadsInv' /\ FreshInv' /\ LaterInv'
  <2>1. CASE \E o \in Operations : Accepted(o)
    <3>1. PICK o \in Operations : Refresh(o) /\ health' = health
      BY <2>1 DEF Accepted
    <3>2. o \in Callers
      BY DEF Callers
    <3> QED
      BY <1>1, <3>1, <3>2, RefreshStep DEF SectionsInv, StateInv
  <2>2. CASE ~\E o \in Operations : Accepted(o)
    <3>1. /\ UNCHANGED page /\ refreshes' \subseteq refreshes
          /\ button' \in {button, TRUE} /\ health' \in {health, HealthOf(status)}
      BY <2>2 DEF Submit, Refused, RefreshEnds
    <3>2. ReadsInv' /\ FreshInv' /\ LaterInv'
      BY <1>1, <3>1, PageUnchanged
    <3>3. HealthOf(status) \in {"Healthy", "Degraded", "Unavailable"}
      BY DEF HealthOf
    <3> QED
      BY <3>1, <3>2, <3>3 DEF page, SectionsInv, StateInv
  <2> QED
    BY <2>1, <2>2
<1>5. StateInv'
  BY <1>1, <1>2, <1>3, <1>4 DEF SectionsInv, StateInv
<1>6. ShownAdvances
  BY <1>4, NothingShown
<1> QED
  BY <1>4, <1>5, <1>6 DEF SectionsInv

LEMMA SectionsStep == SectionsInv /\ [Next]_vars => SectionsInv' /\ ShownAdvances
<1> SUFFICES ASSUME SectionsInv, [Next]_vars PROVE SectionsInv' /\ ShownAdvances
  OBVIOUS
<1>1. CASE UNCHANGED vars
  <2>1. StateInv'
    BY <1>1 DEF vars, SectionsInv, StateInv
  <2>2. version' = version /\ UNCHANGED page
    BY <1>1 DEF vars, page
  <2> QED
    BY <2>1, <2>2, PageUnchanged DEF SectionsInv
<1>2. CASE Server
  BY <1>2, AnswerStep, AnswerLaterStep, CarryStep DEF Server
<1>3. CASE Browser
  BY <1>3, DeliverStep, FinishStep, OperationSteps DEF Browser
<1>4. CASE Operator \/ Poll
  BY <1>4, LoadsBegin, OperationSteps DEF Operator
<1> QED
  BY <1>1, <1>2, <1>3, <1>4 DEF Next

\* The invariant types the page.
LEMMA SectionsTyped == SectionsInv => TypeOK
<1> SUFFICES ASSUME SectionsInv PROVE TypeOK
  OBVIOUS
<1>1. version \in 1..(1 + Cardinality(Operations))
  BY VersionsCounted DEF SectionsInv
<1>2. \A r \in DOMAIN reads : reads[r] \in {Pending, Failed} \union 1..version
  BY ReadFacts DEF Versions
<1>3. shared \in DOMAIN reads \union {NoRead} /\ \A l \in loads : l.read \in DOMAIN reads \union {NoRead}
  BY DEF SectionsInv, ReadsInv
<1> QED
  BY <1>1, <1>2, <1>3 DEF TypeOK, SectionsInv, StateInv, LaterInv
-----------------------------------------------------------------------------
(* The page. *)

\* However refreshes, polls, retries and the shared list read overlap, whatever
\* the server answers and in whatever order, the sections and their reads agree,
\* and the later part of a section is no older than the rest, where it is not
\* blank (refresh-coordinator.ts), the cursor is the end of the list of events
\* (main.ts), and only the prepared shutdown that is on the page can
\* be executed (power-controls.ts): for any sections, operations and pages.
THEOREM PageStaysConsistent == PageSpec => []PageIsConsistent
<1>1. SectionsInv /\ EventsInv /\ PowerInv => PageIsConsistent
  BY SectionsTyped DEF PageIsConsistent, EventsInv, PowerInv, SectionsInv, LaterInv
<1>2. Spec => []SectionsInv
  BY SectionsInitial, SectionsStep, PTL DEF Spec
<1>3. EventsSpec => []EventsInv
  BY EventsInitial, EventsStep, PTL DEF EventsSpec
<1>4. PowerSpec => []PowerInv
  BY PowerInitial, PowerStep, PTL DEF PowerSpec
<1> QED
  BY <1>1, <1>2, <1>3, <1>4, PTL DEF PageSpec

\* No late answer takes a section, or the part of it that is read later, back to
\* an older version of the service, nor the page back to a shutdown prepared
\* before the one it shows: every load that is applied is the newest of its
\* section, every preparation in flight newer than what is prepared
\* (refresh-coordinator.ts, #apply).  That a later read does not blank its part
\* is not claimed: it does when it fails (ContentIsKept).
THEOREM NothingOldReturns == PageSpec => NothingOldComesBack
<1>1. SectionsInv /\ [Next]_vars => SectionsInv' /\ [ShownAdvances]_vars
  BY SectionsStep
<1>2. Spec => ShownNeverGoesBack
  BY <1>1, SectionsInitial, PTL DEF Spec, ShownNeverGoesBack
<1>3. PowerSpec => PreparedNeverGoesBack
  BY PowerInitial, PowerStep, PreparedStep, PTL DEF PowerSpec, PreparedNeverGoesBack
<1> QED
  BY <1>2, <1>3, PTL DEF PageSpec, NothingOldComesBack
=============================================================================
