------------------------ MODULE WeeklyScheduleInputs ------------------------
(***************************************************************************)
(* Every list of up to four windows, of two days of three minutes, among   *)
(* them one of another shape and one that ends at "24:00".                 *)
(***************************************************************************)
EXTENDS WeeklySchedules

CONSTANT MaxListed   \* bound on the length of a list

VARIABLE input       \* the list of windows given to the validators

Windows ==
    [day : Weekdays, start : LocalTimes, end : LocalTimes]
        \cup {[day |-> -1, start |-> 0, end |-> 1],
              [day |-> 0, start |-> 1, end |-> MinutesPerDay]}

Init == input = <<>>

AddWindow == Len(input) < MaxListed /\ \E w \in Windows : input' = Append(input, w)

Spec == Init /\ [][AddWindow]_input
-----------------------------------------------------------------------------
\* The minutes of the week a window covers.
Covers(w) == {w.day * MinutesPerDay + m : m \in w.start..w.end - 1}

\* The machine's validator accepts a list, in whatever order, exactly when
\* every window is a non-empty span of one day and no minute is covered twice;
\* comparing neighbours of the sorted list is enough.
AcceptsExactlyDisjointWindows ==
    CreateMachineSchedule(input) # Rejected <=>
        /\ Len(input) \in 1..MaxWindows
        /\ \A i \in DOMAIN input :
              /\ input[i].day \in Weekdays /\ input[i].end \in LocalTimes
              /\ Covers(input[i]) # {}
              /\ \A j \in DOMAIN input : i # j => Covers(input[i]) \cap Covers(input[j]) = {}

\* The services' validator, written separately, accepts the same lists and
\* stores them in the same order.
ValidatorsAgree == CreateServiceSchedule(input) = CreateMachineSchedule(input)
=============================================================================
