--------------------------- MODULE WeeklySchedules ---------------------------
(***************************************************************************)
(* Weekly schedules, as the machine and the services declare them.  Two    *)
(* validators accept a list of windows (machine-weekly-operating-          *)
(* schedule.ts and weekly-availability-schedule.ts), and three functions   *)
(* written apart from each other say whether an instant lies in a window.  *)
(*                                                                         *)
(* Time is counted in ticks of a fraction of a minute, so that an instant  *)
(* need not be at the start of one; instant 0 is the first minute of the   *)
(* week's first day.  The allowed time zone has had no clock changes since *)
(* 2019, so local time runs evenly.  A window is a day and two minutes of  *)
(* it; "24:00" cannot be written, so no window covers a day's last minute. *)
(***************************************************************************)
EXTENDS Integers, Sequences, TLC

CONSTANTS
    DaysPerWeek,     \* 7
    MinutesPerDay,   \* 24 * 60
    TicksPerMinute,  \* 60_000
    MaxWindows       \* MAXIMUM_WINDOWS and MAXIMUM_WEEKLY_WINDOWS, 64

ASSUME WeekAssumption ==
    /\ DaysPerWeek \in Nat \ {0} /\ MinutesPerDay \in Nat \ {0, 1}
    /\ TicksPerMinute \in Nat \ {0} /\ MaxWindows \in Nat \ {0}

Weekdays == 0..DaysPerWeek - 1
LocalTimes == 0..MinutesPerDay - 1

Day == MinutesPerDay * TicksPerMinute
Week == DaysPerWeek * Day

\* What formatToParts yields for an instant.
DayOf(t) == (t \div Day) % DaysPerWeek
LocalTimeOf(t) == (t % Day) \div TicksPerMinute

\* The last start of a minute at or before an instant.
FloorToMinute(t) == (t \div TicksPerMinute) * TicksPerMinute
CeilToMinute(t) == FloorToMinute(t + TicksPerMinute - 1)

\* The starts of minutes in (lower, upper].
MinutesIn(lower, upper) ==
    {m * TicksPerMinute : m \in (lower \div TicksPerMinute + 1)..(upper \div TicksPerMinute)}

\* Search bound of both evaluators and limit of an interval: eight days.
Horizon == (DaysPerWeek + 1) * Day
-----------------------------------------------------------------------------
(* The validators.  What they reject is the empty schedule, which no       *)
(* accepted one is.                                                        *)

Rejected == <<>>

\* createMachineOperatingWindow.  A record of another shape has no weekday.
MachineWindowValid(w) ==
    /\ w.day \in Weekdays /\ {w.start, w.end} \subseteq LocalTimes
    /\ w.start # w.end /\ ~ w.start > w.end

\* compareWindows: by day, then start, then end.
Before(w, v) ==
    \/ w.day < v.day
    \/ w.day = v.day /\ (w.start < v.start \/ (w.start = v.start /\ w.end < v.end))

\* rejectDuplicateWindows and rejectOverlappingWindows look at neighbours only.
NoDuplicates(ws) == \A i \in 2..Len(ws) : ws[i - 1] # ws[i]
NoOverlaps(ws) ==
    \A i \in 2..Len(ws) : ws[i - 1].day = ws[i].day => ws[i].start >= ws[i - 1].end

\* Variant: the windows are compared in the order they were given.
MachineScheduleUnsorted(input) ==
    IF /\ Len(input) \in 1..MaxWindows
       /\ \A i \in DOMAIN input : MachineWindowValid(input[i])
       /\ NoDuplicates(input) /\ NoOverlaps(input)
    THEN input ELSE Rejected

\* createMachineWeeklyOperatingSchedule.
CreateMachineSchedule(input) ==
    LET sorted == SortSeq(input, Before) IN
    IF /\ Len(input) \in 1..MaxWindows
       /\ \A i \in DOMAIN input : MachineWindowValid(input[i])
       /\ NoDuplicates(sorted) /\ NoOverlaps(sorted)
    THEN sorted ELSE Rejected

\* createWeeklyAvailabilityWindow.
ServiceWindowValid(w) ==
    /\ w.day \in Weekdays /\ {w.start, w.end} \subseteq LocalTimes /\ ~ w.start >= w.end

\* Variant: windows that touch are taken to overlap.
ServiceScheduleApart(input) ==
    LET sorted == SortSeq(input, Before) IN
    IF /\ Len(input) \in 1..MaxWindows
       /\ \A i \in DOMAIN input : ServiceWindowValid(input[i])
       /\ \A i \in 2..Len(sorted) : sorted[i - 1].day = sorted[i].day
                                       => sorted[i].start > sorted[i - 1].end
    THEN sorted ELSE Rejected

\* createWeeklyAvailabilitySchedule: a duplicate is caught as an overlap.
CreateServiceSchedule(input) ==
    LET sorted == SortSeq(input, Before) IN
    IF /\ Len(input) \in 1..MaxWindows
       /\ \A i \in DOMAIN input : ServiceWindowValid(input[i])
       /\ NoOverlaps(sorted)
    THEN sorted ELSE Rejected
-----------------------------------------------------------------------------
(* Is an instant in a window? *)

Inside(w, t) == w.day = DayOf(t) /\ w.start <= LocalTimeOf(t) /\ LocalTimeOf(t) < w.end

\* evaluateScheduledExpectation of the power plan.
ScheduledExpectation(schedule, t) ==
    IF \E i \in DOMAIN schedule : Inside(schedule[i], t) THEN "operating" ELSE "offline"

\* isOperating of the occurrence interval.
IsOperating(schedule, t) == \E i \in DOMAIN schedule : Inside(schedule[i], t)

\* evaluateServiceAvailabilityPolicy.
EvaluatePolicy(policy, t) ==
    CASE policy.mode = "always" -> "available"
      [] policy.mode = "scheduled" ->
            IF \E i \in DOMAIN policy.schedule : Inside(policy.schedule[i], t)
            THEN "available" ELSE "unavailable"
      [] OTHER -> policy.mode
=============================================================================
