---------------------------- MODULE ReminderTimes ----------------------------
(***************************************************************************)
(* The active periods of tasks and the times of their reminders            *)
(* (internal/task/domain/task/active_period.go, remind_interval.go,        *)
(* reminder_info.go).  Times are in whole seconds.                         *)
(*                                                                         *)
(* A reminder lies at a fraction of the time between the creation and the  *)
(* target, rounded to the minute.  The code multiplies in floating point:  *)
(* where the product is not half-way between two minutes the rounding is   *)
(* exact, and half-way the last bit of the product decides, so both        *)
(* neighbours are possible.                                                *)
(***************************************************************************)
EXTENDS Integers, Sequences

Minute == 60

PeriodTypes == {"short", "near", "relaxed"}
Types == PeriodTypes \cup {"scheduled"}

ActivePeriod == [short |-> 30 * Minute, near |-> 180 * Minute, relaxed |-> 1440 * Minute]

\* Percentages of the time between creation and target.
Intervals == [short |-> <<70, 96>>, near |-> <<56, 89>>, relaxed |-> <<35, 65, 87>>]

IntervalsForDuration(d) ==
    IF d <= ActivePeriod["short"] THEN Intervals["short"]
    ELSE IF d <= ActivePeriod["near"] THEN Intervals["near"]
    ELSE Intervals["relaxed"]

IntervalsOf(type, total) ==
    IF type = "scheduled" THEN IntervalsForDuration(total) ELSE Intervals[type]

\* Duration.Round(time.Minute) of so many hundredths of a second.
RoundToMinute(hundredths) ==
    {Minute * ((hundredths + half) \div 6000) : half \in {2999, 3000}}

\* Every way to round the offsets of the reminders.
Offsets(type, total) ==
    LET p == IntervalsOf(type, total)
    IN {o \in [DOMAIN p -> UNION {RoundToMinute(total * p[i]) : i \in DOMAIN p}] :
            \A i \in DOMAIN p : o[i] \in RoundToMinute(total * p[i])}

\* The reminders one after the other, without those after the target.
UpToTarget(created, target, offsets) ==
    LET kept[n \in 0..Len(offsets)] ==
            IF n = 0 THEN <<>>
            ELSE IF created + offsets[n] <= target THEN Append(kept[n - 1], created + offsets[n])
            ELSE kept[n - 1]
    IN kept[Len(offsets)]

\* The reminders up to the target; the target itself is the last one.
Reminders(created, target, offsets) ==
    LET kept == UpToTarget(created, target, offsets)
    IN IF kept # <<>> /\ kept[Len(kept)] = target THEN kept ELSE Append(kept, target)

CalculateReminderTimes(type, created, target) ==
    {Reminders(created, target, o) : o \in Offsets(type, target - created)}

-----------------------------------------------------------------------------

\* Reminders are never out of order, before the creation or after the target,
\* and the last one is the target.
InOrder(times, created, target) ==
    /\ times[Len(times)] = target
    /\ created <= times[1]
    /\ \A i \in 1..Len(times) - 1 : times[i] <= times[i + 1]

\* No two reminders coincide and none is due at once.
Spread(times, created) ==
    /\ created < times[1]
    /\ \A i \in 1..Len(times) - 1 : times[i] < times[i + 1]

=============================================================================
