----------------------------- MODULE MCSchedule -----------------------------
(***************************************************************************)
(* Constants for model-checking Schedule, and the reminders of every       *)
(* period that can be asked for.                                           *)
(***************************************************************************)
EXTENDS Schedule, TLC

\* One type of each kind that differs in the model: one whose period can be
\* set, and the one with a time of its own.
SomeTypes == {"short", "scheduled"}

\* Two requests that differ in every type, of which the first clears one of the
\* second, and one with both faults that NewUserPeriodSettings refuses.
SomePeriodMaps ==
    {[short |-> 1], [short |-> 5, relaxed |-> 10080], [short |-> 0, scheduled |-> 5]}

SomeInstants == {0, 100}
SomeScheduledAts == {40, 20000}

Symmetry == Permutations(Calls) \cup Permutations(Users)

\* Every period of settings, in every type: in order, and spread from five
\* minutes on.
ASSUME PeriodsHavePlausibleReminders ==
    \A type \in PeriodTypes, minutes \in MinPeriodMinutes..MaxPeriodMinutes :
        \A times \in CalculateReminderTimes(type, 0, minutes * Minute) :
            /\ InOrder(times, 0, minutes * Minute)
            /\ minutes >= 5 => Spread(times, 0)

\* Below five minutes each type has a period whose reminders coincide.
ASSUME ShortPeriodsCoincide ==
    \A type \in PeriodTypes : \E minutes \in 1..4 :
        \E times \in CalculateReminderTimes(type, 0, minutes * Minute) : ~Spread(times, 0)

\* Scheduled tasks, every second up to four hours.
ASSUME ScheduledHavePlausibleReminders ==
    \A total \in 0..14400 :
        \A times \in CalculateReminderTimes("scheduled", 0, total) :
            /\ InOrder(times, 0, total)
            /\ total >= 5 * Minute => Spread(times, 0)

=============================================================================
