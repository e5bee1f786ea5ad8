----------------------------- MODULE DispatchDays -----------------------------
(***************************************************************************)
(* The day an order is sent or its bank transfer is due: so many open days *)
(* after a date, where closed weekdays and single closed dates do not      *)
(* count.  Days are numbered, the weekday is the number's remainder.  The  *)
(* loop over days is a step each.  Not here: time zones, daily capacity.   *)
(***************************************************************************)
EXTENDS Integers, FiniteSets

CONSTANTS Week,     \* days of a week (7)
          Bases,    \* dates to count from
          Counts,   \* numbers of open days to add
          Weekends, \* sets of blocked weekdays
          Closed,   \* sets of blackout dates
          MaxGuard  \* turns of the loop (3660 in the code)

ASSUME DaysAssumption ==
  /\ Week \in Nat \ {0} /\ MaxGuard \in Nat
  /\ Bases \subseteq Int /\ Counts \subseteq Nat

VARIABLES blockedWeekdays, blackoutDates, base, count, cursor, remaining, guard

calendar == <<blockedWeekdays, blackoutDates, base, count>>
daysVars == <<calendar, cursor, remaining, guard>>

DaysInit ==
  /\ blockedWeekdays \in Weekends /\ blackoutDates \in Closed
  /\ base \in Bases /\ count \in Counts
  /\ cursor = base /\ remaining = count /\ guard = 0

(* Faulty variant of IsOpenDay: only the weekday counts.                   *)
IsOpenWeekday(day) == day % Week \notin blockedWeekdays

IsOpenDay(day) == day % Week \notin blockedWeekdays /\ day \notin blackoutDates

Walk ==
  /\ guard < MaxGuard /\ remaining > 0
  /\ cursor' = cursor + 1
  /\ remaining' = IF IsOpenDay(cursor + 1) THEN remaining - 1 ELSE remaining
  /\ guard' = guard + 1
  /\ UNCHANGED calendar

DaysNext == Walk
DaysSpec == DaysInit /\ [][DaysNext]_daysVars

-----------------------------------------------------------------------------
OpenDays(from, to) == {day \in from..to : day % Week \notin blockedWeekdays /\ day \notin blackoutDates}
Ended == guard = MaxGuard \/ remaining = 0

(* The date it ends on is open and the count-th open day after the base;   *)
(* only if the guard runs out are there fewer open days than asked for.    *)
LandsOnOpenDay ==
  Ended =>
    \/ count = 0 /\ cursor = base
    \/ cursor \in OpenDays(base + 1, cursor) /\ Cardinality(OpenDays(base + 1, cursor)) = count
    \/ cursor = base + MaxGuard /\ Cardinality(OpenDays(base + 1, cursor)) < count
=============================================================================
