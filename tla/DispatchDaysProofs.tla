-------------------------- MODULE DispatchDaysProofs --------------------------
(***************************************************************************)
(* The loop lands on the right day for every calendar, date and count.     *)
(***************************************************************************)
EXTENDS DispatchDays, FiniteSetTheorems, TLAPS

(* What the loop has counted when it stands at the cursor.                 *)
DayInv ==
  /\ base \in Int /\ count \in Nat /\ guard \in 0..MaxGuard
  /\ cursor = base + guard
  /\ remaining \in Nat
  /\ remaining + Cardinality(OpenDays(base + 1, cursor)) = count
  /\ count = 0 => guard = 0
  /\ remaining = 0 => count = 0 \/ cursor \in OpenDays(base + 1, cursor)

(* For every set of closed days, every date and every count the loop ends  *)
(* on the count-th open day, or reports by the date that there was none.   *)
THEOREM LandsRight == DaysSpec => []LandsOnOpenDay
(* The open days of a finite stretch are finite, and one day more is one   *)
(* open day more if it is open.                                            *)
<1>OneDayMore.
    ASSUME NEW from \in Int, NEW to \in Int, from <= to + 1
    PROVE  /\ IsFiniteSet(OpenDays(from, to))
           /\ Cardinality(OpenDays(from, to)) \in Nat
           /\ Cardinality(OpenDays(from, to + 1)) =
                IF IsOpenDay(to + 1) THEN Cardinality(OpenDays(from, to)) + 1 ELSE Cardinality(OpenDays(from, to))
  <2> USE <1>OneDayMore
  <2>1. IsFiniteSet(from..to)
    BY FS_Interval
  <2>2. IsFiniteSet(OpenDays(from, to))
    BY <2>1, FS_Subset DEF OpenDays
  <2>3. Cardinality(OpenDays(from, to)) \in Nat
    BY <2>2, FS_CardinalityType
  <2>4. to + 1 \notin OpenDays(from, to)
    BY DEF OpenDays
  <2>5. OpenDays(from, to + 1) = IF IsOpenDay(to + 1) THEN OpenDays(from, to) \cup {to + 1} ELSE OpenDays(from, to)
    <3>1. from..(to + 1) = (from..to) \cup {to + 1}
      OBVIOUS
    <3> QED
      BY <3>1 DEF OpenDays, IsOpenDay
  <2>6. Cardinality(OpenDays(from, to) \cup {to + 1}) = Cardinality(OpenDays(from, to)) + 1
    BY <2>2, <2>4, FS_AddElement
  <2> QED
    BY <2>2, <2>3, <2>5, <2>6
<1>1. DaysInit => DayInv
  <2> SUFFICES ASSUME DaysInit PROVE DayInv
    OBVIOUS
  <2> USE DaysAssumption
  <2>1. base \in Int /\ count \in Nat
    BY DEF DaysInit
  <2>2. OpenDays(base + 1, base) = {}
    BY <2>1 DEF OpenDays
  <2>3. Cardinality(OpenDays(base + 1, base)) = 0
    BY <2>2, FS_EmptySet
  <2> QED
    BY <2>1, <2>3 DEF DaysInit, DayInv
<1>2. DayInv /\ [DaysNext]_daysVars => DayInv'
  <2> SUFFICES ASSUME DayInv, [DaysNext]_daysVars PROVE DayInv'
    OBVIOUS
  <2> USE DaysAssumption
  <2>1. CASE Walk
    <3>1. /\ base \in Int /\ cursor \in Int /\ base + 1 <= cursor + 1
          /\ base' = base /\ count' = count /\ cursor' = cursor + 1
          /\ blockedWeekdays' = blockedWeekdays /\ blackoutDates' = blackoutDates
      BY <2>1 DEF Walk, DayInv, calendar
    <3>1a. base + 1 \in Int /\ base + 1 <= cursor + 1
      BY <3>1
    <3>2. OpenDays(base + 1, cursor)' = OpenDays(base + 1, cursor + 1)
      BY <3>1 DEF OpenDays
    <3>3. /\ Cardinality(OpenDays(base + 1, cursor)) \in Nat
          /\ Cardinality(OpenDays(base + 1, cursor + 1)) =
               IF IsOpenDay(cursor + 1) THEN Cardinality(OpenDays(base + 1, cursor)) + 1
               ELSE Cardinality(OpenDays(base + 1, cursor))
      BY <3>1, <3>1a, <1>OneDayMore, Zenon
    <3>4. /\ remaining' \in Nat
          /\ remaining' + Cardinality(OpenDays(base + 1, cursor + 1)) = count
      BY <2>1, <3>3 DEF Walk, DayInv
    <3>5. remaining' = 0 => cursor + 1 \in OpenDays(base + 1, cursor + 1)
      BY <2>1, <3>1 DEF Walk, DayInv, OpenDays, IsOpenDay
    <3>6. guard' \in 0..MaxGuard /\ cursor + 1 = base + guard' /\ count # 0
      BY <2>1, <3>3 DEF Walk, DayInv
    <3> QED
      BY <3>1, <3>2, <3>4, <3>5, <3>6 DEF DayInv
  <2>2. CASE UNCHANGED daysVars
    BY <2>2 DEF DayInv, OpenDays, daysVars, calendar
  <2> QED
    BY <2>1, <2>2 DEF DaysNext
<1>3. DayInv => LandsOnOpenDay
  <2> SUFFICES ASSUME DayInv, Ended PROVE LandsOnOpenDay
    BY DEF LandsOnOpenDay
  <2> USE DaysAssumption
  <2>1. Cardinality(OpenDays(base + 1, cursor)) \in Nat
    BY <1>OneDayMore DEF DayInv
  <2> QED
    BY <2>1 DEF DayInv, Ended, LandsOnOpenDay
<1> QED
  BY <1>1, <1>2, <1>3, PTL DEF DaysSpec
=============================================================================
