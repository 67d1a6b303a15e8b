------------------------------- MODULE Cycles -------------------------------
(***************************************************************************)
(* The spending clock of the budget engine: pay cycles over the calendar.  *)
(* A date is a number of days; the calendar is given by the lengths of the *)
(* months after which it repeats, so that a model may use short ones.      *)
(* Months are numbered too, and day 1 is the first of month 1.             *)
(***************************************************************************)
EXTENDS Integers, Sequences

CONSTANT MonthLengths

ASSUME CalendarAssumption == MonthLengths \in Seq(Nat \ {0}) /\ MonthLengths # <<>>

\* Days before each of those months, and in all of them.
Elapsed[m \in 1 .. Len(MonthLengths) + 1] ==
  IF m = 1 THEN 0 ELSE Elapsed[m - 1] + MonthLengths[m - 1]
DaysOfAll == Elapsed[Len(MonthLengths) + 1]

MonthLength(m) == MonthLengths[((m - 1) % Len(MonthLengths)) + 1]
MonthStart(m) ==
  1 + ((m - 1) \div Len(MonthLengths)) * DaysOfAll + Elapsed[((m - 1) % Len(MonthLengths)) + 1]

MonthOf(d) ==
  LET day == (d - 1) % DaysOfAll
  IN ((d - 1) \div DaysOfAll) * Len(MonthLengths) +
       CHOOSE m \in 1 .. Len(MonthLengths) : Elapsed[m] <= day /\ day < Elapsed[m + 1]
DayOfMonth(d) == d - MonthStart(MonthOf(d)) + 1

AtMost(a, b)  == IF a <= b THEN a ELSE b
AtLeast(a, b) == IF a >= b THEN a ELSE b

\* Variant: a day that the month does not have rolls over into the next.
RolledDayIn(m, day) == MonthStart(m) + day - 1

\* The given day of a month, or its last one.
DayIn(m, day) == MonthStart(m) + AtMost(day, MonthLength(m)) - 1

(***************************************************************************)
(* Settings are [kind |-> "days", lengthDays, anchorDate] or               *)
(* [kind |-> "monthly", anchorDay]; a cycle is [start, end), from payday   *)
(* to payday.                                                              *)
(***************************************************************************)
\* The month of the last payday, given the month of today.
TurnedIn(m, today, day) == IF DayIn(m, day) <= today THEN m ELSE m - 1
CycleFromMonth(m, day) == [start |-> DayIn(m, day), end |-> DayIn(m + 1, day)]

MonthlyCycle(today, day) == CycleFromMonth(TurnedIn(MonthOf(today), today, day), day)

\* \div rounds down, so the dates before the anchor fall in cycles of their own.
DaysCycle(today, length, anchor) ==
  LET start == anchor + ((today - anchor) \div length) * length
  IN [start |-> start, end |-> start + length]

CycleFor(today, s) ==
  IF s.kind = "monthly" THEN MonthlyCycle(today, AtMost(AtLeast(s.anchorDay, 1), 31))
  ELSE DaysCycle(today, AtLeast(s.lengthDays, 1), s.anchorDate)

DaysTotal(c) == c.end - c.start
DaysLeft(c, today) == c.end - today

ShiftCycle(c, by, s) ==
  IF by = 0 THEN c
  ELSE CycleFor(IF s.kind = "monthly" THEN DayIn(MonthOf(c.start) + by, s.anchorDay)
                ELSE c.start + by * DaysTotal(c), s)

\* The cycles from the day `first` to the day `last`, both of them payday.
CyclesFrom(first, last, s) ==
  LET walk[d \in first .. last] ==
        LET next == ShiftCycle(CycleFor(d, s), 1, s).start
        IN <<CycleFor(d, s)>> \o (IF next > last THEN <<>> ELSE walk[next])
  IN IF first > last THEN <<>> ELSE walk[first]

\* Every cycle from the one containing `from` to the one containing `to`.
CyclesBetween(from, to, s) == CyclesFrom(CycleFor(from, s).start, CycleFor(to, s).start, s)

InCycle(d, c) == c.start <= d /\ d < c.end

CeilDiv(a, b) == (a + b - 1) \div b
=============================================================================
