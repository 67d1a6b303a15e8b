------------------------------ MODULE Insights ------------------------------
(***************************************************************************)
(* The figures that the screens report from the transactions beside the    *)
(* budget: the calendar month against the pay, the report of a period, the *)
(* month of the insights, its bills, its history and its verdict.          *)
(* Nothing here is stored: each is a reading of the transactions.          *)
(***************************************************************************)
EXTENDS Budget

CONSTANT MonthlikeDays  \* a cycle this long is taken for a month (28 in the code)

ASSUME InsightsAssumption == MonthlikeDays \in Nat \ {0}

MonthPeriod(now) == [start |-> MonthStart(MonthOf(now)), end |-> MonthStart(MonthOf(now) + 1)]
PrevMonthPeriod(p) == [start |-> MonthStart(MonthOf(p.start) - 1), end |-> p.start]

(***************************************************************************)
(* The month, for people whose pay does not run on one.                    *)
(***************************************************************************)
PaydaysIn(s, month) ==
  LET cycles == CyclesBetween(month.start, month.end - 1, s)
  IN {cycles[i].start : i \in DOMAIN cycles} \cap (month.start .. month.end - 1)

MonthOutlook(s, expected, cats, T, now) ==
  LET month == MonthPeriod(now)
      paydays == PaydaysIn(s, month)
      owed(c) == LET pot == PotOf(c, now)
                     due == NextDueOn(pot, month.start)
                 IN IF pot.kind = "bill" /\ due # None /\ due < month.end THEN pot.amount ELSE 0
      bills == SumOf([i \in PotsOf(cats) |-> owed(cats[i])])
  IN [paydays |-> Cardinality(paydays), soFar |-> Cardinality({d \in paydays : d <= now}),
      expected |-> Cardinality(paydays) * expected, billsDue |-> bills,
      received |-> TotalOf(Income(During(T, month))),
      spent |-> TotalOf(Spending(During(T, month))),
      afterBills |-> Cardinality(paydays) * expected - bills]

\* The Insights screen has the cycle, not its settings, and makes them up again.
SettingsOfCycle(c) ==
  CycleSettingsOf(
    [kind |-> IF DaysTotal(c) >= MonthlikeDays THEN "monthly" ELSE "days",
     lengthDays |-> IF DaysTotal(c) < MonthlikeDays THEN DaysTotal(c) ELSE None,
     anchorDate |-> c.start, anchorDay |-> DayOfMonth(c.start)])

(***************************************************************************)
(* The report of a period against the one before.                          *)
(***************************************************************************)
\* Variant: the last day has no bucket.
BucketsShort(p) == 0 .. p.end - p.start - 2

Buckets(p) == 0 .. p.end - p.start - 1

Report(T, period, previous) ==
  LET now == Spending(During(T, period))
      spentOn(p, cat) == TotalOf(Spending(OfCategory(During(T, p), cat)))
  IN [income |-> TotalOf(Income(During(T, period))), spent |-> TotalOf(now),
      daily |-> [i \in Buckets(period) |-> TotalOf({t \in now : t.day = period.start + i})],
      byCategory |-> [cat \in {t.cat : t \in now} |->
                        [now |-> spentOn(period, cat), prev |-> spentOn(previous, cat)]]]

\* Income that is not logged is replaced by what was expected.
InsightsIn(r, scope, s, expected, outlook) ==
  IF r.income > 0 THEN r.income
  ELSE IF scope = "cycle" THEN expected ELSE outlook.soFar * expected

(***************************************************************************)
(* The month that the selectors derive.                                    *)
(***************************************************************************)
FlexIds(cats) == {cats[i].id : i \in {j \in DOMAIN cats : ~ cats[j].fixed /\ ~ cats[j].deleted}}

RoundedDiv(a, b) == (2 * a + b) \div (2 * b)

FixedSpending(spend, cats) == {t \in spend : t.cat \notin FlexIds(cats)}
FlexSpending(spend, cats)  == {t \in spend : t.cat \in FlexIds(cats)}

Derive(T, cats, now, dayToDay) ==
  LET month == MonthPeriod(now)
      days == month.end - month.start
      day == DayOfMonth(now)
      left == days - day + 1
      spend == Spending(During(T, month))
      flex == TotalOf(FlexSpending(spend, cats))
      expected == RoundedDiv(dayToDay * day, days)
  IN [daysInMonth |-> days, dayOfMonth |-> day, daysLeft |-> left,
      flexSpent |-> flex, fixedSpent |-> TotalOf(FixedSpending(spend, cats)),
      income |-> TotalOf(Income(During(T, month))),
      monthTotal |-> flex + TotalOf(FixedSpending(spend, cats)),
      left |-> dayToDay - flex, perDay |-> RoundedDiv(dayToDay - flex, left),
      expected |-> expected, delta |-> flex - expected,
      evenPace |-> RoundedDiv(dayToDay, days),
      today |-> TotalOf({t \in spend : t.day = now}),
      todayFlex |-> TotalOf({t \in FlexSpending(spend, cats) : t.day = now}),
      byCategory |-> [cat \in {t.cat : t \in spend} \ {NoCategory} |->
                        TotalOf(OfCategory(spend, cat))],
      spendFreeDays |-> AtLeast(0, day - Cardinality({t.day : t \in spend}))]

\* Every day with a transaction, and what it came to.
NetOfDay(T, d) ==
  TotalOf({t \in Income(T) : t.day = d}) - TotalOf({t \in Spending(T) : t.day = d})
GroupByDay(T) == [d \in {t.day : t \in T} |-> NetOfDay(T, d)]

\* Fixed costs of the month; one is paid when money of its category left this month.
BillsFor(cats, T, now) ==
  LET paid == {t.cat : t \in Spending(During(T, MonthPeriod(now)))}
      due(c) == IF c.dueDay = None THEN None
                ELSE AtMost(c.dueDay, MonthLength(MonthOf(now)))
  IN {[id |-> cats[i].id, amount |-> cats[i].amount, dueDay |-> due(cats[i]),
       paid |-> cats[i].id \in paid] : i \in PotsOf(cats)}

UpcomingBills(bills) == {b \in bills : ~ b.paid /\ b.dueDay # None}

\* Spending of each of the last months, the current one last.
MonthHistory(T, now, months) ==
  [i \in 1 .. months |->
     LET m == MonthOf(now) - (months - i)
     IN TotalOf(Spending(Between(T, MonthStart(m), MonthStart(m + 1))))]

IncomeOfMonth(T, now) == TotalOf(Income(During(T, MonthPeriod(now))))

(***************************************************************************)
(* The verdict on the month, and the note on its pace.                     *)
(***************************************************************************)
\* Variant: money that is gone already ran out on a day of the past.
RunsOutInThePast(d) ==
  LET day == RoundedDiv(d.dayOfMonth * (d.flexSpent + d.left), d.flexSpent)
  IN IF d.flexSpent <= 0 \/ day >= d.daysInMonth THEN None ELSE day

\* The day the money runs out at this rate; None when it lasts the month.
RunsOutOn(d) ==
  LET day == RoundedDiv(d.dayOfMonth * (d.flexSpent + d.left), d.flexSpent)
  IN IF d.flexSpent <= 0 THEN None
     ELSE IF day >= d.daysInMonth THEN None ELSE AtLeast(d.dayOfMonth, day)

CleanSlate(d) == d.flexSpent = 0 /\ d.dayOfMonth <= 2

\* Shares of the budget, in hundredths.
VerdictFor(d, dayToDay) ==
  LET above(pct) == 100 * d.delta > pct * dayToDay
  IN IF dayToDay <= 0 \/ CleanSlate(d) THEN "steady"
     ELSE IF d.left < 0 \/ above(15) THEN "bad"
     ELSE IF above(4) THEN "warn"
     ELSE IF above(-4) THEN "steady"
     ELSE IF above(-15) THEN "good" ELSE "great"

PaceNote(d, dayToDay) ==
  LET above(pct) == 100 * d.delta > pct * dayToDay
  IN IF dayToDay <= 0 \/ CleanSlate(d) THEN [tone |-> "steady", figure |-> 0]
     ELSE IF d.left < 0 THEN [tone |-> "bad", figure |-> -d.left]
     ELSE IF d.delta > 0
          THEN [tone |-> IF above(15) THEN "bad" ELSE "warn", figure |-> d.delta]
     ELSE [tone |-> IF 100 * d.delta < -15 * dayToDay THEN "great" ELSE "good",
           figure |-> -d.delta]
=============================================================================
