-------------------------------- MODULE Pots --------------------------------
(***************************************************************************)
(* Pots, the part of the budget engine that sets money aside: bills that   *)
(* aim at their due date, savings at a steady rate, goals.  The balance of *)
(* a pot is replayed cycle by cycle from the day budgeting started.        *)
(*                                                                         *)
(* A pot is [kind, amount, recurrence, installments, anchor, target,       *)
(* opening].                                                               *)
(***************************************************************************)
EXTENDS Cycles, FiniteSets

CONSTANTS
  None,             \* a field that is not set
  StepDays,         \* days of a recurrence counted in days
  ReadyDaysBefore,  \* a bill is funded this long before its due date
  MaxInstallments,
  MaxSteps          \* a due date is looked for this many steps away (800 in the code)

ASSUME PotsAssumption ==
  /\ None \notin Int
  /\ StepDays \in [{"weekly", "fortnightly", "four_weekly"} -> Nat \ {0}]
  /\ ReadyDaysBefore \in Nat /\ MaxInstallments \in Nat \ {0} /\ MaxSteps \in Nat

StepMonths == [monthly |-> 1, quarterly |-> 3, annual |-> 12]

\* 31 January and a month is 28 February.
AddMonths(d, n) == DayIn(MonthOf(d) + n, DayOfMonth(d))

StepDue(from, r, n) ==
  IF r \in DOMAIN StepDays THEN from + StepDays[r] * n ELSE AddMonths(from, StepMonths[r] * n)

FundedBy(due) == due - ReadyDaysBefore

\* Where the steps lead from a date.
Walked(step, first) ==
  LET at[n \in 0 .. MaxSteps] == IF n = 0 THEN first ELSE step[at[n - 1]] IN at[MaxSteps]

Forward(r, from) == [d \in Int |-> IF d < from THEN StepDue(d, r, 1) ELSE d]
Back(r, from)    == [d \in Int |-> IF StepDue(d, r, -1) < from THEN d ELSE StepDue(d, r, -1)]

\* The first due date on or after `from`, stepping from the anchor.
NextDueOn(pot, from) ==
  IF pot.kind = "goal" THEN pot.target
  ELSE IF pot.recurrence = "none" \/ pot.anchor = None THEN None
  ELSE Walked(Back(pot.recurrence, from), Walked(Forward(pot.recurrence, from), pot.anchor))

CyclesUntil(from, due, s) == IF due < from THEN 0 ELSE Len(CyclesBetween(from, due, s))

\* The paydays inside the one period of the bill that ends when it must be ready.
PaydaysForOne(pot, readyBy, s) ==
  IF pot.recurrence = "none" THEN 1
  ELSE LET opens == StepDue(readyBy, pot.recurrence, -1)
           cycles == CyclesBetween(opens, readyBy, s)
           inside(c) == opens <= c.start /\ c.start < readyBy
       IN AtLeast(1, Cardinality({i \in DOMAIN cycles : inside(cycles[i])}))

\* What was chosen, or as many as there are.
AsManyAs(available, chosen) ==
  AtLeast(1, AtMost(IF chosen = None THEN available ELSE chosen, available))

InstallmentsFor(pot, readyBy, s) ==
  AsManyAs(AtMost(PaydaysForOne(pot, readyBy, s), MaxInstallments), pot.installments)

\* Recurrences in a year, in ten-thousandths (52.1786 weeks), and the steady rate of a
\* saving that they give.
PerYear(r) ==
  CASE r = "weekly" -> 521786 [] r = "fortnightly" -> 260893 [] r = "four_weekly" -> 130446
    [] r = "monthly" -> 120000 [] r = "quarterly" -> 40000 [] r = "annual" -> 10000

SavingPerCycle(pot, s) ==
  LET perYear == pot.amount * (IF pot.recurrence = "none" THEN 120000 ELSE PerYear(pot.recurrence))
  IN IF s.kind = "monthly" THEN CeilDiv(perYear, 120000)
     ELSE CeilDiv(perYear * s.lengthDays, 3652500)

(***************************************************************************)
(* The ledger.                                                             *)
(***************************************************************************)
\* A bill that falls due within the first cycle is not saved for.
Skipped(pot, due, firstEnd) ==
  IF /\ due # None /\ pot.opening = 0 /\ pot.kind = "bill"
     /\ pot.recurrence # "none" /\ due < firstEnd
  THEN StepDue(due, pot.recurrence, 1) ELSE due

\* One due the day the cycle starts is over.
StillAhead(pot, due, start) ==
  IF due # None /\ pot.kind # "goal" /\ pot.recurrence # "none" /\ due <= start
  THEN StepDue(due, pot.recurrence, 1) ELSE due

\* The date that the cycle starting at `start` saves for.
TargetDue(pot, start, firstEnd) ==
  StillAhead(pot, Skipped(pot, NextDueOn(pot, start), firstEnd), start)

\* What is needed, over the cycles that remain or over fewer.
Spread(need, remaining, planned) ==
  IF remaining > 0 THEN CeilDiv(need, AtMost(remaining, AtLeast(1, planned))) ELSE need

\* Variant: aims at the due date, not at the ready date.
AskDatedAtDue(pot, start, due, need, s) ==
  IF pot.kind = "bill"
  THEN Spread(need, CyclesUntil(start, due, s), InstallmentsFor(pot, due, s))
  ELSE Spread(need, CyclesUntil(start, due, s), CyclesUntil(start, due, s))

AskDated(pot, start, due, need, s) ==
  IF pot.kind = "bill"
  THEN Spread(need, CyclesUntil(start, FundedBy(due), s), InstallmentsFor(pot, FundedBy(due), s))
  ELSE Spread(need, CyclesUntil(start, due, s), CyclesUntil(start, due, s))

\* Variant: what is left is divided by the same number every cycle.
AskUndatedForever(pot, index, need) ==
  CeilDiv(need, AtLeast(1, AtMost(IF pot.installments = None THEN MaxInstallments
                                  ELSE pot.installments, MaxInstallments)))

\* No date: the number of installments counts down from the first cycle (index 0).
AskUndated(pot, index, need) ==
  LET over == AtLeast(1, AtMost(IF pot.installments = None THEN MaxInstallments
                                ELSE pot.installments, MaxInstallments))
  IN CeilDiv(need, AtLeast(1, over - index))

Ask(pot, index, cycle, due, balance, s) ==
  LET need == AtLeast(0, pot.amount - balance)
  IN IF pot.kind = "saving" THEN SavingPerCycle(pot, s)
     ELSE IF need = 0 THEN 0
     ELSE IF due = None THEN AskUndated(pot, index, need)
     ELSE AskDated(pot, cycle.start, due, need, s)

PotRow(cycle, before, due, ask, paid, moved) ==
  [cycle |-> cycle, recommended |-> ask, targetDue |-> due, contributed |-> moved, paid |-> paid,
   balance |-> AtLeast(0, before + ask - paid)]

\* Row i, which aims at `due`.
RowToward(due, pot, s, cycles, i, before, paid, moved) ==
  PotRow(cycles[i], before, due, Ask(pot, i - 1, cycles[i], due, before, s), paid[i], moved[i])

\* Variant: what falls due before the end of today's cycle is not saved for.
PotLedgerSkippingNow(pot, s, cycles, paid, moved) ==
  LET row[i \in 1 .. Len(cycles)] ==
        RowToward(TargetDue(pot, cycles[i].start, cycles[Len(cycles)].end), pot, s, cycles, i,
                  IF i = 1 THEN pot.opening ELSE row[i - 1].balance, paid, moved)
  IN row

\* One row a cycle; `paid` and `moved` give what left and what was put aside in each.
PotLedger(pot, s, cycles, paid, moved) ==
  LET row[i \in 1 .. Len(cycles)] ==
        RowToward(TargetDue(pot, cycles[i].start, cycles[1].end), pot, s, cycles, i,
                  IF i = 1 THEN pot.opening ELSE row[i - 1].balance, paid, moved)
  IN row

\* The row of the current cycle, or of none yet.
LastRow(pot, now, rows) ==
  IF rows = <<>> THEN PotRow([start |-> now, end |-> now], pot.opening, NextDueOn(pot, now), 0, 0, 0)
  ELSE rows[Len(rows)]

StateOf(pot, s, now, last, due) ==
  [pot |-> pot, balance |-> last.balance, backed |-> last.balance,
   perCycle |-> last.recommended, contributed |-> last.contributed, nextDue |-> due,
   needed |-> IF pot.kind = "saving" THEN 0 ELSE AtLeast(0, pot.amount - last.balance),
   cyclesUntilDue |-> IF due = None THEN 0 ELSE CyclesUntil(now, due, s),
   outstanding |-> AtLeast(0, last.recommended - last.contributed)]

\* The pot as its ledger leaves it.
PotState(pot, s, now, rows) ==
  LET last == LastRow(pot, now, rows)
  IN StateOf(pot, s, now, last,
             IF last.targetDue = None THEN NextDueOn(pot, now) ELSE last.targetDue)
=============================================================================
