------------------------------- MODULE Budget -------------------------------
(***************************************************************************)
(* From the stored categories and transactions to the budget of a cycle:   *)
(* buildBudget, summarise and the headline of the Home screen.             *)
(*                                                                         *)
(* A category is [id, fixed, potKind, amount, recurrence, installments,    *)
(* anchor, dueDay, target, opening, deleted]; "unset" or None stands for a *)
(* field of an old row that holds nothing.                                 *)
(***************************************************************************)
EXTENDS Ledgers

\* Categories are taken by their position in the list.
Live(cats) == {i \in DOMAIN cats : ~ cats[i].deleted}

\* Every writer of a row of kind "pot" sets is_fixed too.
IsPot(c) == c.fixed

PotsOf(cats)  == {i \in Live(cats) : IsPot(cats[i])}
FlowsOf(cats) == Live(cats) \ PotsOf(cats)

\* A day of the month as a date in the current month.
AnchorFromDueDay(dueDay, now) == DayIn(MonthOf(now), IF dueDay = None THEN 1 ELSE dueDay)

\* Variant: the fallback is the day the app is opened.
AnchorAtOpening(c, now) == IF c.anchor = None THEN now ELSE c.anchor

Anchor(c, now) == IF c.anchor = None THEN AnchorFromDueDay(c.dueDay, now) ELSE c.anchor

\* A goal's number of installments is not passed on, and only a bill has an anchor.
PotOf(c, now) ==
  LET kind == IF c.potKind = "unset" THEN "bill" ELSE c.potKind
      recurrence == IF c.recurrence = "unset" THEN "monthly" ELSE c.recurrence
  IN [id |-> c.id, kind |-> kind, amount |-> c.amount, opening |-> c.opening,
      recurrence |-> IF kind = "goal" THEN "none" ELSE recurrence,
      installments |-> IF kind = "bill" THEN c.installments ELSE None,
      anchor |-> IF kind = "bill" THEN Anchor(c, now) ELSE None,
      target |-> IF kind = "goal" THEN c.target ELSE None]

\* A cycle of days that lacks its length or its anchor is not trusted.
CycleSettingsOf(set) ==
  IF set.kind = "days" /\ set.lengthDays # None /\ set.anchorDate # None
  THEN [kind |-> "days", lengthDays |-> set.lengthDays, anchorDate |-> set.anchorDate]
  ELSE [kind |-> "monthly", anchorDay |-> IF set.anchorDay = None THEN 1 ELSE set.anchorDay]

BudgetStartOf(set, cycle) == IF set.budgetStart # None THEN set.budgetStart ELSE cycle.start

(***************************************************************************)
(* The summary of a cycle.  pots and flows are states by position.         *)
(***************************************************************************)
SumOf(amounts) == MapThenSumSet(LAMBDA i : amounts[i], DOMAIN amounts)

Demand(pots, kinds) ==
  SumOf([i \in DOMAIN pots |-> IF pots[i].pot.kind \in kinds THEN pots[i].perCycle ELSE 0])

\* Variant: what is left may be negative.
FundingUnfloored(income, bills, saving) ==
  LET afterSaving == AtLeast(0, income - bills) - saving
  IN [billsUnfunded |-> AtLeast(0, bills - income),
      saveUnfunded |-> AtMost(saving, AtLeast(0, -afterSaving)), spendable |-> afterSaving]

\* Bills come first, savings and goals next; spending takes what is left.
Funding(income, bills, saving) ==
  LET afterBills == income - bills
      afterSaving == AtLeast(0, afterBills) - saving
  IN [billsUnfunded |-> AtLeast(0, -afterBills),
      saveUnfunded |-> AtMost(saving, AtLeast(0, -afterSaving)),
      spendable |-> AtLeast(0, afterSaving)]

\* What the pots claim, capped at what exists.
Reserved(planned, held) == AtMost(planned, held)

\* Variant: the headline is the plan alone.
BoundedByPlan(cashKnown, budgeted, freeCash) == budgeted

Bounded(cashKnown, budgeted, freeCash) ==
  IF cashKnown THEN AtMost(budgeted, freeCash) ELSE budgeted

\* Variant: rounded to the nearest.
PerDayRounded(available, days) == (2 * available + days) \div (2 * days)

\* Rounded down: the figure is a promise.
PerDay(available, days) == IF days > 0 THEN available \div days ELSE available

Summarise(cycle, now, pots, flows, expected, actual, cash, cashKnown) ==
  LET working == IF actual > 0 THEN actual ELSE expected
      known == working > 0
      bills == Demand(pots, {"bill"})
      saving == Demand(pots, {"saving", "goal"})
      funding == Funding(working, bills, saving)
      allowance == SumOf([i \in DOMAIN flows |-> flows[i].allowance])
      rollover == SumOf([i \in DOMAIN flows |-> flows[i].rollover])
      spent == SumOf([i \in DOMAIN flows |-> flows[i].spent])
      planned == SumOf([i \in DOMAIN pots |-> pots[i].balance])
      held == AtLeast(0, cash)
      freeCash == held - Reserved(planned, held)
      pool == IF known THEN AtMost(allowance, funding.spendable) ELSE allowance
      available == Bounded(cashKnown, pool + rollover - spent, freeCash)
  IN [income |-> working, bills |-> bills, saving |-> saving, funding |-> funding,
      billsUnfunded |-> IF known THEN funding.billsUnfunded ELSE 0,
      saveUnfunded |-> IF known THEN funding.saveUnfunded ELSE 0,
      allowance |-> allowance, rollover |-> rollover, spent |-> spent,
      planned |-> planned, held |-> held, cash |-> cash, cashKnown |-> cashKnown,
      reserved |-> Reserved(planned, held), freeCash |-> freeCash,
      cashShortfall |-> IF cashKnown THEN AtLeast(0, planned - held) ELSE 0,
      overcommitted |-> IF known THEN AtLeast(0, allowance - funding.spendable) ELSE 0,
      available |-> available, perDay |-> PerDay(available, DaysLeft(cycle, now))]

(***************************************************************************)
(* The budget on a day.                                                    *)
(***************************************************************************)
PotStates(pots, s, now, cycles, T) ==
  [i \in DOMAIN pots |->
     PotState(pots[i], s, now,
              PotLedger(pots[i], s, cycles,
                        [k \in DOMAIN cycles |-> SpentOn(T, pots[i].id, cycles[k])],
                        [k \in DOMAIN cycles |-> PutAside(T, pots[i].id, cycles[k])]))]

FlowStates(flows, cycles, T) ==
  [i \in DOMAIN flows |->
     FlowState(flows[i].amount, flows[i].id, FlowLedger(flows[i].amount, flows[i].id, cycles, T))]

\* An answer was given, if only "nothing".
CashKnown(set, T) == set.budgetStart # None \/ set.openingCash # 0 \/ Income(T) # {}

BudgetFrom(set, T, now, s, start, cycle, pots, flows, cash) ==
  [settings |-> s, cycle |-> cycle, prevCycle |-> ShiftCycle(cycle, -1, s), start |-> start,
   pots |-> pots, flows |-> flows,
   summary |-> Summarise(cycle, now, pots, flows, set.expected,
                         TotalOf(Income(During(T, cycle))), cash, CashKnown(set, T))]

\* Every ledger is replayed over the same cycles, from the start of budgeting to today's;
\* then the cash is split over the pots.
Replayed(set, cats, T, now, s, start, cycle, cycles) ==
  LET pots == [i \in PotsOf(cats) |-> PotOf(cats[i], now)]
      flows == [i \in FlowsOf(cats) |-> cats[i]]
      cash == CashHeld(set.openingCash, CashLedger(cycles, start, set.openingCash, T))
  IN BudgetFrom(set, T, now, s, start, cycle, WithBacking(PotStates(pots, s, now, cycles, T), cash),
                FlowStates(flows, cycles, T), cash)

BuildBudget(set, cats, T, now) ==
  LET s == CycleSettingsOf(set)
      cycle == CycleFor(now, s)
      start == BudgetStartOf(set, cycle)
  IN Replayed(set, cats, T, now, s, start, cycle, CyclesBetween(start, now, s))

\* The bill of the Home screen's one slot; 0 when there is none.
NextDuePot(pots) ==
  LET bills == {i \in DOMAIN pots : pots[i].pot.kind = "bill" /\ pots[i].nextDue # None}
  IN IF bills = {} THEN 0
     ELSE CHOOSE i \in bills : \A j \in bills \ {i} : ~ ClaimsBefore(pots, j, i)

\* Being short of money is not having overspent.
Headline(sum) ==
  LET short == sum.cashShortfall > 0
      over == ~ short /\ sum.available < 0
  IN [short |-> short, over |-> over,
      figure |-> IF over THEN -sum.available ELSE IF short THEN 0 ELSE sum.perDay]
=============================================================================
