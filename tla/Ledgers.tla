------------------------------- MODULE Ledgers -------------------------------
(***************************************************************************)
(* The ledgers that the budget engine replays from the transactions: the   *)
(* cash held, the flows that refill every cycle, the paydays with no       *)
(* income, and the cash behind the pots.                                   *)
(*                                                                         *)
(* A transaction is [id, day, kind, cat, amount], kind one of "spend",     *)
(* "income" and "transfer"; the amount is its value in the base currency,  *)
(* and only a transfer's may be negative.  A deleted one is not in the     *)
(* set.                                                                    *)
(***************************************************************************)
EXTENDS Pots, FiniteSetsExt

NoCategory == 0

Size(n) == IF n < 0 THEN -n ELSE n
Value(t) == Size(t.amount)
TotalOf(T) == MapThenSumSet(Value, T)

Spending(T)    == {t \in T : t.kind = "spend"}
Income(T)      == {t \in T : t.kind = "income"}
Between(T, from, to) == {t \in T : from <= t.day /\ t.day < to}
During(T, c)   == Between(T, c.start, c.end)
OfCategory(T, cat) == {t \in T : t.cat = cat}

\* Spent on a category in a cycle; and put aside for it, with its sign.
SpentOn(T, cat, c)  == TotalOf(Spending(OfCategory(During(T, c), cat)))
PutAside(T, cat, c) ==
  MapThenSumSet(LAMBDA t : t.amount, {t \in OfCategory(During(T, c), cat) : t.kind = "transfer"})

\* What the bars of the Budgets screen show: a transfer counts.
SpentInCycle(T, cat, c) == TotalOf({t \in OfCategory(During(T, c), cat) : t.kind # "income"})

(***************************************************************************)
(* Cash: closing = opening + income - outflow, from the day the opening    *)
(* balance was measured.                                                   *)
(***************************************************************************)
\* Variant: the first cycle counts from its own start.
MeasuredFromCycle(i, budgetStart, cycle) == cycle.start

MeasuredFrom(i, budgetStart, cycle) ==
  IF i = 1 THEN AtLeast(budgetStart, cycle.start) ELSE cycle.start

CashLedger(cycles, budgetStart, opening, T) ==
  LET row[i \in 1 .. Len(cycles)] ==
        LET counted == Between(T, MeasuredFrom(i, budgetStart, cycles[i]), cycles[i].end)
            before == IF i = 1 THEN opening ELSE row[i - 1].closing
            income == TotalOf(Income(counted))
            outflow == TotalOf(Spending(counted))
        IN [cycle |-> cycles[i], opening |-> before, income |-> income, outflow |-> outflow,
            closing |-> before + income - outflow]
  IN row

\* What is held now; the opening figure when the ledger has no row.
CashHeld(opening, rows) == IF rows = <<>> THEN opening ELSE rows[Len(rows)].closing

(***************************************************************************)
(* Flows: a fresh allowance every cycle; what is left, or overspent,       *)
(* carries forward.                                                        *)
(***************************************************************************)
FlowLedger(limit, cat, cycles, T) ==
  LET row[i \in 1 .. Len(cycles)] ==
        LET spent == SpentOn(T, cat, cycles[i])
        IN [cycle |-> cycles[i], spent |-> spent,
            carried |-> (IF i = 1 THEN 0 ELSE row[i - 1].carried) + limit - spent]
  IN row

\* Variant: the carry includes the current cycle's own allowance and spending.
RolloverOfCurrent(rows) == IF rows = <<>> THEN 0 ELSE rows[Len(rows)].carried

\* Everything carried in from the cycles before the current one.
Rollover(rows) == IF Len(rows) < 2 THEN 0 ELSE rows[Len(rows) - 1].carried

FlowState(limit, cat, rows) ==
  LET spent == IF rows = <<>> THEN 0 ELSE rows[Len(rows)].spent
  IN [id |-> cat, allowance |-> limit, rollover |-> Rollover(rows), spent |-> spent,
      available |-> limit + Rollover(rows) - spent]

(***************************************************************************)
(* Paydays that have arrived since budgeting started, in cycles without    *)
(* any income.                                                             *)
(***************************************************************************)
\* Variant: the cycle that was running when budgeting started is credited too.
CreditableAny(c, budgetStart, now) == c.start <= now

Creditable(c, budgetStart, now) == budgetStart <= c.start /\ c.start <= now

MissingPaydays(s, budgetStart, now, expected, T) ==
  LET unpaid(c) == Creditable(c, budgetStart, now) /\ Income(During(T, c)) = {}
      cycles == CyclesBetween(budgetStart, now, s)
  IN IF expected <= 0 THEN {}
     ELSE {[day |-> cycles[i].start, amount |-> expected] :
             i \in {j \in DOMAIN cycles : unpaid(cycles[j])}}

(***************************************************************************)
(* The cash held is split over the pots that claim it, the soonest due     *)
(* first, undated ones last, in their order on a tie.                      *)
(***************************************************************************)
\* Variant: in the order of the screens.
ClaimsInOrder(pots, j, i) == j < i

ClaimsBefore(pots, j, i) ==
  LET due(k) == pots[k].nextDue
  IN \/ due(j) # None /\ (due(i) = None \/ due(j) < due(i))
     \/ due(j) = due(i) /\ j < i

\* pots are pot states, by their position on the screens.
WithBacking(pots, cash) ==
  LET backed[i \in DOMAIN pots] ==
        LET taken == MapThenSumSet(LAMBDA j : backed[j],
                                   {j \in DOMAIN pots : ClaimsBefore(pots, j, i)})
        IN AtLeast(0, AtMost(pots[i].balance, AtLeast(0, cash) - taken))
  IN [i \in DOMAIN pots |-> [pots[i] EXCEPT !.backed = backed[i]]]
=============================================================================
