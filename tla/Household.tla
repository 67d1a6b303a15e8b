------------------------------ MODULE Household ------------------------------
(***************************************************************************)
(* A household over some days: what it enters, and the budget that the app *)
(* shows.  The app takes the date once, when it is opened, and keeps the   *)
(* budget computed from it until the settings, the categories or the       *)
(* transactions change.                                                    *)
(***************************************************************************)
EXTENDS Insights

CONSTANTS
  FirstDay, LastDay,  \* bound: the days that the behaviours span
  Plans,              \* settings and categories at the end of the onboarding
  Amounts,            \* of a transaction
  MaxEntries,         \* bound: transactions at a time
  BackDays,           \* bound: how far back a transaction may be dated
  OpenDays            \* bound: how long the app is left open

\* What the onboarding answers, within the checks of the database (008_cycles_and_pots.sql).
BudgetSettings ==
  [kind : {"days", "monthly"}, lengthDays : (Nat \ {0}) \cup {None},
   anchorDate : Int \cup {None}, anchorDay : 1..31 \cup {None},
   expected : Nat, budgetStart : Int \cup {None}, openingCash : Int]

\* A category that it sets up, or one of before there were pots.
BudgetCategories ==
  [id : Nat \ {NoCategory}, fixed : BOOLEAN, potKind : {"unset", "bill", "saving", "goal"},
   amount : Nat, recurrence : {"unset"} \cup DOMAIN StepDays \cup DOMAIN StepMonths,
   installments : 1..4 \cup {None}, anchor : Int \cup {None}, dueDay : 1..31 \cup {None},
   target : Int \cup {None}, opening : Nat, deleted : BOOLEAN]

ASSUME HouseholdAssumption ==
  /\ FirstDay \in Int /\ LastDay \in Int /\ FirstDay <= LastDay
  /\ \A p \in Plans : /\ p.set \in BudgetSettings /\ p.set.budgetStart \in {None, FirstDay}
                      /\ p.cats \in Seq(BudgetCategories)
                      /\ \A i, j \in DOMAIN p.cats : p.cats[i].id = p.cats[j].id => i = j
                      \* Bound: the steps of a due date span the days played.
                      /\ MonthOf(LastDay) - MonthOf(CycleFor(FirstDay, CycleSettingsOf(p.set)).start) < MaxSteps
  /\ Amounts \subseteq Nat \ {0} /\ MaxEntries \in Nat /\ BackDays \in Nat /\ OpenDays \in Nat

VARIABLES
  today,
  now,       \* the day the app was opened
  set,       \* the budget settings
  cats,      \* the categories, in the order of the screens
  txs,       \* the transactions that are not deleted
  budget     \* what buildBudget made of them

householdVars == <<today, now, set, cats, txs, budget>>

Ids == {cats[i].id : i \in DOMAIN cats}
PotIds == {cats[i].id : i \in {j \in DOMAIN cats : cats[j].fixed}}
Entries == {t \in txs : ~ t.auto}
UnusedId == CHOOSE n \in 1 .. MaxEntries : \A t \in Entries : t.id # n

\* Variant: an entry leaves the budget as it was.
RecomputedOnOpening == budget' = IF now' # now THEN BuildBudget(set', cats', txs', now') ELSE budget

Recomputed == budget' = BuildBudget(set', cats', txs', now')

HouseholdInit ==
  /\ today = FirstDay /\ now = FirstDay /\ txs = {}
  /\ \E p \in Plans : set = p.set /\ cats = p.cats
  /\ budget = BuildBudget(set, cats, txs, now)

NextDay ==
  /\ today < LastDay /\ today - now < OpenDays
  /\ today' = today + 1
  /\ UNCHANGED <<now, set, cats, txs, budget>>

\* The app is opened again.
Reopen ==
  /\ now # today
  /\ now' = today
  /\ UNCHANGED <<today, set, cats, txs>>
  /\ Recomputed

Add(t) ==
  /\ txs' = txs \cup {t}
  /\ UNCHANGED <<today, now, set, cats>>
  /\ Recomputed

RoomToEnter == Cardinality(Entries) < MaxEntries

Entry(kind, cat, amount, day) ==
  [id |-> UnusedId, kind |-> kind, cat |-> cat, amount |-> amount, day |-> day, auto |-> FALSE]

EnterSpending == RoomToEnter /\ \E cat \in Ids, n \in Amounts, day \in today - BackDays .. today :
                   Add(Entry("spend", cat, n, day))
EnterIncome   == RoomToEnter /\ \E n \in Amounts : Add(Entry("income", NoCategory, n, today))
\* Money moved into a pot, or back out of it.
PutAsideOrTakeBack == RoomToEnter /\ \E cat \in PotIds, n \in Amounts, sign \in {-1, 1} :
                        Add(Entry("transfer", cat, sign * n, today))

RemoveEntry == \E t \in txs :
  /\ txs' = txs \ {t}
  /\ UNCHANGED <<today, now, set, cats>>
  /\ Recomputed

\* The payday effect: a wage for the payday that has passed without an income.
\* (Bound: one wage is missing; with more the runs of the effect overlap: see Paydays.)
CreditMissing ==
  LET due == MissingPaydays(budget.settings, budget.start, now, set.expected, txs)
      credit(p) == [id |-> p.day, kind |-> "income", cat |-> NoCategory,
                    amount |-> p.amount, day |-> p.day, auto |-> TRUE]
  IN /\ Cardinality(due) = 1
     /\ txs' = txs \cup {credit(p) : p \in due}
     /\ UNCHANGED <<today, now, set, cats>>
     /\ Recomputed

\* "Money you have now": the ledgers start again today.
MeasureCash == \E n \in Amounts :
  /\ set.budgetStart # today
  /\ set' = [set EXCEPT !.openingCash = n, !.budgetStart = today]
  /\ UNCHANGED <<today, now, cats, txs>>
  /\ Recomputed

\* (Bound: one category is removed.)
RemoveCategory == \E i \in DOMAIN cats :
  /\ \A j \in DOMAIN cats : ~ cats[j].deleted
  /\ cats' = [cats EXCEPT ![i].deleted = TRUE]
  /\ UNCHANGED <<today, now, set, txs>>
  /\ Recomputed

HouseholdNext ==
  \/ NextDay \/ Reopen \/ EnterSpending \/ EnterIncome \/ PutAsideOrTakeBack
  \/ RemoveEntry \/ CreditMissing \/ MeasureCash \/ RemoveCategory

HouseholdSpec == HouseholdInit /\ [][HouseholdNext]_householdVars

(***************************************************************************)
(* Properties.                                                             *)
(***************************************************************************)
\* The app is never ahead of the day, a transaction is of the last days or a payday, and
\* there is one state for every category that is not deleted.
HouseholdTypeOK ==
  /\ today \in FirstDay .. LastDay /\ now \in FirstDay .. today
  /\ \A t \in txs : /\ t.day \in Int /\ t.day <= today /\ t.kind \in {"spend", "income", "transfer"}
                    /\ t.cat \in Ids \cup {NoCategory} /\ t.amount \in Int
                    /\ t.kind # "transfer" => t.amount > 0
  /\ DOMAIN budget.pots = PotsOf(cats) /\ DOMAIN budget.flows = FlowsOf(cats)
  /\ \A i \in DOMAIN budget.pots : budget.pots[i].balance \in Nat

\* The cycles tile the calendar (cycleFor, shiftCycle, cyclesBetween): today is inside its
\* cycle, the next one begins where it ends, the one before is undone by going forward, and
\* a day either side of the turn belongs to the cycle it should.
CyclesTile ==
  LET s == budget.settings
      c == CycleFor(today, s)
  IN /\ InCycle(today, c) /\ DaysLeft(c, today) \in 1 .. DaysTotal(c)
     /\ ShiftCycle(c, 1, s).start = c.end
     /\ ShiftCycle(ShiftCycle(c, 1, s), -1, s) = c
     /\ CycleFor(c.end - 1, s) = c /\ CycleFor(c.end, s).start = c.end

\* A bill whose ready date falls in this cycle, or has passed, is funded by now unless money
\* of it was spent this cycle, in an app opened today (pots.ts: a bill due Monday is funded
\* by the Friday before).
BillIsReady ==
  \A i \in DOMAIN budget.pots :
    LET p == budget.pots[i]
    IN /\ now = today /\ p.pot.kind = "bill" /\ p.nextDue # None /\ FundedBy(p.nextDue) < budget.cycle.end
       /\ SpentOn(txs, p.pot.id, budget.cycle) = 0
       => p.balance >= p.pot.amount

\* A goal without a date is met after the most installments there are, whatever was put
\* aside, if nothing was taken; and no goal or bill is ever asked for more than its amount.
GoalIsMet ==
  \A i \in DOMAIN budget.pots :
    LET p == budget.pots[i]
        cycles == CyclesBetween(budget.start, now, budget.settings)
    IN /\ p.pot.kind # "saving" => p.balance <= AtLeast(p.pot.amount, p.pot.opening)
       /\ /\ p.pot.kind = "goal" /\ p.pot.target = None /\ Len(cycles) >= MaxInstallments
          /\ Spending(OfCategory(txs, p.pot.id)) = {}
          => p.needed = 0

\* A later claim on the cash is backed only when every sooner one is met (withBacking).
SoonestFirst ==
  \A i, j \in DOMAIN budget.pots :
    /\ budget.pots[i].nextDue # None
    /\ budget.pots[j].nextDue = None \/ budget.pots[i].nextDue < budget.pots[j].nextDue
    /\ budget.pots[j].backed > 0
    => budget.pots[i].backed = budget.pots[i].balance

\* A bill with a date of its own, or an old row: monthly, of a day that every month has.
HasItsDate(c) ==
  c.potKind \in {"unset", "bill"} /\ c.anchor = None =>
    /\ c.recurrence \in {"unset", "monthly"}
    /\ c.dueDay # None => \A i \in DOMAIN MonthLengths : c.dueDay <= MonthLengths[i]

\* The day the app was opened on moves no due date, also of an old row that has no anchor,
\* unless its day is one that some month lacks (model.ts, potOf; see BillKeepsItsDay).
DatesAreFixed ==
  \A i \in PotsOf(cats) : HasItsDate(cats[i]) =>
    \A day \in FirstDay .. LastDay :
      NextDueOn(budget.pots[i].pot, day) = NextDueOn(PotOf(cats[i], FirstDay), day)

\* A household that spends as it is told meets what it committed itself to, on the dates it
\* chose, and where the cash is short the sooner commitment is met first.
CommitmentsAreMet == BillIsReady /\ GoalIsMet /\ SoonestFirst /\ DatesAreFixed

\* The headline never offers money that is not there: with the cash known, what is available
\* fits, with everything that the pots are said to hold, in the cash held; and spending the
\* daily figure on every day left does not exceed it (summary.ts:177-183, 228-232).
HeadlineIsBacked ==
  LET sum == budget.summary
      backed == SumOf([i \in DOMAIN budget.pots |-> budget.pots[i].backed])
  IN /\ backed = AtMost(sum.planned, sum.held)
     /\ sum.cashKnown => sum.available + backed <= sum.held
     /\ sum.perDay * DaysLeft(budget.cycle, now) <= sum.available

\* Whoever spends the daily figure today is offered no less tomorrow, while the cycle lasts
\* ("the daily figure is a promise", summary.ts:228), if his bills do not move.
PromiseIsKept ==
  LET figure == budget.summary.perDay
      spent(cat) == [id |-> 0, kind |-> "spend", cat |-> cat, amount |-> figure,
                     day |-> today, auto |-> FALSE]
      tomorrow(cat) == BuildBudget(set, cats, txs \cup {spent(cat)}, today + 1)
  IN /\ now = today /\ figure > 0 /\ today + 1 < budget.cycle.end
     /\ \A i \in PotsOf(cats) : HasItsDate(cats[i])
     => \A i \in DOMAIN budget.flows :
         tomorrow(budget.flows[i].id).summary.perDay >= figure

\* "Over budget" is said only of a household that spent, in this cycle or before: bills that
\* wait for their wage never are called overspending (summary.ts cashShortfallMinor).
OverMeansOverspent ==
  Headline(budget.summary).over => budget.summary.spent > 0 \/ budget.summary.rollover < 0

\* The cash held is the opening figure and all that moved since it was measured, whatever
\* the cycles it is replayed over; a transfer is no movement (cash.ts).
CashIsConserved ==
  LET since == {t \in txs : t.day >= budget.start}
  IN now = today /\ set.budgetStart # None =>
       budget.summary.cash = set.openingCash + TotalOf({t \in since : t.kind = "income"})
                                             - TotalOf({t \in since : t.kind = "spend"})

\* The same with the app left open: what is spent after the day it was opened counts at
\* once ("self-corrects", flows.ts; "cash is a fact", summary.ts).
CashFollowsSpending ==
  LET since == {t \in txs : t.day >= budget.start}
  IN set.budgetStart # None =>
       budget.summary.cash = set.openingCash + TotalOf({t \in since : t.kind = "income"})
                                             - TotalOf({t \in since : t.kind = "spend"})

\* What a flow has available is all its allowances less all its spending (flows.ts):
\* nothing is lost or counted twice where one cycle carries into the next.
FlowsCarry ==
  LET cycles == CyclesBetween(budget.start, now, budget.settings)
  IN budget.start <= now => \A i \in DOMAIN budget.flows :
       LET f == budget.flows[i]
           spent == {t \in txs : /\ t.kind = "spend" /\ t.cat = f.id
                                 /\ cycles[1].start <= t.day /\ t.day < budget.cycle.end}
       IN f.available = Len(cycles) * f.allowance - TotalOf(spent)

\* A report loses nothing: its days, its categories and its total agree, also with the month
\* that the selectors derive and with the days of the Activity list.
ReportAddsUp ==
  LET month == MonthPeriod(now)
      r == Report(txs, month, PrevMonthPeriod(month))
      d == Derive(txs, cats, now, 10)
      days == GroupByDay(During(txs, month))
      history == MonthHistory(txs, now, 2)
  IN /\ r.spent = MapThenSumSet(LAMBDA i : r.daily[i], DOMAIN r.daily)
     /\ r.spent = MapThenSumSet(LAMBDA c : r.byCategory[c].now, DOMAIN r.byCategory)
     /\ r.spent = d.monthTotal /\ r.spent = history[2]
     /\ r.income - r.spent = MapThenSumSet(LAMBDA x : days[x], DOMAIN days)
     /\ \A c \in DOMAIN r.byCategory : r.byCategory[c].prev <= history[1]

\* The verdict in words and the note in figures agree on who is in trouble, and money that
\* lasts the month has no day it runs out on (verdict.ts).
VerdictsAgree ==
  \A dayToDay \in {2, 5} :
    LET d == Derive(txs, cats, now, dayToDay)
        words == VerdictFor(d, dayToDay)
        note == PaceNote(d, dayToDay)
    IN /\ (words = "bad") = (note.tone = "bad") /\ note.figure >= 0
       /\ note.tone = "great" => words = "great"
       /\ RunsOutOn(d) # None => d.dayOfMonth <= RunsOutOn(d) /\ RunsOutOn(d) <= d.daysInMonth

\* What the app says first is true: the figure is backed by cash and kept tomorrow, "over
\* budget" means that too much was spent, and the verdict in words agrees with the figures.
HeadlineIsHonest == HeadlineIsBacked /\ PromiseIsKept /\ OverMeansOverspent /\ VerdictsAgree

\* Money is neither lost nor counted twice, however the days fall into cycles, carry into
\* the next, or are summed by day, by category and by month.
LedgersAddUp == CashIsConserved /\ FlowsCarry /\ ReportAddsUp

Ledger(p, on) ==
  LET cycles == CyclesBetween(budget.start, on, budget.settings)
  IN PotLedger(p, budget.settings, cycles,
               [k \in DOMAIN cycles |-> SpentOn(txs, p.id, cycles[k])], [k \in DOMAIN cycles |-> 0])

\* Another day, with nothing entered, leaves every past cycle of every pot as it was: the
\* ledgers are replayed, and the replay is of the same past (pots.ts).
PastIsFixed ==
  [][now' # now /\ set.budgetStart # None =>
       \A i \in DOMAIN budget.pots :
         LET before == Ledger(budget.pots[i].pot, now)
             after == Ledger(budget.pots[i].pot, now')
         IN Len(before) <= Len(after) /\ \A k \in 1 .. Len(before) : after[k] = before[k]]_householdVars

\* A credited wage is of a payday after the balance was measured, and the only income of its
\* cycle: what was in the figure, or typed in, is never credited again (payday.ts).
WageCreditedOnce ==
  [][\A t \in txs' \ txs : t.auto =>
       /\ t.day >= budget.start /\ t.day <= now
       /\ Income(During(txs', CycleFor(t.day, budget.settings))) = {t}]_householdVars
=============================================================================
