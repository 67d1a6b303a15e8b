------------------------------ MODULE MCBudget ------------------------------
(***************************************************************************)
(* The budget engine on a calendar of short months, with cycles of three   *)
(* days and of a month; and the two forms beside it, of a category and of  *)
(* an amount.  The three share no state: a behaviour plays one of them,    *)
(* the scene, and leaves the others as one of their initial states.        *)
(***************************************************************************)
EXTENDS Household, CategoryForm, Money, TLC

FirstEdit == CHOOSE d \in EditDays : \A e \in EditDays : d <= e

VARIABLE scene

budgetVars == <<scene, householdVars, formVars, moneyVars>>

BudgetInit ==
  /\ scene \in {"household", "form", "money"}
  /\ HouseholdInit /\ FormInit /\ MoneyInit
  /\ scene # "household" => set.kind = "monthly"
  /\ scene # "form" => row = FlowRow /\ edited = FirstEdit

BudgetNext ==
  \/ scene = "household" /\ HouseholdNext /\ UNCHANGED <<scene, formVars, moneyVars>>
  \/ scene = "form" /\ FormNext /\ UNCHANGED <<scene, householdVars, moneyVars>>
  \/ scene = "money" /\ MoneyNext /\ UNCHANGED <<scene, householdVars, formVars>>

BudgetSpec == BudgetInit /\ [][BudgetNext]_budgetVars

\* The household, the form and the figure have values of their types.
BudgetTypeOK == HouseholdTypeOK /\ FormTypeOK /\ MoneyTypeOK

ShortMonths == <<5, 4>>
ShortSteps  == "weekly" :> 2 @@ "fortnightly" :> 4 @@ "four_weekly" :> 8

Category(id, fixed, kind, amount) ==
  [id |-> id, fixed |-> fixed, potKind |-> kind, amount |-> amount, recurrence |-> "unset",
   installments |-> None, anchor |-> None, dueDay |-> None, target |-> None, opening |-> 0,
   deleted |-> FALSE]

Settings(kind, length, anchorDate, anchorDay, start, cash) ==
  [kind |-> kind, lengthDays |-> length, anchorDate |-> anchorDate, anchorDay |-> anchorDay,
   expected |-> 4, budgetStart |-> start, openingCash |-> cash]

\* Day to day money is category 1; the commitments come after it.
Flow == Category(1, FALSE, "unset", 2)
Goal(id) == Category(id, TRUE, "goal", 5)
Bill(id, recurrence, anchor) ==
  [Category(id, TRUE, "bill", 4) EXCEPT !.recurrence = recurrence, !.anchor = anchor]
OldBill(id, dueDay) == [Category(id, TRUE, "unset", 4) EXCEPT !.dueDay = dueDay]
Saving(id) == [Category(id, TRUE, "saving", 2) EXCEPT !.recurrence = "monthly", !.opening = 1]

SomeRates == {[num |-> 1, den |-> 1], [num |-> 5, den |-> 4], [num |-> 3, den |-> 2]}

SomePlans ==
  {[set |-> Settings("days", 3, 10, None, 11, 6), cats |-> <<Flow, Goal(2), Bill(3, "quarterly", 16)>>],
   [set |-> Settings("monthly", None, None, 5, 11, 6), cats |-> <<Flow, OldBill(2, 3), Saving(3)>>],
   [set |-> Settings("days", 2, 5, 1, None, 0), cats |-> <<Flow, Bill(2, "weekly", 17)>>]}
=============================================================================
