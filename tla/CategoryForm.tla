---------------------------- MODULE CategoryForm ----------------------------
(***************************************************************************)
(* Editing a category: what the editor shows of a row (features/settings/  *)
(* Editors.tsx, CategoryEditor), the shape the app gives the row           *)
(* (app/App.tsx, the editor's onSave; shared-types/sync.ts), and what the  *)
(* budget takes it for (see Budget).  The editor shows some fields and     *)
(* rewrites others, on a day that need not be in the month the row is of.  *)
(***************************************************************************)
EXTENDS Budget

CONSTANTS
  DueDays,     \* the days of the month that are typed in
  EditDays     \* bound: the days on which a category is edited

ASSUME FormAssumption == DueDays \subseteq 1..31 /\ EditDays \subseteq Int

VARIABLES
  row,     \* the category
  edited   \* the day of the app's "now"

formVars == <<row, edited>>

\* Recurrences that the editor offers.
Offered == {"monthly", "quarterly", "annual"}

\* What the editor shows.
Forms == [kind : {"flow", "bill", "goal"}, dueDay : DueDays \cup {None},
          installments : {None, 1, 2}, recurrence : Offered]

FormRows ==
  [id : {1}, fixed : BOOLEAN, potKind : {"unset", "bill", "goal"}, amount : {4},
   recurrence : Offered \cup {"unset"}, installments : {None, 1, 2}, anchor : Int \cup {None},
   dueDay : DueDays \cup {None}, target : {None}, opening : {0, 1}, deleted : {FALSE}]

\* flowFields, of a category of the day-to-day.
FlowRow == [id |-> 1, fixed |-> FALSE, potKind |-> "unset", amount |-> 4, recurrence |-> "unset",
            installments |-> None, anchor |-> None, dueDay |-> None, target |-> None,
            opening |-> 0, deleted |-> FALSE]

\* billFields
BillRow(recurrence, anchor, opening, installments, dueDay) ==
  [FlowRow EXCEPT !.fixed = TRUE, !.potKind = "bill", !.recurrence = recurrence,
                  !.anchor = anchor, !.opening = opening, !.installments = installments,
                  !.dueDay = dueDay]

\* Variant: the number of paydays is not passed on.
GoalRowAtOnce(installments) == [FlowRow EXCEPT !.fixed = TRUE, !.potKind = "goal"]

\* goalFields
GoalRow(installments) ==
  [FlowRow EXCEPT !.fixed = TRUE, !.potKind = "goal", !.installments = installments]

-----------------------------------------------------------------------------
(* The editor. *)

\* Variant: a row is a bill only if it says so.
ShownKindNew(c) == IF c.potKind = "unset" THEN "flow" ELSE c.potKind

\* The kind the editor opens with.
ShownKind(c) == IF c.potKind = "goal" THEN "goal" ELSE IF c.fixed THEN "bill" ELSE "flow"

ShownOf(c) ==
  [kind |-> ShownKind(c), dueDay |-> c.dueDay, installments |-> c.installments,
   recurrence |-> IF c.recurrence = "unset" THEN "monthly" ELSE c.recurrence]

\* Variant: a goal keeps the fields of what it was before.
SavedForOver(f) ==
  CASE f.kind = "bill" -> BillRow(f.recurrence, AnchorFromDueDay(f.dueDay, edited), 0,
                                  f.installments, f.dueDay)
    [] f.kind = "goal" -> [row EXCEPT !.fixed = TRUE, !.potKind = "goal",
                                      !.installments = f.installments]
    [] f.kind = "flow" -> FlowRow

\* Variant: the day is kept, but an anchor is not rewritten.
SavedForKept(f) ==
  CASE f.kind = "bill" -> BillRow(f.recurrence,
                                  IF row.anchor = None THEN AnchorFromDueDay(f.dueDay, edited)
                                  ELSE row.anchor, 0, f.installments, f.dueDay)
    [] f.kind = "goal" -> GoalRow(f.installments)
    [] f.kind = "flow" -> FlowRow

\* onSave: the row that is written for what the editor shows.
SavedFor(f) ==
  CASE f.kind = "bill" -> BillRow(f.recurrence, AnchorFromDueDay(f.dueDay, edited), 0,
                                  f.installments, f.dueDay)
    [] f.kind = "goal" -> GoalRow(f.installments)
    [] f.kind = "flow" -> FlowRow

\* From before bills were pots; as the set-up makes them, with some of a bill put by or not.
FormInit ==
  /\ edited \in EditDays
  /\ \E due \in DueDays, opening \in {0, 1} :
       row \in {FlowRow, [FlowRow EXCEPT !.fixed = TRUE, !.dueDay = due],
                BillRow("monthly", AnchorFromDueDay(due, edited), opening, None, due)}

Edit ==
  /\ \E f \in Forms : row' = SavedFor(f)
  /\ UNCHANGED edited

LaterDay ==
  /\ \E d \in EditDays : d > edited /\ edited' = d
  /\ UNCHANGED row

FormNext == Edit \/ LaterDay

FormSpec == FormInit /\ [][FormNext]_formVars

-----------------------------------------------------------------------------
(* Properties. *)

\* Only a bill has a date and a recurrence, whatever the row was before.
FormTypeOK ==
  /\ row \in FormRows /\ edited \in EditDays
  /\ row.potKind # "bill" => row.anchor = None /\ row.recurrence = "unset"

\* The editor and the budget agree on what a row is, also on a row from before bills were
\* pots (Editors.tsx:197-199, model.ts:55-71): what is edited is what is budgeted.
EditorAgreesWithBudget ==
  ShownKind(row) = IF IsPot(row) THEN PotOf(row, edited).kind ELSE "flow"

\* What was chosen is what the editor shows the next time; and saving what it shows changes
\* nothing of a category or a goal, and of a bill nothing the second time.
UntouchedFormKeeps ==
  LET once == SavedFor(ShownOf(row)) IN
    /\ SavedFor(ShownOf(once)) = once
    /\ ShownKind(row) # "bill" => once = row
    /\ \A f \in Forms :
         LET shown == ShownOf(SavedFor(f)) IN
           /\ f.kind = "bill" => shown = f
           /\ f.kind = "goal" => shown.kind = "goal" /\ shown.installments = f.installments
           /\ f.kind = "flow" => shown.kind = "flow"

\* The day a bill is budgeted for is the day that was chosen, in a month that has it
\* (App.tsx:843-852: "keeps one of them authoritative: the day the person actually chose").
DueOnTheDayChosen ==
  LET due == PotOf(row, edited).anchor IN
    ShownKind(row) = "bill" /\ row.dueDay # None => due = DayIn(MonthOf(due), row.dueDay)

\* The form keeps the meaning of what it is given: it shows what is budgeted, saves what was
\* chosen, and a save of an untouched form changes nothing.
FormKeepsItsMeaning == EditorAgreesWithBudget /\ UntouchedFormKeeps /\ DueOnTheDayChosen

\* Violated: after a month that lacks its day, a monthly bill stays on the last day of that
\* month (pots.ts, nextDueOn: every step is from the date before, not from the day chosen).
BillKeepsItsDay ==
  LET due == NextDueOn(PotOf(row, edited), edited) IN
    ShownKind(row) = "bill" /\ row.dueDay # None /\ row.recurrence \in {"monthly", "unset"} =>
      due = DayIn(MonthOf(due), row.dueDay)

\* Violated: a yearly bill is due in the month in which something of it was last edited.
BillKeepsItsMonth ==
  [][ row.recurrence = "annual" /\ ShownOf(row') = ShownOf(row) =>
        MonthOf(row'.anchor) = MonthOf(row.anchor) ]_row
=============================================================================
