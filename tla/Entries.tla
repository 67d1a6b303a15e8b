------------------------------ MODULE Entries ------------------------------
(***************************************************************************)
(* Entering and editing transactions (features/transactions/AddSheet.tsx,  *)
(* features/budget/PutAsideSheet.tsx, and their callbacks in app/App.tsx). *)
(*                                                                         *)
(* A sheet holds a draft.  Saving awaits the database and only then closes *)
(* the sheet, so it can be tapped again, closed and reopened meanwhile;    *)
(* and an effect fills the draft anew whenever the lists of categories     *)
(* and cards in memory are replaced, which every hydrate does.             *)
(***************************************************************************)
EXTENDS Integers, FiniteSets, Sequences

CONSTANTS
  Flexible,       \* the day-to-day categories, one of which is offered first
  First, NoCat,
  MaxAmount,      \* bound: amounts
  MaxEntered,     \* bound: saves
  MaxRefreshes    \* bound: hydrates

ASSUME EntriesAssumption ==
  /\ First \in Flexible /\ NoCat \notin Flexible
  /\ MaxAmount \in Nat \ {0} /\ MaxEntered \in Nat /\ MaxRefreshes \in Nat

VARIABLES
  entries,    \* the transactions, in the order they were entered
  sheet,      \* the sheet, its draft, and the transaction it was opened for (0: a new one)
  aside,      \* the sheet that puts money aside
  saving,     \* the saves that await the database
  refreshes,  \* the hydrates so far
  meant       \* history: what the user last entered or was shown first, and whether the
              \* draft has been filled anew since

entryVars == <<entries, sheet, aside, saving, refreshes, meant>>

Drafts == [amount : 0..MaxAmount, cat : Flexible \cup {NoCat}, income : BOOLEAN]
Entry == [amount : Int, cat : Flexible \cup {NoCat}, income : BOOLEAN, transfer : BOOLEAN]

\* Types; no entry is of nothing, and the sign of an entry says whether it is an income.
EntriesTypeOK ==
  /\ \A i \in DOMAIN entries :
       /\ entries[i] \in Entry /\ entries[i].amount # 0
       /\ ~ entries[i].transfer => (entries[i].amount > 0 <=> entries[i].income)
  /\ sheet \in [open : BOOLEAN, editing : 0..MaxEntered, draft : Drafts]
  /\ aside \in [open : BOOLEAN, busy : BOOLEAN, openings : 0..MaxEntered]
  /\ \A s \in saving : /\ s.to \in 0..MaxEntered /\ s.row \in Entry
                       /\ s.kind \in {"sheet", "aside"} /\ s.as \in BOOLEAN
  /\ refreshes \in 0..MaxRefreshes
  /\ meant \in [draft : Drafts, filled : BOOLEAN]

EmptyDraft == [amount |-> 0, cat |-> First, income |-> FALSE]
Abs(n) == IF n < 0 THEN -n ELSE n

\* Variant: an income is shown as spending.
DraftOfSpending(e) == [amount |-> Abs(e.amount), cat |-> e.cat, income |-> FALSE]

\* The draft a transaction is shown as.  (Amounts of two decimals: see Money.)
DraftOf(e) == [amount |-> Abs(e.amount), cat |-> e.cat, income |-> e.income]

Filled(editing) == IF editing = 0 THEN EmptyDraft ELSE DraftOf(entries[editing])

EntriesInit ==
  /\ entries = <<>> /\ saving = {} /\ refreshes = 0
  /\ sheet = [open |-> FALSE, editing |-> 0, draft |-> EmptyDraft]
  /\ aside = [open |-> FALSE, busy |-> FALSE, openings |-> 0]
  /\ meant = [draft |-> EmptyDraft, filled |-> FALSE]

-----------------------------------------------------------------------------
(* The sheet. *)

OpenSheet(i) ==
  /\ ~ sheet.open
  /\ sheet' = [open |-> TRUE, editing |-> i, draft |-> Filled(i)]
  /\ meant' = [draft |-> Filled(i), filled |-> FALSE]
  /\ UNCHANGED <<entries, aside, saving, refreshes>>

Close ==
  /\ sheet.open
  /\ sheet' = [sheet EXCEPT !.open = FALSE, !.editing = 0]
  /\ UNCHANGED <<entries, aside, saving, refreshes, meant>>

Enter ==
  /\ sheet.open
  /\ \E d \in Drafts :
       /\ d.cat # NoCat
       /\ sheet' = [sheet EXCEPT !.draft = d]
       /\ meant' = [draft |-> d, filled |-> FALSE]
  /\ UNCHANGED <<entries, aside, saving, refreshes>>

\* Variant: every render fills the draft anew.
RefillAlways ==
  /\ sheet.open
  /\ sheet' = [sheet EXCEPT !.draft = Filled(sheet.editing)]
  /\ UNCHANGED <<entries, aside, saving, refreshes, meant>>

\* hydrate: the lists are other objects, and the effect fills the draft of an open sheet anew.
Refill ==
  /\ sheet.open /\ refreshes < MaxRefreshes
  /\ refreshes' = refreshes + 1
  /\ sheet' = [sheet EXCEPT !.draft = Filled(sheet.editing)]
  /\ meant' = [meant EXCEPT !.filled = TRUE]
  /\ UNCHANGED <<entries, aside, saving>>

\* Variant: nothing has to be entered.
CanSaveZero(d) == d.income \/ d.cat # NoCat

CanSave(d) == d.amount > 0 /\ (d.income \/ d.cat # NoCat)

\* addTransaction: the sign of an entry that is not a transfer; onSave of the sheet for an edit.
Signed(d) == IF d.income THEN d.amount ELSE -d.amount

\* An income has no category.  An edit keeps the flag of a transfer.
RowOf(d, to) ==
  [amount |-> Signed(d), cat |-> IF d.income THEN NoCat ELSE d.cat, income |-> d.income,
   transfer |-> to # 0 /\ entries[to].transfer]

\* Room is left for the saves that are under way.
Room == Len(entries) + Cardinality({s \in saving : s.to = 0}) < MaxEntered

\* "as" says that the row is what the user meant; the id tells two taps apart.
Saving(kind, to, row, as) ==
  \E id \in 1..MaxEntered :
    /\ \A s \in saving : s.id # id
    /\ saving' = saving \cup {[kind |-> kind, to |-> to, row |-> row, as |-> as, id |-> id]}

\* submit: nothing disables the button.
Save ==
  LET d == sheet.draft IN
  /\ sheet.open /\ CanSave(d)
  /\ sheet.editing = 0 => Room
  /\ Saving("sheet", sheet.editing, RowOf(d, sheet.editing), meant.filled \/ d = meant.draft)
  /\ UNCHANGED <<entries, sheet, aside, refreshes, meant>>

\* addTransaction, editTransaction: disk and screen.
Written(s) ==
  IF s.to = 0 THEN Append(entries, s.row) ELSE [entries EXCEPT ![s.to] = s.row]

\* The write is done.  The sheet is closed, whichever it is by then.
Saved(s) ==
  /\ saving' = saving \ {s}
  /\ entries' = Written(s)
  /\ IF s.kind = "sheet"
     THEN /\ sheet' = [sheet EXCEPT !.open = FALSE, !.editing = 0]
          /\ UNCHANGED aside
     ELSE /\ aside' = [aside EXCEPT !.open = FALSE, !.busy = FALSE]
          /\ UNCHANGED sheet
  /\ UNCHANGED <<refreshes, meant>>

-----------------------------------------------------------------------------
(* Putting money aside. *)

OpenAside ==
  /\ ~ aside.open /\ aside.openings < MaxEntered
  /\ aside' = [open |-> TRUE, busy |-> FALSE, openings |-> aside.openings + 1]
  /\ UNCHANGED <<entries, sheet, saving, refreshes, meant>>

CloseAside ==
  /\ aside.open
  /\ aside' = [aside EXCEPT !.open = FALSE, !.busy = FALSE]
  /\ UNCHANGED <<entries, sheet, saving, refreshes, meant>>

AsideRow(n) == [amount |-> n, cat |-> First, income |-> FALSE, transfer |-> TRUE]

\* Variant: the button is not disabled.
PutAsideAgain(n) ==
  /\ aside.open /\ Room
  /\ Saving("aside", 0, AsideRow(n), TRUE)
  /\ UNCHANGED <<entries, sheet, aside, refreshes, meant>>

\* submit of this sheet, which is disabled while it saves.
PutAside(n) ==
  /\ aside.open /\ ~ aside.busy /\ Room
  /\ aside' = [aside EXCEPT !.busy = TRUE]
  /\ Saving("aside", 0, AsideRow(n), TRUE)
  /\ UNCHANGED <<entries, sheet, refreshes, meant>>

EntriesNext ==
  \/ \E i \in {0} \cup DOMAIN entries : OpenSheet(i)
  \/ Close \/ Enter \/ Refill \/ Save
  \/ \E s \in saving : Saved(s)
  \/ OpenAside \/ CloseAside
  \/ \E n \in 1..MaxAmount : PutAside(n)

EntriesSpec == EntriesInit /\ [][EntriesNext]_entryVars

-----------------------------------------------------------------------------
(* Properties. *)

\* What is saved is what the user entered, or was shown and left alone, unless a hydrate has
\* filled the draft anew meanwhile (AddSheet.tsx:63-79).
SavedAsMeant == \A s \in saving : s.as

\* An edit of an entry that is not a transfer, saved as it was shown, changes nothing that
\* the entry did not have already: not its sign, its category or its kind.
UntouchedEditKeeps ==
  sheet.open /\ sheet.editing # 0 =>
    LET e == entries[sheet.editing] IN
      ~ e.transfer /\ sheet.draft = DraftOf(e) => RowOf(sheet.draft, sheet.editing) = e

\* However often the buttons are tapped, and whatever is edited meanwhile, money is put aside
\* once at most for every time that sheet was opened.
PutAsideOnce ==
  Cardinality({i \in DOMAIN entries : entries[i].transfer})
    + Cardinality({s \in saving : s.kind = "aside"}) <= aside.openings

\* Entries are meant: what is saved was entered, what was left alone stays, and a tap that is
\* repeated does not move money twice.
EntriesAreMeant == SavedAsMeant /\ UntouchedEditKeeps /\ PutAsideOnce

\* Violated.  store.ts:228-235: "a TRANSFER keeps whatever sign it was given, because it runs
\* both ways: positive puts money into a pot, negative takes it back out".
TransferKeepsItsSign ==
  [][\A i \in DOMAIN entries : entries[i].transfer => entries'[i].amount > 0]_entries
=============================================================================
