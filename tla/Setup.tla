------------------------------- MODULE Setup -------------------------------
(***************************************************************************)
(* The questions a new account is asked (features/onboarding/), and what   *)
(* the app does with the answers (app/App.tsx, applyOnboarding): the       *)
(* settings at once, then one category after the other, each an await on   *)
(* the database.  Meanwhile the form stays up until a category shows, rows *)
(* of another device may arrive, and the page may be closed.               *)
(***************************************************************************)
EXTENDS Naturals, FiniteSets, Sequences

CONSTANTS
  Suggested, Bills,   \* the names offered: categories, fixed costs
  NoName,
  MaxTaps,            \* bound: taps on Finish
  MaxArrivals,        \* bound: categories that arrive from another device
  MaxOpens            \* bound: times the page is opened

ASSUME SetupAssumption ==
  /\ Suggested \cap Bills = {} /\ NoName \notin Suggested \cup Bills
  /\ MaxTaps \in Nat /\ MaxArrivals \in Nat /\ MaxOpens \in Nat \ {0}

VARIABLES
  form,       \* the answers so far
  taps,       \* one record for every Finish: the rows to write, the row being written
  stored,     \* the categories in the database
  shown,      \* the categories on the screen
  reads,      \* what a hydrate under way has read
  onboarded,  \* the flag of the page, and that of the local storage
  opens,      \* the times the page was opened
  raced       \* history: a row was shown between a hydrate's read and its end

setupVars == <<form, taps, stored, shown, reads, onboarded, opens, raced>>

Names == Suggested \cup Bills

\* A category: its name and the tap, or the other device, that it comes from.
Categories == [name : Names \cup {NoName}, from : 0 .. (MaxTaps + MaxArrivals)]

EmptyForm == [step |-> 0, chosen |-> Suggested, bills |-> {}]

\* Types: the answers, the rows still to write, what is stored and shown.
SetupTypeOK ==
  /\ form \in [step : 0..7, chosen : SUBSET Suggested, bills : SUBSET Bills]
  /\ \A i \in DOMAIN taps : /\ taps[i].todo \subseteq Names
                            /\ taps[i].asked \subseteq Names
                            /\ taps[i].writing \in Names \cup {NoName}
  /\ stored \subseteq Categories /\ shown \subseteq Categories
  /\ reads \in SUBSET (SUBSET Categories) /\ Cardinality(reads) <= 1
  /\ onboarded \in [page : BOOLEAN, device : BOOLEAN]
  /\ opens \in 1..MaxOpens /\ raced \in BOOLEAN

SetupInit ==
  /\ form = EmptyForm /\ taps = <<>>
  /\ stored = {} /\ shown = {} /\ reads = {}
  /\ onboarded = [page |-> FALSE, device |-> FALSE]
  /\ opens = 1 /\ raced = FALSE

-----------------------------------------------------------------------------
(* The form. *)

\* Variant: the steps go on after the last.
ForwardPast ==
  /\ ~ onboarded.page
  /\ form.step = 5 => form.chosen # {}
  /\ form' = [form EXCEPT !.step = @ + 1]
  /\ UNCHANGED <<taps, stored, shown, reads, onboarded, opens, raced>>

\* Continue, Enter and "Skip this step" alike.
Forward ==
  /\ ~ onboarded.page /\ form.step < 7
  /\ form.step = 5 => form.chosen # {}
  /\ form' = [form EXCEPT !.step = @ + 1]
  /\ UNCHANGED <<taps, stored, shown, reads, onboarded, opens, raced>>

Back ==
  /\ ~ onboarded.page /\ form.step > 0
  /\ form' = [form EXCEPT !.step = @ - 1]
  /\ UNCHANGED <<taps, stored, shown, reads, onboarded, opens, raced>>

Toggled(set, name) == IF name \in set THEN set \ {name} ELSE set \cup {name}

\* (The name, the pay cycle and the figures are abstracted.)
Answer ==
  /\ ~ onboarded.page
  /\ form' \in
       CASE form.step = 5 -> {[form EXCEPT !.chosen = Toggled(@, n)] : n \in Suggested}
         [] form.step = 7 -> {[form EXCEPT !.bills = Toggled(@, n)] : n \in Bills}
         [] OTHER -> {}
  /\ UNCHANGED <<taps, stored, shown, reads, onboarded, opens, raced>>

\* The form is taken down, with what was typed.
LeaveForm ==
  /\ onboarded' = [page |-> TRUE, device |-> TRUE]
  /\ form' = EmptyForm

\* "Skip setup".
SkipSetup ==
  /\ ~ onboarded.page
  /\ LeaveForm
  /\ UNCHANGED <<taps, stored, shown, reads, opens, raced>>

-----------------------------------------------------------------------------
(* The answers. *)

\* Variant: the bills are not among what is written.
FinishWithoutBills ==
  /\ ~ onboarded.page /\ form.step = 7 /\ Len(taps) < MaxTaps
  /\ \E n \in form.chosen :
       taps' = Append(taps, [todo |-> form.chosen \ {n}, asked |-> form.chosen \cup form.bills,
                             writing |-> n])
  /\ UNCHANGED <<form, stored, shown, reads, onboarded, opens, raced>>

\* applyOnboarding until its first await.  The button stays enabled.  (The order in which the
\* categories were picked is abstracted; the bills come after them.)
Finish ==
  /\ ~ onboarded.page /\ form.step = 7 /\ Len(taps) < MaxTaps
  /\ \E n \in form.chosen :
       taps' = Append(taps, [todo |-> (form.chosen \cup form.bills) \ {n},
                             asked |-> form.chosen \cup form.bills, writing |-> n])
  /\ UNCHANGED <<form, stored, shown, reads, onboarded, opens, raced>>

\* The put is done.
Stored(i) ==
  /\ taps[i].writing # NoName
  /\ stored' = stored \cup {[name |-> taps[i].writing, from |-> i]}
  /\ stored' # stored
  /\ UNCHANGED <<form, taps, shown, reads, onboarded, opens, raced>>

\* Variant: the screen does not wait for the database.
ShownFirst(i) ==
  /\ taps[i].writing # NoName
  /\ shown' = shown \cup {[name |-> taps[i].writing, from |-> i]}
  /\ taps' = [taps EXCEPT ![i].writing = NoName]
  /\ UNCHANGED <<form, stored, reads, onboarded, opens, raced>>

\* upsertCategory goes on: the screen shows the row, and the next one is written; after the
\* last, setup is done.
Shown(i) ==
  LET row == [name |-> taps[i].writing, from |-> i]
      left == taps[i].todo
      first == IF left \cap Suggested # {} THEN left \cap Suggested ELSE left
  IN /\ row \in stored
     /\ shown' = shown \cup {row}
     /\ raced' = (raced \/ \E read \in reads : row \notin read)
     /\ IF left = {}
        THEN /\ taps' = [taps EXCEPT ![i].writing = NoName]
             /\ LeaveForm
        ELSE /\ \E n \in first :
                  taps' = [taps EXCEPT ![i].todo = @ \ {n}, ![i].writing = n]
             /\ UNCHANGED <<form, onboarded>>
     /\ UNCHANGED <<stored, reads, opens>>

-----------------------------------------------------------------------------
(* The rest of the page. *)

\* The effect: an account with a category has been set up.
MarkSetUp ==
  /\ ~ onboarded.page /\ shown # {}
  /\ LeaveForm
  /\ UNCHANGED <<taps, stored, shown, reads, opens, raced>>

Arrived == {c \in stored : c.from > MaxTaps}

\* Variant: nothing is read again when rows arrive.
ArriveUnread ==
  /\ Cardinality(Arrived) < MaxArrivals
  /\ stored' = stored \cup {[name |-> NoName, from |-> MaxTaps + Cardinality(Arrived) + 1]}
  /\ UNCHANGED <<form, taps, shown, reads, onboarded, opens, raced>>

\* A page of rows is written by the engine, which then has the screen read everything again.
Arrive ==
  /\ Cardinality(Arrived) < MaxArrivals /\ reads = {}
  /\ stored' = stored \cup {[name |-> NoName, from |-> MaxTaps + Cardinality(Arrived) + 1]}
  /\ reads' = {stored'}
  /\ UNCHANGED <<form, taps, shown, onboarded, opens, raced>>

\* hydrate: what was read replaces what is shown.
SetupHydrated ==
  /\ reads # {}
  /\ shown' \in reads
  /\ reads' = {}
  /\ UNCHANGED <<form, taps, stored, onboarded, opens, raced>>

\* The page is closed, whatever is under way, and opened again: rows not written never are.
Reopen ==
  /\ opens < MaxOpens
  /\ opens' = opens + 1
  /\ form' = EmptyForm
  /\ taps' = [i \in DOMAIN taps |-> [taps[i] EXCEPT !.todo = (@ \cup {taps[i].writing}) \ {NoName},
                                                    !.writing = NoName]]
  /\ shown' = stored /\ reads' = {} /\ raced' = FALSE
  /\ onboarded' = [onboarded EXCEPT !.page = onboarded.device]
  /\ UNCHANGED <<stored>>

SetupNext ==
  \/ Forward \/ Back \/ Answer \/ SkipSetup \/ Finish
  \/ \E i \in DOMAIN taps : Stored(i) \/ Shown(i)
  \/ MarkSetUp \/ Arrive \/ SetupHydrated \/ Reopen

SetupSpec == SetupInit /\ [][SetupNext]_setupVars

-----------------------------------------------------------------------------
(* Properties. *)

\* What the screen shows is in the database, whatever is under way (store.ts: disk, screen,
\* network, in that order).
ShownIsStored == shown \subseteq stored

\* The screen is told of every row in the end, unless a hydrate under way has dropped one.
ScreenCatchesUp ==
  reads = {} /\ ~ raced =>
    \A c \in stored \ shown : c.from \in DOMAIN taps /\ taps[c.from].writing = c.name

\* A set-up that came to its end has written everything that was asked for, whatever arrived
\* or was tapped meanwhile, and is not offered again.
SetupIsWhole ==
  \A i \in DOMAIN taps : taps[i].todo = {} /\ taps[i].writing = NoName =>
    /\ \A n \in taps[i].asked : [name |-> n, from |-> i] \in stored
    /\ onboarded.page /\ onboarded.device
=============================================================================
