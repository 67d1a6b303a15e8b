------------------------------ MODULE Paydays ------------------------------
(***************************************************************************)
(* The wages a device records by itself (app/App.tsx, the payday effect).  *)
(*                                                                         *)
(* The effect runs whenever the number of transactions in memory has       *)
(* changed.  It computes the paydays without an income and adds a wage for *)
(* each, one after the other, every one of them an await; and a wage that  *)
(* is added changes the number of transactions.                            *)
(***************************************************************************)
EXTENDS Naturals, FiniteSets

CONSTANTS
  NrPaydays,    \* paydays since the balance was measured
  MaxOthers     \* bound: incomes typed or pulled, which the effect does not record

ASSUME PaydaysAssumption == NrPaydays \in Nat \ {0} /\ MaxOthers \in Nat

VARIABLES
  known,    \* the incomes in memory
  length,   \* the number of transactions the effect last ran for
  loops,    \* the runs of the effect that are not at their end
  others    \* history: the incomes typed or pulled since the app was opened

paydayVars == <<known, length, loops, others>>

Cycles == 1..NrPaydays

\* An income: the cycle it is dated in, and who recorded it: the effect that ran for nr
\* transactions, or the user and the server, the nr-th time.
Incomes == [cycle : Cycles, by : {"effect", "other"}, nr : Nat]

\* A run of the effect: the number of transactions it ran for, the paydays it has still to
\* credit, the row being written.
Loops == [length : Nat, todo : SUBSET Cycles, writing : SUBSET Incomes]

\* Types; a row is written once, and a run of the effect with nothing left to do is over.
PaydaysTypeOK ==
  /\ known \subseteq Incomes /\ length \in Nat /\ others \in 0..MaxOthers
  /\ loops \subseteq Loops
  /\ \A l \in loops : (l.todo # {} \/ l.writing # {}) /\ l.writing \cap known = {}

\* Variant: only the paydays after the last income count as missing.
MissingAfterLast == {c \in Cycles : \A i \in known : i.cycle < c}

\* missingPaydays: the cycles in which no income is recorded.
Missing == {c \in Cycles : \A i \in known : i.cycle # c}

\* The effect of a render, when a payday is missing.
Runs ==
  IF Missing = {} THEN {}
  ELSE {[length |-> Cardinality(known), todo |-> Missing, writing |-> {}]}

\* The app is opened after some paydays, some of them recorded.
PaydaysInit ==
  /\ \E paid \in SUBSET Cycles :
       known = {[cycle |-> c, by |-> "other", nr |-> 0] : c \in paid}
  /\ length = Cardinality(known) /\ others = 0
  /\ loops = Runs

\* The effect, after a render with another number of transactions.
RunEffect ==
  /\ length # Cardinality(known)
  /\ length' = Cardinality(known)
  /\ loops' = loops \cup Runs
  /\ UNCHANGED <<known, others>>

\* Variant: the latest payday of the list.
LatestOf(todo) == {c \in todo : \A d \in todo : d <= c}

\* The payday a run credits next: the list is in the order of the paydays.
NextOf(todo) == {c \in todo : \A d \in todo : c <= d}

\* addTransaction: the row is on its way to the disk.
BeginCredit(l) ==
  /\ l.writing = {}
  /\ \E c \in NextOf(l.todo) :
       LET wage == [cycle |-> c, by |-> "effect", nr |-> l.length]
       IN  loops' = (loops \ {l}) \cup {[l EXCEPT !.todo = @ \ {c}, !.writing = {wage}]}
  /\ UNCHANGED <<known, length, others>>

\* Variant: a loop does not see that it is at its end.
EndCreditOnly(l) ==
  /\ l.writing # {}
  /\ known' = known \cup l.writing
  /\ loops' = (loops \ {l}) \cup {[l EXCEPT !.writing = {}]}
  /\ UNCHANGED <<length, others>>

\* It is written: the screen shows it, and the loop goes on.
EndCredit(l) ==
  /\ l.writing # {}
  /\ known' = known \cup l.writing
  /\ loops' = (loops \ {l}) \cup {m \in {[l EXCEPT !.writing = {}]} : m.todo # {}}
  /\ UNCHANGED <<length, others>>

\* The user types an income in, or one is pulled.
OtherIncome(c) ==
  /\ others < MaxOthers
  /\ others' = others + 1
  /\ known' = known \cup {[cycle |-> c, by |-> "other", nr |-> others']}
  /\ UNCHANGED <<length, loops>>

PaydaysNext ==
  \/ RunEffect
  \/ \E c \in Cycles : OtherIncome(c)
  \/ \E l \in loops : BeginCredit(l) \/ EndCredit(l)

PaydaysSpec == PaydaysInit /\ [][PaydaysNext]_paydayVars

-----------------------------------------------------------------------------
(* Properties. *)

\* When nothing is under way, every payday has its income, whatever was typed or pulled
\* meanwhile (payday.ts:4-14).
EveryPaydayIsPaid ==
  loops = {} => \A c \in Cycles : \E i \in known : i.cycle = c

\* The overlapping runs record a wage for the c-th payday 2^(c-1) times at most when no
\* other income comes between them: the first, which is all that most users miss, once.
DoublingIsBounded ==
  others = 0 => \A c \in Cycles : Cardinality({i \in known : i.cycle = c}) <= 2 ^ (c - 1)

\* However the runs of the effect overlap, no payday is left out and the repetition is bounded.
PaydaysArePaid == EveryPaydayIsPaid /\ DoublingIsBounded

\* Violated.  App.tsx:436-437: "a cycle with any income logged in it is skipped, so this
\* cannot double-pay".
WagePaidOnce == others = 0 => \A i, j \in known : i.cycle = j.cycle => i = j
=============================================================================
