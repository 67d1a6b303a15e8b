---------------------------- MODULE ServerProofs ----------------------------
(***************************************************************************)
(* The server's smaller components and what all of them keep together:     *)
(* pushes as database transactions, for any number of requests, keys, days *)
(* and changes; the identities table, for any number of people, providers, *)
(* addresses and requests; one-time codes, for any number of requests,     *)
(* limits and attempts; and the composed server.                           *)
(***************************************************************************)
EXTENDS MCServer, SessionsProofs, FiniteSetTheorems, TLAPS

-----------------------------------------------------------------------------
(***************************************************************************)
(* Pushes.  The newest write of a last-write-wins row stays, and requests  *)
(* served one at a time lose nothing and count every change.               *)
(*                                                                         *)
(* Every statement but COMMIT changes its own transaction alone, so the    *)
(* invariant is a condition on one transaction over the committed tables,  *)
(* with the little that relates two of them.                               *)
(***************************************************************************)
Phases       == {"new", "dedupe", "read", "update", "insert", "upsert", "save", "commit",
                 "done", "aborted"}
Records      == [day : Days \cup {"none"}, amount : Nat, stamp : Nat, deleted : BOOLEAN,
                 version : Nat]
Answers      == [result : {"none", "accepted", "conflict"}, version : Nat]
Transactions == [pc : Phases, key : PushKeys \cup {"none"}, change : Records, stamp : Nat,
                 row : Records, from : Days \cup {"none"}, held : {"none", "update", "insert"},
                 heldStamp : Nat, answer : Answers, replayed : BOOLEAN]
Stamps       == {change.stamp : change \in Changes}

Applieds == {p \in Pushes : Applied(p)}

\* A transaction is about to write its row, or has written it.
Carries(t) == t.pc \in {"update", "insert"} \/ t.held # "none"
Running(t) == t.pc \notin {"new", "done", "aborted"}

\* What each point of the handler has in hand.
Typed(t) ==
  /\ t \in Transactions
  /\ t.pc = "new" => t = Fresh
  /\ t.pc # "new" => t.key \in PushKeys /\ t.change.day \in Days /\ t.stamp \in Stamps
  /\ t.pc \in {"dedupe", "read", "update", "insert"} => t.held = "none"
  /\ t.pc \in {"dedupe", "read", "update", "insert", "upsert"} => t.heldStamp = 0
  /\ t.replayed => /\ t.pc \in {"commit", "done", "aborted"}
                   /\ t.held = "none" /\ t.heldStamp = 0
  /\ Carries(t) => t.row.day \in Days /\ t.row.version # 0
  /\ t.held = "update" => t.from \in Days
  /\ t.pc \in {"update", "insert", "upsert", "save", "commit", "done"} => t.answer # NoAnswer
  /\ t.heldStamp \in {0, t.stamp}

Committed ==
  /\ table \in [Days -> Records]
  /\ \A d \in Days : Stored(d) => table[d].day = d /\ table[d].version # 0
  /\ latest \in {0} \cup Stamps
  /\ opsTable \in [PushKeys -> Answers]
  /\ overlapped \in BOOLEAN

\* Every version took a push of its own.
InTurn(t) == Running(t) /\ Carries(t) => t.row.version <= Cardinality(Applieds) + 1
Versioned   == \A d \in Days : Stored(d) => table[d].version <= Cardinality(Applieds)

\* The stamp of a transaction is on record, or it holds the row and will put it there.
Stamped(t) ==
  /\ t.pc \in {"save", "commit"} /\ ~ t.replayed =>
       IF t.heldStamp = 0 THEN t.stamp <= latest ELSE latest < t.heldStamp
  /\ t.pc = "done" /\ ~ t.replayed => t.stamp <= latest
Exclusive ==
  \A p, q \in Pushes :
    Open(p) /\ Open(q) /\ tx[p].heldStamp # 0 /\ tx[q].heldStamp # 0 => p = q

PushInv ==
  /\ tx \in [Pushes -> Transactions] /\ Committed
  /\ Versioned /\ Exclusive
  /\ \A p \in Pushes : Typed(tx[p]) /\ InTurn(tx[p]) /\ Stamped(tx[p])

\* A statement that writes its own transaction and nothing else.
Private(p) ==
  /\ tx' \in [Pushes -> Transactions]
  /\ \A q \in Pushes \ {p} : tx'[q] = tx[q]
  /\ UNCHANGED <<table, latest, opsTable>>

\* The pushes are finitely many, and so are those that were applied.
LEMMA AppliedsAreFinite ==
  /\ IsFiniteSet(Applieds)
  /\ Cardinality(Applieds) \in Nat
  /\ Cardinality(Applieds) <= Cardinality(Pushes) /\ Cardinality(Pushes) \in Nat
<1>1. Applieds \in SUBSET Pushes /\ IsFiniteSet(Pushes)
  BY PushTxAssumption DEF Applieds
<1>2. IsFiniteSet(Applieds) /\ Cardinality(Applieds) <= Cardinality(Pushes)
  BY <1>1, FS_Subset
<1> QED
  BY <1>1, <1>2, FS_CardinalityType

\* Changes carry natural numbers.
LEMMA ChangesAreRecords ==
  /\ \A change \in Changes : /\ change.day \in Days /\ change.amount \in Nat
                             /\ change.stamp \in Nat /\ change.deleted \in BOOLEAN
                             /\ change.stamp \in Stamps
  /\ Stamps \subseteq Nat
  BY PushTxAssumption DEF Stamps

\* What every transaction starts from.
LEMMA FreshIsTyped ==
  /\ NoRow \in Records /\ NoRow.version = 0 /\ NoAnswer \in Answers /\ NoAnswer.result = "none"
  /\ Fresh \in Transactions
  /\ Fresh.pc = "new" /\ Fresh.held = "none" /\ Fresh.heldStamp = 0 /\ ~ Fresh.replayed
  BY DEF NoRow, Records, NoAnswer, Answers, Fresh, Transactions, Phases

\* The invariant holds of the empty tables.
LEMMA PushAtFirst == PushTxInit => PushInv
<1> SUFFICES ASSUME PushTxInit PROVE PushInv
  OBVIOUS
<1>1. \A p \in Pushes : tx[p] = Fresh
  BY DEF PushTxInit
<1>2. tx \in [Pushes -> Transactions] /\ Committed
  BY FreshIsTyped DEF PushTxInit, Committed, Stored
<1>3. Versioned /\ Exclusive
  BY <1>1, FreshIsTyped DEF PushTxInit, Versioned, Exclusive, Stored, Open
<1>4. Typed(Fresh) /\ InTurn(Fresh) /\ Stamped(Fresh)
  BY FreshIsTyped DEF Typed, InTurn, Stamped, Carries, Running
<1> QED
  BY <1>1, <1>2, <1>3, <1>4 DEF PushInv

\* A statement of one transaction keeps the invariant when that transaction fits the
\* committed tables, and takes the last-write-wins row only while no other has it.
LEMMA PrivateKeeps ==
  ASSUME PushInv, NEW p \in Pushes, Private(p), overlapped' \in BOOLEAN, tx[p].pc # "done",
         Typed(tx'[p]), tx'[p].pc # "done",
         InTurn(tx'[p]), Stamped(tx'[p]),
         \/ tx'[p].heldStamp \in {0, tx[p].heldStamp} /\ (Open(p)' => Open(p) \/ tx'[p].heldStamp = 0)
         \/ \A q \in Others(p) : tx[q].heldStamp = 0
  PROVE  PushInv'
<1>1. Applieds' = Applieds
  BY DEF Applieds, Applied, Private
<1>2. Committed' /\ Versioned'
  BY <1>1 DEF PushInv, Committed, Versioned, Private, Stored
<1>3. Exclusive'
  BY DEF PushInv, Exclusive, Private, Open, Others
<1>4. \A q \in Pushes : Typed(tx[q])' /\ InTurn(tx[q])' /\ Stamped(tx[q])'
  BY <1>1 DEF PushInv, Private, Typed, InTurn, Stamped, Carries, Running
<1> QED
  BY <1>2, <1>3, <1>4 DEF PushInv, Private

\* What a transaction that moves to another phase is then.
LEMMA GoesOn ==
  ASSUME PushInv, NEW p \in Pushes, NEW t \in Transactions, Do(p, t),
         UNCHANGED <<table, latest, opsTable>>
  PROVE  Private(p) /\ tx'[p] = t
  BY DEF PushInv, Do, Private

\* A request arrives.
LEMMA BeginStep ==
  ASSUME PushInv, NEW p \in Pushes, NEW key \in PushKeys, NEW change \in Changes,
         NEW v \in Nat, Begin(p, key, change, v)
  PROVE  /\ PushInv' /\ Private(p) /\ Open(p)' /\ ~ Open(p)
         /\ tx'[p].pc = "dedupe" /\ tx'[p].key = key /\ tx'[p].change.version = v
         /\ tx'[p].held = "none" /\ ~ tx'[p].replayed
<1> DEFINE c == [day |-> change.day, amount |-> change.amount, stamp |-> change.stamp,
                 deleted |-> change.deleted, version |-> v]
           t == [tx[p] EXCEPT !.pc = "dedupe", !.key = key, !.stamp = change.stamp, !.change = c]
<1>1. /\ tx[p].pc = "new" /\ Do(p, t) /\ UNCHANGED <<table, latest, opsTable>>
      /\ overlapped' = (overlapped \/ Others(p) # {})
  BY DEF Begin
<1>2. c \in Records /\ c.version = v /\ c.day \in Days
  BY ChangesAreRecords DEF Records
<1>3. tx[p] = Fresh
  BY <1>1 DEF PushInv, Typed
<1>4. change.stamp \in Nat /\ change.stamp \in Stamps
  BY ChangesAreRecords
<1> HIDE DEF c
<1>5. /\ t.pc = "dedupe" /\ t.key = key /\ t.stamp = change.stamp /\ t.change = c
      /\ t.held = "none" /\ t.heldStamp = 0 /\ ~ t.replayed
      /\ t \in Transactions
  BY <1>2, <1>3, <1>4, FreshIsTyped DEF Transactions, Phases
<1> HIDE DEF t
<1>6. Private(p) /\ tx'[p] = t
  BY <1>1, <1>5, GoesOn
<1>7. Typed(t) /\ InTurn(t) /\ Stamped(t)
  BY <1>2, <1>4, <1>5 DEF Typed, InTurn, Stamped, Carries
<1>8. overlapped' \in BOOLEAN
  BY <1>1 DEF PushInv, Committed
<1>9. PushInv'
  BY <1>1, <1>5, <1>6, <1>7, <1>8, PrivateKeeps
<1> QED
  BY <1>1, <1>2, <1>5, <1>6, <1>9 DEF Open

\* The key is looked up.
LEMMA FindKeyStep ==
  ASSUME PushInv, NEW p \in Pushes, FindIdempotent(p)
  PROVE  /\ PushInv' /\ Private(p) /\ Open(p) /\ Open(p)'
         /\ tx'[p].key = tx[p].key /\ tx'[p].change = tx[p].change /\ tx'[p].held = "none"
         /\ \/ /\ tx'[p].pc = "read" /\ ~ tx'[p].replayed /\ opsTable[tx[p].key] = NoAnswer
            \/ /\ tx'[p].pc = "commit" /\ tx'[p].replayed
               /\ tx'[p].answer = opsTable[tx[p].key] /\ tx'[p].answer # NoAnswer
<1> DEFINE a == opsTable[tx[p].key]
           t1 == [tx[p] EXCEPT !.pc = "commit", !.answer = a, !.replayed = TRUE]
           t2 == [tx[p] EXCEPT !.pc = "read"]
<1>1. /\ tx[p].pc = "dedupe" /\ UNCHANGED <<table, latest, opsTable, overlapped>>
      /\ Do(p, IF a # NoAnswer THEN t1 ELSE t2)
  BY DEF FindIdempotent
<1>2. /\ Typed(tx[p]) /\ tx[p] \in Transactions /\ tx[p].key \in PushKeys /\ a \in Answers
      /\ tx[p].held = "none" /\ tx[p].heldStamp = 0 /\ ~ tx[p].replayed
      /\ Stamped(tx[p]) /\ overlapped' \in BOOLEAN
  BY <1>1 DEF PushInv, Typed, Committed
<1> HIDE DEF a
<1>3. /\ t1.pc = "commit" /\ t1.answer = a /\ t1.replayed /\ t1.key = tx[p].key
      /\ t1.change = tx[p].change /\ t1.held = "none" /\ t1.heldStamp = 0
      /\ t1.stamp = tx[p].stamp /\ t1 \in Transactions
  BY <1>2 DEF Transactions, Phases
<1>4. /\ t2.pc = "read" /\ ~ t2.replayed /\ t2.key = tx[p].key
      /\ t2.change = tx[p].change /\ t2.held = "none" /\ t2.heldStamp = 0
      /\ t2.stamp = tx[p].stamp /\ t2 \in Transactions
  BY <1>2 DEF Transactions, Phases
<1> HIDE DEF t1, t2
<1>5. CASE a # NoAnswer
  <2>1. Private(p) /\ tx'[p] = t1
    BY <1>1, <1>3, <1>5, GoesOn
  <2>2. Typed(t1) /\ InTurn(t1) /\ Stamped(t1)
    BY <1>1, <1>2, <1>3, <1>5 DEF Typed, InTurn, Stamped, Carries
  <2>3. PushInv'
    BY <1>1, <1>2, <1>3, <2>1, <2>2, PrivateKeeps
  <2> QED
    BY <1>1, <1>3, <1>5, <2>1, <2>3 DEF Open, a
<1>6. CASE a = NoAnswer
  <2>1. Private(p) /\ tx'[p] = t2
    BY <1>1, <1>4, <1>6, GoesOn
  <2>2. Typed(t2) /\ InTurn(t2) /\ Stamped(t2)
    BY <1>1, <1>2, <1>4, <1>6 DEF Typed, InTurn, Stamped, Carries
  <2>3. PushInv'
    BY <1>1, <1>2, <1>4, <2>1, <2>2, PrivateKeeps
  <2> QED
    BY <1>1, <1>4, <1>6, <2>1, <2>3 DEF Open, a
<1> QED
  BY <1>5, <1>6

\* What is written when a change wins over a row, or loses to it.
LEMMA MergedIsARecord ==
  ASSUME NEW change \in Records, NEW row \in Records
  PROVE  /\ Merged(change, row) \in Records
         /\ Merged(change, row).version = row.version + 1
         /\ Merged(change, row).day \in {change.day, row.day}
  BY DEF Merged, Records

\* The row is read, and a new one decided or the change refused.
LEMMA ReadStep ==
  ASSUME PushInv, NEW p \in Pushes, GetTransaction(p)
  PROVE  /\ PushInv' /\ Private(p) /\ Open(p) /\ Open(p)'
         /\ tx[p].pc = "read" /\ tx'[p].key = tx[p].key /\ tx'[p].change = tx[p].change
         /\ tx'[p].held = "none" /\ ~ tx'[p].replayed
         /\ \/ /\ tx'[p].pc = "update" /\ tx'[p].row.version = 1
               /\ \A d \in Days : ~ Stored(d)
            \/ \E d \in Days : /\ Stored(d) /\ ~ Refused(tx[p].change, table[d])
                               /\ tx'[p].pc = "update"
                               /\ tx'[p].row.version = table[d].version + 1
            \/ tx'[p].pc = "upsert"
<1> DEFINE row1 == [tx[p].change EXCEPT !.version = 1]
           ans1 == [result |-> "accepted", version |-> 1]
           t1 == [tx[p] EXCEPT !.pc = "update", !.row = row1, !.answer = ans1]
           ans2(d) == [result |-> "conflict", version |-> table[d].version]
           t2(d) == [tx[p] EXCEPT !.pc = "upsert", !.answer = ans2(d)]
           row3(d) == Merged(tx[p].change, table[d])
           ans3(d) == [result |-> "accepted", version |-> table[d].version + 1]
           t3(d) == [tx[p] EXCEPT !.pc = "update", !.row = row3(d), !.answer = ans3(d)]
<1>1. /\ tx[p].pc = "read" /\ UNCHANGED <<table, latest, opsTable, overlapped>>
      /\ \/ (\A d \in Days : ~ Stored(d)) /\ Do(p, t1)
         \/ \E d \in Days : /\ Stored(d)
                            /\ \/ Refused(tx[p].change, table[d]) /\ Do(p, t2(d))
                               \/ ~ Refused(tx[p].change, table[d]) /\ Do(p, t3(d))
  BY DEF GetTransaction
<1>2. /\ Typed(tx[p]) /\ tx[p] \in Transactions
      /\ tx[p].held = "none" /\ tx[p].heldStamp = 0 /\ ~ tx[p].replayed
      /\ tx[p].change \in Records /\ tx[p].change.day \in Days
      /\ tx[p].key \in PushKeys /\ tx[p].stamp \in Stamps
      /\ overlapped' \in BOOLEAN /\ Open(p)
  BY <1>1 DEF PushInv, Typed, Committed, Transactions, Open
<1>3. Cardinality(Applieds) \in Nat
  BY AppliedsAreFinite
\* Any transaction that goes on from here with a row that fits, or with none.
<1>4. ASSUME NEW t \in Transactions, Do(p, t), t.pc \in {"update", "upsert"},
             t.key = tx[p].key, t.change = tx[p].change, t.stamp = tx[p].stamp,
             t.held = "none", t.heldStamp = 0, ~ t.replayed, t.answer # NoAnswer,
             t.pc = "update" => /\ t.row.day \in Days /\ t.row.version # 0
                                /\ t.row.version <= Cardinality(Applieds) + 1
      PROVE  /\ PushInv' /\ Private(p) /\ Open(p) /\ Open(p)' /\ tx'[p] = t
  <2>1. Private(p) /\ tx'[p] = t
    BY <1>1, <1>4, GoesOn
  <2>2. Typed(t) /\ InTurn(t) /\ Stamped(t)
    BY <1>1, <1>2, <1>4 DEF Typed, InTurn, Stamped, Carries
  <2>3. PushInv'
    BY <1>1, <1>2, <1>4, <2>1, <2>2, PrivateKeeps
  <2> QED
    BY <1>2, <1>4, <2>1, <2>3 DEF Open
<1>5. CASE (\A d \in Days : ~ Stored(d)) /\ Do(p, t1)
  <2>1. row1 \in Records /\ row1.version = 1 /\ row1.day = tx[p].change.day
    BY <1>2 DEF Records
  <2>2. ans1 \in Answers /\ ans1 # NoAnswer
    BY DEF Answers, NoAnswer
  <2> HIDE DEF row1, ans1
  <2>3. /\ t1 \in Transactions /\ t1.pc = "update" /\ t1.row = row1 /\ t1.answer = ans1
        /\ t1.key = tx[p].key /\ t1.change = tx[p].change /\ t1.stamp = tx[p].stamp
        /\ t1.held = "none" /\ t1.heldStamp = 0 /\ ~ t1.replayed
    BY <1>2, <2>1, <2>2 DEF Transactions, Phases
  <2> HIDE DEF t1
  <2>4. row1.day \in Days /\ row1.version # 0 /\ row1.version <= Cardinality(Applieds) + 1
    BY <1>2, <1>3, <2>1
  <2>5. PushInv' /\ Private(p) /\ Open(p) /\ Open(p)' /\ tx'[p] = t1
    BY <1>4, <1>5, <2>2, <2>3, <2>4
  <2> QED
    BY <1>1, <1>5, <2>1, <2>3, <2>5
<1>6. ASSUME NEW d \in Days, Stored(d)
      PROVE  /\ table[d] \in Records /\ table[d].version \in Nat /\ table[d].version # 0
             /\ table[d].day \in Days /\ table[d].version <= Cardinality(Applieds)
  BY <1>6 DEF PushInv, Committed, Versioned, Records
<1>7. ASSUME NEW d \in Days, Stored(d), Do(p, t2(d))
      PROVE  /\ PushInv' /\ Private(p) /\ Open(p)' /\ tx'[p].pc = "upsert"
             /\ tx'[p].key = tx[p].key /\ tx'[p].change = tx[p].change
             /\ tx'[p].held = "none" /\ ~ tx'[p].replayed
  <2>1. ans2(d) \in Answers /\ ans2(d) # NoAnswer
    BY <1>6, <1>7 DEF Answers, NoAnswer
  <2> HIDE DEF ans2
  <2>2. /\ t2(d) \in Transactions /\ t2(d).pc = "upsert" /\ t2(d).answer = ans2(d)
        /\ t2(d).key = tx[p].key /\ t2(d).change = tx[p].change /\ t2(d).stamp = tx[p].stamp
        /\ t2(d).held = "none" /\ t2(d).heldStamp = 0 /\ ~ t2(d).replayed
    BY <1>2, <2>1 DEF Transactions, Phases
  <2> HIDE DEF t2
  <2> QED
    BY <1>4, <1>7, <2>1, <2>2
<1>8. ASSUME NEW d \in Days, Stored(d), Do(p, t3(d))
      PROVE  /\ PushInv' /\ Private(p) /\ Open(p)' /\ tx'[p].pc = "update"
             /\ tx'[p].key = tx[p].key /\ tx'[p].change = tx[p].change
             /\ tx'[p].held = "none" /\ ~ tx'[p].replayed
             /\ tx'[p].row.version = table[d].version + 1
  <2>1. ans3(d) \in Answers /\ ans3(d) # NoAnswer
    BY <1>6, <1>8 DEF Answers, NoAnswer
  <2>2. /\ row3(d) \in Records /\ row3(d).version = table[d].version + 1
        /\ row3(d).day \in Days
    BY <1>2, <1>6, <1>8, MergedIsARecord
  <2> HIDE DEF ans3, row3
  <2>3. /\ t3(d) \in Transactions /\ t3(d).pc = "update" /\ t3(d).answer = ans3(d)
        /\ t3(d).row = row3(d)
        /\ t3(d).key = tx[p].key /\ t3(d).change = tx[p].change /\ t3(d).stamp = tx[p].stamp
        /\ t3(d).held = "none" /\ t3(d).heldStamp = 0 /\ ~ t3(d).replayed
    BY <1>2, <2>1, <2>2 DEF Transactions, Phases
  <2>4. row3(d).version # 0 /\ row3(d).version <= Cardinality(Applieds) + 1
    BY <1>3, <1>6, <1>8, <2>2
  <2> HIDE DEF t3
  <2> QED
    BY <1>4, <1>8, <2>1, <2>2, <2>3, <2>4
<1> QED
  BY <1>1, <1>2, <1>5, <1>7, <1>8

\* What a transaction keeps once its row is decided.
Same(t, u) ==
  /\ t.key = u.key /\ t.change = u.change /\ t.stamp = u.stamp /\ t.row = u.row
  /\ t.answer = u.answer /\ t.replayed = u.replayed

\* A transaction that ends without effect.
LEMMA EndsAborted ==
  ASSUME PushInv, NEW p \in Pushes, Open(p), Do(p, [tx[p] EXCEPT !.pc = "aborted"]),
         UNCHANGED <<table, latest, opsTable, overlapped>>
  PROVE  /\ PushInv' /\ Private(p) /\ ~ Open(p)' /\ tx'[p].pc = "aborted"
<1> DEFINE t == [tx[p] EXCEPT !.pc = "aborted"]
<1>1. /\ Typed(tx[p]) /\ tx[p] \in Transactions /\ overlapped' \in BOOLEAN
      /\ tx[p].pc \notin {"new", "done"}
  BY DEF PushInv, Typed, Committed, Open
<1>2. /\ t.pc = "aborted" /\ Same(t, tx[p]) /\ t.held = tx[p].held
      /\ t.from = tx[p].from /\ t.heldStamp = tx[p].heldStamp /\ t \in Transactions
  BY <1>1 DEF Transactions, Phases, Same
<1>3. Do(p, t)
  OBVIOUS
<1> HIDE DEF t
<1>4. Private(p) /\ tx'[p] = t
  BY <1>2, <1>3, GoesOn
<1>5. Typed(t) /\ InTurn(t) /\ Stamped(t)
  BY <1>1, <1>2 DEF Typed, InTurn, Stamped, Carries, Running, Same
<1>6. tx[p].pc # "done" /\ ~ Open(p)'
  BY <1>1, <1>2, <1>4 DEF Open
<1>7. PushInv'
  BY <1>1, <1>2, <1>4, <1>5, <1>6, PrivateKeeps
<1> QED
  BY <1>2, <1>4, <1>6, <1>7

\* The UPDATE: nothing to update, too many rows, or the one row of the record.
LEMMA UpdateStep ==
  ASSUME PushInv, NEW p \in Pushes, UpdateRow(p)
  PROVE  /\ PushInv' /\ Private(p) /\ Open(p) /\ tx[p].pc = "update"
         /\ \/ /\ tx'[p].pc = "insert" /\ Same(tx'[p], tx[p]) /\ tx'[p].held = "none"
               /\ \A d \in Days : ~ Stored(d)
            \/ tx'[p].pc = "aborted"
            \/ /\ tx'[p].pc = "upsert" /\ Same(tx'[p], tx[p]) /\ tx'[p].held = "update"
               /\ tx'[p].from \in Days /\ Stored(tx'[p].from)
<1> DEFINE t1 == [tx[p] EXCEPT !.pc = "insert"]
           t2(d) == [tx[p] EXCEPT !.pc = "upsert", !.held = "update", !.from = d]
<1>1. /\ tx[p].pc = "update" /\ UNCHANGED <<table, latest, opsTable, overlapped>>
      /\ \/ Matched(p) = {} /\ Do(p, t1)
         \/ Do(p, [tx[p] EXCEPT !.pc = "aborted"])
         \/ \E d \in Matched(p) : Do(p, t2(d))
  BY DEF UpdateRow
<1>2. /\ Typed(tx[p]) /\ InTurn(tx[p]) /\ Stamped(tx[p]) /\ tx[p] \in Transactions
      /\ overlapped' \in BOOLEAN /\ Open(p)
      /\ tx[p].held = "none" /\ tx[p].heldStamp = 0 /\ ~ tx[p].replayed
  BY <1>1 DEF PushInv, Typed, Committed, Open
<1>3. CASE Matched(p) = {} /\ Do(p, t1)
  <2>1. /\ t1.pc = "insert" /\ Same(t1, tx[p]) /\ t1.held = "none" /\ t1.heldStamp = 0
        /\ t1 \in Transactions
    BY <1>2 DEF Transactions, Phases, Same
  <2> HIDE DEF t1
  <2>2. Private(p) /\ tx'[p] = t1
    BY <1>1, <1>3, <2>1, GoesOn
  <2>3. Typed(t1) /\ InTurn(t1) /\ Stamped(t1)
    BY <1>1, <1>2, <2>1 DEF Typed, InTurn, Stamped, Carries, Running, Same
  <2>4. PushInv'
    BY <1>1, <1>2, <2>1, <2>2, <2>3, PrivateKeeps
  <2> QED
    BY <1>1, <1>2, <1>3, <2>1, <2>2, <2>4 DEF Matched
<1>4. CASE Do(p, [tx[p] EXCEPT !.pc = "aborted"])
  <2>1. PushInv' /\ Private(p) /\ tx'[p].pc = "aborted"
    BY <1>1, <1>2, <1>4, EndsAborted
  <2> QED
    BY <1>1, <1>2, <2>1
<1>5. ASSUME NEW d \in Matched(p), Do(p, t2(d))
      PROVE  /\ PushInv' /\ Private(p)
             /\ tx'[p].pc = "upsert" /\ Same(tx'[p], tx[p]) /\ tx'[p].held = "update"
             /\ tx'[p].from \in Days /\ Stored(tx'[p].from)
  <2>1. d \in Days /\ Stored(d)
    BY <1>5 DEF Matched
  <2>2. /\ t2(d).pc = "upsert" /\ Same(t2(d), tx[p]) /\ t2(d).held = "update"
        /\ t2(d).from = d /\ t2(d).heldStamp = 0 /\ t2(d) \in Transactions
    BY <1>2, <2>1 DEF Transactions, Phases, Same
  <2> HIDE DEF t2
  <2>3. Private(p) /\ tx'[p] = t2(d)
    BY <1>1, <1>5, <2>2, GoesOn
  <2>4. Typed(t2(d)) /\ InTurn(t2(d)) /\ Stamped(t2(d))
    BY <1>1, <1>2, <2>1, <2>2 DEF Typed, InTurn, Stamped, Carries, Running, Same
  <2>5. PushInv'
    BY <1>1, <1>2, <2>2, <2>3, <2>4, PrivateKeeps
  <2> QED
    BY <2>1, <2>2, <2>3, <2>5
<1> QED
  BY <1>1, <1>2, <1>3, <1>4, <1>5

\* The INSERT, which fails when its key is taken.
LEMMA InsertStep ==
  ASSUME PushInv, NEW p \in Pushes, InsertRow(p)
  PROVE  /\ PushInv' /\ Private(p) /\ Open(p) /\ tx[p].pc = "insert"
         /\ \/ tx'[p].pc = "aborted"
            \/ tx'[p].pc = "upsert" /\ Same(tx'[p], tx[p]) /\ tx'[p].held = "insert"
<1> DEFINE t == [tx[p] EXCEPT !.pc = "upsert", !.held = "insert"]
<1>1. /\ tx[p].pc = "insert" /\ UNCHANGED <<table, latest, opsTable, overlapped>>
      /\ Do(p, [tx[p] EXCEPT !.pc = "aborted"]) \/ Do(p, t)
  BY DEF InsertRow
<1>2. /\ Typed(tx[p]) /\ InTurn(tx[p]) /\ Stamped(tx[p]) /\ tx[p] \in Transactions
      /\ overlapped' \in BOOLEAN /\ Open(p)
      /\ tx[p].heldStamp = 0 /\ ~ tx[p].replayed
  BY <1>1 DEF PushInv, Typed, Committed, Open
<1>3. CASE Do(p, [tx[p] EXCEPT !.pc = "aborted"])
  <2>1. PushInv' /\ Private(p) /\ tx'[p].pc = "aborted"
    BY <1>1, <1>2, <1>3, EndsAborted
  <2> QED
    BY <1>1, <1>2, <2>1
<1>4. CASE Do(p, t)
  <2>1. /\ t.pc = "upsert" /\ Same(t, tx[p]) /\ t.held = "insert" /\ t.heldStamp = 0
        /\ t \in Transactions
    BY <1>2 DEF Transactions, Phases, Same
  <2> HIDE DEF t
  <2>2. Private(p) /\ tx'[p] = t
    BY <1>1, <1>4, <2>1, GoesOn
  <2>3. Typed(t) /\ InTurn(t) /\ Stamped(t)
    BY <1>1, <1>2, <2>1 DEF Typed, InTurn, Stamped, Carries, Running, Same
  <2>4. PushInv'
    BY <1>1, <1>2, <2>1, <2>2, <2>3, PrivateKeeps
  <2> QED
    BY <1>1, <1>2, <2>1, <2>2, <2>4
<1> QED
  BY <1>1, <1>3, <1>4

\* The upsert of the last-write-wins row: its condition is tested while no other
\* transaction has the row.
LEMMA UpsertStep ==
  ASSUME PushInv, NEW p \in Pushes, Upsert(p)
  PROVE  /\ PushInv' /\ Private(p) /\ Open(p) /\ tx[p].pc = "upsert" /\ tx'[p].pc = "save"
         /\ Same(tx'[p], tx[p]) /\ tx'[p].held = tx[p].held /\ tx'[p].from = tx[p].from
<1> DEFINE t == [tx[p] EXCEPT !.pc = "save", !.heldStamp = NewStamp(p)]
<1>1. /\ tx[p].pc = "upsert" /\ UNCHANGED <<table, latest, opsTable, overlapped>>
      /\ Do(p, t) /\ \A q \in Others(p) : tx[q].heldStamp = 0
  BY DEF Upsert, StampIsFree
<1>2. /\ Typed(tx[p]) /\ InTurn(tx[p]) /\ Stamped(tx[p]) /\ tx[p] \in Transactions
      /\ overlapped' \in BOOLEAN /\ Open(p) /\ ~ tx[p].replayed
      /\ tx[p].stamp \in Nat /\ latest \in Nat
  BY <1>1, ChangesAreRecords DEF PushInv, Typed, Committed, Open, Transactions
<1>3. /\ NewStamp(p) \in {0, tx[p].stamp}
      /\ IF NewStamp(p) = 0 THEN tx[p].stamp <= latest ELSE latest < NewStamp(p)
  BY <1>2 DEF NewStamp
<1>4. /\ t.pc = "save" /\ Same(t, tx[p]) /\ t.held = tx[p].held /\ t.from = tx[p].from
      /\ t.heldStamp = NewStamp(p) /\ t \in Transactions
  <2>1. NewStamp(p) \in Nat
    BY <1>2, <1>3
  <2> QED
    BY <1>2, <2>1 DEF Transactions, Phases, Same
<1> HIDE DEF t
<1>5. Private(p) /\ tx'[p] = t
  BY <1>1, <1>4, GoesOn
<1>6. Typed(t) /\ InTurn(t) /\ Stamped(t)
  <2>1. Typed(t)
    BY <1>1, <1>2, <1>3, <1>4 DEF Typed, Carries, Same
  <2>2. InTurn(t)
    BY <1>1, <1>2, <1>4 DEF InTurn, Carries, Running, Same
  <2>3. Stamped(t)
    BY <1>2, <1>3, <1>4 DEF Stamped, Same
  <2> QED
    BY <2>1, <2>2, <2>3
<1>7. PushInv'
  BY <1>1, <1>2, <1>4, <1>5, <1>6, PrivateKeeps
<1> QED
  BY <1>1, <1>2, <1>4, <1>5, <1>7

\* The answer is kept under the key.
LEMMA SaveStep ==
  ASSUME PushInv, NEW p \in Pushes, SaveIdempotent(p)
  PROVE  /\ PushInv' /\ Private(p) /\ Open(p) /\ tx[p].pc = "save" /\ tx'[p].pc = "commit"
         /\ Same(tx'[p], tx[p]) /\ tx'[p].held = tx[p].held /\ tx'[p].from = tx[p].from
<1> DEFINE t == [tx[p] EXCEPT !.pc = "commit"]
<1>1. /\ tx[p].pc = "save" /\ UNCHANGED <<table, latest, opsTable, overlapped>> /\ Do(p, t)
  BY DEF SaveIdempotent
<1>2. /\ Typed(tx[p]) /\ InTurn(tx[p]) /\ Stamped(tx[p]) /\ tx[p] \in Transactions
      /\ overlapped' \in BOOLEAN /\ Open(p) /\ ~ tx[p].replayed
  BY <1>1 DEF PushInv, Typed, Committed, Open
<1>3. /\ t.pc = "commit" /\ Same(t, tx[p]) /\ t.held = tx[p].held /\ t.from = tx[p].from
      /\ t.heldStamp = tx[p].heldStamp /\ t \in Transactions
  BY <1>2 DEF Transactions, Phases, Same
<1> HIDE DEF t
<1>4. Private(p) /\ tx'[p] = t
  BY <1>1, <1>3, GoesOn
<1>5. Typed(t) /\ InTurn(t) /\ Stamped(t)
  BY <1>1, <1>2, <1>3 DEF Typed, InTurn, Stamped, Carries, Running, Same
<1>6. PushInv'
  BY <1>1, <1>2, <1>3, <1>4, <1>5, PrivateKeeps
<1> QED
  BY <1>1, <1>2, <1>3, <1>4, <1>6

\* What COMMIT makes of the tables and of its transaction.
LEMMA CommitWrites ==
  ASSUME PushInv, NEW p \in Pushes, Commit(p)
  PROVE  /\ tx[p].pc = "commit" /\ Open(p) /\ UNCHANGED overlapped
         /\ tx' \in [Pushes -> Transactions] /\ \A q \in Pushes \ {p} : tx'[q] = tx[q]
         /\ tx'[p].pc = "done" /\ Same(tx'[p], tx[p]) /\ tx'[p].held = tx[p].held
         /\ tx'[p].from = tx[p].from /\ tx'[p].heldStamp = tx[p].heldStamp
         /\ \A d \in Days : table'[d] =
              IF tx[p].held # "none" /\ d = tx[p].row.day THEN tx[p].row
              ELSE IF tx[p].held = "update" /\ d = tx[p].from THEN NoRow ELSE table[d]
         /\ table' \in [Days -> Records]
         /\ latest' = IF tx[p].heldStamp # 0 THEN tx[p].heldStamp ELSE latest
         /\ opsTable' \in [PushKeys -> Answers]
         /\ \A k \in PushKeys : opsTable'[k] =
              IF k = tx[p].key /\ opsTable[k] = NoAnswer THEN tx[p].answer ELSE opsTable[k]
<1> DEFINE t == [tx[p] EXCEPT !.pc = "done"]
<1>1. /\ tx[p].pc = "commit" /\ Do(p, t) /\ UNCHANGED overlapped /\ Open(p)
      /\ table' = CASE tx[p].held = "none"   -> table
                    [] tx[p].held = "insert" -> [table EXCEPT ![tx[p].row.day] = tx[p].row]
                    [] tx[p].held = "update" ->
                         [table EXCEPT ![tx[p].from] = NoRow, ![tx[p].row.day] = tx[p].row]
      /\ latest' = IF tx[p].heldStamp # 0 THEN tx[p].heldStamp ELSE latest
      /\ opsTable' = [opsTable EXCEPT ![tx[p].key] = IF @ = NoAnswer THEN tx[p].answer ELSE @]
  BY DEF Commit, Open
<1>2. /\ tx \in [Pushes -> Transactions] /\ tx[p] \in Transactions
      /\ tx[p].key \in PushKeys /\ tx[p].answer \in Answers
      /\ tx[p].row \in Records /\ tx[p].held \in {"none", "update", "insert"}
      /\ tx[p].held # "none" => tx[p].row.day \in Days
      /\ tx[p].held = "update" => tx[p].from \in Days
      /\ table \in [Days -> Records] /\ opsTable \in [PushKeys -> Answers]
  BY <1>1 DEF PushInv, Typed, Committed, Carries, Transactions
<1>3. /\ t.pc = "done" /\ Same(t, tx[p]) /\ t.held = tx[p].held /\ t.from = tx[p].from
      /\ t.heldStamp = tx[p].heldStamp /\ t \in Transactions
  BY <1>2 DEF Transactions, Phases, Same
<1> HIDE DEF t
<1>4. /\ tx' \in [Pushes -> Transactions] /\ \A q \in Pushes \ {p} : tx'[q] = tx[q]
      /\ tx'[p] = t
  BY <1>1, <1>2, <1>3 DEF Do
<1>5. /\ table' \in [Days -> Records]
      /\ \A d \in Days : table'[d] =
           IF tx[p].held # "none" /\ d = tx[p].row.day THEN tx[p].row
           ELSE IF tx[p].held = "update" /\ d = tx[p].from THEN NoRow ELSE table[d]
  <2>1. CASE tx[p].held = "none"
    BY <1>1, <1>2, <2>1
  <2>2. CASE tx[p].held = "insert"
    BY <1>1, <1>2, <2>2
  <2>3. CASE tx[p].held = "update"
    <3>1. table' = [table EXCEPT ![tx[p].from] = NoRow, ![tx[p].row.day] = tx[p].row]
      BY <1>1, <2>3
    <3> QED
      BY <1>2, <2>3, <3>1, FreshIsTyped
  <2> QED
    BY <1>2, <2>1, <2>2, <2>3
<1>6. /\ opsTable' \in [PushKeys -> Answers]
      /\ \A k \in PushKeys : opsTable'[k] =
           IF k = tx[p].key /\ opsTable[k] = NoAnswer THEN tx[p].answer ELSE opsTable[k]
  BY <1>1, <1>2
<1> QED
  BY <1>1, <1>3, <1>4, <1>5, <1>6

\* Who has been applied after a COMMIT.
LEMMA CommitApplies ==
  ASSUME PushInv, NEW p \in Pushes, Commit(p)
  PROVE  /\ Applieds' = IF tx[p].held # "none" THEN Applieds \cup {p} ELSE Applieds
         /\ p \notin Applieds
         /\ Cardinality(Applieds') = Cardinality(Applieds) + (IF tx[p].held # "none" THEN 1 ELSE 0)
<1>1. Applieds' = IF tx[p].held # "none" THEN Applieds \cup {p} ELSE Applieds
  BY CommitWrites DEF Applieds, Applied
<1>2. p \notin Applieds
  BY CommitWrites DEF Applieds, Applied
<1>3. Cardinality(Applieds \cup {p}) = Cardinality(Applieds) + 1
  BY <1>2, AppliedsAreFinite, FS_AddElement
<1> QED
  BY <1>1, <1>2, <1>3, AppliedsAreFinite

\* COMMIT keeps the invariant: nobody else has the last-write-wins row while this one does.
LEMMA CommitStep ==
  ASSUME PushInv, NEW p \in Pushes, Commit(p)
  PROVE  PushInv'
<1> DEFINE n == Cardinality(Applieds)
<1>1. /\ n \in Nat /\ Cardinality(Applieds') \in Nat /\ n <= Cardinality(Applieds')
      /\ tx[p].held # "none" => Cardinality(Applieds') = n + 1
  BY CommitApplies, AppliedsAreFinite
<1>2. /\ Typed(tx[p]) /\ InTurn(tx[p]) /\ Stamped(tx[p]) /\ tx[p] \in Transactions
      /\ tx[p].pc = "commit" /\ latest \in Nat /\ tx[p].heldStamp \in Nat
      /\ \A q \in Pushes : Typed(tx[q]) /\ InTurn(tx[q]) /\ Stamped(tx[q])
      /\ \A q \in Pushes : tx[q].row.version \in Nat /\ tx[q].stamp \in Nat
      /\ \A q \in Pushes : tx[q].heldStamp \in Nat
      /\ table \in [Days -> Records]
      /\ \A d \in Days : table[d].version \in Nat
  BY CommitWrites, ChangesAreRecords DEF PushInv, Committed, Typed, Transactions, Records
<1> HIDE DEF n
<1>3. latest <= latest' /\ latest' \in {0} \cup Stamps /\ latest' \in Nat
  <2>1. tx[p].heldStamp # 0 => /\ tx[p].heldStamp \in Stamps /\ latest < tx[p].heldStamp
    BY <1>2 DEF Typed, Stamped
  <2> QED
    BY <1>2, <2>1, CommitWrites DEF PushInv, Committed
<1>4. Committed'
  <2>1. \A d \in Days : Stored(d)' => table'[d].day = d /\ table'[d].version # 0
    <3> SUFFICES ASSUME NEW d \in Days, table'[d] # NoRow
                 PROVE  table'[d].day = d /\ table'[d].version # 0
      BY DEF Stored
    <3>1. CASE tx[p].held # "none" /\ d = tx[p].row.day
      BY <1>2, <3>1, CommitWrites DEF Typed, Carries
    <3>2. CASE ~ (tx[p].held # "none" /\ d = tx[p].row.day)
      <4>1. table'[d] = table[d]
        BY <3>2, CommitWrites
      <4> QED
        BY <4>1 DEF PushInv, Committed, Stored
    <3> QED
      BY <3>1, <3>2
  <2> QED
    BY <1>3, <2>1, CommitWrites DEF PushInv, Committed
<1>5. Versioned'
  <2> SUFFICES ASSUME NEW d \in Days, table'[d] # NoRow
               PROVE  table'[d].version <= Cardinality(Applieds')
    BY DEF Versioned, Stored
  <2>1. CASE tx[p].held # "none" /\ d = tx[p].row.day
    <3>1. table'[d] = tx[p].row
      BY <2>1, CommitWrites
    <3>2. tx[p].row.version <= n + 1
      BY <1>2, <2>1 DEF InTurn, Running, Carries, n
    <3> QED
      BY <1>1, <2>1, <3>1, <3>2
  <2>2. CASE ~ (tx[p].held # "none" /\ d = tx[p].row.day)
    <3>1. table'[d] = table[d]
      BY <2>2, CommitWrites
    <3>2. table[d].version <= n
      BY <3>1 DEF PushInv, Versioned, Stored, n
    <3> QED
      BY <1>1, <1>2, <3>1, <3>2
  <2> QED
    BY <2>1, <2>2
<1>6. Exclusive'
  BY CommitWrites DEF PushInv, Exclusive, Open
<1>7. ASSUME NEW q \in Pushes PROVE Typed(tx[q])' /\ InTurn(tx[q])' /\ Stamped(tx[q])'
  <2>1. CASE q = p
    <3>1. Typed(tx'[p])
      BY <1>2, CommitWrites DEF Typed, Carries, Same
    <3>2. ~ Running(tx'[p])
      BY CommitWrites DEF Running
    <3>3. tx'[p].pc = "done" /\ ~ tx'[p].replayed => tx'[p].stamp <= latest'
      <4>1. tx[p].heldStamp \in {0, tx[p].stamp}
        BY <1>2 DEF Typed
      <4> QED
        BY <1>2, <1>3, <4>1, CommitWrites DEF Stamped, Same
    <3>4. Stamped(tx[p])'
      BY <3>3, CommitWrites DEF Stamped
    <3>5. InTurn(tx[p])'
      BY <3>2 DEF InTurn, Running
    <3>6. Typed(tx[p])'
      BY <3>1 DEF Typed, Carries
    <3> QED
      BY <2>1, <3>4, <3>5, <3>6
  <2>2. CASE q # p
    <3>1. tx'[q] = tx[q]
      BY <2>2, CommitWrites
    <3>2. Typed(tx[q])'
      BY <1>2, <3>1 DEF Typed, Carries
    <3>3. InTurn(tx[q])'
      <4>1. Running(tx[q]) /\ Carries(tx[q]) => tx[q].row.version <= Cardinality(Applieds')
                                                + 1
        BY <1>1, <1>2 DEF InTurn, n
      <4> QED
        BY <3>1, <4>1 DEF InTurn, Running, Carries
    <3>4. tx[q].pc \in {"save", "commit"} /\ tx[q].heldStamp # 0 => latest' = latest
      <4>1. tx[q].pc \in {"save", "commit"} => Open(q)
        BY DEF Open
      <4> QED
        BY <2>2, <4>1, CommitWrites DEF PushInv, Exclusive
    <3>5. Stamped(tx[q])'
      BY <1>2, <1>3, <3>1, <3>4 DEF Stamped
    <3> QED
      BY <3>2, <3>3, <3>5
  <2> QED
    BY <2>1, <2>2
<1> QED
  BY <1>4, <1>5, <1>6, <1>7, CommitWrites DEF PushInv

\* Every step keeps the invariant.
LEMMA PushStep ==
  ASSUME PushInv, [PushTxNext]_pushVars PROVE PushInv'
<1>1. ASSUME NEW p \in Pushes, NEW key \in PushKeys, NEW change \in Changes, NEW v \in Versions,
             Begin(p, key, change, v)
      PROVE  PushInv'
  <2>1. v \in Nat
    BY DEF Versions, PushInv, Committed, Records
  <2> QED
    BY <1>1, <2>1, BeginStep
<1>2. ASSUME NEW p \in Pushes, Statement(p) PROVE PushInv'
  BY <1>2, FindKeyStep, ReadStep, UpdateStep, InsertStep, UpsertStep, SaveStep, CommitStep
     DEF Statement
<1>3. ASSUME NEW p \in Pushes, Abort(p) PROVE PushInv'
  BY <1>3, EndsAborted DEF Abort
<1>4. CASE UNCHANGED pushVars
  <2>1. Applieds' = Applieds
    BY <1>4 DEF pushVars, Applieds, Applied
  <2> QED
    BY <1>4, <2>1 DEF pushVars, PushInv, Committed, Versioned, Stored, Exclusive, Open, Typed,
                      InTurn, Stamped, Carries, Running
<1> QED
  BY <1>1, <1>2, <1>3, <1>4 DEF PushTxNext

\* The invariant holds of every reachable state.
LEMMA PushHolds == PushTxSpec => []PushInv
<1>1. PushInv /\ [PushTxNext]_pushVars => PushInv'
  BY PushStep
<1> QED
  BY <1>1, PushAtFirst, PTL DEF PushTxSpec

\* Every committed row sits at its day, and no version of it came without a push.
THEOREM PushTablesKeepTheirTypes == PushTxSpec => []PushTxTypeOK
<1>1. PushInv => PushTxTypeOK
  <2> SUFFICES ASSUME PushInv PROVE PushTxTypeOK
    OBVIOUS
  <2>1. ASSUME NEW d \in Days, Stored(d)
        PROVE  table[d].day = d /\ table[d].version \in 1 .. Cardinality(Pushes)
    <3>1. table[d].version \in Nat /\ table[d].version # 0 /\ table[d].day = d
      BY <2>1 DEF PushInv, Committed, Records
    <3>2. table[d].version <= Cardinality(Applieds)
      BY <2>1 DEF PushInv, Versioned
    <3> QED
      BY <3>1, <3>2, AppliedsAreFinite
  <2>2. latest \in {0} \cup {change.stamp : change \in Changes} /\ overlapped \in BOOLEAN
    BY DEF PushInv, Committed, Stamps
  <2>3. \A p \in Pushes : /\ tx[p].held \in {"none", "update", "insert"}
                          /\ tx[p].held = "update" => tx[p].from \in Days
                          /\ tx[p].answer.result \in {"none", "accepted", "conflict"}
    BY DEF PushInv, Typed, Transactions, Answers
  <2> QED
    BY <2>1, <2>2, <2>3 DEF PushTxTypeOK
<1> QED
  BY <1>1, PushHolds, PTL

\* The newest write of a last-write-wins row is the one that stays: in whatever order any
\* number of transactions wait for each other, commit and abort, each one that is done has
\* left a stamp at least its own (sync.repo.pg.ts:211-250, 339-360).
THEOREM NewestStampStays == PushTxSpec => []NewestStampWins
<1>1. PushInv => NewestStampWins
  BY DEF PushInv, Stamped, NewestStampWins
<1> QED
  BY <1>1, PushHolds, PTL

(***************************************************************************)
(* Requests served one at a time.  The version of the one row is then the  *)
(* number of changes applied, and what a client has seen is at most that:  *)
(* a change that is not refused carries exactly that version, and is       *)
(* behind as soon as another one has been applied.                         *)
(***************************************************************************)
Alone == \A p, q \in Pushes : Open(p) /\ Open(q) => p = q

OneRow ==
  /\ \A d, e \in Days : Stored(d) /\ Stored(e) => d = e
  /\ \A d \in Days : Stored(d) => table[d].version = Cardinality(Applieds)
  /\ (\A d \in Days : ~ Stored(d)) => Applieds = {}

\* What a transaction served alone knows of the record.
Informed(t) ==
  /\ Running(t) => t.change.version <= Cardinality(Applieds)
  /\ Running(t) /\ Carries(t) =>
       /\ t.row.version = Cardinality(Applieds) + 1
       /\ ~ t.change.deleted => t.change.version >= Cardinality(Applieds)
  /\ Running(t) /\ (t.pc = "insert" \/ t.held = "insert") => \A d \in Days : ~ Stored(d)
  /\ Running(t) /\ t.held = "update" => Stored(t.from)
  /\ t.pc = "done" /\ t.held # "none" => t.change.version < Cardinality(Applieds)

\* What it knows of its key.
Keyed(t) ==
  /\ Running(t) /\ t.pc # "dedupe" =>
       opsTable[t.key] = IF t.replayed THEN t.answer ELSE NoAnswer
  /\ t.pc = "done" => t.answer = opsTable[t.key]

OneEffect ==
  \A p, q \in Pushes : Applied(p) /\ Applied(q) /\ tx[p].key = tx[q].key => p = q

NoGuess == \A p, q \in Pushes : ~ GuessedAmount(p, q)

Orderly ==
  /\ Alone /\ OneRow /\ OneEffect /\ NoGuess
  /\ \A p \in Pushes : Informed(tx[p]) /\ Keyed(tx[p])

SerialInv == PushInv /\ (~ overlapped => Orderly)

\* The invariant holds of the empty tables.
LEMMA SerialAtFirst == PushTxInit => SerialInv
<1> SUFFICES ASSUME PushTxInit PROVE SerialInv
  OBVIOUS
<1>1. PushInv
  BY PushAtFirst
<1>2. \A p \in Pushes : tx[p] = Fresh /\ tx[p].pc = "new"
  BY FreshIsTyped DEF PushTxInit
<1>3. \A d \in Days : ~ Stored(d)
  BY DEF PushTxInit, Stored
<1>4. Applieds = {} /\ \A p \in Pushes : ~ Applied(p) /\ ~ Open(p)
  BY <1>2 DEF Applieds, Applied, Open
<1>5. Informed(Fresh) /\ Keyed(Fresh)
  BY FreshIsTyped DEF Informed, Keyed, Running
<1> QED
  BY <1>1, <1>2, <1>3, <1>4, <1>5
     DEF SerialInv, Orderly, Alone, OneRow, OneEffect, NoGuess, GuessedAmount

\* A statement of one transaction keeps the order when that transaction still knows what
\* it should.
LEMMA PrivateIsOrderly ==
  ASSUME Orderly, NEW p \in Pushes, Private(p), tx[p].pc # "done", tx'[p].pc # "done",
         Open(p)' => Open(p) \/ Others(p) = {},
         Informed(tx'[p]), Keyed(tx'[p])
  PROVE  Orderly'
<1>1. /\ \A q \in Pushes : Applied(q)' <=> Applied(q)
      /\ \A q \in Pushes : Applied(q) => tx'[q] = tx[q]
  BY DEF Applied, Private
<1>2. Applieds' = Applieds
  BY <1>1 DEF Applieds
<1>3. Alone'
  BY DEF Orderly, Alone, Private, Open, Others
<1>4. OneRow'
  BY <1>2 DEF Orderly, OneRow, Private, Stored
<1>5. OneEffect' /\ NoGuess'
  BY <1>1 DEF Orderly, OneEffect, NoGuess, GuessedAmount
<1>6. \A q \in Pushes : Informed(tx[q])' /\ Keyed(tx[q])'
  BY <1>2 DEF Orderly, Private, Informed, Keyed, Running, Carries, Stored
<1> QED
  BY <1>3, <1>4, <1>5, <1>6 DEF Orderly

\* A request that arrives has seen a version that was committed.
LEMMA BeginIsOrderly ==
  ASSUME SerialInv, NEW p \in Pushes, NEW key \in PushKeys, NEW change \in Changes,
         NEW v \in Versions, Begin(p, key, change, v), ~ overlapped'
  PROVE  Orderly'
<1>1. ~ overlapped /\ Others(p) = {} /\ Orderly /\ PushInv /\ tx[p].pc = "new"
  BY DEF Begin, SerialInv, PushInv, Committed
<1>2. Cardinality(Applieds) \in Nat
  BY AppliedsAreFinite
<1>3. v \in Nat /\ v <= Cardinality(Applieds)
  <2>1. PICK d \in Days : v \in 0 .. table[d].version
    BY DEF Versions
  <2>2. CASE Stored(d)
    BY <1>1, <1>2, <2>1, <2>2 DEF Orderly, OneRow
  <2>3. CASE ~ Stored(d)
    BY <1>2, <2>1, <2>3, FreshIsTyped DEF Stored
  <2> QED
    BY <2>2, <2>3
<1>4. /\ Private(p) /\ tx'[p].pc = "dedupe" /\ tx'[p].change.version = v
      /\ tx'[p].held = "none"
  BY <1>1, <1>3, BeginStep
<1>5. Informed(tx'[p]) /\ Keyed(tx'[p])
  BY <1>3, <1>4 DEF Informed, Keyed, Carries
<1> QED
  BY <1>1, <1>4, <1>5, PrivateIsOrderly

\* The other statements but COMMIT.
LEMMA StatementIsOrderly ==
  ASSUME PushInv, Orderly, NEW p \in Pushes,
         \/ FindIdempotent(p) \/ GetTransaction(p) \/ UpdateRow(p) \/ InsertRow(p)
         \/ Upsert(p) \/ SaveIdempotent(p)
  PROVE  Orderly'
<1>1. /\ Cardinality(Applieds) \in Nat /\ tx[p] \in Transactions /\ Typed(tx[p])
      /\ Informed(tx[p]) /\ Keyed(tx[p])
      /\ tx[p].change.version \in Nat
      /\ tx[p].change.deleted \in BOOLEAN
  BY AppliedsAreFinite DEF PushInv, Typed, Orderly, Transactions, Records
<1>2. ASSUME Private(p), Open(p), tx'[p].pc # "done", Informed(tx'[p]), Keyed(tx'[p])
      PROVE  Orderly'
  BY <1>2, PrivateIsOrderly DEF Open
\* A transaction that ends without effect.
<1>3. ASSUME Private(p), Open(p), tx'[p].pc = "aborted" PROVE Orderly'
  BY <1>2, <1>3 DEF Informed, Keyed, Running
<1>4. CASE FindIdempotent(p)
  <2>1. /\ Private(p) /\ Open(p) /\ tx'[p].pc \in {"read", "commit"}
        /\ tx'[p].key = tx[p].key /\ tx'[p].change = tx[p].change /\ tx'[p].held = "none"
        /\ opsTable[tx[p].key] = IF tx'[p].replayed THEN tx'[p].answer ELSE NoAnswer
    BY <1>4, FindKeyStep
  <2>2. Informed(tx'[p])
    BY <1>1, <2>1 DEF Informed, Carries, Running, Open
  <2> QED
    BY <1>2, <2>1, <2>2 DEF Keyed
<1>5. CASE GetTransaction(p)
  <2>1. /\ Private(p) /\ Open(p) /\ tx[p].pc = "read" /\ ~ tx'[p].replayed
        /\ tx'[p].key = tx[p].key /\ tx'[p].change = tx[p].change /\ tx'[p].held = "none"
        /\ tx'[p].pc \in {"update", "upsert"}
    BY <1>5, ReadStep
  <2>2. Keyed(tx'[p])
    BY <1>1, <2>1 DEF Keyed, Running, Typed
  <2>3. tx'[p].pc = "update" =>
          /\ tx'[p].row.version = Cardinality(Applieds) + 1
          /\ ~ tx[p].change.deleted => tx[p].change.version >= Cardinality(Applieds)
    <3>1. CASE /\ tx'[p].pc = "update" /\ tx'[p].row.version = 1
               /\ \A d \in Days : ~ Stored(d)
      <4>1. Cardinality(Applieds) = 0
        BY <3>1, FS_EmptySet DEF Orderly, OneRow
      <4> QED
        BY <1>1, <3>1, <4>1
    <3>2. ASSUME NEW d \in Days, Stored(d), ~ Refused(tx[p].change, table[d]),
                 tx'[p].row.version = table[d].version + 1
          PROVE  /\ tx'[p].row.version = Cardinality(Applieds) + 1
                 /\ ~ tx[p].change.deleted => tx[p].change.version >= Cardinality(Applieds)
      BY <1>1, <3>2 DEF Orderly, OneRow, Refused
    <3> QED
      BY <1>5, <3>1, <3>2, ReadStep
  <2>4. Informed(tx'[p])
    BY <1>1, <2>1, <2>3 DEF Informed, Carries, Running
  <2> QED
    BY <1>2, <2>1, <2>2, <2>4
<1>6. CASE UpdateRow(p)
  <2>1. /\ Private(p) /\ Open(p) /\ tx[p].pc = "update"
        /\ \/ /\ tx'[p].pc = "insert" /\ Same(tx'[p], tx[p]) /\ tx'[p].held = "none"
              /\ \A d \in Days : ~ Stored(d)
           \/ tx'[p].pc = "aborted"
           \/ /\ tx'[p].pc = "upsert" /\ Same(tx'[p], tx[p]) /\ tx'[p].held = "update"
              /\ tx'[p].from \in Days /\ Stored(tx'[p].from)
    BY <1>6, UpdateStep
  <2>2. tx'[p].pc # "aborted" => Keyed(tx'[p]) /\ Informed(tx'[p])
    BY <1>1, <2>1 DEF Keyed, Informed, Carries, Running, Same
  <2> QED
    BY <1>2, <1>3, <2>1, <2>2
<1>7. CASE InsertRow(p)
  <2>1. /\ Private(p) /\ Open(p) /\ tx[p].pc = "insert"
        /\ \/ tx'[p].pc = "aborted"
           \/ tx'[p].pc = "upsert" /\ Same(tx'[p], tx[p]) /\ tx'[p].held = "insert"
    BY <1>7, InsertStep
  <2>2. tx'[p].pc # "aborted" => Keyed(tx'[p]) /\ Informed(tx'[p])
    BY <1>1, <2>1 DEF Keyed, Informed, Carries, Running, Same
  <2> QED
    BY <1>2, <1>3, <2>1, <2>2
<1>8. CASE Upsert(p) \/ SaveIdempotent(p)
  <2>1. /\ Private(p) /\ Open(p) /\ tx[p].pc \in {"upsert", "save"}
        /\ tx'[p].pc \in {"save", "commit"}
        /\ Same(tx'[p], tx[p]) /\ tx'[p].held = tx[p].held /\ tx'[p].from = tx[p].from
    BY <1>8, UpsertStep, SaveStep
  <2>2. Keyed(tx'[p]) /\ Informed(tx'[p])
    BY <1>1, <2>1 DEF Keyed, Informed, Carries, Running, Same
  <2> QED
    BY <1>2, <2>1, <2>2
<1> QED
  BY <1>4, <1>5, <1>6, <1>7, <1>8

\* COMMIT: the row is the one row, one version on; the key had no answer yet, or the
\* answer is the one it had.
LEMMA CommitIsOrderly ==
  ASSUME PushInv, Orderly, NEW p \in Pushes, Commit(p)
  PROVE  Orderly'
<1> DEFINE n == Cardinality(Applieds)
           m == Cardinality(Applieds')
<1>1. /\ n \in Nat /\ m = n + (IF tx[p].held # "none" THEN 1 ELSE 0) /\ m \in Nat
      /\ Applieds' = IF tx[p].held # "none" THEN Applieds \cup {p} ELSE Applieds
  BY CommitApplies, AppliedsAreFinite
<1>2. /\ Typed(tx[p]) /\ Informed(tx[p]) /\ Keyed(tx[p]) /\ tx[p].pc = "commit"
      /\ tx[p].held \in {"none", "update", "insert"} /\ tx[p] \in Transactions
      /\ Running(tx[p]) /\ Open(p)
      /\ \A q \in Pushes : tx[q].change.version \in Nat
      /\ \A q \in Pushes : Typed(tx[q]) /\ Informed(tx[q]) /\ Keyed(tx[q])
  BY CommitWrites DEF PushInv, Typed, Orderly, Transactions, Records, Running
<1>3. tx[p].held # "none" => /\ tx[p].row.day \in Days /\ tx[p].row.version = m
                             /\ tx[p].row # NoRow
                             /\ ~ tx[p].change.deleted => tx[p].change.version >= n
  BY <1>1, <1>2, FreshIsTyped DEF Typed, Carries, Informed
<1>4. \A q \in Pushes : q # p => ~ Open(q)
  BY <1>2 DEF Orderly, Alone
<1>5. /\ \A q \in Pushes \ {p} : tx'[q] = tx[q]
      /\ tx'[p].pc = "done" /\ Same(tx'[p], tx[p]) /\ tx'[p].held = tx[p].held
  BY CommitWrites
<1> HIDE DEF n, m
<1>6. Alone'
  BY <1>4, <1>5 DEF Alone, Open
<1>7. OneRow'
  <2>1. CASE tx[p].held = "none"
    <3>1. \A d \in Days : table'[d] = table[d]
      BY <2>1, CommitWrites
    <3> QED
      BY <1>1, <2>1, <3>1 DEF Orderly, OneRow, Stored
  <2>2. CASE tx[p].held # "none"
    <3>1. \A d \in Days : d # tx[p].row.day => table'[d] = NoRow
      <4>1. CASE tx[p].held = "insert"
        BY <1>2, <4>1, CommitWrites DEF Informed, Stored
      <4>2. CASE tx[p].held = "update"
        <5>1. tx[p].from \in Days /\ Stored(tx[p].from)
          BY <1>2, <4>2 DEF Informed, Typed
        <5>2. \A d \in Days : d # tx[p].from => table[d] = NoRow
          BY <5>1 DEF Orderly, OneRow, Stored
        <5> QED
          BY <4>2, <5>2, CommitWrites
      <4> QED
        BY <1>2, <2>2, <4>1, <4>2
    <3>2. table'[tx[p].row.day] = tx[p].row
      BY <1>3, <2>2, CommitWrites
    <3>3. \A d \in Days : table'[d] # NoRow => d = tx[p].row.day
      BY <3>1
    <3>4. \A d \in Days : table'[d] # NoRow => table'[d].version = Cardinality(Applieds')
      BY <1>3, <2>2, <3>2, <3>3 DEF m
    <3>5. \E d \in Days : table'[d] # NoRow
      BY <1>3, <2>2, <3>2
    <3> QED
      BY <3>3, <3>4, <3>5 DEF OneRow, Stored
  <2> QED
    BY <2>1, <2>2
<1>8. \A q \in Pushes : Applied(q)' => IF q = p THEN tx[p].held # "none" ELSE Applied(q)
  BY <1>5 DEF Applied
<1>9. ASSUME NEW q \in Pushes, Applied(q), tx[p].held # "none"
      PROVE  tx[q].key # tx[p].key /\ tx[q].change.version < n
  <2>1. tx[q].answer = opsTable[tx[q].key] /\ tx[q].answer # NoAnswer
    BY <1>2, <1>9 DEF Applied, Keyed, Typed
  <2>2. opsTable[tx[p].key] = NoAnswer
    BY <1>2, <1>9 DEF Keyed, Typed
  <2>3. tx[q].change.version < n
    BY <1>2, <1>9 DEF Applied, Informed, n
  <2> QED
    BY <2>1, <2>2, <2>3
<1>10. OneEffect'
  <2> SUFFICES ASSUME NEW q \in Pushes, NEW r \in Pushes, Applied(q)', Applied(r)',
                      tx'[q].key = tx'[r].key
               PROVE  q = r
    BY DEF OneEffect
  <2> QED
    BY <1>5, <1>8, <1>9 DEF Orderly, OneEffect, Same
<1>11. NoGuess'
  <2>1. ASSUME NEW q \in Pushes, NEW r \in Pushes, Applied(q)', Applied(r)', q # r,
               tx'[q].change.version = tx'[r].change.version,
               tx'[q].change.amount # tx'[r].change.amount,
               ~ tx'[q].change.deleted, ~ tx'[r].change.deleted
        PROVE  FALSE
    <3>1. CASE q # p /\ r # p
      BY <1>5, <1>8, <2>1, <3>1 DEF Orderly, NoGuess, GuessedAmount
    <3>2. ASSUME NEW a \in Pushes, Applied(a)', a # p, tx[p].held # "none", ~ tx[p].change.deleted,
                 tx[a].change.version = tx[p].change.version
          PROVE  FALSE
      <4>1. tx[a].change.version < n /\ tx[p].change.version >= n
        BY <1>3, <1>8, <1>9, <3>2
      <4> QED
        BY <1>1, <1>2, <3>2, <4>1 DEF n
    <3> QED
      BY <1>5, <1>8, <2>1, <3>1, <3>2 DEF Same
  <2> QED
    BY <2>1 DEF NoGuess, GuessedAmount
<1>12. ASSUME NEW q \in Pushes PROVE Informed(tx[q])' /\ Keyed(tx[q])'
  <2>1. CASE q = p
    <3>1. tx'[p].pc = "done" /\ ~ Running(tx'[p])
      BY <1>5 DEF Running
    <3>2. tx'[p].held # "none" => tx'[p].change.version < m
      BY <1>1, <1>2, <1>5 DEF Informed, Same, n
    <3>3. Informed(tx[p])'
      BY <3>1, <3>2 DEF Informed, Running, m
    <3>4. tx[p].key \in PushKeys
      BY <1>2 DEF Typed
    <3>5. opsTable'[tx[p].key] = tx[p].answer
      <4>1. opsTable[tx[p].key] = IF tx[p].replayed THEN tx[p].answer ELSE NoAnswer
        BY <1>2 DEF Keyed
      <4>2. tx[p].answer # NoAnswer
        BY <1>2 DEF Typed
      <4> QED
        BY <3>4, <4>1, <4>2, CommitWrites
    <3>6. Keyed(tx[p])'
      BY <1>5, <3>1, <3>5 DEF Keyed, Running, Same
    <3> QED
      BY <2>1, <3>3, <3>6
  <2>2. CASE q # p
    <3>1. tx'[q] = tx[q] /\ ~ Running(tx[q])
      BY <1>4, <1>5, <2>2 DEF Open, Running
    <3>2. tx[q].pc = "done" /\ tx[q].held # "none" => tx[q].change.version < m
      BY <1>1, <1>2 DEF Informed, n
    <3>3. Informed(tx[q])'
      BY <3>1, <3>2 DEF Informed, Running, m
    <3>4. tx[q].pc = "done" => tx[q].answer = opsTable'[tx[q].key]
      BY <1>2, CommitWrites DEF Keyed, Typed
    <3>5. Keyed(tx[q])'
      BY <3>1, <3>4 DEF Keyed, Running
    <3> QED
      BY <3>3, <3>5
  <2> QED
    BY <2>1, <2>2
<1> QED
  BY <1>6, <1>7, <1>10, <1>11, <1>12 DEF Orderly

\* Every step keeps the order.
LEMMA SerialStep ==
  ASSUME SerialInv, [PushTxNext]_pushVars PROVE SerialInv'
<1>1. PushInv'
  BY PushStep DEF SerialInv
<1> SUFFICES ASSUME ~ overlapped' PROVE Orderly'
  BY <1>1 DEF SerialInv
<1>2. ASSUME NEW p \in Pushes, NEW key \in PushKeys, NEW change \in Changes, NEW v \in Versions,
             Begin(p, key, change, v)
      PROVE  Orderly'
  BY <1>2, BeginIsOrderly
<1>3. ASSUME UNCHANGED overlapped PROVE PushInv /\ Orderly
  BY <1>3 DEF SerialInv
<1>4. ASSUME NEW p \in Pushes, Statement(p) PROVE Orderly'
  <2>1. UNCHANGED overlapped
    BY <1>4 DEF Statement, FindIdempotent, GetTransaction, UpdateRow, InsertRow, Upsert,
                SaveIdempotent, Commit
  <2> QED
    BY <1>3, <1>4, <2>1, StatementIsOrderly, CommitIsOrderly DEF Statement
<1>5. ASSUME NEW p \in Pushes, Abort(p) PROVE Orderly'
  <2>1. PushInv /\ Orderly /\ Open(p)
    BY <1>3, <1>5 DEF Abort
  <2>2. Private(p) /\ tx'[p].pc = "aborted"
    BY <1>5, <2>1, EndsAborted DEF Abort
  <2> QED
    BY <2>1, <2>2, PrivateIsOrderly DEF Informed, Keyed, Running, Open
<1>6. CASE UNCHANGED pushVars
  <2>1. PushInv /\ Orderly /\ UNCHANGED <<table, opsTable, tx>>
    BY <1>3, <1>6 DEF pushVars
  <2>2. Applieds' = Applieds
    BY <2>1 DEF Applieds, Applied
  <2> QED
    BY <2>1, <2>2 DEF Orderly, Alone, Open, OneRow, Stored, OneEffect, NoGuess, GuessedAmount,
                      Applied, Informed, Keyed, Running, Carries
<1> QED
  BY <1>2, <1>4, <1>5, <1>6 DEF PushTxNext

\* The invariant holds of every reachable state.
LEMMA SerialHolds == PushTxSpec => []SerialInv
<1>1. SerialInv /\ [PushTxNext]_pushVars => SerialInv'
  BY SerialStep
<1> QED
  BY <1>1, SerialAtFirst, PTL DEF PushTxSpec

\* Requests served one at a time, with any aborts, lost answers and batches sent again:
\* there is one row and its version is the number of changes applied, a key has one answer
\* and one effect, and of two amounts written over one version one is refused
\* (sync.service.ts:41-121, sync.repo.pg.ts:126-163).
THEOREM SerialPushesAreExact == PushTxSpec => []SerialPushes
<1>1. SerialInv => SerialPushes
  <2> SUFFICES ASSUME PushInv, ~ overlapped, Orderly
               PROVE  SerialPushes
    BY DEF SerialInv, SerialPushes, SerialPushesCount, SerialKeyAppliedOnce,
           SerialAmountsNotGuessed
  <2>1. SerialPushesCount
    BY DEF SerialPushesCount, Orderly, OneRow, Applieds
  <2>2. SerialKeyAppliedOnce
    BY DEF SerialKeyAppliedOnce, Orderly, OneEffect, Keyed
  <2>3. SerialAmountsNotGuessed
    BY DEF SerialAmountsNotGuessed, Orderly, NoGuess
  <2> QED
    BY <2>1, <2>2, <2>3 DEF SerialPushes
<1> QED
  BY <1>1, SerialHolds, PTL

-----------------------------------------------------------------------------
(***************************************************************************)
(* Identities.  An identity never moves from one account to another, and   *)
(* none opens an account that was erased.                                  *)
(***************************************************************************)
Links == [user : Nat, email : Emails \cup {"none"}]

Points  == {"idle", "identity", "email", "register", "delete"}
Request == [pc : Points, kind : {"none", "signin", "unlink"}, subject : Subjects \cup {"none"},
            email : Emails \cup {"none"}, user : Nat]

\* The tables, and the requests; one that is open is about a subject.
Tables ==
  /\ users \in Nat /\ deletedUsers \subseteq 1 .. users
  /\ identities \in [Subjects -> Links]
  /\ signIns \in [SignIns -> Request]
  /\ \A r \in SignIns : signIns[r].pc # "idle" => signIns[r].subject \in Subjects

\* One row written, with the account it had if it had one.
Writes(s, u, email) ==
  /\ s \in Subjects /\ email \in Emails \cup {"none"} /\ u \in Nat
  /\ \E addr \in {email, identities[s].email} :
       identities' = [identities EXCEPT ![s] =
         [user |-> IF identities[s].user = 0 THEN u ELSE identities[s].user, email |-> addr]]

\* The invariant holds of the empty tables.
LEMMA TablesAtFirst == IdentitiesInit => Tables /\ ErasedStaysErased
  BY DEF IdentitiesInit, Tables, ErasedStaysErased, Links, Unlinked, NoSignIn, Request, Points

\* What a written row leaves true, when its account is not erased.
LEMMA WriteStep ==
  ASSUME Tables, ErasedStaysErased, NEW s, NEW u, NEW email, Writes(s, u, email),
         identities[s].user = 0 => u \notin deletedUsers, UNCHANGED deletedUsers
  PROVE  /\ identities' \in [Subjects -> Links]
         /\ ErasedStaysErased'
         /\ \A t \in Subjects :
              identities[t].user # 0 => identities'[t].user \in {0, identities[t].user}
<1>1. PICK addr \in {email, identities[s].email} :
        identities' = [identities EXCEPT ![s] =
          [user |-> IF identities[s].user = 0 THEN u ELSE identities[s].user, email |-> addr]]
  BY DEF Writes
<1>2. s \in Subjects /\ u \in Nat /\ addr \in Emails \cup {"none"}
  BY DEF Writes, Tables, Links
<1>3. identities' \in [Subjects -> Links]
  BY <1>1, <1>2 DEF Tables, Links
<1>4. \A t \in Subjects : identities'[t].user =
        IF t = s /\ identities[s].user = 0 THEN u ELSE identities[t].user
  BY <1>1, <1>2 DEF Tables, Links
<1> QED
  BY <1>3, <1>4 DEF ErasedStaysErased

\* A step that leaves every row as it is, or removes it.
LEMMA RemoveStep ==
  ASSUME Tables, ErasedStaysErased, identities' \in [Subjects -> Links],
         \A s \in Subjects : identities'[s] = Unlinked \/ identities'[s] = identities[s],
         UNCHANGED deletedUsers
  PROVE  /\ ErasedStaysErased'
         /\ \A s \in Subjects :
              identities[s].user # 0 => identities'[s].user \in {0, identities[s].user}
<1>1. 0 \notin deletedUsers
  BY DEF Tables
<1> QED
  BY <1>1 DEF ErasedStaysErased, Unlinked

\* A request that moves on, or ends.
LEMMA RequestStep ==
  ASSUME Tables, NEW r \in SignIns, NEW t \in Request, SignInStep(r, t),
         t.pc # "idle" => t.subject \in Subjects
  PROVE  /\ signIns' \in [SignIns -> Request]
         /\ \A q \in SignIns : signIns'[q].pc # "idle" => signIns'[q].subject \in Subjects
  BY DEF Tables, SignInStep

\* A request begins, and nothing is written yet.
LEMMA StartStep ==
  ASSUME Tables, NEW r \in SignIns, NEW kind \in {"signin", "unlink"}, NEW pc \in Points,
         NEW s \in Subjects, NEW email \in Emails \cup {"none"}, NEW u \in Nat,
         Start(r, kind, pc, s, email, u)
  PROVE  Tables' /\ UNCHANGED <<identities, deletedUsers>>
<1> DEFINE t == [pc |-> pc, kind |-> kind, subject |-> s, email |-> email, user |-> u]
<1>1. t \in Request /\ t.subject \in Subjects
  BY DEF Request
<1>2. SignInStep(r, t) /\ UNCHANGED <<users, deletedUsers, identities>>
  BY DEF Start
<1> HIDE DEF t
<1> QED
  BY <1>1, <1>2, RequestStep DEF Tables

\* The look-up of the identity, and the one of the address.
LEMMA LookUpStep ==
  ASSUME Tables, NEW r \in SignIns, FindIdentity(r) \/ FindByEmail(r)
  PROVE  Tables' /\ UNCHANGED <<identities, deletedUsers>>
<1>1. signIns[r] \in Request /\ signIns[r].pc # "idle" /\ signIns[r].subject \in Subjects
  BY DEF Tables, FindIdentity, FindByEmail
<1>2. \A pc \in Points, u \in Nat :
        /\ [signIns[r] EXCEPT !.user = u, !.pc = pc] \in Request
        /\ [signIns[r] EXCEPT !.user = u, !.pc = pc].subject = signIns[r].subject
        /\ [signIns[r] EXCEPT !.pc = pc, !.user = u] \in Request
        /\ [signIns[r] EXCEPT !.pc = pc, !.user = u].subject = signIns[r].subject
        /\ [signIns[r] EXCEPT !.pc = pc] \in Request
        /\ [signIns[r] EXCEPT !.pc = pc].subject = signIns[r].subject
  BY <1>1 DEF Request
<1>3. \A s \in Subjects : identities[s].user \in Nat
  BY DEF Tables, Links
<1>4. PICK t \in Request : SignInStep(r, t) /\ t.subject \in Subjects
  <2>1. CASE FindIdentity(r)
    BY <1>1, <1>2, <1>3, <2>1 DEF FindIdentity, Points
  <2>2. CASE FindByEmail(r)
    BY <1>1, <1>2, <1>3, <2>2 DEF FindByEmail, Points
  <2> QED
    BY <2>1, <2>2
<1>5. UNCHANGED <<users, deletedUsers, identities>>
  BY DEF FindIdentity, FindByEmail
<1> QED
  BY <1>4, <1>5, RequestStep DEF Tables
\* The registration: a write, of a user just inserted or of one that is not erased, or
\* nothing when the insert fails.
LEMMA RegisterStep ==
  ASSUME Tables, ErasedStaysErased, NEW r \in SignIns, Register(r)
  PROVE  /\ Tables' /\ ErasedStaysErased'
         /\ \A t \in Subjects :
              identities[t].user # 0 => identities'[t].user \in {0, identities[t].user}
<1> DEFINE s == signIns[r].subject
           u == IF signIns[r].user = 0 THEN users + 1 ELSE signIns[r].user
           email == signIns[r].email
<1>1. s \in Subjects /\ u \in Nat /\ email \in Emails \cup {"none"} /\ users \in Nat
  BY DEF Register, Tables, Request
<1>2. NoSignIn \in Request /\ NoSignIn.pc = "idle"
  BY DEF NoSignIn, Request, Points
<1>3. UNCHANGED deletedUsers /\ SignInStep(r, NoSignIn)
  BY DEF Register
<1>4. /\ signIns' \in [SignIns -> Request]
      /\ \A q \in SignIns : signIns'[q].pc # "idle" => signIns'[q].subject \in Subjects
  BY <1>2, <1>3, RequestStep
<1>5. CASE Barred(u, s)
  <2>1. UNCHANGED <<users, identities>>
    BY <1>5 DEF Register
  <2>2. Tables'
    BY <1>3, <1>4, <2>1 DEF Tables
  <2>3. \A t \in Subjects : identities'[t] = identities[t]
    BY <2>1
  <2> QED
    BY <1>3, <2>1, <2>2, <2>3 DEF ErasedStaysErased
<1>6. CASE ~ Barred(u, s)
  <2>1. /\ users' = IF u > users THEN u ELSE users
        /\ identities' = [identities EXCEPT ![s] = Upserted(@, u, email)]
    BY <1>6 DEF Register
  <2>2. Writes(s, u, email)
    BY <1>1, <2>1 DEF Writes, Upserted, Tables
  <2>3. identities[s].user = 0 => u \notin deletedUsers
    BY <1>6 DEF Barred
  <2>4. users' \in Nat /\ deletedUsers \subseteq 1 .. users'
    BY <1>1, <2>1 DEF Tables
  <2>5. identities' \in [Subjects -> Links]
    BY <1>3, <2>2, <2>3, WriteStep
  <2>6. Tables'
    BY <1>3, <1>4, <2>4, <2>5 DEF Tables
  <2> QED
    BY <1>3, <2>2, <2>3, <2>6, WriteStep
<1> QED
  BY <1>5, <1>6

\* A link writes a row that was free, or nothing.
LEMMA LinkStep ==
  ASSUME Tables, ErasedStaysErased, NEW u \in Users, NEW s \in Subjects,
         NEW email \in Emails \cup {"none"}, Link(u, s, email)
  PROVE  /\ Tables' /\ ErasedStaysErased'
         /\ \A t \in Subjects :
              identities[t].user # 0 => identities'[t].user \in {0, identities[t].user}
<1>1. u \in Nat /\ u \notin deletedUsers
  BY DEF Users, Tables
<1>2. UNCHANGED <<users, deletedUsers, signIns>>
  BY DEF Link
<1>3. CASE identities[s].user = 0
  <2>1. Writes(s, u, email)
    BY <1>1, <1>3 DEF Link, Writes, Tables
  <2>2. identities' \in [Subjects -> Links]
    BY <1>1, <1>2, <2>1, WriteStep
  <2> QED
    BY <1>1, <1>2, <2>1, <2>2, WriteStep DEF Tables
<1>4. CASE identities[s].user # 0
  <2>1. identities' = identities
    BY <1>4 DEF Link, Tables
  <2>2. \A t \in Subjects : identities'[t] = identities[t]
    BY <2>1
  <2> QED
    BY <1>2, <2>1, <2>2 DEF Tables, ErasedStaysErased
<1> QED
  BY <1>3, <1>4

\* An unlinking removes rows.
LEMMA UnlinkStep ==
  ASSUME Tables, ErasedStaysErased, NEW r \in SignIns, DeleteIdentities(r)
  PROVE  /\ Tables' /\ ErasedStaysErased'
         /\ \A t \in Subjects :
              identities[t].user # 0 => identities'[t].user \in {0, identities[t].user}
<1>1. SignInStep(r, NoSignIn) /\ UNCHANGED <<users, deletedUsers>>
  BY DEF DeleteIdentities
<1>2. /\ identities' \in [Subjects -> Links]
      /\ \A s \in Subjects : identities'[s] = Unlinked \/ identities'[s] = identities[s]
  BY DEF DeleteIdentities, Tables, Links, Unlinked
<1>3. NoSignIn \in Request /\ NoSignIn.pc = "idle"
  BY DEF NoSignIn, Request, Points
<1>4. Tables'
  BY <1>1, <1>2, <1>3, RequestStep DEF Tables
<1> QED
  BY <1>1, <1>2, <1>4, RemoveStep

\* An erasure takes the rows of the account with it.
LEMMA EraseStep ==
  ASSUME Tables, ErasedStaysErased, NEW u \in Users, EraseUser(u)
  PROVE  /\ Tables' /\ ErasedStaysErased'
         /\ \A t \in Subjects :
              identities[t].user # 0 => identities'[t].user \in {0, identities[t].user}
<1>1. /\ deletedUsers' = deletedUsers \cup {u} /\ UNCHANGED <<users, signIns>>
      /\ identities' = [s \in Subjects |->
           IF identities[s].user = u THEN Unlinked ELSE identities[s]]
  BY DEF EraseUser
<1>2. u \in 1 .. users /\ users \in Nat /\ 0 \notin deletedUsers'
  BY <1>1 DEF Users, Tables
<1>3. Unlinked \in Links /\ Unlinked.user = 0
  BY DEF Unlinked, Links
<1>4. Tables'
  BY <1>1, <1>2, <1>3 DEF Tables
<1>5. ErasedStaysErased'
  BY <1>1, <1>2, <1>3 DEF ErasedStaysErased
<1> QED
  BY <1>1, <1>3, <1>4, <1>5

\* Every step keeps the invariant and moves no identity.
LEMMA IdentitiesStep ==
  ASSUME Tables, ErasedStaysErased, [IdentitiesNext]_idVars
  PROVE  /\ Tables' /\ ErasedStaysErased'
         /\ \A t \in Subjects :
              identities[t].user # 0 => identities'[t].user \in {0, identities[t].user}
<1>1. ASSUME Tables', UNCHANGED <<identities, deletedUsers>>
      PROVE  /\ Tables' /\ ErasedStaysErased'
             /\ \A t \in Subjects :
                  identities[t].user # 0 => identities'[t].user \in {0, identities[t].user}
  BY <1>1 DEF ErasedStaysErased
<1>2. ASSUME NEW r \in SignIns, NEW s \in Subjects, NEW email \in Emails \cup {"none"},
             BeginSignIn(r, s, email)
      PROVE  Tables' /\ UNCHANGED <<identities, deletedUsers>>
  BY <1>2, StartStep DEF BeginSignIn, Points
<1>3. ASSUME NEW r \in SignIns, NEW s \in Subjects, NEW u \in Users, CountIdentities(r, u, s)
      PROVE  Tables' /\ UNCHANGED <<identities, deletedUsers>>
  <2>1. u \in Nat
    BY DEF Users, Tables
  <2> QED
    BY <1>3, <2>1, StartStep DEF CountIdentities, Points
<1>4. CASE UNCHANGED idVars
  BY <1>1, <1>4 DEF idVars, Tables
<1> QED
  BY <1>1, <1>2, <1>3, <1>4, LookUpStep, RegisterStep, LinkStep, UnlinkStep, EraseStep
     DEF IdentitiesNext

\* The invariant holds of every reachable state.
LEMMA TablesHold == IdentitiesSpec => [](Tables /\ ErasedStaysErased)
<1>1. (Tables /\ ErasedStaysErased) /\ [IdentitiesNext]_idVars => (Tables /\ ErasedStaysErased)'
  BY IdentitiesStep
<1> QED
  BY <1>1, TablesAtFirst, PTL DEF IdentitiesSpec

\* An identity opens the account it was first registered for until it is unlinked or that
\* account erased: no sign-in, with whatever address or in whatever order with others, and
\* no link moves it (identity.service.ts:52-85, migrations/003:95-100).
THEOREM NoIdentityMoves == IdentitiesSpec => IdentityNeverMoves
<1>1. (Tables /\ ErasedStaysErased) /\ [IdentitiesNext]_idVars
        => [\A s \in Subjects :
              identities[s].user # 0 => identities'[s].user \in {0, identities[s].user}]_idVars
  BY IdentitiesStep
<1> QED
  BY <1>1, TablesHold, PTL DEF IdentitiesSpec, IdentityNeverMoves

\* No identity opens an account that was erased, whatever was in flight when it was
\* (auth.controller.ts:217-226, migrations/005:1-8).
THEOREM ErasedAccountsStayErased == IdentitiesSpec => []ErasedStaysErased
<1>1. Tables /\ ErasedStaysErased => ErasedStaysErased
  OBVIOUS
<1> QED
  BY <1>1, TablesHold, PTL

(***************************************************************************)
(* Requests served one at a time.  What a request has read still holds     *)
(* when it writes, so a sign-in answers the account of its identity; and   *)
(* as a user has one identity of a provider, of two that were counted one  *)
(* is of another provider than the one that goes.                          *)
(***************************************************************************)
Registered ==
  /\ users <= MaxUsers
  /\ \A s \in Subjects : identities[s].user <= users
  /\ \A r \in SignIns : signIns[r].user <= users

OnePerProvider ==
  \A s, t \in Subjects :
    s # t /\ identities[s].user # 0 /\ identities[s].user = identities[t].user
      => ProviderOf[s] # ProviderOf[t]

Pending(r) == signIns[r].pc # "idle"

\* What a request that is served alone knows of the table.
UpToDate(r) ==
  /\ signIns[r].pc = "email" => identities[signIns[r].subject].user = 0
  /\ signIns[r].pc = "register" => identities[signIns[r].subject].user \in {0, signIns[r].user}
  /\ signIns[r].pc = "delete" =>
       /\ signIns[r].user # 0
       /\ \E s, t \in Subjects : /\ s # t
                                 /\ identities[s].user = signIns[r].user
                                 /\ identities[t].user = signIns[r].user

OneAtATime ==
  /\ \A r, q \in SignIns : Pending(r) /\ Pending(q) => r = q
  /\ \A r \in SignIns : UpToDate(r)

PeopleInv ==
  /\ Tables /\ ErasedStaysErased /\ Registered /\ OnePerProvider
  /\ ~ idOverlapped => OneAtATime
  /\ idOverlapped \in BOOLEAN

\* The invariant holds of the empty tables.
LEMMA PeopleAtFirst == IdentitiesInit => PeopleInv
<1> SUFFICES ASSUME IdentitiesInit PROVE PeopleInv
  OBVIOUS
<1>1. Tables /\ ErasedStaysErased
  BY TablesAtFirst
<1>2. /\ \A r \in SignIns : signIns[r].pc = "idle" /\ signIns[r].user = 0
      /\ \A s \in Subjects : identities[s].user = 0
      /\ users = 0 /\ idOverlapped = FALSE
  BY DEF IdentitiesInit, NoSignIn, Unlinked
<1>3. Registered /\ OnePerProvider
  BY <1>2, IdentitiesAssumption DEF Registered, OnePerProvider
<1>4. OneAtATime
  BY <1>2 DEF OneAtATime, Pending, UpToDate
<1> QED
  BY <1>1, <1>2, <1>3, <1>4 DEF PeopleInv

\* Two elements of a set that has more than one.
LEMMA TwoElements ==
  ASSUME NEW S, IsFiniteSet(S), Cardinality(S) > 1
  PROVE  \E s, t \in S : s # t
<1>1. S # {} /\ \A x : S # {x}
  BY FS_EmptySet, FS_Singleton
<1>2. PICK s \in S : TRUE
  BY <1>1
<1>3. S # {s}
  BY <1>1
<1>4. \E t \in S : t # s
  BY <1>2, <1>3
<1> QED
  BY <1>2, <1>4

\* A request that begins: it is alone, or nothing is said of the schedule any more.
LEMMA StartKeeps ==
  ASSUME PeopleInv, Tables', ErasedStaysErased', NEW r \in SignIns, NEW kind, NEW pc, NEW s \in Subjects,
         NEW email, NEW u \in Nat, u <= users, Start(r, kind, pc, s, email, u),
         pc \in {"identity", "delete"},
         pc = "delete" => u # 0 /\ Cardinality(LinksOf(u)) > 1
  PROVE  PeopleInv'
<1>1. /\ signIns[r].pc = "idle"
      /\ signIns' = [signIns EXCEPT ![r] =
           [pc |-> pc, kind |-> kind, subject |-> s, email |-> email, user |-> u]]
      /\ idOverlapped' = (idOverlapped \/ InFlight)
      /\ UNCHANGED <<users, deletedUsers, identities>>
  BY DEF Start, SignInStep
<1>2. /\ signIns'[r].pc = pc /\ signIns'[r].subject = s /\ signIns'[r].user = u
      /\ \A q \in SignIns \ {r} : signIns'[q] = signIns[q]
  BY <1>1 DEF PeopleInv, Tables
<1>3. Registered' /\ OnePerProvider'
  BY <1>1, <1>2 DEF PeopleInv, Registered, OnePerProvider
<1>4. ASSUME ~ idOverlapped' PROVE OneAtATime'
  <2>1. \A q \in SignIns : q # r => signIns'[q].pc = "idle"
    BY <1>1, <1>2, <1>4 DEF InFlight
  <2>2. pc = "delete" => \E a, b \in Subjects : /\ a # b
                                                /\ identities[a].user = u
                                                /\ identities[b].user = u
    <3>1. IsFiniteSet(LinksOf(u))
      <4>1. LinksOf(u) \in SUBSET Subjects
        BY DEF LinksOf
      <4> QED
        BY <4>1, IdentitiesAssumption, FS_Subset
    <3>2. pc = "delete" => \E a, b \in LinksOf(u) : a # b
      BY <3>1, TwoElements
    <3> QED
      BY <3>2 DEF LinksOf
  <2>3. UpToDate(r)'
    BY <1>1, <1>2, <2>2 DEF UpToDate
  <2>4. \A q \in SignIns : q # r => UpToDate(q)'
    BY <2>1 DEF UpToDate
  <2> QED
    BY <2>1, <2>3, <2>4 DEF OneAtATime, Pending
<1> QED
  BY <1>1, <1>3, <1>4 DEF PeopleInv

\* The look-ups: what is read is what the table says.
LEMMA LookUpKeeps ==
  ASSUME PeopleInv, Tables', ErasedStaysErased', NEW r \in SignIns, FindIdentity(r) \/ FindByEmail(r)
  PROVE  PeopleInv'
<1>1. /\ UNCHANGED <<users, deletedUsers, identities, idOverlapped>>
      /\ signIns[r].pc \in {"identity", "email"} /\ signIns[r] \in Request
      /\ signIns[r].subject \in Subjects
      /\ signIns[r].user <= users
  BY DEF FindIdentity, FindByEmail, PeopleInv, Tables, Registered
<1>2. \A pc, u : /\ [signIns[r] EXCEPT !.user = u, !.pc = pc].pc = pc
                 /\ [signIns[r] EXCEPT !.user = u, !.pc = pc].user = u
                 /\ [signIns[r] EXCEPT !.user = u, !.pc = pc].subject = signIns[r].subject
                 /\ [signIns[r] EXCEPT !.pc = pc, !.user = u].pc = pc
                 /\ [signIns[r] EXCEPT !.pc = pc, !.user = u].user = u
                 /\ [signIns[r] EXCEPT !.pc = pc, !.user = u].subject = signIns[r].subject
                 /\ [signIns[r] EXCEPT !.pc = pc].pc = pc
                 /\ [signIns[r] EXCEPT !.pc = pc].user = signIns[r].user
                 /\ [signIns[r] EXCEPT !.pc = pc].subject = signIns[r].subject
  BY <1>1 DEF Request
<1>3. PICK t : /\ SignInStep(r, t) /\ t.subject = signIns[r].subject
               /\ t.user \in {signIns[r].user} \cup {identities[s].user : s \in Subjects}
               /\ t.pc \in {"email", "register"}
               /\ t.pc = "email" => identities[t.subject].user = 0
               /\ \/ signIns[r].pc = "email"
                  \/ identities[t.subject].user \in {0, t.user}
  <2>1. CASE FindIdentity(r)
    <3> DEFINE u == identities[signIns[r].subject].user
               pc == IF u = 0 /\ signIns[r].email # "none" THEN "email" ELSE "register"
               t == [signIns[r] EXCEPT !.user = u, !.pc = pc]
    <3>1. SignInStep(r, t)
      BY <2>1 DEF FindIdentity
    <3>2. t.subject = signIns[r].subject /\ t.user = u /\ t.pc = pc
      BY <1>2
    <3> HIDE DEF t
    <3> QED
      BY <1>1, <3>1, <3>2
  <2>2. CASE FindByEmail(r)
    <3>1. signIns[r].pc = "email"
      BY <2>2 DEF FindByEmail
    <3>2. CASE SignInStep(r, [signIns[r] EXCEPT !.pc = "register"])
      BY <1>2, <3>1, <3>2
    <3>3. ASSUME NEW s \in Subjects,
                 SignInStep(r, [signIns[r] EXCEPT !.pc = "register", !.user = identities[s].user])
          PROVE  \E t : /\ SignInStep(r, t) /\ t.subject = signIns[r].subject
                        /\ t.user \in {signIns[r].user} \cup {identities[a].user : a \in Subjects}
                        /\ t.pc = "register"
      <4> DEFINE t == [signIns[r] EXCEPT !.pc = "register", !.user = identities[s].user]
      <4>1. SignInStep(r, t)
        BY <3>3
      <4>2. t.subject = signIns[r].subject /\ t.user = identities[s].user /\ t.pc = "register"
        BY <1>2
      <4> HIDE DEF t
      <4> QED
        BY <4>1, <4>2
    <3> QED
      BY <2>2, <3>1, <3>2, <3>3 DEF FindByEmail
  <2> QED
    BY <2>1, <2>2
<1>4. signIns'[r] = t /\ \A q \in SignIns \ {r} : signIns'[q] = signIns[q]
  BY <1>3 DEF PeopleInv, Tables, SignInStep
<1>5. Registered' /\ OnePerProvider'
  BY <1>1, <1>3, <1>4 DEF PeopleInv, Registered, OnePerProvider
<1>6. ASSUME ~ idOverlapped' PROVE OneAtATime'
  <2>1. OneAtATime
    BY <1>1, <1>6 DEF PeopleInv
  <2>2. identities[t.subject].user \in {0, t.user}
    BY <1>3, <2>1 DEF OneAtATime, UpToDate
  <2>3. UpToDate(r)'
    BY <1>1, <1>3, <1>4, <2>2 DEF UpToDate
  <2>4. \A q \in SignIns \ {r} : UpToDate(q)'
    BY <1>1, <1>4, <2>1 DEF OneAtATime, UpToDate
  <2> QED
    BY <1>1, <1>4, <2>1, <2>3, <2>4 DEF OneAtATime, Pending
<1> QED
  BY <1>1, <1>5, <1>6 DEF PeopleInv

\* A row that is written keeps the index: the insert was not barred.
LEMMA WriteKeepsIndex ==
  ASSUME PeopleInv, NEW s, NEW u, NEW email, Writes(s, u, email),
         identities[s].user = 0 => ~ Crowded(u, s)
  PROVE  /\ OnePerProvider'
         /\ \A t \in Subjects : identities'[t].user =
              IF t = s /\ identities[s].user = 0 THEN u ELSE identities[t].user
<1>1. PICK addr \in {email, identities[s].email} :
        identities' = [identities EXCEPT ![s] =
          [user |-> IF identities[s].user = 0 THEN u ELSE identities[s].user, email |-> addr]]
  BY DEF Writes
<1>2. \A t \in Subjects : identities'[t].user =
        IF t = s /\ identities[s].user = 0 THEN u ELSE identities[t].user
  BY <1>1 DEF PeopleInv, Tables, Writes
<1>3. OnePerProvider'
  <2> SUFFICES ASSUME NEW a \in Subjects, NEW b \in Subjects, a # b, identities'[a].user # 0,
                      identities'[a].user = identities'[b].user
               PROVE  ProviderOf[a] # ProviderOf[b]
    BY DEF OnePerProvider
  <2>1. CASE identities[s].user # 0 \/ (a # s /\ b # s)
    BY <1>2, <2>1 DEF PeopleInv, OnePerProvider
  <2>2. CASE identities[s].user = 0 /\ a = s
    BY <1>2, <2>2 DEF Crowded, LinksOf
  <2>3. CASE identities[s].user = 0 /\ b = s
    BY <1>2, <2>3 DEF Crowded, LinksOf
  <2> QED
    BY <2>1, <2>2, <2>3
<1> QED
  BY <1>2, <1>3

\* The end of a request.
LEMMA EndsAlone ==
  ASSUME PeopleInv, NEW r \in SignIns, SignInStep(r, NoSignIn), Pending(r)
  PROVE  /\ signIns'[r].pc = "idle" /\ signIns'[r].user = 0
         /\ \A q \in SignIns \ {r} : signIns'[q] = signIns[q]
         /\ UNCHANGED idOverlapped => (~ idOverlapped' => OneAtATime')
<1>1. /\ signIns'[r].pc = "idle" /\ signIns'[r].user = 0
      /\ \A q \in SignIns \ {r} : signIns'[q] = signIns[q]
  BY DEF PeopleInv, Tables, SignInStep, NoSignIn
<1>2. ASSUME UNCHANGED idOverlapped, ~ idOverlapped' PROVE OneAtATime'
  <2>1. \A q \in SignIns : signIns'[q].pc = "idle"
    BY <1>1, <1>2 DEF PeopleInv, OneAtATime, Pending
  <2> QED
    BY <2>1 DEF OneAtATime, UpToDate, Pending
<1> QED
  BY <1>1, <1>2

\* The registration.
LEMMA RegisterKeeps ==
  ASSUME PeopleInv, Tables', ErasedStaysErased', NEW r \in SignIns, Register(r)
  PROVE  /\ PeopleInv'
         /\ ~ idOverlapped => AnswersItsAccount(r)
<1> DEFINE s == signIns[r].subject
           u == IF signIns[r].user = 0 THEN users + 1 ELSE signIns[r].user
           email == signIns[r].email
<1>1. /\ s \in Subjects /\ u \in Nat /\ email \in Emails \cup {"none"} /\ users \in Nat
      /\ signIns[r].user \in Nat /\ signIns[r].user <= users
      /\ signIns[r].pc = "register" /\ Pending(r)
  BY DEF Register, PeopleInv, Tables, Request, Registered, Pending
<1>2. /\ SignInStep(r, NoSignIn) /\ UNCHANGED <<deletedUsers, idOverlapped>>
      /\ signIns[r].user = 0 => users < MaxUsers
  BY DEF Register
<1>3. /\ signIns'[r].user = 0 /\ \A q \in SignIns \ {r} : signIns'[q] = signIns[q]
      /\ ~ idOverlapped' => OneAtATime'
  BY <1>1, <1>2, EndsAlone
<1>4. CASE Barred(u, s)
  <2>1. UNCHANGED <<users, identities>>
    BY <1>4 DEF Register
  <2>2. Registered' /\ OnePerProvider'
    BY <1>1, <1>3, <2>1 DEF PeopleInv, Registered, OnePerProvider
  <2>3. AnswersItsAccount(r)
    BY <1>4 DEF AnswersItsAccount, AnsweredUser
  <2> QED
    BY <1>2, <1>3, <2>2, <2>3 DEF PeopleInv
<1>5. CASE ~ Barred(u, s)
  <2>1. /\ users' = IF u > users THEN u ELSE users
        /\ identities' = [identities EXCEPT ![s] = Upserted(@, u, email)]
    BY <1>5 DEF Register
  <2>2. Writes(s, u, email)
    BY <1>1, <2>1 DEF Writes, Upserted, PeopleInv, Tables
  <2>3. identities[s].user = 0 => ~ Crowded(u, s)
    BY <1>5 DEF Barred
  <2> HIDE DEF s, email
  <2>4. /\ OnePerProvider'
        /\ \A t \in Subjects : identities'[t].user =
             IF t = s /\ identities[s].user = 0 THEN u ELSE identities[t].user
    BY <2>2, <2>3, WriteKeepsIndex
  <2>5. users' \in Nat /\ users' <= MaxUsers /\ users <= users' /\ u <= users'
    BY <1>1, <1>2, <2>1, IdentitiesAssumption DEF PeopleInv, Registered
  <2>6. Registered'
    <3> HIDE DEF u
    <3>1. \A t \in Subjects : identities[t].user \in Nat /\ identities[t].user <= users
      BY DEF PeopleInv, Tables, Links, Registered
    <3>2. \A t \in Subjects : identities'[t].user <= users'
      BY <1>1, <2>4, <2>5, <3>1
    <3>3. \A q \in SignIns : signIns[q].user \in Nat /\ signIns[q].user <= users
      BY DEF PeopleInv, Tables, Request, Registered
    <3>4. \A q \in SignIns : signIns'[q].user <= users'
      BY <1>1, <1>3, <2>5, <3>3
    <3> QED
      BY <2>5, <3>2, <3>4 DEF Registered
  <2>7. ASSUME ~ idOverlapped PROVE AnswersItsAccount(r)
    <3>1. identities[s].user \in {0, signIns[r].user}
      BY <1>1, <2>7 DEF PeopleInv, OneAtATime, UpToDate, s
    <3>2. identities'[s].user = u
      BY <1>1, <2>4, <3>1
    <3> QED
      BY <3>2 DEF AnswersItsAccount, AnsweredUser, s
  <2> QED
    BY <1>2, <1>3, <2>4, <2>6, <2>7 DEF PeopleInv
<1> QED
  BY <1>4, <1>5

\* A link, or an erasure: while no other request is open, nothing they could spoil.
LEMMA LinkKeeps ==
  ASSUME PeopleInv, Tables', ErasedStaysErased', NEW u \in Users, NEW s \in Subjects,
         NEW email \in Emails \cup {"none"}, Link(u, s, email)
  PROVE  PeopleInv'
<1>1. /\ u \in Nat /\ u <= users /\ UNCHANGED <<users, deletedUsers, signIns>>
      /\ idOverlapped' = (idOverlapped \/ InFlight)
      /\ \A t \in Subjects : identities[t].user \in Nat /\ identities[t].user <= users
  BY DEF Link, Users, PeopleInv, Tables, Links, Registered
<1>2. OnePerProvider' /\ \A t \in Subjects : identities'[t].user <= users
  <2>1. CASE identities[s].user = 0
    <3>1. Writes(s, u, email)
      BY <1>1, <2>1 DEF Link, Writes, PeopleInv, Tables
    <3>2. ~ Crowded(u, s)
      BY <2>1 DEF Link, Barred
    <3> QED
      BY <1>1, <3>1, <3>2, WriteKeepsIndex
  <2>2. CASE identities[s].user # 0
    <3>1. identities' = identities
      BY <2>2 DEF Link, PeopleInv, Tables
    <3> QED
      BY <1>1, <3>1 DEF PeopleInv, OnePerProvider
  <2> QED
    BY <2>1, <2>2
<1>3. Registered'
  BY <1>1, <1>2 DEF PeopleInv, Registered
<1>4. ~ idOverlapped' => OneAtATime'
  BY <1>1 DEF InFlight, OneAtATime, Pending, UpToDate
<1> QED
  BY <1>1, <1>2, <1>3, <1>4 DEF PeopleInv

\* Rows that go, and requests that end, leave the index and the row numbers as they were.
LEMMA RemovalKeeps ==
  ASSUME PeopleInv, UNCHANGED users,
         \A s \in Subjects : identities'[s] = Unlinked \/ identities'[s] = identities[s],
         \A q \in SignIns : signIns'[q].user \in {0, signIns[q].user}
  PROVE  Registered' /\ OnePerProvider'
<1>1. /\ users \in Nat
      /\ \A t \in Subjects : identities'[t].user = 0 \/ identities'[t].user = identities[t].user
  BY DEF PeopleInv, Tables, Unlinked
<1>2. Registered'
  BY <1>1 DEF PeopleInv, Registered
<1>3. OnePerProvider'
  BY <1>1 DEF PeopleInv, OnePerProvider
<1> QED
  BY <1>2, <1>3

\* An account that goes takes its rows, whatever else is open.
LEMMA EraseKeeps ==
  ASSUME PeopleInv, Tables', ErasedStaysErased', NEW u \in Users, EraseUser(u)
  PROVE  PeopleInv'
<1>1. /\ UNCHANGED <<users, signIns>> /\ idOverlapped' = (idOverlapped \/ InFlight)
      /\ \A s \in Subjects : identities'[s] = Unlinked \/ identities'[s] = identities[s]
  BY DEF EraseUser
<1>2. Registered' /\ OnePerProvider'
  BY <1>1, RemovalKeeps
<1>3. ~ idOverlapped' => OneAtATime'
  BY <1>1 DEF InFlight, OneAtATime, Pending, UpToDate
<1> QED
  BY <1>1, <1>2, <1>3 DEF PeopleInv

\* An unlinking takes one identity of a provider, and leaves the other that was counted.
LEMMA UnlinkKeeps ==
  ASSUME PeopleInv, Tables', ErasedStaysErased', NEW r \in SignIns, DeleteIdentities(r)
  PROVE  /\ PeopleInv'
         /\ ~ idOverlapped => LeavesAWayIn(r)
<1>1. /\ signIns[r].pc = "delete" /\ Pending(r) /\ SignInStep(r, NoSignIn)
      /\ UNCHANGED <<users, deletedUsers, idOverlapped>>
      /\ identities' = [s \in Subjects |->
           IF /\ identities[s].user = signIns[r].user
              /\ ProviderOf[s] = ProviderOf[signIns[r].subject]
           THEN Unlinked ELSE identities[s]]
  BY DEF DeleteIdentities, Pending
<1>2. /\ signIns'[r].user = 0 /\ \A q \in SignIns \ {r} : signIns'[q] = signIns[q]
      /\ ~ idOverlapped' => OneAtATime'
  BY <1>1, EndsAlone
<1>3. Registered' /\ OnePerProvider'
  BY <1>1, <1>2, RemovalKeeps
<1>4. ASSUME ~ idOverlapped PROVE LeavesAWayIn(r)
  <2>1. PICK s, t \in Subjects : /\ s # t /\ signIns[r].user # 0
                                 /\ identities[s].user = signIns[r].user
                                 /\ identities[t].user = signIns[r].user
    BY <1>1, <1>4 DEF PeopleInv, OneAtATime, UpToDate
  <2>2. ProviderOf[s] # ProviderOf[t]
    BY <2>1 DEF PeopleInv, OnePerProvider
  <2>3. identities'[s] = identities[s] \/ identities'[t] = identities[t]
    BY <1>1, <2>2
  <2> QED
    BY <2>1, <2>3 DEF LeavesAWayIn
<1> QED
  BY <1>1, <1>2, <1>3, <1>4 DEF PeopleInv

\* The request that a step registers or unlinks is the only one it does so for.
LEMMA PeopleStep ==
  ASSUME PeopleInv, [IdentitiesNext]_idVars
  PROVE  /\ PeopleInv'
         /\ ~ idOverlapped => \A r \in SignIns : AnswersItsAccount(r) /\ LeavesAWayIn(r)
<1>1. Tables' /\ ErasedStaysErased'
  BY IdentitiesStep DEF PeopleInv
<1>2. ~ idOverlapped => \A r \in SignIns : AnswersItsAccount(r) /\ LeavesAWayIn(r)
  <2>1. \A r \in SignIns : ~ Register(r) => AnswersItsAccount(r)
    BY DEF AnswersItsAccount
  <2>2. \A r \in SignIns : ~ DeleteIdentities(r) => LeavesAWayIn(r)
    BY DEF LeavesAWayIn
  <2> QED
    BY <1>1, <2>1, <2>2, RegisterKeeps, UnlinkKeeps
<1>3. ASSUME NEW r \in SignIns, NEW s \in Subjects, NEW email \in Emails \cup {"none"},
             BeginSignIn(r, s, email)
      PROVE  PeopleInv'
  <2>1. 0 <= users
    BY DEF PeopleInv, Tables
  <2> QED
    BY <1>1, <1>3, <2>1, StartKeeps DEF BeginSignIn
<1>4. ASSUME NEW r \in SignIns, NEW s \in Subjects, NEW u \in Users, CountIdentities(r, u, s)
      PROVE  PeopleInv'
  <2>1. u \in Nat /\ u # 0 /\ u <= users
    BY DEF Users, PeopleInv, Tables
  <2> QED
    BY <1>1, <1>4, <2>1, StartKeeps DEF CountIdentities, HasSpare
<1>5. ASSUME UNCHANGED idVars PROVE PeopleInv'
  <2>1. UNCHANGED <<users, identities, signIns, idOverlapped>>
    BY <1>5 DEF idVars
  <2> QED
    BY <1>1, <2>1 DEF PeopleInv, Registered, OnePerProvider, OneAtATime, Pending, UpToDate
<1>6. PeopleInv'
  BY <1>1, <1>3, <1>4, <1>5, LookUpKeeps, RegisterKeeps, UnlinkKeeps, EraseKeeps, LinkKeeps
     DEF IdentitiesNext
<1> QED
  BY <1>2, <1>6

\* The invariant holds of every reachable state.
LEMMA PeopleHold == IdentitiesSpec => []PeopleInv
<1>1. PeopleInv /\ [IdentitiesNext]_idVars => PeopleInv'
  BY PeopleStep
<1> QED
  BY <1>1, PeopleAtFirst, PTL DEF IdentitiesSpec

\* Requests served one at a time: a sign-in answers the account that its identity opens
\* from then on, and unlinking leaves its user a way in (identity.service.ts:44-107,
\* migrations/003:53-110).
THEOREM SignInsServedAlone == IdentitiesSpec => SerialIdentities
<1>1. PeopleInv /\ [IdentitiesNext]_idVars
        => [~ idOverlapped => \A r \in SignIns : AnswersItsAccount(r) /\ LeavesAWayIn(r)]_idVars
  BY PeopleStep
<1> QED
  BY <1>1, PeopleHold, PTL DEF IdentitiesSpec, SerialIdentities

\* The users are as many as were inserted, and each has one identity of a provider at most.
THEOREM IdentitiesKeepTheirTypes == IdentitiesSpec => []IdentitiesTypeOK
<1>1. PeopleInv => IdentitiesTypeOK
  <2> SUFFICES ASSUME PeopleInv PROVE IdentitiesTypeOK
    OBVIOUS
  <2>1. users \in 0 .. MaxUsers /\ deletedUsers \subseteq 1 .. users
    BY IdentitiesAssumption DEF PeopleInv, Tables, Registered
  <2>2. identities \in [Subjects -> [user : 0 .. users, email : Emails \cup {"none"}]]
    BY DEF PeopleInv, Tables, Registered, Links
  <2>3. \A u \in Users : \A s \in LinksOf(u) : ~ Crowded(u, s)
    BY DEF PeopleInv, Tables, OnePerProvider, Users, LinksOf, Crowded
  <2>4. \A r \in SignIns : /\ signIns[r].pc \in {"idle", "identity", "email", "register", "delete"}
                           /\ signIns[r].user \in 0 .. users
    BY DEF PeopleInv, Tables, Registered, Request, Points
  <2> QED
    BY <2>1, <2>2, <2>3, <2>4 DEF IdentitiesTypeOK, PeopleInv
<1> QED
  BY <1>1, PeopleHold, PTL

-----------------------------------------------------------------------------
(***************************************************************************)
(* Sends.  A request that has passed the count of a limit may still add a  *)
(* send to it, whatever the others do meanwhile; a limit is therefore      *)
(* counted with the requests past it.                                      *)
(***************************************************************************)
SendPhases == {"idle", "count", "put", "record"}
Challenges == [attempts : 0 .. MaxAttempts, consumed : BOOLEAN, expired : BOOLEAN,
               stored : BOOLEAN]

Past(l) == {s \in Senders : \/ senders[s].pc \in {"put", "record"}
                            \/ senders[s].pc = "count" /\ senders[s].limit > l}

SendersOK ==
  /\ senders \in [Senders -> [pc : SendPhases, limit : Nat]]
  /\ \A s \in Senders :
       senders[s].limit \in IF senders[s].pc = "idle" THEN {0} ELSE Limits

SendsInv ==
  /\ SendersOK /\ sent \in [Limits -> Nat]
  /\ \A l \in Limits : sent[l] + Cardinality(Past(l)) < LimitOf[l] + Cardinality(Senders)

\* Limits are numbered from 1.
LEMMA LimitsAreNumbers ==
  /\ \A l \in Limits : l \in Nat /\ l >= 1 /\ LimitOf[l] \in Nat /\ LimitOf[l] >= 1
  /\ 1 \in Limits
<1> DEFINE n == Cardinality(Limits)
<1>1. n \in Nat /\ Limits = 1 .. n /\ LimitOf \in [Limits -> Nat \ {0}] /\ Limits # {}
  BY OtpAssumption, FS_CardinalityType
<1> HIDE DEF n
<1>2. \A l \in Limits : l \in Nat /\ l >= 1 /\ LimitOf[l] \in Nat /\ LimitOf[l] >= 1
  BY <1>1
<1>3. 1 \in Limits
  BY <1>1
<1> QED
  BY <1>2, <1>3

\* The last limit is the one that no other follows.
LEMMA LastLimit ==
  ASSUME NEW l \in Limits, l + 1 \notin Limits
  PROVE  \A k \in Limits : k # l => k < l
<1> DEFINE n == Cardinality(Limits)
<1>1. n \in Nat /\ Limits = 1 .. n
  BY OtpAssumption, FS_CardinalityType
<1> HIDE DEF n
<1> QED
  BY <1>1

\* Some of the requests are past a limit.
LEMMA PastIsFinite ==
  ASSUME NEW l
  PROVE  /\ IsFiniteSet(Past(l)) /\ Cardinality(Past(l)) \in Nat
         /\ Cardinality(Senders) \in Nat /\ Cardinality(Past(l)) <= Cardinality(Senders)
<1>1. Past(l) \in SUBSET Senders /\ IsFiniteSet(Senders)
  BY OtpAssumption DEF Past
<1> QED
  BY <1>1, FS_Subset, FS_CardinalityType

\* When fewer requests are past a limit and no more sends are on record.
LEMMA FewerPast ==
  ASSUME SendsInv, SendersOK', sent' \in [Limits -> Nat],
         \A l \in Limits : sent'[l] <= sent[l] /\ Past(l)' \subseteq Past(l)
  PROVE  SendsInv'
<1> SUFFICES ASSUME NEW l \in Limits
             PROVE  sent'[l] + Cardinality(Past(l)') < LimitOf[l] + Cardinality(Senders)
  BY DEF SendsInv
<1>1. Cardinality(Past(l)') <= Cardinality(Past(l)) /\ IsFiniteSet(Past(l)')
  BY PastIsFinite, FS_Subset
<1>2. Cardinality(Past(l)') \in Nat
  BY <1>1, FS_CardinalityType
<1>3. /\ sent[l] \in Nat /\ sent'[l] \in Nat /\ sent'[l] <= sent[l] /\ LimitOf[l] \in Nat
      /\ Cardinality(Past(l)) \in Nat /\ Cardinality(Senders) \in Nat
      /\ sent[l] + Cardinality(Past(l)) < LimitOf[l] + Cardinality(Senders)
  BY PastIsFinite, LimitsAreNumbers DEF SendsInv
<1> QED
  BY <1>1, <1>2, <1>3

\* What a step of one request leaves of the others.
LEMMA SenderMoves ==
  ASSUME SendersOK, NEW s \in Senders, NEW pc \in SendPhases, NEW limit \in Nat,
         limit \in IF pc = "idle" THEN {0} ELSE Limits, SenderStep(s, pc, limit)
  PROVE  /\ SendersOK'
         /\ \A r \in Senders \ {s} : senders'[r] = senders[r]
         /\ senders'[s].pc = pc /\ senders'[s].limit = limit
  BY DEF SendersOK, SenderStep

\* The invariant holds at first.
LEMMA SendsAtFirst == OtpInit => SendsInv
<1> SUFFICES ASSUME OtpInit PROVE SendsInv
  OBVIOUS
<1>1. SendersOK /\ sent \in [Limits -> Nat]
  BY DEF OtpInit, SendersOK, IdleSender, SendPhases
<1>2. \A l : Past(l) = {}
  BY DEF OtpInit, Past, IdleSender
<1>3. Cardinality(Senders) \in Nat
  BY PastIsFinite
<1> QED
  BY <1>1, <1>2, <1>3, FS_EmptySet, LimitsAreNumbers DEF OtpInit, SendsInv

\* Every step of the codes keeps the invariant.
LEMMA SendsStep ==
  ASSUME SendsInv, [OtpNext]_otpVars PROVE SendsInv'
<1>1. ASSUME UNCHANGED <<sent, senders>> PROVE SendsInv'
  BY <1>1 DEF SendsInv, SendersOK, Past
<1>2. ASSUME NEW s \in Senders, BeginOtp(s) PROVE SendsInv'
  <2>1. senders[s].pc = "idle" /\ SenderStep(s, "count", 1) /\ UNCHANGED sent
    BY <1>2 DEF BeginOtp
  <2>2. /\ SendersOK'
        /\ \A r \in Senders \ {s} : senders'[r] = senders[r]
        /\ senders'[s].pc = "count" /\ senders'[s].limit = 1
    BY <2>1, LimitsAreNumbers, SenderMoves DEF SendsInv, SendPhases
  <2>3. \A l \in Limits : Past(l)' \subseteq Past(l)
    BY <2>2, LimitsAreNumbers DEF Past
  <2> QED
    BY <2>1, <2>2, <2>3, FewerPast DEF SendsInv
<1>3. ASSUME NEW s \in Senders, CountSends(s) PROVE SendsInv'
  <2> DEFINE l == senders[s].limit
  <2>1. /\ senders[s].pc = "count" /\ UNCHANGED sent /\ l \in Limits /\ l \in Nat
        /\ \/ SenderStep(s, "idle", 0)
           \/ ~ Reached(l) /\ l + 1 \in Limits /\ SenderStep(s, "count", l + 1)
           \/ ~ Reached(l) /\ l + 1 \notin Limits /\ SenderStep(s, "put", l)
    BY <1>3, LimitsAreNumbers DEF CountSends, SendsInv, SendersOK
  <2> HIDE DEF l
  <2>2. CASE SenderStep(s, "idle", 0)
    <3>1. /\ SendersOK'
          /\ \A r \in Senders \ {s} : senders'[r] = senders[r]
          /\ senders'[s].pc = "idle" /\ senders'[s].limit = 0
      BY <2>2, SenderMoves DEF SendsInv, SendPhases
    <3>2. \A k \in Limits : Past(k)' \subseteq Past(k)
      BY <3>1 DEF Past
    <3> QED
      BY <2>1, <3>1, <3>2, FewerPast DEF SendsInv
  <2>3. ASSUME ~ Reached(l), SendersOK', \A r \in Senders \ {s} : senders'[r] = senders[r],
               \A k \in Limits : k # l => (s \in Past(k)' => s \in Past(k))
        PROVE  SendsInv'
    <3> SUFFICES ASSUME NEW k \in Limits
                 PROVE  sent[k] + Cardinality(Past(k)') < LimitOf[k] + Cardinality(Senders)
      BY <2>1, <2>3 DEF SendsInv
    <3>0. /\ sent[k] \in Nat /\ LimitOf[k] \in Nat /\ Cardinality(Past(k)) \in Nat
          /\ Cardinality(Senders) \in Nat /\ IsFiniteSet(Past(k))
          /\ sent[k] + Cardinality(Past(k)) < LimitOf[k] + Cardinality(Senders)
      BY PastIsFinite, LimitsAreNumbers DEF SendsInv
    <3>1. CASE k = l
      <4>1. Past(k)' \in SUBSET Senders /\ IsFiniteSet(Senders)
        BY OtpAssumption DEF Past
      <4>2. Cardinality(Past(k)') \in Nat /\ Cardinality(Past(k)') <= Cardinality(Senders)
        BY <4>1, FS_Subset, FS_CardinalityType
      <4>3. sent[k] < LimitOf[k]
        BY <2>3, <3>0, <3>1 DEF Reached
      <4> QED
        BY <3>0, <4>2, <4>3
    <3>2. CASE k # l
      <4>1. Past(k)' \subseteq Past(k)
        BY <2>3, <3>2 DEF Past
      <4>2. Cardinality(Past(k)') \in Nat /\ Cardinality(Past(k)') <= Cardinality(Past(k))
        BY <3>0, <4>1, FS_Subset, FS_CardinalityType
      <4> QED
        BY <3>0, <4>2
    <3> QED
      BY <3>1, <3>2
  <2>4. CASE ~ Reached(l) /\ l + 1 \in Limits /\ SenderStep(s, "count", l + 1)
    <3>1. /\ SendersOK'
          /\ \A r \in Senders \ {s} : senders'[r] = senders[r]
          /\ senders'[s].pc = "count" /\ senders'[s].limit = l + 1
      BY <2>1, <2>4, SenderMoves DEF SendsInv, SendPhases
    <3>2. \A k \in Limits : k # l => (s \in Past(k)' => s \in Past(k))
      BY <2>1, <3>1, LimitsAreNumbers DEF Past, l
    <3> QED
      BY <2>3, <2>4, <3>1, <3>2
  <2>5. CASE ~ Reached(l) /\ l + 1 \notin Limits /\ SenderStep(s, "put", l)
    <3>1. /\ SendersOK'
          /\ \A r \in Senders \ {s} : senders'[r] = senders[r]
          /\ senders'[s].pc = "put" /\ senders'[s].limit = l
      BY <2>1, <2>5, SenderMoves DEF SendsInv, SendPhases
    <3>2. \A k \in Limits : k # l => k < l
      BY <2>1, <2>5, LastLimit
    <3>3. \A k \in Limits : k # l => (s \in Past(k)' => s \in Past(k))
      BY <2>1, <3>2, LimitsAreNumbers DEF Past, l
    <3> QED
      BY <2>3, <2>5, <3>1, <3>3
  <2> QED
    BY <2>1, <2>2, <2>4, <2>5
<1>4. ASSUME NEW s \in Senders, PutChallenge(s) PROVE SendsInv'
  <2>1. senders[s].pc = "put" /\ SenderStep(s, "record", senders[s].limit) /\ UNCHANGED sent
    BY <1>4 DEF PutChallenge
  <2>2. senders[s].limit \in Limits /\ senders[s].limit \in Nat
    BY <2>1, LimitsAreNumbers DEF SendsInv, SendersOK
  <2>3. /\ SendersOK'
        /\ \A r \in Senders \ {s} : senders'[r] = senders[r]
        /\ senders'[s].pc = "record"
    BY <2>1, <2>2, SenderMoves DEF SendsInv, SendPhases
  <2>4. \A l \in Limits : Past(l)' \subseteq Past(l)
    BY <2>1, <2>3 DEF Past
  <2> QED
    BY <2>1, <2>3, <2>4, FewerPast DEF SendsInv
<1>5. ASSUME NEW s \in Senders, RecordSend(s) PROVE SendsInv'
  <2>1. /\ senders[s].pc = "record" /\ SenderStep(s, "idle", 0)
        /\ sent' = [l \in Limits |-> sent[l] + 1]
    BY <1>5 DEF RecordSend
  <2>2. /\ SendersOK'
        /\ \A r \in Senders \ {s} : senders'[r] = senders[r]
        /\ senders'[s].pc = "idle"
    BY <2>1, SenderMoves DEF SendsInv, SendPhases
  <2>3. sent' \in [Limits -> Nat]
    BY <2>1 DEF SendsInv
  <2>4. ASSUME NEW l \in Limits
        PROVE  sent'[l] + Cardinality(Past(l)') < LimitOf[l] + Cardinality(Senders)
    <3>1. Past(l)' = Past(l) \ {s} /\ s \in Past(l)
      BY <2>1, <2>2 DEF Past
    <3>2. Cardinality(Past(l)') = Cardinality(Past(l)) - 1
      BY <3>1, PastIsFinite, FS_RemoveElement
    <3>3. /\ sent[l] \in Nat /\ LimitOf[l] \in Nat /\ Cardinality(Past(l)) \in Nat
          /\ Cardinality(Senders) \in Nat /\ sent'[l] = sent[l] + 1
          /\ sent[l] + Cardinality(Past(l)) < LimitOf[l] + Cardinality(Senders)
      BY <2>1, PastIsFinite, LimitsAreNumbers DEF SendsInv
    <3> QED
      BY <3>2, <3>3
  <2> QED
    BY <2>2, <2>3, <2>4 DEF SendsInv
<1>6. ASSUME NEW l \in Limits, Slide(l) PROVE SendsInv'
  <2>1. /\ sent[l] > 0 /\ sent' = [sent EXCEPT ![l] = sent[l] - 1] /\ UNCHANGED senders
        /\ sent \in [Limits -> Nat]
    BY <1>6 DEF Slide, SendsInv
  <2>2. sent' \in [Limits -> Nat] /\ \A k \in Limits : sent'[k] <= sent[k]
    BY <2>1
  <2>3. SendersOK' /\ \A k \in Limits : Past(k)' = Past(k)
    BY <2>1 DEF SendsInv, SendersOK, Past
  <2> QED
    BY <2>2, <2>3, FewerPast
<1>7. ASSUME NEW v \in Verifiers, CountAttempt(v) \/ Consume(v) PROVE SendsInv'
  BY <1>1, <1>7 DEF CountAttempt, Consume
<1>8. ASSUME NEW v \in Verifiers, NEW n \in Codes, NEW right \in BOOLEAN, GetChallenge(v, n, right)
      PROVE  SendsInv'
  BY <1>1, <1>8 DEF GetChallenge
<1>9. ASSUME NEW n \in Codes, OtpExpire(n) PROVE SendsInv'
  BY <1>1, <1>9 DEF OtpExpire
<1>10. CASE UNCHANGED otpVars
  BY <1>1, <1>10 DEF otpVars
<1> QED
  BY <1>2, <1>3, <1>4, <1>5, <1>6, <1>7, <1>8, <1>9, <1>10 DEF OtpNext

(***************************************************************************)
(* Verifications.  What the histories count of a code is what its row says *)
(* of it, as long as one request at a time holds a copy of the row.        *)
(***************************************************************************)
VerifyPhases == {"idle", "attempt", "consume"}
Verifications == [pc : VerifyPhases, code : Nat, right : BOOLEAN, copy : Challenges]

\* A request that holds a copy of the row of a code.
Copying(v, n) == verifiers[v].pc # "idle" /\ verifiers[v].code = n

CodesOK ==
  /\ challenges \in [Codes -> Challenges] /\ otpOverlapped \subseteq Codes
  /\ accepted \in [Codes -> Nat] /\ tried \in [Codes -> Nat]
  /\ verifiers \in [Verifiers -> Verifications]
  /\ \A v \in Verifiers : verifiers[v].pc # "idle" =>
       /\ verifiers[v].code \in Codes /\ Kept(verifiers[v].code)
       /\ verifiers[v].copy.attempts > 0 /\ verifiers[v].copy.stored

\* The histories of a code, its row and the copy of it agree.
Agrees(n) ==
  /\ ~ Kept(n) => accepted[n] = 0 /\ tried[n] = 0
  /\ n \notin otpOverlapped =>
       /\ \A u, v \in Verifiers : Copying(u, n) /\ Copying(v, n) => u = v
       /\ tried[n] = challenges[n].attempts
       /\ accepted[n] = IF challenges[n].consumed THEN 1 ELSE 0
       /\ \A v \in Verifiers : Copying(v, n) =>
            /\ ~ challenges[n].consumed
            /\ verifiers[v].pc = "attempt" =>
                 /\ verifiers[v].copy.attempts = challenges[n].attempts + 1
                 /\ ~ verifiers[v].copy.consumed
            /\ verifiers[v].pc = "consume" =>
                 /\ verifiers[v].copy.attempts = challenges[n].attempts
                 /\ verifiers[v].copy.consumed

\* A place that is free was never used.
Unused(n) == ~ Kept(n) => challenges[n] = NoCode

CodesInv == CodesOK /\ \A n \in Codes : Agrees(n) /\ Unused(n)

\* The invariant holds at first.
LEMMA CodesAtFirst == OtpInit => CodesInv
<1> SUFFICES ASSUME OtpInit PROVE CodesInv
  OBVIOUS
<1>1. /\ NoCode \in Challenges /\ NoCode.attempts = 0 /\ ~ NoCode.consumed /\ ~ NoCode.stored
      /\ IdleVerifier \in Verifications /\ IdleVerifier.pc = "idle"
  BY OtpAssumption DEF NoCode, Challenges, IdleVerifier, Verifications, VerifyPhases
<1>2. CodesOK
  BY <1>1 DEF OtpInit, CodesOK
<1>3. \A n \in Codes : Agrees(n) /\ Unused(n)
  BY <1>1 DEF OtpInit, Agrees, Unused, Copying, Kept
<1> QED
  BY <1>2, <1>3 DEF CodesInv

\* A code that the step does not concern agrees as it did.
LEMMA AgreesAsBefore ==
  ASSUME NEW n \in Codes, Agrees(n), Unused(n),
         UNCHANGED <<challenges[n], accepted[n], tried[n]>>, otpOverlapped \subseteq otpOverlapped',
         \A v \in Verifiers : Copying(v, n) \/ Copying(v, n)' => verifiers'[v] = verifiers[v]
  PROVE  Agrees(n)' /\ Unused(n)'
<1>1. \A v \in Verifiers : Copying(v, n)' => Copying(v, n) /\ verifiers'[v] = verifiers[v]
  BY DEF Copying
<1>2. Unused(n)'
  BY DEF Unused, Kept
<1>3. Agrees(n)'
  BY <1>1 DEF Agrees, Kept
<1> QED
  BY <1>2, <1>3

\* A challenge is put where there was none.
LEMMA PutStep ==
  ASSUME CodesInv, NEW s \in Senders, PutChallenge(s) PROVE CodesInv'
<1>1. PICK n \in Codes : /\ ~ Kept(n)
                         /\ challenges' = [challenges EXCEPT ![n] = [NoCode EXCEPT !.stored = TRUE]]
  BY DEF PutChallenge
<1> DEFINE c == [NoCode EXCEPT !.stored = TRUE]
<1>2. c \in Challenges /\ c.attempts = 0 /\ ~ c.consumed /\ c.stored
  <2>1. /\ NoCode \in Challenges /\ NoCode.attempts = 0 /\ ~ NoCode.consumed
    BY OtpAssumption DEF NoCode, Challenges
  <2> QED
    BY <2>1 DEF Challenges
<1>3. UNCHANGED <<verifiers, accepted, tried, otpOverlapped>>
  BY DEF PutChallenge
<1> HIDE DEF c
<1>4. /\ challenges' \in [Codes -> Challenges] /\ challenges'[n] = c
      /\ \A m \in Codes \ {n} : challenges'[m] = challenges[m]
  BY <1>1, <1>2 DEF CodesInv, CodesOK, c
<1>5. CodesOK'
  BY <1>2, <1>3, <1>4 DEF CodesInv, CodesOK, Kept
<1>6. \A v \in Verifiers : ~ Copying(v, n) /\ ~ Copying(v, n)'
  BY <1>1, <1>3 DEF CodesInv, CodesOK, Copying
<1>7. Agrees(n)' /\ Unused(n)'
  BY <1>1, <1>2, <1>3, <1>4, <1>6 DEF CodesInv, Agrees, Unused, Kept
<1>8. \A m \in Codes \ {n} : Agrees(m)' /\ Unused(m)'
  BY <1>3, <1>4, AgreesAsBefore DEF CodesInv, Copying
<1> QED
  BY <1>5, <1>7, <1>8 DEF CodesInv

\* The read: the request copies the row, one attempt on.
LEMMA GetStep ==
  ASSUME CodesInv, NEW v \in Verifiers, NEW n \in Codes, NEW right \in BOOLEAN,
         GetChallenge(v, n, right)
  PROVE  CodesInv'
<1> DEFINE c == [challenges[n] EXCEPT !.attempts = @ + 1]
           w == [pc |-> "attempt", code |-> n, right |-> right, copy |-> c]
<1>1. /\ verifiers[v].pc = "idle" /\ Kept(n) /\ Usable(challenges[n])
      /\ verifiers' = [verifiers EXCEPT ![v] = w]
      /\ otpOverlapped' = IF Verifying(n) = {} THEN otpOverlapped ELSE otpOverlapped \cup {n}
      /\ UNCHANGED <<challenges, accepted, tried>>
  BY DEF GetChallenge
<1>2. challenges[n] \in Challenges /\ challenges[n].attempts < MaxAttempts
      /\ ~ challenges[n].consumed /\ challenges[n].stored
  BY <1>1 DEF CodesInv, CodesOK, Usable, Kept
<1>3. /\ c \in Challenges /\ c.attempts = challenges[n].attempts + 1 /\ c.attempts > 0
      /\ ~ c.consumed /\ c.stored
  BY <1>2, OtpAssumption DEF Challenges
<1> HIDE DEF c
<1>4. n \in Nat
  BY OtpAssumption DEF Codes
<1>5. w \in Verifications /\ w.pc = "attempt" /\ w.code = n /\ w.copy = c
  BY <1>3, <1>4 DEF Verifications, VerifyPhases
<1> HIDE DEF w
<1>6. /\ verifiers' \in [Verifiers -> Verifications] /\ verifiers'[v] = w
      /\ \A u \in Verifiers \ {v} : verifiers'[u] = verifiers[u]
  BY <1>1, <1>5 DEF CodesInv, CodesOK
<1>7. CodesOK'
  BY <1>1, <1>3, <1>5, <1>6 DEF CodesInv, CodesOK, Kept
<1>8. Agrees(n)' /\ Unused(n)'
  <2>1. n \notin otpOverlapped' => /\ n \notin otpOverlapped
                                   /\ \A u \in Verifiers : ~ Copying(u, n)
    BY <1>1 DEF Verifying, Copying
  <2>2. n \notin otpOverlapped' => \A u \in Verifiers : Copying(u, n)' => u = v
    BY <1>6, <2>1 DEF Copying
  <2> QED
    BY <1>1, <1>2, <1>3, <1>5, <1>6, <2>1, <2>2 DEF CodesInv, Agrees, Unused, Kept
<1>9. \A m \in Codes \ {n} : Agrees(m)' /\ Unused(m)'
  <2>1. ASSUME NEW m \in Codes \ {n}, NEW u \in Verifiers, Copying(u, m) \/ Copying(u, m)'
        PROVE  verifiers'[u] = verifiers[u]
    BY <1>1, <1>5, <1>6, <2>1 DEF Copying
  <2>2. otpOverlapped \subseteq otpOverlapped'
    BY <1>1
  <2> QED
    BY <1>1, <2>1, <2>2, AgreesAsBefore DEF CodesInv
<1> QED
  BY <1>7, <1>8, <1>9 DEF CodesInv

\* What a request writes back is its copy of the row.
LEMMA UpdateWrites ==
  ASSUME CodesInv, NEW v \in Verifiers, verifiers[v].pc # "idle", NEW n, n = verifiers[v].code,
         Update(v)
  PROVE  /\ n \in Codes /\ Kept(n) /\ challenges' \in [Codes -> Challenges]
         /\ \A m \in Codes \ {n} : challenges'[m] = challenges[m]
         /\ challenges'[n].attempts = verifiers[v].copy.attempts
         /\ challenges'[n].consumed = verifiers[v].copy.consumed
         /\ challenges'[n].stored
<1> DEFINE c == [verifiers[v].copy EXCEPT !.expired = challenges[n].expired]
<1>1. /\ verifiers[v].copy \in Challenges /\ verifiers[v].copy.stored /\ n \in Codes /\ Kept(n)
      /\ challenges[n] \in Challenges
  BY DEF CodesInv, CodesOK, Verifications
<1>2. challenges' = [challenges EXCEPT ![n] = c]
  BY DEF Update
<1>3. /\ c \in Challenges /\ c.attempts = verifiers[v].copy.attempts /\ c.stored
      /\ c.consumed = verifiers[v].copy.consumed
  BY <1>1 DEF Challenges
<1> HIDE DEF c
<1> QED
  BY <1>1, <1>2, <1>3 DEF CodesInv, CodesOK

\* The attempt is counted.
LEMMA AttemptStep ==
  ASSUME CodesInv, NEW v \in Verifiers, CountAttempt(v) PROVE CodesInv'
<1>0. PICK n : n = verifiers[v].code
  OBVIOUS
<1> DEFINE w1 == [verifiers[v] EXCEPT !.pc = "consume", !.copy.consumed = TRUE]
           w == IF verifiers[v].right THEN w1 ELSE IdleVerifier
<1>1. /\ verifiers[v].pc = "attempt" /\ Update(v) /\ verifiers' = [verifiers EXCEPT ![v] = w]
      /\ tried' = Counted(tried, n) /\ UNCHANGED <<accepted, otpOverlapped>>
  BY <1>0 DEF CountAttempt
<1>2. /\ verifiers[v] \in Verifications /\ verifiers[v].copy \in Challenges
      /\ verifiers[v].copy.stored /\ verifiers[v].copy.attempts > 0
      /\ n \in Codes
  BY <1>0, <1>1 DEF CodesInv, CodesOK, Verifications
<1>3. /\ w1 \in Verifications /\ w1.pc = "consume" /\ w1.code = n
      /\ w1.copy.attempts = verifiers[v].copy.attempts /\ w1.copy.consumed /\ w1.copy.stored
  BY <1>0, <1>2 DEF Verifications, VerifyPhases, Challenges
<1>4. IdleVerifier \in Verifications /\ IdleVerifier.pc = "idle"
  BY OtpAssumption DEF NoCode, Challenges, IdleVerifier, Verifications, VerifyPhases
<1> HIDE DEF w1
<1>5. /\ w \in Verifications /\ w.pc \in {"idle", "consume"}
      /\ w.pc = "consume" => /\ w.code = n /\ w.copy.attempts = verifiers[v].copy.attempts
                             /\ w.copy.consumed /\ w.copy.stored
  BY <1>3, <1>4
<1> HIDE DEF w
<1>6. /\ Kept(n) /\ challenges' \in [Codes -> Challenges]
      /\ \A m \in Codes \ {n} : challenges'[m] = challenges[m]
      /\ challenges'[n].attempts = verifiers[v].copy.attempts
      /\ challenges'[n].consumed = verifiers[v].copy.consumed
      /\ challenges'[n].stored
  BY <1>1, <1>0, UpdateWrites
<1>7. /\ verifiers' \in [Verifiers -> Verifications] /\ verifiers'[v] = w
      /\ \A u \in Verifiers \ {v} : verifiers'[u] = verifiers[u]
  BY <1>1, <1>5 DEF CodesInv, CodesOK
<1>8. /\ tried' \in [Codes -> Nat] /\ \A m \in Codes \ {n} : tried'[m] = tried[m]
      /\ n \notin otpOverlapped => tried'[n] = tried[n] + 1
  BY <1>1, <1>2 DEF CodesInv, CodesOK, Counted
<1>9. CodesOK'
  BY <1>1, <1>2, <1>5, <1>6, <1>7, <1>8 DEF CodesInv, CodesOK, Kept
<1>10. Agrees(n)' /\ Unused(n)'
  <2>1. n \notin otpOverlapped =>
          /\ tried[n] = challenges[n].attempts
          /\ accepted[n] = 0
          /\ verifiers[v].copy.attempts = challenges[n].attempts + 1
          /\ ~ verifiers[v].copy.consumed
          /\ \A u \in Verifiers : Copying(u, n) => u = v
    BY <1>0, <1>1, <1>2 DEF CodesInv, Agrees, Copying
  <2>2. \A u \in Verifiers : Copying(u, n)' =>
          IF u = v THEN w.pc = "consume" ELSE Copying(u, n)
    BY <1>5, <1>7 DEF Copying
  <2>3. Unused(n)' /\ (~ Kept(n)' => accepted'[n] = 0 /\ tried'[n] = 0)
    BY <1>6 DEF Unused, Kept
  <2>4. n \notin otpOverlapped =>
          /\ \A u1, u2 \in Verifiers : Copying(u1, n)' /\ Copying(u2, n)' => u1 = u2
          /\ tried'[n] = challenges'[n].attempts
          /\ accepted'[n] = 0 /\ ~ challenges'[n].consumed
    BY <1>1, <1>6, <1>8, <2>1, <2>2
  <2>5. n \notin otpOverlapped =>
          \A u \in Verifiers : Copying(u, n)' =>
             /\ verifiers'[u].pc = "consume"
             /\ verifiers'[u].copy.attempts = challenges'[n].attempts
             /\ verifiers'[u].copy.consumed
    BY <1>5, <1>6, <1>7, <2>1, <2>2
  <2>6. UNCHANGED otpOverlapped
    BY <1>1
  <2> QED
    BY <2>3, <2>4, <2>5, <2>6 DEF Agrees
<1>11. \A m \in Codes \ {n} : Agrees(m)' /\ Unused(m)'
  <2>1. ASSUME NEW m \in Codes \ {n}, NEW u \in Verifiers, Copying(u, m) \/ Copying(u, m)'
        PROVE  verifiers'[u] = verifiers[u]
    BY <1>0, <1>5, <1>7, <2>1 DEF Copying
  <2> QED
    BY <1>1, <1>6, <1>8, <2>1, AgreesAsBefore DEF CodesInv
<1> QED
  BY <1>9, <1>10, <1>11 DEF CodesInv

\* The code is consumed.
LEMMA ConsumeStep ==
  ASSUME CodesInv, NEW v \in Verifiers, Consume(v) PROVE CodesInv'
<1>0. PICK n : n = verifiers[v].code
  OBVIOUS
<1>1. /\ verifiers[v].pc = "consume" /\ Update(v)
      /\ verifiers' = [verifiers EXCEPT ![v] = IdleVerifier]
      /\ accepted' = Counted(accepted, n) /\ UNCHANGED <<tried, otpOverlapped>>
  BY <1>0 DEF Consume
<1>2. IdleVerifier \in Verifications /\ IdleVerifier.pc = "idle"
  BY OtpAssumption DEF NoCode, Challenges, IdleVerifier, Verifications, VerifyPhases
<1>3. /\ n \in Codes /\ Kept(n) /\ challenges' \in [Codes -> Challenges]
      /\ \A m \in Codes \ {n} : challenges'[m] = challenges[m]
      /\ challenges'[n].attempts = verifiers[v].copy.attempts
      /\ challenges'[n].consumed = verifiers[v].copy.consumed
      /\ challenges'[n].stored
  BY <1>0, <1>1, UpdateWrites
<1>4. /\ verifiers' \in [Verifiers -> Verifications] /\ verifiers'[v].pc = "idle"
      /\ \A u \in Verifiers \ {v} : verifiers'[u] = verifiers[u]
  BY <1>1, <1>2 DEF CodesInv, CodesOK
<1>5. /\ accepted' \in [Codes -> Nat] /\ \A m \in Codes \ {n} : accepted'[m] = accepted[m]
      /\ n \notin otpOverlapped => accepted'[n] = accepted[n] + 1
  BY <1>1, <1>3 DEF CodesInv, CodesOK, Counted
<1>6. n \notin otpOverlapped =>
        /\ tried[n] = challenges[n].attempts
        /\ accepted[n] = 0
        /\ verifiers[v].copy.attempts = challenges[n].attempts
        /\ verifiers[v].copy.consumed
        /\ \A u \in Verifiers : Copying(u, n) => u = v
  BY <1>0, <1>1, <1>3 DEF CodesInv, Agrees, Copying
<1>7. \A m \in Codes \ {n}, u \in Verifiers :
        Copying(u, m) \/ Copying(u, m)' => verifiers'[u] = verifiers[u]
  BY <1>0, <1>4 DEF Copying
<1>8. CodesOK'
  BY <1>1, <1>3, <1>4, <1>5 DEF CodesInv, CodesOK, Kept
<1>9. Agrees(n)' /\ Unused(n)'
  <2>1. Unused(n)' /\ (~ Kept(n)' => accepted'[n] = 0 /\ tried'[n] = 0)
    BY <1>3 DEF Unused, Kept
  <2>2. n \notin otpOverlapped => \A u \in Verifiers : ~ Copying(u, n)'
    BY <1>4, <1>6 DEF Copying
  <2>3. n \notin otpOverlapped => /\ tried'[n] = challenges'[n].attempts
                                  /\ accepted'[n] = 1 /\ challenges'[n].consumed
    BY <1>1, <1>3, <1>5, <1>6
  <2>4. UNCHANGED otpOverlapped
    BY <1>1
  <2> QED
    BY <2>1, <2>2, <2>3, <2>4 DEF Agrees
<1>10. \A m \in Codes \ {n} : Agrees(m)' /\ Unused(m)'
  BY <1>1, <1>3, <1>5, <1>7, AgreesAsBefore DEF CodesInv
<1> QED
  BY <1>8, <1>9, <1>10 DEF CodesInv

\* Every step of the codes keeps the invariant.
LEMMA CodesStep ==
  ASSUME CodesInv, [OtpNext]_otpVars PROVE CodesInv'
<1>1. ASSUME UNCHANGED <<challenges, verifiers, accepted, tried, otpOverlapped>> PROVE CodesInv'
  BY <1>1 DEF CodesInv, CodesOK, Agrees, Unused, Kept, Copying
<1>2. ASSUME NEW s \in Senders, BeginOtp(s) \/ CountSends(s) \/ RecordSend(s) PROVE CodesInv'
  BY <1>1, <1>2 DEF BeginOtp, CountSends, RecordSend
<1>3. ASSUME NEW l \in Limits, Slide(l) PROVE CodesInv'
  BY <1>1, <1>3 DEF Slide
<1>4. ASSUME NEW n \in Codes, OtpExpire(n) PROVE CodesInv'
  <2>1. /\ challenges' = [challenges EXCEPT ![n].expired = TRUE] /\ Kept(n)
        /\ UNCHANGED <<verifiers, accepted, tried, otpOverlapped>>
    BY <1>4 DEF OtpExpire
  <2>2. /\ challenges' \in [Codes -> Challenges]
        /\ \A m \in Codes : /\ challenges'[m].attempts = challenges[m].attempts
                            /\ challenges'[m].consumed = challenges[m].consumed
                            /\ challenges'[m].stored = challenges[m].stored
                            /\ ~ Kept(m) => challenges'[m] = challenges[m]
    BY <2>1 DEF CodesInv, CodesOK, Challenges, Kept
  <2>3. CodesOK'
    BY <2>1, <2>2 DEF CodesInv, CodesOK, Kept
  <2> QED
    BY <2>1, <2>2, <2>3 DEF CodesInv, Agrees, Unused, Kept, Copying
<1>5. CASE UNCHANGED otpVars
  BY <1>1, <1>5 DEF otpVars
<1> QED
  BY <1>2, <1>3, <1>4, <1>5, PutStep, GetStep, AttemptStep, ConsumeStep DEF OtpNext

\* The invariants of the codes hold of every reachable state.
LEMMA OtpHolds == OtpSpec => [](SendsInv /\ CodesInv)
<1>1. (SendsInv /\ CodesInv) /\ [OtpNext]_otpVars => (SendsInv /\ CodesInv)'
  BY SendsStep, CodesStep
<1>2. OtpInit => SendsInv /\ CodesInv
  BY SendsAtFirst, CodesAtFirst
<1> QED
  BY <1>1, <1>2, PTL DEF OtpSpec

\* What the two invariants say of a state.
LEMMA LimitsHold ==
  ASSUME SendsInv, CodesInv PROVE CodesAreLimited /\ OtpTypeOK
<1>1. OvershootBounded
  <2> SUFFICES ASSUME NEW l \in Limits
               PROVE  sent[l] + Cardinality(Sending) < LimitOf[l] + Cardinality(Senders)
    BY DEF OvershootBounded
  <2>1. Sending \subseteq Past(l)
    BY DEF Sending, Past
  <2>2. Cardinality(Sending) <= Cardinality(Past(l)) /\ Cardinality(Sending) \in Nat
    BY <2>1, PastIsFinite, FS_Subset, FS_CardinalityType
  <2>3. /\ sent[l] \in Nat /\ LimitOf[l] \in Nat /\ Cardinality(Past(l)) \in Nat
        /\ Cardinality(Senders) \in Nat
        /\ sent[l] + Cardinality(Past(l)) < LimitOf[l] + Cardinality(Senders)
    BY PastIsFinite, LimitsAreNumbers DEF SendsInv
  <2> QED
    BY <2>2, <2>3
<1>2. SerialCodeSingleUse
  <2> SUFFICES ASSUME NEW n \in Codes \ otpOverlapped
               PROVE  accepted[n] <= 1 /\ tried[n] <= MaxAttempts
    BY DEF SerialCodeSingleUse
  <2>1. /\ tried[n] = challenges[n].attempts /\ challenges[n].attempts \in 0 .. MaxAttempts
        /\ accepted[n] = IF challenges[n].consumed THEN 1 ELSE 0
    BY DEF CodesInv, CodesOK, Agrees, Challenges
  <2> QED
    BY <2>1, OtpAssumption
<1>3. OtpTypeOK
  BY DEF OtpTypeOK, SendsInv, SendersOK, CodesInv, CodesOK, Challenges
<1> QED
  BY <1>1, <1>2, <1>3 DEF CodesAreLimited

\* However many requests are sent at once, a limit is passed by fewer codes than there are
\* requests in flight; and a code that no two requests verify at once is accepted once and
\* guessed at most MaxAttempts times (otp.service.ts:100-158).
THEOREM CodesStayLimited == OtpSpec => []CodesAreLimited
<1>1. SendsInv /\ CodesInv => CodesAreLimited
  BY LimitsHold
<1> QED
  BY <1>1, OtpHolds, PTL

(***************************************************************************)
(* The components side by side.  A run plays one of them at a time; here   *)
(* their requests interleave as they please, each component stuttering     *)
(* while the others move.                                                  *)
(***************************************************************************)
ServerInterleaved == SessionsSpec /\ PushTxSpec /\ OtpSpec /\ IdentitiesSpec

\* A step of a scene is a step of its component and a stutter of the others.
LEMMA SceneSteps ==
  ASSUME [ServerNext]_serverVars
  PROVE  /\ [SessionsNext]_sessionVars /\ [PushTxNext]_pushVars
         /\ [OtpNext]_otpVars /\ [IdentitiesNext]_idVars
<1>1. CASE UNCHANGED serverVars
  BY <1>1 DEF serverVars
<1>2. CASE ServerNext
  BY <1>2 DEF ServerNext
<1> QED
  BY <1>1, <1>2

\* What the runs of the server check is among its interleavings: the controllers share no
\* table but the user's row, so no component moves the state of another
\* (app.module.ts:33-140).
THEOREM ScenesInterleave == ServerSpec => ServerInterleaved
<1>1. ServerInit => SessionsInit /\ PushTxInit /\ OtpInit /\ IdentitiesInit
  BY DEF ServerInit
<1>2. [ServerNext]_serverVars => /\ [SessionsNext]_sessionVars /\ [PushTxNext]_pushVars
                                 /\ [OtpNext]_otpVars /\ [IdentitiesNext]_idVars
  BY SceneSteps
<1> QED
  BY <1>1, <1>2, PTL
  DEF ServerSpec, ServerInterleaved, SessionsSpec, PushTxSpec, OtpSpec, IdentitiesSpec

\* An account that was deleted leaves nothing behind, however the requests of the server
\* interleave: no session of it is found and no identity opens it
\* (auth.controller.ts:217-252).
THEOREM DeletionIsWhole == ServerInterleaved => []DeletedAccountLeavesNothing
<1>1. NoSessionOfDeletedAccount /\ ErasedStaysErased => DeletedAccountLeavesNothing
  BY DEF DeletedAccountLeavesNothing
<1> QED
  BY <1>1, SessionsGoWithTheirAccount, ErasedAccountsStayErased, PTL DEF ServerInterleaved

\* Every table, request and client of the server has values of its type, within the bounds.
THEOREM ServerKeepsItsTypes == ServerInterleaved => []ServerTypeOK
<1>1. SendsInv /\ CodesInv => OtpTypeOK
  BY LimitsHold
<1>2. SessionsTypeOK /\ PushTxTypeOK /\ OtpTypeOK /\ IdentitiesTypeOK => ServerTypeOK
  BY DEF ServerTypeOK
<1> QED
  BY <1>1, <1>2, SessionsKeepTheirTypes, PushTablesKeepTheirTypes, OtpHolds,
     IdentitiesKeepTheirTypes, PTL DEF ServerInterleaved

=============================================================================
