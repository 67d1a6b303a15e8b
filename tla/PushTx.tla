------------------------------- MODULE PushTx -------------------------------
(***************************************************************************)
(* SyncService.push as it runs on Postgres: each request is a database     *)
(* transaction at READ COMMITTED (Db.withUser), and a statement is one     *)
(* action.  A statement sees what is committed when it starts, and a write *)
(* waits for the transaction that has already written the row.  Of a batch *)
(* one record of the transactions table is followed (its id is implied)    *)
(* and one of a last-write-wins table: categories, banks, user_settings.   *)
(* The loop over the rows of a batch, its locks and the deadlocks they     *)
(* lead to are in Sync; what the rest of a batch does to the statements of *)
(* this record is a wait or, when it fails, an Abort.                      *)
(*                                                                         *)
(* The primary key is (local_id, occurred_at): a row per day is possible.  *)
(***************************************************************************)
EXTENDS Naturals, FiniteSets

CONSTANTS
  Pushes,     \* requests, each served by a transaction of its own
  PushKeys,   \* idempotency keys
  Days,       \* values of occurred_at
  Changes,    \* what clients send: [day, amount, stamp, deleted]
  MaxVersion  \* bound: versions of the record

ASSUME PushTxAssumption ==
  /\ IsFiniteSet(Pushes) /\ MaxVersion \in Nat
  /\ Changes \subseteq [day : Days, amount : Nat, stamp : Nat, deleted : BOOLEAN]

VARIABLES
  table,       \* committed rows of the record, by day
  latest,      \* committed updated_at of the last-write-wins row, 0 for none
  opsTable,    \* committed sync_operations: the answer kept for each key
  tx,          \* the transactions
  overlapped   \* history: two transactions have been open at once

pushVars == <<table, latest, opsTable, tx, overlapped>>

NoAnswer == [result |-> "none", version |-> 0]
NoRow    == [day |-> "none", amount |-> 0, stamp |-> 0, deleted |-> FALSE, version |-> 0]
Stored(d) == table[d] # NoRow

Fresh == [pc |-> "new", key |-> "none", change |-> NoRow, stamp |-> 0, row |-> NoRow,
          from |-> "none", held |-> "none", heldStamp |-> 0, answer |-> NoAnswer,
          replayed |-> FALSE]

Open(p)     == tx[p].pc \notin {"new", "done", "aborted"}
Others(p)   == {q \in Pushes : q # p /\ Open(q)}
\* The versions of the record that clients may still hold.
Versions    == UNION {0 .. table[d].version : d \in Days}

PushTxInit ==
  /\ table = [d \in Days |-> NoRow] /\ latest = 0
  /\ opsTable = [k \in PushKeys |-> NoAnswer]
  /\ tx = [p \in Pushes |-> Fresh]
  /\ overlapped = FALSE

(***************************************************************************)
(* Decisions of SyncService over a row it has read.                        *)
(***************************************************************************)
\* Variant: a change one version behind is let through.
RefusedLate(change, row) ==
  change.version + 1 < row.version /\ ~ (change.deleted /\ ~ row.deleted)

Refused(change, row) ==
  change.version < row.version /\ ~ (change.deleted /\ ~ row.deleted)

Wins(change, row) ==
  \/ change.deleted /\ ~ row.deleted
  \/ change.deleted = row.deleted /\ change.stamp >= row.stamp

\* Variant: the version is the client's.
MergedAsSent(change, row) == IF Wins(change, row) THEN change ELSE row

Merged(change, row) ==
  [(IF Wins(change, row) THEN change ELSE row) EXCEPT !.version = row.version + 1]

(***************************************************************************)
(* The statements.                                                         *)
(***************************************************************************)
Do(p, t) == tx' = [tx EXCEPT ![p] = t]

\* A request arrives and BEGIN is issued.  Of its rows the record is followed, which the
\* client has at a version that was committed once, or not at all, and one row of the
\* other tables.
Begin(p, key, change, version) ==
  /\ tx[p].pc = "new"
  /\ Do(p, [tx[p] EXCEPT !.pc = "dedupe", !.key = key, !.stamp = change.stamp,
              !.change = [day |-> change.day, amount |-> change.amount,
                          stamp |-> change.stamp, deleted |-> change.deleted,
                          version |-> version]])
  /\ overlapped' = (overlapped \/ Others(p) # {})
  /\ UNCHANGED <<table, latest, opsTable>>

\* Variant: the key is not looked up.
FindNothing(p) ==
  /\ tx[p].pc = "dedupe"
  /\ Do(p, [tx[p] EXCEPT !.pc = "read"])
  /\ UNCHANGED <<table, latest, opsTable, overlapped>>

FindIdempotent(p) ==
  /\ tx[p].pc = "dedupe"
  /\ Do(p, IF opsTable[tx[p].key] # NoAnswer
           THEN [tx[p] EXCEPT !.pc = "commit", !.answer = opsTable[tx[p].key],
                               !.replayed = TRUE]
           ELSE [tx[p] EXCEPT !.pc = "read"])
  /\ UNCHANGED <<table, latest, opsTable, overlapped>>

\* SELECT, then detectConflict, merge and materialise; with two rows, any one of them.
GetTransaction(p) ==
  /\ tx[p].pc = "read"
  /\ \/ /\ \A d \in Days : ~ Stored(d)
        /\ Do(p, [tx[p] EXCEPT !.pc = "update", !.row = [tx[p].change EXCEPT !.version = 1],
                    !.answer = [result |-> "accepted", version |-> 1]])
     \/ \E d \in Days :
          /\ Stored(d)
          /\ IF Refused(tx[p].change, table[d])
             THEN Do(p, [tx[p] EXCEPT !.pc = "upsert",
                           !.answer = [result |-> "conflict", version |-> table[d].version]])
             ELSE Do(p, [tx[p] EXCEPT !.pc = "update", !.row = Merged(tx[p].change, table[d]),
                           !.answer = [result |-> "accepted", version |-> table[d].version + 1]])
  /\ UNCHANGED <<table, latest, opsTable, overlapped>>

\* The unique key that a transaction has taken and not yet committed.
Claims(q, d) == tx[q].held # "none" /\ tx[q].row.day = d

(***************************************************************************)
(* What a statement waits for: the row, the key of the row, the row of the *)
(* other table, the idempotency key.                                       *)
(***************************************************************************)
RowIsFree(p) ==
  \A q \in Others(p) : tx[q].held # "update" /\ ~ Claims(q, tx[p].row.day)

KeyIsFree(p) == \A q \in Others(p) : ~ Claims(q, tx[p].row.day)

StampIsFree(p) == \A q \in Others(p) : tx[q].heldStamp = 0

AnswerIsFree(p) == \A q \in Others(p) : ~ (tx[q].pc = "commit" /\ tx[q].key = tx[p].key)

\* Variant: matched by the primary key, as ON CONFLICT (local_id, occurred_at) would.
MatchedByKey(p) == {d \in Days : Stored(d) /\ d = tx[p].row.day}

Matched(p) == {d \in Days : Stored(d)}

\* UPDATE ... WHERE local_id = $1, which waits while another transaction has updated
\* the row and then overwrites it.  Moving a row onto another, or two rows to one day,
\* breaks the key.
UpdateRow(p) ==
  /\ tx[p].pc = "update"
  /\ LET rows == Matched(p)
     IN \/ /\ rows = {}
           /\ Do(p, [tx[p] EXCEPT !.pc = "insert"])
        \/ /\ Cardinality(rows) > 1
           /\ Do(p, [tx[p] EXCEPT !.pc = "aborted"])
        \/ \E d \in rows :
             /\ rows = {d} /\ RowIsFree(p)
             /\ Do(p, [tx[p] EXCEPT !.pc = "upsert", !.held = "update", !.from = d])
  /\ UNCHANGED <<table, latest, opsTable, overlapped>>

\* INSERT, which waits for the insert of the same key and then fails on it.
InsertRow(p) ==
  /\ tx[p].pc = "insert" /\ KeyIsFree(p)
  /\ Do(p, IF Stored(tx[p].row.day) THEN [tx[p] EXCEPT !.pc = "aborted"]
           ELSE [tx[p] EXCEPT !.pc = "upsert", !.held = "insert"])
  /\ UNCHANGED <<table, latest, opsTable, overlapped>>

\* Variant: no WHERE on the DO UPDATE.
NewStampAlways(p) == tx[p].stamp

NewStamp(p) == IF tx[p].stamp > latest THEN tx[p].stamp ELSE 0

\* INSERT ... ON CONFLICT DO UPDATE ... WHERE updated_at < $n: the condition is tested
\* again once the transaction it waited for has ended.
Upsert(p) ==
  /\ tx[p].pc = "upsert" /\ StampIsFree(p)
  /\ Do(p, [tx[p] EXCEPT !.pc = "save", !.heldStamp = NewStamp(p)])
  /\ UNCHANGED <<table, latest, opsTable, overlapped>>

\* INSERT ... ON CONFLICT DO NOTHING, which waits for the same key.
SaveIdempotent(p) ==
  /\ tx[p].pc = "save" /\ AnswerIsFree(p)
  /\ Do(p, [tx[p] EXCEPT !.pc = "commit"])
  /\ UNCHANGED <<table, latest, opsTable, overlapped>>

Commit(p) ==
  /\ tx[p].pc = "commit"
  /\ table' = CASE tx[p].held = "none"   -> table
                [] tx[p].held = "insert" -> [table EXCEPT ![tx[p].row.day] = tx[p].row]
                [] tx[p].held = "update" ->
                     [table EXCEPT ![tx[p].from] = NoRow, ![tx[p].row.day] = tx[p].row]
  /\ latest' = IF tx[p].heldStamp # 0 THEN tx[p].heldStamp ELSE latest
  /\ opsTable' = [opsTable EXCEPT ![tx[p].key] = IF @ = NoAnswer THEN tx[p].answer ELSE @]
  /\ Do(p, [tx[p] EXCEPT !.pc = "done"])
  /\ UNCHANGED overlapped

\* ROLLBACK: the connection or the server fails, Postgres picks the transaction as the
\* victim of a deadlock over other rows of its batch, or an UPDATE meets a row that has
\* just moved to another day.
Abort(p) ==
  /\ Open(p)
  /\ Do(p, [tx[p] EXCEPT !.pc = "aborted"])
  /\ UNCHANGED <<table, latest, opsTable, overlapped>>

Statement(p) ==
  \/ FindIdempotent(p) \/ GetTransaction(p) \/ UpdateRow(p) \/ InsertRow(p)
  \/ Upsert(p) \/ SaveIdempotent(p) \/ Commit(p)

PushTxNext ==
  \E p \in Pushes :
    \/ \E key \in PushKeys, change \in Changes, v \in Versions :
         v < MaxVersion /\ Begin(p, key, change, v)
    \/ Statement(p) \/ Abort(p)

PushTxSpec == PushTxInit /\ [][PushTxNext]_pushVars

(***************************************************************************)
(* Properties.                                                             *)
(***************************************************************************)
Applied(p) == tx[p].pc = "done" /\ tx[p].held # "none"

\* Every variable keeps its type: a row sits at its day and each of its versions took a
\* push of its own, and the stamp of the last-write-wins row is one that a client sent.
PushTxTypeOK ==
  /\ \A d \in Days : Stored(d) => table[d].day = d /\ table[d].version \in 1 .. Cardinality(Pushes)
  /\ latest \in {0} \cup {change.stamp : change \in Changes} /\ overlapped \in BOOLEAN
  /\ \A p \in Pushes :
       /\ tx[p].held \in {"none", "update", "insert"}
       /\ tx[p].held = "update" => tx[p].from \in Days
       /\ tx[p].answer.result \in {"none", "accepted", "conflict"}

\* Requests served one at a time leave one row, whatever dates they give it, and its
\* version counts the changes applied (sync.repo.pg.ts:126-163, sync.service.ts:79-96).
SerialPushesCount ==
  ~ overlapped =>
    \A d \in Days : Stored(d) =>
      /\ \A e \in Days : Stored(e) => e = d
      /\ table[d].version = Cardinality({p \in Pushes : Applied(p)})

\* A batch sent again under its key after it was answered gets the same answer and
\* applies nothing (sync.service.ts:41-56), even when the first answer was lost.
SerialKeyAppliedOnce ==
  ~ overlapped =>
    \A p, q \in Pushes :
      tx[p].pc = "done" /\ tx[q].pc = "done" /\ tx[p].key = tx[q].key =>
        tx[p].answer = tx[q].answer /\ (Applied(p) /\ Applied(q) => p = q)

GuessedAmount(p, q) ==
  /\ Applied(p) /\ Applied(q) /\ p # q
  /\ tx[p].change.version = tx[q].change.version
  /\ tx[p].change.amount # tx[q].change.amount
  /\ ~ tx[p].change.deleted /\ ~ tx[q].change.deleted

\* Two different amounts written over the same version are never both accepted: the
\* second is refused (sync.service.ts:117-121, "we refuse to guess").
SerialAmountsNotGuessed == ~ overlapped => \A p, q \in Pushes : ~ GuessedAmount(p, q)

\* What requests served one at a time keep, through aborts, lost answers and batches sent
\* again: one row and its exact version, one effect for a key, and no amount guessed
\* (sync.service.ts:41-121).
SerialPushes == SerialPushesCount /\ SerialKeyAppliedOnce /\ SerialAmountsNotGuessed

\* The newest write of a last-write-wins row is the one that stays, in whatever order
\* the transactions wait, commit and abort (sync.repo.pg.ts:211-250, 339-360).
NewestStampWins ==
  \A p \in Pushes : tx[p].pc = "done" /\ ~ tx[p].replayed => tx[p].stamp <= latest

\* Once a deletion was accepted the record stays deleted
\* (sync.service.ts:146, "Tombstone wins").
AcceptedDeletionStays ==
  (\E p \in Pushes : Applied(p) /\ tx[p].row.deleted) =>
     \A d \in Days : Stored(d) => table[d].deleted
===========================================================================
