---------------------------- MODULE SyncRecords ----------------------------
(***************************************************************************)
(* The data of the sync protocol and the pure functions both ends apply to *)
(* it: the local tables of a device (apps/client/src/core/db), the merge   *)
(* the server runs on a push (apps/server/src/sync/sync.service.ts) and    *)
(* the queries a pull is answered from (sync.repo.pg.ts).                  *)
(*                                                                         *)
(* A record id is a natural number, so that the keyset order on            *)
(* (updated_at, local_id) is an order.  Banks behave as categories do, in  *)
(* a table of their own.                                                   *)
(***************************************************************************)
EXTENDS Integers, FiniteSets

CONSTANTS
  Transactions,   \* ids of transactions: versioned, merged, acknowledged
  Categories,     \* ids of categories and banks: last write wins, no reply
  Banks,          \* those of Categories that are banks
  Amounts,        \* the amounts a user may type
  MaxSkew,        \* MAX_CLOCK_SKEW_MS, in ticks
  BatchSize,      \* MAX_PUSH_BATCH
  PageSize,       \* PULL_PAGE_SIZE
  Null            \* no row, no answer, no cursor

ASSUME IdsAssumption ==
  /\ Transactions \subseteq Nat \ {0}
  /\ Categories \subseteq Nat \ {0}
  /\ Transactions \cap Categories = {}
  /\ Banks \subseteq Categories

ASSUME SizesAssumption ==
  MaxSkew \in Nat /\ BatchSize \in Nat \ {0} /\ PageSize \in Nat \ {0}

Records == Transactions \cup Categories

(***************************************************************************)
(* A synced record.  rev names the user action that wrote the content: it  *)
(* stands for every field the user types except the amount, which the      *)
(* conflict rule looks at by itself.  deleted says that deleted_at is set. *)
(***************************************************************************)
Row == [rev : Nat, amount_minor : Amounts, updated_at : Int, deleted : BOOLEAN,
        version : Nat, sync_status : {"pending", "synced", "failed"}]

ASSUME NullAssumption == Null \notin Row

Table == [Records -> Row \cup {Null}]

Empty == [r \in Records |-> Null]

Ids(table) == {r \in Records : table[r] # Null}

\* The rows of table whose ids are in S.
Only(table, S) == [r \in Records |-> IF r \in S THEN table[r] ELSE Null]

IsLive(table, r) == table[r] # Null /\ ~table[r].deleted

IsDeleted(table, r) == table[r] # Null /\ table[r].deleted

IsPending(table, r) == table[r] # Null /\ table[r].sync_status = "pending"

-----------------------------------------------------------------------------
(* The local store: DexieAdapter. *)

BulkPut(table, rows) ==
  [r \in Records |-> IF rows[r] = Null THEN table[r] ELSE rows[r]]

Put(table, r, row) == [table EXCEPT ![r] = row]

\* Variant: only transactions are collected.
PendingTransactions(table) ==
  Only(table, {r \in Ids(table) \cap Transactions :
                 table[r].sync_status \in {"pending", "failed"}})

\* Variant: only what a server has refused before is sent again.
PendingRetries(table) == Only(table, {r \in Ids(table) : table[r].sync_status = "failed"})

Pending(table) ==
  Only(table, {r \in Ids(table) : table[r].sync_status \in {"pending", "failed"}})

\* The tables in the order pending() lists them.
Rank(r) == IF r \in Transactions THEN 3 ELSE IF r \in Banks THEN 2 ELSE 1

\* Variant: ties in any order.
NotAfterByTime(todo, r, q) == todo[r].updated_at <= todo[q].updated_at

\* pending() then sorts what it listed by updated_at, keeping ties.
NotAfter(todo, r, q) ==
  \/ todo[r].updated_at < todo[q].updated_at
  \/ todo[r].updated_at = todo[q].updated_at /\ Rank(r) <= Rank(q)

\* One slice of the snapshot: the first BatchSize rows of what is left of it.
Batches(todo) ==
  LET all == Ids(todo)
  IN  {S \in SUBSET all :
         /\ Cardinality(S) =
              IF Cardinality(all) < BatchSize THEN Cardinality(all) ELSE BatchSize
         /\ \A r \in S, q \in all \ S : NotAfter(todo, r, q)}

-----------------------------------------------------------------------------
(* The server's merge: SyncService.push. *)

Abs(n) == IF n < 0 THEN -n ELSE n

\* Move a device timestamp to the server's clock when the two are far apart.
Correct(row, skew) ==
  IF Abs(skew) > MaxSkew THEN [row EXCEPT !.updated_at = @ + skew] ELSE row

Verdict(incoming, existing) ==
  IF \/ incoming.version >= existing.version
     \/ incoming.deleted /\ ~existing.deleted
  THEN "accepted"
  ELSE IF incoming.amount_minor # existing.amount_minor
       THEN "amount_mismatch"
       ELSE "version_behind"

\* Variant: last write wins, tombstones included.
MergeByTime(incoming, existing) ==
  IF incoming.updated_at >= existing.updated_at THEN incoming ELSE existing

\* Variant: an equal timestamp keeps the stored row.
MergeStrictlyNewer(incoming, existing) ==
  IF \/ incoming.deleted /\ ~existing.deleted
     \/ /\ incoming.deleted = existing.deleted
        /\ incoming.updated_at > existing.updated_at
  THEN incoming
  ELSE existing

Merge(incoming, existing) ==
  IF \/ incoming.deleted /\ ~existing.deleted
     \/ /\ incoming.deleted = existing.deleted
        /\ incoming.updated_at >= existing.updated_at
  THEN incoming
  ELSE existing

\* The row as stored: the server owns the version and the status.
Materialise(row, version) ==
  [row EXCEPT !.version = version, !.sync_status = "synced"]

\* Variant: the next version is counted from the client's version.
PutTransactionClientVersion(incoming, existing) ==
  IF existing = Null
  THEN Materialise(incoming, 1)
  ELSE IF Verdict(incoming, existing) = "accepted"
       THEN Materialise(Merge(incoming, existing), incoming.version + 1)
       ELSE existing

PutTransaction(incoming, existing) ==
  IF existing = Null
  THEN Materialise(incoming, 1)
  ELSE IF Verdict(incoming, existing) = "accepted"
       THEN Materialise(Merge(incoming, existing), existing.version + 1)
       ELSE existing

\* The push goes on to write the row it read as existing.
Accepts(incoming, existing) ==
  existing # Null => Verdict(incoming, existing) = "accepted"

Answer == [verdict : {"accepted", "amount_mismatch", "version_behind"}, version : Nat]

AnswerTable == [Records -> Answer \cup {Null}]

ASSUME NullAnswerAssumption == Null \notin Answer /\ Null \notin AnswerTable

AnswerTo(incoming, existing) ==
  IF existing = Null
  THEN [verdict |-> "accepted", version |-> 1]
  ELSE LET v == Verdict(incoming, existing)
       IN  [verdict |-> v,
            version |-> IF v = "accepted" THEN existing.version + 1 ELSE existing.version]

\* Variant: the upsert without its WHERE clause.
PutCategoryAlways(incoming, existing) == Materialise(incoming, incoming.version)

PutCategory(incoming, existing) ==
  IF existing = Null \/ existing.updated_at < incoming.updated_at
  THEN Materialise(incoming, incoming.version)
  ELSE existing

\* The store once a batch is committed, and the answers the batch gets.  A transaction
\* is decided on the row seen by the SELECT and then written over whatever is there; a
\* category is written under a condition on the row that is there.
Apply(store, seen, rows, skew) ==
  [r \in Records |->
     IF rows[r] = Null THEN store[r]
     ELSE IF r \in Categories THEN PutCategory(Correct(rows[r], skew), store[r])
     ELSE IF Accepts(Correct(rows[r], skew), seen[r])
          THEN PutTransaction(Correct(rows[r], skew), seen[r])
          ELSE store[r]]

Answers(seen, rows, skew) ==
  [r \in Records |->
     IF rows[r] = Null \/ r \in Categories THEN Null
     ELSE AnswerTo(Correct(rows[r], skew), seen[r])]

-----------------------------------------------------------------------------
(* The answer to a pull: SyncService.pull over PgSyncRepo. *)

Key(table, r) == [at |-> table[r].updated_at, id |-> r]

Precedes(k, l) == k.at < l.at \/ (k.at = l.at /\ k.id < l.id)

\* Variant: the cursor is a time only.
ChangedSinceTime(store, since, cursor) ==
  LET after == IF cursor = Null THEN since ELSE cursor.at
  IN  {r \in Transactions \cap Ids(store) : store[r].updated_at > after}

\* Id 0 is the nil uuid: below every id, so rows stamped `since` are included.
ChangedTransactions(store, since, cursor) ==
  LET after == IF cursor = Null THEN [at |-> since, id |-> 0] ELSE cursor
  IN  {r \in Transactions \cap Ids(store) : Precedes(after, Key(store, r))}

ChangedCategories(store, since) ==
  {c \in Categories \cap Ids(store) : store[c].updated_at > since}

\* The first PageSize of the changed transactions.
FirstPage(store, changed) ==
  {r \in changed :
     Cardinality({q \in changed : Precedes(Key(store, q), Key(store, r))}) < PageSize}

\* The greatest key of the page is the cursor of the next one.
NextCursors(store, changed, page) ==
  IF page = changed
  THEN {Null}
  ELSE {Key(store, r) : r \in {r \in page :
          \A q \in page : ~Precedes(Key(store, r), Key(store, q))}}

\* The one possible answer, as a set.  Categories come with the first page.
PullPages(store, since, cursor, time) ==
  LET changed == ChangedTransactions(store, since, cursor)
      page    == FirstPage(store, changed)
      cats    == IF cursor = Null THEN ChangedCategories(store, since) ELSE {}
  IN  {[rows |-> Only(store, page \cup cats), next_cursor |-> next, server_time |-> time] :
         next \in NextCursors(store, changed, page)}
=============================================================================
