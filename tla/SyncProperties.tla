-------------------------- MODULE SyncProperties --------------------------
(***************************************************************************)
(* What the sync protocol promises, and what the repository says it        *)
(* promises and the code does not keep.  The properties of the first part  *)
(* hold; those of the second part are refuted by a run each.               *)
(*                                                                         *)
(* A push decides on rows it has read and does not lock (getTransaction    *)
(* has no FOR UPDATE, sync.repo.pg.ts:118-124).  What the protocol         *)
(* promises of a transaction it promises until a push writes over a change *)
(* that was committed after that push had read the row: contested holds    *)
(* the transactions to which this has happened.                            *)
(***************************************************************************)
EXTENDS Sync

\* The version the server holds of r, 0 before it holds the record.
StoredVersion(r) == IF store[r] = Null THEN 0 ELSE store[r].version

\* The batches the server has accepted a change of r from.
AcceptedKeys(r) ==
  {k \in Keys : /\ operations[k] # Null
                /\ operations[k][r] # Null
                /\ operations[k][r].verdict = "accepted"}

\* The server's version of a transaction is the number of batches accepted for it: no lost
\* request, late answer, repeated delivery or rollback makes one accepted change count
\* twice or not at all (SyncService.push, findIdempotent and saveIdempotent). Pushes that
\* have overlapped on it may count as one, and never as more than they are.
VersionCountsAccepted ==
  \A r \in Transactions :
    /\ StoredVersion(r) <= Cardinality(AcceptedKeys(r))
    /\ r \notin contested => StoredVersion(r) = Cardinality(AcceptedKeys(r))

\* No device, on disk or on screen, carries a version the server has not reached, of a
\* transaction that pushes have not overlapped on. detectConflict trusts incoming.version
\* for this: a device ahead of the server overwrites other devices unseen.
KnownVersions ==
  \A r \in Transactions \ contested :
    /\ \A d \in Devices : db[d][r] # Null => db[d][r].version <= StoredVersion(r)
    /\ \A t \in Tabs : shown[t][r] # Null => shown[t][r].version <= StoredVersion(r)

\* A transaction deleted on the server stays deleted, whatever stale or newer edit another
\* tab or device still pushes (SyncService.merge). Only a push that had read the row before
\* the deletion was committed brings it back.
TombstoneFinal ==
  [][\A r \in Transactions :
       IsDeleted(store, r) /\ (\A k \in Keys : CommitPush(k) => r \notin Overwrites(k))
         => IsDeleted(store', r)]_vars

\* While an engine pulls, every transaction still pending on its disk was
\* written after the cycle read pending(): nothing older than that snapshot is
\* left unanswered when pulled rows start to overwrite the disk (runOnce: push
\* before pull, always). Two tabs share the disk and run a cycle each.
PushBeforePull ==
  \A t \in Tabs, r \in Transactions :
    engine[t].phase = "pulling" /\ IsPending(db[DeviceOf[t]], r)
      => db[DeviceOf[t]][r].rev > engine[t].began

\* When the newest version of a transaction was accepted from a batch, the
\* server holds what that batch sent: accepting a change and keeping the old
\* content under the new version does not happen to devices with one tab each and
\* clocks that agree. sync.service.ts:62-63 promises it to every device: timestamps
\* are corrected so that LWW compares like with like. A clock ahead by less than the
\* threshold is not corrected, and refutes that; so do two tabs on one device, where
\* the pull of one writes the live row over a tombstone that the other is pushing:
\* the row gets the tombstone's version, and an edit of it is accepted and dropped. It
\* speaks of transactions that pushes have not overlapped on.
AcceptedIsStored ==
  \A r \in Transactions \ contested : \A k \in AcceptedKeys(r) :
    operations[k][r].version = StoredVersion(r)
      => store[r].rev = requests[k].rows[r].rev

\* The server holds a transaction without its category only when the transaction was sent
\* off first, the category being written between two queries of one pending() or listed in
\* a later batch (DexieAdapter.pending lists categories first); and then the category is
\* still waiting on a device to be sent.
NoDanglingReference ==
  \A r \in Transactions :
    LET c == CategoryOf[r]
    IN  store[r] # Null /\ c # Null /\ store[c] = Null
        => r \in ahead /\ \E d \in Devices : IsPending(db[d], c)

\* A category a device counts as synced is on the server, which holds it in the
\* same or a newer state. Categories are pushed without an answer, so only a
\* pull can tell the device so.
SyncedCategoryIsStored ==
  \A d \in Devices, c \in Categories :
    db[d][c] # Null /\ db[d][c].sync_status = "synced"
      => store[c] # Null /\ db[d][c].updated_at <= store[c].updated_at

\* An engine that pulls everything from the epoch ends with every transaction
\* the server held when it began and has not changed since: keyset pages
\* neither skip nor repeat a row, across pages and among equal timestamps. A
\* row the user has written since the cycle began may differ. It speaks of devices
\* with one tab, of pulls shorter than the guard of the loop (engine.ts:201), and of
\* transactions that pushes have not overlapped on.
FullPullMissesNothing ==
  [][\A t \in Tabs :
       engine[t].phase = "pulling" /\ engine'[t].phase = "idle" /\ faults' = faults
       => \A r \in Transactions :
            LET was == engine[t].base[r]
                row == db'[DeviceOf[t]][r]
            IN  /\ was # Null /\ was = store[r] /\ r \notin contested
                /\ engine'[t].lastPulledAt > 0
                => row # Null /\ (row.rev = was.rev \/ row.rev > engine[t].began)]_vars

V == INSTANCE VersionedStore WITH
       Records <- Transactions,
       version <- [r \in Transactions |-> StoredVersion(r)],
       deleted <- {r \in Transactions : IsDeleted(store, r)},
       answered <- {k \in Keys : operations[k] # Null},
       contested <- contested

\* The server's tables, seen through versions and tombstones, are a versioned
\* store that answers each key once and applies its batch in that step, though the batch
\* is read and written row by row and others commit meanwhile, while devices, tabs and
\* messages do what they like around it. It holds of the records on which no two batches
\* have overlapped.
ServerIsVersionedStore == V!Spec

\* The pushes of S list their rows by one order, and have no two rows of one stamp.
ListedAlike(S, order) ==
  \A k \in S : \A r, q \in Ids(requests[k].rows) :
    r # q => \/ order[r] < order[q] /\ Before(requests[k].rows, r, q)
             \/ order[q] < order[r] /\ Before(requests[k].rows, q, r)

\* Pushes that hold rows and wait for each other in a circle list their rows in different
\* orders: when the devices stamp them alike, one of the pushes can always go on. The loops
\* of SyncService.push (sync.service.ts:70-106) keep each row they have written locked
\* while they go through the batch as it was sent.
DeadlockTakesTwoOrders ==
  \A S \in SUBSET Keys :
    S # {} /\ Circle(S)
      => \A order \in [Records -> 1..Cardinality(Records)] : ~ListedAlike(S, order)

-----------------------------------------------------------------------------
(* Said of the program by its comments and documents, and refuted. *)

\* Some batch carried the content rev of r.
Sent(r, rev) ==
  \E k \in Keys : /\ requests[k] # Null
                  /\ requests[k].rows[r] # Null
                  /\ requests[k].rows[r].rev = rev

\* engine.ts:118-120: pulling must not let a server record overwrite a local
\* edit that has not been transmitted yet. An edit made after the snapshot of
\* pending() is such an edit.
PullKeepsUnsentEdits ==
  [][\A t \in Tabs, r \in Transactions :
       LET mine == db[DeviceOf[t]]
       IN  ReceivePage(t) /\ IsPending(mine, r) /\ ~Sent(r, mine[r].rev)
           => db'[DeviceOf[t]][r] = mine[r]]_vars

\* adapter.ts: pending() returns everything awaiting upload. So a transaction
\* whose content was never sent has to be marked pending.
UnsentIsPending ==
  \A d \in Devices, r \in Transactions :
    db[d][r] # Null /\ ~Sent(r, db[d][r].rev) => IsPending(db[d], r)

\* ARCHITECTURE.md, conflict rules: a transaction the user deleted must not
\* come back. On a device a deleted transaction stays deleted.
DeletionStays ==
  [][\A d \in Devices, r \in Transactions :
       IsDeleted(db[d], r) => IsDeleted(db'[d], r)]_vars

\* ARCHITECTURE.md, 6.4: if the server's stored version is higher, the record
\* was changed elsewhere; engine.ts:156-157: a retry after the server committed
\* is recognised as a replay. So a push is refused only after a batch of another
\* device was accepted for the record.
RefusedMeansChangedElsewhere ==
  \A r \in Transactions : \A k \in Keys :
    /\ operations[k] # Null
    /\ operations[k][r] # Null
    /\ operations[k][r].verdict # "accepted"
    => \E j \in AcceptedKeys(r) : requests[j].device_id # requests[k].device_id

\* sync.service.ts:118-120: if the amounts differ we refuse to guess, money is
\* the one field where an automatic choice is worse than asking. So a row
\* refused by the server keeps the user's amount until the user decides.
AmountConflictIsAsked ==
  [][\A t \in Tabs, r \in Transactions :
       LET mine == db[DeviceOf[t]][r]
           page == engine[t].page
       IN  /\ ReceivePage(t)
           /\ mine # Null /\ mine.sync_status = "failed"
           /\ page.rows[r] # Null /\ page.rows[r].amount_minor # mine.amount_minor
           => db'[DeviceOf[t]][r] = mine]_vars

\* dexie.ts:66-69: a tombstone is kept so that the other device learns the row
\* is gone. So a pull that ends hands over every tombstone of a row the device
\* still shows as live.
PullDeliversTombstones ==
  [][\A t \in Tabs, r \in Transactions :
       LET mine == db[DeviceOf[t]]
           page == engine'[t].page
       IN  /\ ServerPull(t) /\ engine[t].cursor = Null /\ page.next_cursor = Null
           /\ IsDeleted(store, r) /\ IsLive(mine, r)
           => page.rows[r] # Null]_vars

\* sync.ts: a tombstone beats a concurrent edit, whichever is newer. So a
\* category deleted on the server stays deleted.
CategoryTombstoneFinal ==
  [][\A c \in Categories : IsDeleted(store, c) => IsDeleted(store', c)]_vars

\* dexie.ts:84-85: a transaction referencing a brand-new category must not reach the
\* server before the category does. So the server holds every category that one of its
\* transactions names.
CategoryGoesFirst ==
  \A r \in Transactions :
    store[r] # Null /\ CategoryOf[r] # Null => store[CategoryOf[r]] # Null

-----------------------------------------------------------------------------
(* Liveness.  The timer of every engine keeps firing (schedule re-arms it   *)
(* in finally), a request that is not lost is answered, and the promises    *)
(* of IndexedDB settle.  Nothing is assumed of the user or of faults, which *)
(* MaxFaults bounds.                                                        *)

\* What an engine does when nothing goes wrong.
Progress(t) ==
  \/ Wake(t) \/ ReadBanks(t) \/ ReadTransactions(t)
  \/ SendBatch(t) \/ NoKeyLeft(t) \/ ReceiveAnswers(t) \/ ReceiveError(t)
  \/ \E r \in Records : BeginMark(t, r)
  \/ FinishMark(t) \/ BeginPull(t) \/ ReceivePage(t)

Fairness ==
  /\ \A t \in Tabs : WF_vars(Progress(t)) /\ WF_vars(ServerPull(t))
  /\ \A t \in Tabs : WF_vars(FinishRemove(t)) /\ WF_vars(Hydrate(t))
  /\ \A k \in Keys : WF_vars(serving[k].state = "new" /\ BeginPush(k))
  /\ \A k \in Keys : WF_vars((\E r \in Records : ReachRow(k, r)) \/ CommitPush(k))
  /\ \A k \in Keys : WF_vars(Deadlocked(k) /\ RollBack(k))

FairSpec == Spec /\ Fairness

\* Every cycle ends, so runOnce never leaves running set and the engine deaf.
CycleEnds == \A t \in Tabs : engine[t].phase # "idle" ~> engine[t].phase = "idle"

\* The bound on pushes has not been reached.
KeysLeft == \E k \in Keys : requests[k] = Null

\* A pending transaction is eventually marked synced or failed, or replaced by
\* a pulled row, through lost answers and failing cycles, as long as pushes
\* remain.
PendingIsAnswered ==
  \A d \in Devices, r \in Transactions :
    IsPending(db[d], r) ~> ~IsPending(db[d], r) \/ ~KeysLeft
=============================================================================
