------------------------------- MODULE Sync -------------------------------
(***************************************************************************)
(* One user's devices and the SpendWise server, from the user's tap to the *)
(* server's row and back.                                                  *)
(*                                                                         *)
(*  - A device holds the local database (IndexedDB).  A tab is one running *)
(*    copy of the app on a device: it shows rows from its own memory (the  *)
(*    Zustand store) and runs one sync engine.  Two tabs of one device     *)
(*    share the database and nothing else.                                 *)
(*  - The engine's cycle is probe, push in batches, mark what was          *)
(*    answered, pull page by page (core/sync/engine.ts).  Each await is a  *)
(*    point where other actors act.                                        *)
(*  - A request may be lost, answered late, answered after the client gave *)
(*    up, or delivered more than once.  A tab may be closed at any point.  *)
(*  - The server serves a push in a database transaction at READ COMMITTED *)
(*    (Db.withUser): it reads and writes row by row, holds what it wrote   *)
(*    until the end, and sees what others commit meanwhile.  Pushes        *)
(*    overlap: those of two tabs or devices, and a push given up by its    *)
(*    client with the retry under a new key.                               *)
(***************************************************************************)
EXTENDS SyncRecords

CONSTANTS
  Devices, Tabs, DeviceOf,  \* DeviceOf[t] is the device tab t runs on
  SkewOf,                   \* SkewOf[d]: how far the clock of d is ahead
  CategoryOf,               \* the category a transaction names, or Null
  StartTime, MaxTime,       \* bounds of the server's clock
  MaxEdits,                 \* bound: user actions
  MaxPushes,                \* bound: push requests
  MaxPages,                 \* the guard of the pull loop, 100 in the code
  MaxFaults                 \* bound: cycles that fail and tabs that are closed

ASSUME PlacesAssumption ==
  /\ DeviceOf \in [Tabs -> Devices]
  /\ SkewOf \in [Devices -> Int]
  /\ CategoryOf \in [Transactions -> Categories \cup {Null}]

ASSUME BoundsAssumption ==
  /\ StartTime \in Nat \ {0} /\ MaxTime \in Nat /\ MaxEdits \in Nat
  /\ MaxPushes \in Nat /\ MaxPages \in Nat /\ MaxFaults \in Nat
  /\ \A d \in Devices : StartTime + SkewOf[d] > 0

VARIABLES
  now,        \* the server's clock
  edits,      \* user actions so far; names the content they write
  faults,     \* cycles failed and tabs closed so far
  db,         \* db[d]: the local database of device d
  shown,      \* shown[t]: the rows in the memory of tab t
  removing,   \* removing[t]: a soft delete between its read and its write
  refresh,    \* refresh[t]: a hydrate is due
  engine,     \* engine[t]: the sync engine of tab t
  requests,   \* requests[k]: the push sent under idempotency key k
  operations, \* the table sync_operations: the answers stored under a key
  store,      \* the server's transactions, categories and banks, as committed
  serving,    \* serving[k]: the database transaction of request k
  contested,  \* history: written by a push over a change it had not read
  ahead       \* history: transactions sent off before their category

vars == <<now, edits, faults, db, shown, removing, refresh, engine, requests,
          operations, store, serving, contested, ahead>>

Keys == 1..MaxPushes

Clock(d) == now + SkewOf[d]

Request == [device_id : Devices, client_time : Int, rows : Table]

ASSUME NullRequestAssumption == Null \notin Request

Cursor == [at : Int, id : Nat]

Page == [rows : Table, next_cursor : Cursor \cup {Null}, server_time : Nat]

ASSUME NullPageAssumption == Null \notin Cursor /\ Null \notin Page

\* A push as the server runs it: skew is the offset measured once, row the record the
\* loop is at (0 before the first), passed those before it, seen what was read of them.
Serving == [state : {"new", "open", "failed"}, skew : Int, row : Records \cup {0},
            passed : SUBSET Records, seen : Table]

NotServed == [state |-> "new", skew |-> 0, row |-> 0, passed |-> {}, seen |-> Empty]

\* The state of one engine.  A phase "banks" or "transactions" is a pending() that reads
\* that table next.  Two fields record history and steer nothing: began, the last user
\* action before the transactions were read, and base, what the server held when a pull
\* of everything began.
Engine == [phase : {"idle", "banks", "transactions", "sending", "pushing", "pulling"},
           began : Nat,
           todo : Table, key : Keys \cup {0},
           acks : AnswerTable, held : [id : Records, row : Row] \cup {Null},
           lastPulledAt : Nat, cursor : Cursor \cup {Null}, page : Page \cup {Null},
           pages : Nat, wrote : BOOLEAN, primed : BOOLEAN, base : Table]

\* An engine between cycles.  lastPulledAt = 0 stands for null, the epoch.
Idle(since, primed) ==
  [phase |-> "idle", began |-> 0, todo |-> Empty, key |-> 0, acks |-> Empty, held |-> Null,
   lastPulledAt |-> since, cursor |-> Null, page |-> Null, pages |-> 0,
   wrote |-> FALSE, primed |-> primed, base |-> Empty]

\* Types: disks, screens, engines, requests and the server's tables and pushes.
TypeOK ==
  /\ now \in Nat /\ edits \in Nat /\ faults \in Nat
  /\ db \in [Devices -> Table]
  /\ shown \in [Tabs -> Table]
  /\ removing \in [Tabs -> [id : Records, at : Int, row : Row] \cup {Null}]
  /\ refresh \in [Tabs -> BOOLEAN]
  /\ engine \in [Tabs -> Engine]
  /\ requests \in [Keys -> Request \cup {Null}]
  /\ operations \in [Keys -> AnswerTable \cup {Null}]
  /\ store \in Table
  /\ serving \in [Keys -> Serving]
  /\ contested \subseteq Transactions /\ ahead \subseteq Transactions

Init ==
  /\ now = StartTime /\ edits = 0 /\ faults = 0
  /\ db = [d \in Devices |-> Empty]
  /\ shown = [t \in Tabs |-> Empty]
  /\ removing = [t \in Tabs |-> Null]
  /\ refresh = [t \in Tabs |-> FALSE]
  /\ engine = [t \in Tabs |-> Idle(0, FALSE)]
  /\ requests = [k \in Keys |-> Null]
  /\ operations = [k \in Keys |-> Null]
  /\ store = Empty
  /\ serving = [k \in Keys |-> NotServed]
  /\ contested = {} /\ ahead = {}

Tick ==
  /\ now < MaxTime
  /\ now' = now + 1
  /\ UNCHANGED <<edits, faults, db, shown, removing, refresh, engine, requests,
                 operations, store, serving, contested, ahead>>

-----------------------------------------------------------------------------
(* The user, through the in-memory store: disk first, then screen. *)

\* The bound on user actions, those under way included.
MayAct == edits + Cardinality({t \in Tabs : removing[t] # Null}) < MaxEdits

Written(t, r, row) ==
  /\ MayAct
  /\ edits' = edits + 1
  /\ db' = [db EXCEPT ![DeviceOf[t]] = Put(@, r, row)]
  /\ shown' = [shown EXCEPT ![t][r] = row]
  /\ UNCHANGED <<now, faults, removing, refresh, engine, requests, operations, store,
                 serving, contested, ahead>>

\* The id is new: no other device can mint it.
Create(t, r, amount) ==
  /\ \A d \in Devices : db[d][r] = Null
  /\ r \in Transactions /\ CategoryOf[r] # Null => IsLive(shown[t], CategoryOf[r])
  /\ Written(t, r, [rev |-> edits + 1, amount_minor |-> amount,
                    updated_at |-> Clock(DeviceOf[t]), deleted |-> FALSE,
                    version |-> 0, sync_status |-> "pending"])

\* The new row is built on the row the tab shows, not on the row on disk.
Edit(t, r, amount) ==
  /\ IsLive(shown[t], r)
  /\ Written(t, r, [shown[t][r] EXCEPT
                      !.rev = edits + 1, !.amount_minor = amount,
                      !.updated_at = Clock(DeviceOf[t]), !.sync_status = "pending"])

\* softDelete reads the row, and writes the tombstone in a second step.
BeginRemove(t, r) ==
  /\ MayAct
  /\ IsLive(shown[t], r) /\ removing[t] = Null /\ db[DeviceOf[t]][r] # Null
  /\ removing' = [removing EXCEPT ![t] = [id |-> r, at |-> Clock(DeviceOf[t]),
                                          row |-> db[DeviceOf[t]][r]]]
  /\ UNCHANGED <<now, edits, faults, db, shown, refresh, engine, requests,
                 operations, store, serving, contested, ahead>>

Tombstone(row, at) ==
  [row EXCEPT !.rev = edits + 1, !.updated_at = at, !.deleted = TRUE,
              !.sync_status = "pending"]

FinishRemove(t) ==
  /\ removing[t] # Null
  /\ edits' = edits + 1
  /\ LET del == removing[t]
         cur == shown[t][del.id]
     IN  /\ db' = [db EXCEPT ![DeviceOf[t]] = Put(@, del.id, Tombstone(del.row, del.at))]
         /\ shown' = [shown EXCEPT ![t][del.id] =
                        IF cur = Null THEN Null ELSE Tombstone(cur, del.at)]
  /\ removing' = [removing EXCEPT ![t] = Null]
  /\ UNCHANGED <<now, faults, refresh, engine, requests, operations, store, serving,
                 contested, ahead>>

Hydrate(t) ==
  /\ refresh[t]
  /\ shown' = [shown EXCEPT ![t] = db[DeviceOf[t]]]
  /\ refresh' = [refresh EXCEPT ![t] = FALSE]
  /\ UNCHANGED <<now, edits, faults, db, removing, engine, requests, operations, store,
                 serving, contested, ahead>>

\* Close the tab, or lose the process, and open the app again.
Restart(t) ==
  /\ faults < MaxFaults
  /\ faults' = faults + 1
  /\ engine' = [engine EXCEPT ![t] = Idle(0, FALSE)]
  /\ shown' = [shown EXCEPT ![t] = db[DeviceOf[t]]]
  /\ removing' = [removing EXCEPT ![t] = Null]
  /\ refresh' = [refresh EXCEPT ![t] = FALSE]
  /\ UNCHANGED <<now, edits, db, requests, operations, store, serving, contested, ahead>>

-----------------------------------------------------------------------------
(* The engine: one cycle is probe, push, pull. *)

EngineStep(t, next) ==
  /\ engine' = [engine EXCEPT ![t] = next]
  /\ UNCHANGED <<now, edits, shown, removing, operations, store, serving, contested>>

\* The cycle is over.  The first one of an engine is followed by a hydrate.
EndCycle(t, since, wrote) ==
  /\ EngineStep(t, Idle(since, TRUE))
  /\ refresh' = [refresh EXCEPT ![t] = @ \/ wrote \/ ~engine[t].primed]

\* The timer, a local write, a reconnect or a resume, and the probe fails.
Offline(t) ==
  /\ engine[t].phase = "idle"
  /\ EndCycle(t, engine[t].lastPulledAt, FALSE)
  /\ UNCHANGED <<faults, db, requests, ahead>>

\* The probe succeeds and pending() reads the categories, then the banks, then the
\* transactions, once for the whole push: three queries, with an await between them.
Wake(t) ==
  /\ engine[t].phase = "idle"
  /\ EngineStep(t, [engine[t] EXCEPT !.phase = "banks",
                      !.todo = Only(Pending(db[DeviceOf[t]]), Categories \ Banks)])
  /\ UNCHANGED <<faults, db, refresh, requests, ahead>>

ReadBanks(t) ==
  /\ engine[t].phase = "banks"
  /\ EngineStep(t, [engine[t] EXCEPT !.phase = "transactions",
                      !.todo = BulkPut(@, Only(Pending(db[DeviceOf[t]]), Banks))])
  /\ UNCHANGED <<faults, db, refresh, requests, ahead>>

\* Transactions collected without their category, which was written after its table was
\* read.
Missed(todo, pending) ==
  {r \in Transactions \cap Ids(todo) :
     CategoryOf[r] # Null /\ pending[CategoryOf[r]] # Null /\ todo[CategoryOf[r]] = Null}

ReadTransactions(t) ==
  /\ engine[t].phase = "transactions"
  /\ LET pending == Pending(db[DeviceOf[t]])
         todo    == BulkPut(engine[t].todo, Only(pending, Transactions))
     IN  /\ EngineStep(t, [engine[t] EXCEPT !.phase = "sending", !.began = edits,
                                            !.todo = todo])
         /\ ahead' = ahead \cup Missed(todo, pending)
  /\ UNCHANGED <<faults, db, refresh, requests>>

\* Any await of the push or of the pull may throw: the cycle ends in "error".
Fail(t) ==
  /\ engine[t].phase # "idle"
  /\ faults < MaxFaults
  /\ faults' = faults + 1
  /\ EndCycle(t, engine[t].lastPulledAt, FALSE)
  /\ UNCHANGED <<db, requests, ahead>>

\* Every answer to the previous batch has been written down.
Marked(t) == engine[t].phase = "sending" /\ engine[t].acks = Empty /\ engine[t].held = Null

\* Transactions of batch S whose category has a later stamp and is left for a later batch.
Overtaking(todo, S) ==
  {r \in Transactions \cap S :
     /\ CategoryOf[r] \in Ids(todo) \ S
     /\ todo[r].updated_at < todo[CategoryOf[r]].updated_at}

\* A batch goes out under a key of its own, a retry included.
SendBatch(t) ==
  /\ Marked(t)
  /\ \E S \in Batches(engine[t].todo), k \in Keys :
       /\ S # {}
       /\ requests[k] = Null /\ \A j \in 1..(k - 1) : requests[j] # Null
       /\ requests' = [requests EXCEPT ![k] =
                         [device_id |-> DeviceOf[t], client_time |-> Clock(DeviceOf[t]),
                          rows |-> Only(engine[t].todo, S)]]
       /\ EngineStep(t, [engine[t] EXCEPT !.phase = "pushing", !.key = k,
                           !.todo = Only(@, Records \ S)])
       /\ ahead' = ahead \cup Overtaking(engine[t].todo, S)
  /\ UNCHANGED <<faults, db, refresh>>

\* The bound MaxPushes is used up: this push ends as if the network were gone.
NoKeyLeft(t) ==
  /\ Marked(t)
  /\ engine[t].todo # Empty
  /\ \A k \in Keys : requests[k] # Null
  /\ EndCycle(t, engine[t].lastPulledAt, FALSE)
  /\ UNCHANGED <<faults, db, requests, ahead>>

ReceiveAnswers(t) ==
  /\ engine[t].phase = "pushing"
  /\ operations[engine[t].key] # Null
  /\ EngineStep(t, [engine[t] EXCEPT !.phase = "sending",
                      !.acks = operations[engine[t].key], !.key = 0])
  /\ UNCHANGED <<faults, db, refresh, requests, ahead>>

\* The push was rolled back: the answer is an error, and the cycle ends with it.
ReceiveError(t) ==
  /\ engine[t].phase = "pushing"
  /\ serving[engine[t].key].state = "failed"
  /\ EndCycle(t, engine[t].lastPulledAt, FALSE)
  /\ UNCHANGED <<faults, db, requests, ahead>>

\* markSynced and markFailed read the row, and write it in a second step.
BeginMark(t, r) ==
  /\ engine[t].phase = "sending" /\ engine[t].held = Null
  /\ engine[t].acks[r] # Null /\ db[DeviceOf[t]][r] # Null
  /\ EngineStep(t, [engine[t] EXCEPT !.held = [id |-> r, row |-> db[DeviceOf[t]][r]]])
  /\ UNCHANGED <<faults, db, refresh, requests, ahead>>

\* Variant: refused rows get the status the protocol reserves for conflicts.
MarkingConflict(row, answer) ==
  IF answer.verdict = "accepted"
  THEN [row EXCEPT !.sync_status = "synced", !.version = answer.version]
  ELSE [row EXCEPT !.sync_status = "conflict"]

\* Variant: refusals are not written down.
MarkingAccepted(row, answer) ==
  IF answer.verdict = "accepted"
  THEN [row EXCEPT !.sync_status = "synced", !.version = answer.version]
  ELSE row

Marking(row, answer) ==
  IF answer.verdict = "accepted"
  THEN [row EXCEPT !.sync_status = "synced", !.version = answer.version]
  ELSE [row EXCEPT !.sync_status = "failed"]

\* Variant: the answer just written down is taken again.
FinishMarkForever(t) ==
  /\ engine[t].held # Null
  /\ LET r == engine[t].held.id
     IN  /\ db' = [db EXCEPT ![DeviceOf[t]] =
                     Put(@, r, Marking(engine[t].held.row, engine[t].acks[r]))]
         /\ EngineStep(t, [engine[t] EXCEPT !.held = Null])
  /\ UNCHANGED <<faults, refresh, requests, ahead>>

FinishMark(t) ==
  /\ engine[t].held # Null
  /\ LET r == engine[t].held.id
     IN  /\ db' = [db EXCEPT ![DeviceOf[t]] =
                     Put(@, r, Marking(engine[t].held.row, engine[t].acks[r]))]
         /\ EngineStep(t, [engine[t] EXCEPT !.held = Null, !.acks[r] = Null])
  /\ UNCHANGED <<faults, refresh, requests, ahead>>

\* Nothing left to push.
BeginPull(t) ==
  /\ Marked(t)
  /\ engine[t].todo = Empty
  /\ EngineStep(t, [engine[t] EXCEPT !.phase = "pulling"])
  /\ UNCHANGED <<faults, db, refresh, requests, ahead>>

\* Pulled rows replace local ones, and since becomes the time of this page.
ReceivePage(t) ==
  /\ engine[t].phase = "pulling"
  /\ engine[t].page # Null
  /\ LET page  == engine[t].page
         wrote == engine[t].wrote \/ page.rows # Empty
         pages == engine[t].pages + 1
     IN  /\ db' = [db EXCEPT ![DeviceOf[t]] = BulkPut(@, page.rows)]
         /\ IF page.next_cursor = Null \/ pages > MaxPages
            THEN EndCycle(t, page.server_time, wrote)
            ELSE /\ EngineStep(t, [engine[t] EXCEPT
                      !.page = Null, !.cursor = page.next_cursor, !.pages = pages,
                      !.wrote = wrote, !.lastPulledAt = page.server_time])
                 /\ UNCHANGED refresh
  /\ UNCHANGED <<faults, requests, ahead>>

-----------------------------------------------------------------------------
(* The server: a push, statement by statement. *)

Serve(k, push) ==
  /\ serving' = [serving EXCEPT ![k] = push]
  /\ UNCHANGED <<now, edits, db, shown, removing, refresh, engine, requests, ahead>>

\* Variant: the key is not looked up.
BeginPushAnyKey(k) ==
  /\ requests[k] # Null
  /\ serving[k].state # "open"
  /\ Serve(k, [NotServed EXCEPT !.state = "open", !.skew = now - requests[k].client_time])
  /\ UNCHANGED <<faults, operations, store, contested>>

\* BEGIN, the look-up of the key and the measuring of the client's clock.  A key that
\* was answered before is answered from sync_operations and not applied.  A request
\* that failed may be delivered again.
BeginPush(k) ==
  /\ requests[k] # Null
  /\ operations[k] = Null
  /\ serving[k].state # "open"
  /\ Serve(k, [NotServed EXCEPT !.state = "open", !.skew = now - requests[k].client_time])
  /\ UNCHANGED <<faults, operations, store, contested>>

Incoming(k, r) == Correct(requests[k].rows[r], serving[k].skew)

\* What push k writes: what it accepts, and categories under their own condition.
Writes(k, r) ==
  r \in Categories \/ (r \in Transactions /\ Accepts(Incoming(k, r), serving[k].seen[r]))

\* A row that was written stays locked until its transaction ends.
Locks(k) == {r \in serving[k].passed : Writes(k, r)}

\* Push k is about to write a row that push j has locked.
WaitsFor(k, j) == j # k /\ serving[k].row \in Locks(j) /\ Writes(k, serving[k].row)

MayWrite(k) == \A j \in Keys : ~WaitsFor(k, j)

Left(k) == Ids(requests[k].rows) \ (serving[k].passed \cup {serving[k].row})

\* The loops of push: transactions, then categories, then banks, in the order sent.
Before(rows, r, q) ==
  LET loop(i) == IF i \in Transactions THEN 1 ELSE Rank(i) + 1
  IN  \/ loop(r) < loop(q)
      \/ loop(r) = loop(q) /\ rows[r].updated_at < rows[q].updated_at

\* Variant: the rows are taken as they come.
ReachRowAnyOrder(k, r) ==
  /\ serving[k].state = "open"
  /\ r \in Left(k)
  /\ MayWrite(k)
  /\ Serve(k, [serving[k] EXCEPT !.row = r, !.passed = @ \cup ({serving[k].row} \ {0}),
                                 !.seen[r] = IF r \in Transactions THEN store[r] ELSE Null])
  /\ UNCHANGED <<faults, operations, store, contested>>

\* The write of the row the loop is at, which nobody but a waiting push can tell from one
\* that is done later, and the SELECT of the next one.
ReachRow(k, r) ==
  /\ serving[k].state = "open"
  /\ r \in Left(k) /\ \A q \in Left(k) : ~Before(requests[k].rows, q, r)
  /\ MayWrite(k)
  /\ Serve(k, [serving[k] EXCEPT !.row = r, !.passed = @ \cup ({serving[k].row} \ {0}),
                                 !.seen[r] = IF r \in Transactions THEN store[r] ELSE Null])
  /\ UNCHANGED <<faults, operations, store, contested>>

\* Transactions push k writes over a row that was committed after it had read the record.
Overwrites(k) ==
  {r \in Transactions \cap Ids(requests[k].rows) :
     Writes(k, r) /\ store[r] # serving[k].seen[r]}

\* The last write, the answers under the key, and COMMIT.
CommitPush(k) ==
  /\ serving[k].state = "open"
  /\ Left(k) = {} /\ MayWrite(k)
  /\ LET rows == requests[k].rows
         push == serving[k]
     IN  /\ store' = Apply(store, push.seen, rows, push.skew)
         /\ operations' = [operations EXCEPT ![k] = Answers(push.seen, rows, push.skew)]
  /\ contested' = contested \cup Overwrites(k)
  /\ Serve(k, NotServed)
  /\ UNCHANGED faults

\* Pushes that wait for each other in a circle: Postgres aborts one of them.
Circle(S) ==
  \A k \in S : (\E j \in S : WaitsFor(k, j)) /\ (\E j \in S : WaitsFor(j, k))

Deadlocked(k) == \E S \in SUBSET Keys : k \in S /\ Circle(S)

\* Another push has inserted the record between the UPDATE that found none and the INSERT.
KeyTaken(k) ==
  LET r == serving[k].row
  IN  r \in Transactions /\ serving[k].seen[r] = Null /\ store[r] # Null

\* ROLLBACK: by Postgres, or because the server or its connection fails.
RollBack(k) ==
  /\ serving[k].state = "open"
  /\ \/ (Deadlocked(k) \/ KeyTaken(k)) /\ UNCHANGED faults
     \/ faults < MaxFaults /\ faults' = faults + 1
  /\ Serve(k, [NotServed EXCEPT !.state = "failed"])
  /\ UNCHANGED <<operations, store, contested>>

(* A pull. *)

ServerPull(t) ==
  /\ engine[t].phase = "pulling"
  /\ engine[t].page = Null
  /\ \E page \in PullPages(store, engine[t].lastPulledAt, engine[t].cursor, now) :
       engine' = [engine EXCEPT
         ![t].page = page,
         ![t].base = IF engine[t].lastPulledAt = 0 THEN store ELSE @]
  /\ UNCHANGED <<now, edits, faults, db, shown, removing, refresh, requests,
                 operations, store, serving, contested, ahead>>

-----------------------------------------------------------------------------
UserStep(t) ==
  \/ \E r \in Records, amount \in Amounts : Create(t, r, amount) \/ Edit(t, r, amount)
  \/ \E r \in Records : BeginRemove(t, r)
  \/ FinishRemove(t)
  \/ Hydrate(t)
  \/ Restart(t)

EngineAction(t) ==
  \/ Offline(t) \/ Wake(t) \/ ReadBanks(t) \/ ReadTransactions(t) \/ Fail(t)
  \/ SendBatch(t) \/ NoKeyLeft(t) \/ ReceiveAnswers(t) \/ ReceiveError(t)
  \/ \E r \in Records : BeginMark(t, r)
  \/ FinishMark(t) \/ BeginPull(t) \/ ReceivePage(t)

PushStep(k) ==
  BeginPush(k) \/ (\E r \in Records : ReachRow(k, r)) \/ CommitPush(k) \/ RollBack(k)

ServerStep ==
  \/ \E k \in Keys : PushStep(k)
  \/ \E t \in Tabs : ServerPull(t)

Next ==
  \/ Tick
  \/ \E t \in Tabs : UserStep(t) \/ EngineAction(t)
  \/ ServerStep

Spec == Init /\ [][Next]_vars
=============================================================================
