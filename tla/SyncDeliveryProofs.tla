------------------------- MODULE SyncDeliveryProofs -------------------------
(***************************************************************************)
(* What reaches the server and what comes back: categories before the      *)
(* transactions that name them, accepted content and nothing else, and     *)
(* every row of a pull.                                                    *)
(***************************************************************************)
EXTENDS SyncSafetyProofs

-----------------------------------------------------------------------------
(* What each step does, field by field. *)

\* Engines other than that of t are left alone.
OthersRest(t) == \A u \in Tabs \ {t} : engine'[u] = engine[u]

\* The engine of t keeps the fields that only a pull changes, or only a push.
PullFieldsRest(t) ==
  /\ engine'[t].page = engine[t].page /\ engine'[t].cursor = engine[t].cursor
  /\ engine'[t].base = engine[t].base
  /\ engine'[t].lastPulledAt = engine[t].lastPulledAt

PushFieldsRest(t) ==
  /\ engine'[t].todo = engine[t].todo /\ engine'[t].acks = engine[t].acks
  /\ engine'[t].held = engine[t].held /\ engine'[t].key = engine[t].key
  /\ engine'[t].began = engine[t].began

\* The engine of t is between cycles, with nothing in hand.
IsIdle(e) ==
  /\ e.phase = "idle" /\ e.todo = Empty /\ e.acks = Empty /\ e.held = Null
  /\ e.page = Null /\ e.cursor = Null /\ e.base = Empty /\ e.began = 0 /\ e.key = 0

LEMMA IdleIsIdle == \A since, primed : IsIdle(Idle(since, primed))
  BY DEF IsIdle, Idle

LEMMA EngineStepEffect ==
  ASSUME Typed, NEW t \in Tabs, NEW next, EngineStep(t, next)
  PROVE  /\ engine'[t] = next /\ OthersRest(t)
         /\ UNCHANGED <<now, edits, shown, removing, operations, store>>
  BY DEF EngineStep, Typed, TypeOK, OthersRest

LEMMA EndCycleEffect ==
  ASSUME Typed, NEW t \in Tabs, NEW since, NEW wrote, EndCycle(t, since, wrote)
  PROVE  /\ IsIdle(engine'[t]) /\ engine'[t].lastPulledAt = since /\ OthersRest(t)
         /\ UNCHANGED <<now, edits, shown, removing, operations, store>>
<1>1. EngineStep(t, Idle(since, TRUE))
  BY DEF EndCycle
<1>2. Idle(since, TRUE).lastPulledAt = since
  BY DEF Idle
<1> QED
  BY <1>1, <1>2, EngineStepEffect, IdleIsIdle

LEMMA CreateEffect ==
  ASSUME Typed, NEW t \in Tabs, NEW q \in Records, NEW amount \in Amounts,
         Create(t, q, amount)
  PROVE  \E row \in Row :
           /\ row.rev = edits + 1 /\ row.updated_at = Clock(DeviceOf[t])
           /\ ~ row.deleted /\ row.version = 0 /\ row.sync_status = "pending"
           /\ \A d \in Devices : db[d][q] = Null
           /\ q \in Transactions /\ CategoryOf[q] # Null => IsLive(shown[t], CategoryOf[q])
           /\ \A d \in Devices, r \in Records :
                db'[d][r] = IF d = DeviceOf[t] /\ r = q THEN row ELSE db[d][r]
           /\ \A u \in Tabs, r \in Records :
                shown'[u][r] = IF u = t /\ r = q THEN row ELSE shown[u][r]
           /\ edits' = edits + 1
           /\ UNCHANGED <<now, removing, engine, requests, operations, store>>
<1> DEFINE row == [rev |-> edits + 1, amount_minor |-> amount,
                   updated_at |-> Clock(DeviceOf[t]), deleted |-> FALSE,
                   version |-> 0, sync_status |-> "pending"]
<1>1. row \in Row
  BY ClockType, EngineFields DEF Row, Typed, TypeOK
<1>2. Written(t, q, row) /\ \A d \in Devices : db[d][q] = Null
  BY DEF Create
<1>3. /\ row.rev = edits + 1 /\ row.updated_at = Clock(DeviceOf[t])
      /\ ~ row.deleted /\ row.version = 0 /\ row.sync_status = "pending"
  OBVIOUS
<1> HIDE DEF row
<1>4. \A d \in Devices, r \in Records :
        db'[d][r] = IF d = DeviceOf[t] /\ r = q THEN row ELSE db[d][r]
  BY <1>2, EngineFields DEF Written, Put, Typed, TypeOK, Table
<1>5. \A u \in Tabs, r \in Records :
        shown'[u][r] = IF u = t /\ r = q THEN row ELSE shown[u][r]
  BY <1>2 DEF Written, Typed, TypeOK, Table
<1>6. edits' = edits + 1 /\ UNCHANGED <<now, removing, engine, requests, operations, store>>
  BY <1>2 DEF Written
<1>7. q \in Transactions /\ CategoryOf[q] # Null => IsLive(shown[t], CategoryOf[q])
  BY DEF Create
<1> QED
  BY <1>1, <1>2, <1>3, <1>4, <1>5, <1>6, <1>7

LEMMA EditEffect ==
  ASSUME Typed, NEW t \in Tabs, NEW q \in Records, NEW amount \in Amounts,
         Edit(t, q, amount)
  PROVE  \E row \in Row :
           /\ row.rev = edits + 1 /\ row.updated_at = Clock(DeviceOf[t])
           /\ ~ row.deleted /\ row.version = shown[t][q].version
           /\ row.sync_status = "pending"
           /\ IsLive(shown[t], q)
           /\ \A d \in Devices, r \in Records :
                db'[d][r] = IF d = DeviceOf[t] /\ r = q THEN row ELSE db[d][r]
           /\ \A u \in Tabs, r \in Records :
                shown'[u][r] = IF u = t /\ r = q THEN row ELSE shown[u][r]
           /\ edits' = edits + 1
           /\ UNCHANGED <<now, removing, engine, requests, operations, store>>
<1> DEFINE row == [shown[t][q] EXCEPT
                     !.rev = edits + 1, !.amount_minor = amount,
                     !.updated_at = Clock(DeviceOf[t]), !.sync_status = "pending"]
<1>1. shown[t][q] \in Row /\ ~ shown[t][q].deleted /\ IsLive(shown[t], q)
  BY DEF Edit, IsLive, Typed, TypeOK, Table
<1>2. Written(t, q, row)
  BY DEF Edit
<1>3. /\ row.rev = edits + 1 /\ row.updated_at = Clock(DeviceOf[t])
      /\ ~ row.deleted /\ row.version = shown[t][q].version
      /\ row.sync_status = "pending"
  BY <1>1 DEF Row
<1>4. row \in Row
  <2>1. edits + 1 \in Nat /\ Clock(DeviceOf[t]) \in Int
    BY ClockType, EngineFields DEF Typed, TypeOK
  <2>2. \A x \in Row, n \in Nat, c \in Int :
          [x EXCEPT !.rev = n, !.amount_minor = amount, !.updated_at = c,
                    !.sync_status = "pending"] \in Row
    BY DEF Row
  <2> QED
    BY <1>1, <2>1, <2>2
<1> HIDE DEF row
<1>5. \A d \in Devices, r \in Records :
        db'[d][r] = IF d = DeviceOf[t] /\ r = q THEN row ELSE db[d][r]
  BY <1>2, EngineFields DEF Written, Put, Typed, TypeOK, Table
<1>6. \A u \in Tabs, r \in Records :
        shown'[u][r] = IF u = t /\ r = q THEN row ELSE shown[u][r]
  BY <1>2 DEF Written, Typed, TypeOK, Table
<1>7. edits' = edits + 1 /\ UNCHANGED <<now, removing, engine, requests, operations, store>>
  BY <1>2 DEF Written
<1> QED
  BY <1>1, <1>3, <1>4, <1>5, <1>6, <1>7

LEMMA FinishRemoveEffect ==
  ASSUME Typed, NEW t \in Tabs, FinishRemove(t)
  PROVE  \E q \in Records, row \in Row :
           /\ removing[t] # Null /\ q = removing[t].id
           /\ row.rev = edits + 1 /\ row.updated_at = removing[t].at
           /\ row.deleted /\ row.version = removing[t].row.version
           /\ row.sync_status = "pending"
           /\ \A d \in Devices, r \in Records :
                db'[d][r] = IF d = DeviceOf[t] /\ r = q THEN row ELSE db[d][r]
           /\ \A u \in Tabs, r \in Records : u # t \/ r # q => shown'[u][r] = shown[u][r]
           /\ shown[t][q] = Null => shown'[t][q] = Null
           /\ shown[t][q] # Null =>
                /\ shown'[t][q] \in Row /\ shown'[t][q].deleted
                /\ shown'[t][q].version = shown[t][q].version
           /\ removing'[t] = Null /\ \A u \in Tabs \ {t} : removing'[u] = removing[u]
           /\ edits' = edits + 1
           /\ UNCHANGED <<now, engine, requests, operations, store>>
<1> DEFINE del == removing[t]
           q   == del.id
           cur == shown[t][q]
           row == Tombstone(del.row, del.at)
<1>1. del # Null /\ q \in Records /\ del.at \in Int /\ del.row \in Row
  BY DEF FinishRemove, Typed, TypeOK
<1>2. row \in Row
  BY <1>1, TombstoneType DEF Typed
<1>3. \A x \in Row, at \in Int :
        /\ Tombstone(x, at).rev = edits + 1 /\ Tombstone(x, at).updated_at = at
        /\ Tombstone(x, at).deleted /\ Tombstone(x, at).version = x.version
        /\ Tombstone(x, at).sync_status = "pending"
  BY DEF Tombstone, Row
<1>4. cur = Null \/ cur \in Row
  BY <1>1 DEF Typed, TypeOK, Table
<1>5. cur # Null => Tombstone(cur, del.at) \in Row
  BY <1>1, <1>4, TombstoneType DEF Typed
<1>6. shown' = [shown EXCEPT ![t][q] = IF cur = Null THEN Null ELSE Tombstone(cur, del.at)]
  BY DEF FinishRemove
<1>7. db' = [db EXCEPT ![DeviceOf[t]] = Put(@, q, row)]
  BY DEF FinishRemove
<1>8. row.rev = edits + 1 /\ row.updated_at = del.at /\ row.deleted
      /\ row.version = del.row.version /\ row.sync_status = "pending"
  BY <1>1, <1>3
<1> HIDE DEF row, cur
<1>9. \A d \in Devices, r \in Records :
        db'[d][r] = IF d = DeviceOf[t] /\ r = q THEN row ELSE db[d][r]
  BY <1>1, <1>7, EngineFields DEF Put, Typed, TypeOK, Table
<1>10. /\ \A u \in Tabs, r \in Records : u # t \/ r # q => shown'[u][r] = shown[u][r]
       /\ shown'[t][q] = IF cur = Null THEN Null ELSE Tombstone(cur, del.at)
  BY <1>1, <1>6 DEF Typed, TypeOK, Table
<1>11. cur # Null => Tombstone(cur, del.at).deleted
                     /\ Tombstone(cur, del.at).version = cur.version
  BY <1>1, <1>3, <1>4
<1>12. removing'[t] = Null /\ \A u \in Tabs \ {t} : removing'[u] = removing[u]
  BY DEF FinishRemove, Typed, TypeOK
<1>13. edits' = edits + 1 /\ UNCHANGED <<now, engine, requests, operations, store>>
  BY DEF FinishRemove
<1>14. /\ cur = Null => shown'[t][q] = Null
       /\ cur # Null => /\ shown'[t][q] \in Row /\ shown'[t][q].deleted
                        /\ shown'[t][q].version = cur.version
  BY <1>5, <1>10, <1>11
<1> USE DEF cur
<1> QED
  BY <1>1, <1>2, <1>8, <1>9, <1>10, <1>12, <1>13, <1>14

LEMMA BeginRemoveEffect ==
  ASSUME Typed, NEW t \in Tabs, NEW q \in Records, BeginRemove(t, q)
  PROVE  /\ IsLive(shown[t], q)
         /\ db[DeviceOf[t]][q] # Null /\ db[DeviceOf[t]][q] \in Row
         /\ removing'[t].id = q
         /\ removing'[t].at = Clock(DeviceOf[t])
         /\ removing'[t].row = db[DeviceOf[t]][q]
         /\ \A u \in Tabs \ {t} : removing'[u] = removing[u]
         /\ UNCHANGED <<now, edits, db, shown, engine, requests, operations, store>>
<1> DEFINE del == [id |-> q, at |-> Clock(DeviceOf[t]), row |-> db[DeviceOf[t]][q]]
<1>1. removing' = [removing EXCEPT ![t] = del]
  BY DEF BeginRemove
<1>2. removing'[t] = del /\ \A u \in Tabs \ {t} : removing'[u] = removing[u]
  BY <1>1 DEF Typed, TypeOK
<1>3. db[DeviceOf[t]][q] \in Row
  BY EngineFields DEF BeginRemove, Typed, TypeOK, Table
<1> QED
  BY <1>2, <1>3 DEF BeginRemove

LEMMA RefreshEffect ==
  ASSUME Typed, NEW t \in Tabs, Hydrate(t) \/ Restart(t)
  PROVE  /\ shown'[t] = db[DeviceOf[t]] /\ \A u \in Tabs \ {t} : shown'[u] = shown[u]
         /\ \A u \in Tabs : removing'[u] = removing[u] \/ removing'[u] = Null
         /\ UNCHANGED <<now, edits, db, requests, operations, store>>
  BY DEF Hydrate, Restart, Typed, TypeOK

LEMMA RestartEffect ==
  ASSUME Typed, NEW t \in Tabs, Restart(t)
  PROVE  /\ IsIdle(engine'[t]) /\ engine'[t].lastPulledAt = 0 /\ OthersRest(t)
         /\ removing'[t] = Null /\ \A u \in Tabs \ {t} : removing'[u] = removing[u]
<1>1. engine'[t] = Idle(0, FALSE) /\ OthersRest(t)
  BY DEF Restart, Typed, TypeOK, OthersRest
<1>2. Idle(0, FALSE).lastPulledAt = 0
  BY DEF Idle
<1> QED
  BY <1>1, <1>2, IdleIsIdle DEF Restart, Typed, TypeOK

\* A cycle that ends without a page: nothing but the engine changes.
LEMMA GiveUpEffect ==
  ASSUME Typed, NEW t \in Tabs, Offline(t) \/ Fail(t) \/ NoKeyLeft(t) \/ ReceiveError(t)
  PROVE  /\ IsIdle(engine'[t]) /\ engine'[t].lastPulledAt = engine[t].lastPulledAt
         /\ OthersRest(t)
         /\ UNCHANGED <<now, edits, db, shown, removing, requests, operations, store>>
<1>1. EndCycle(t, engine[t].lastPulledAt, FALSE) /\ UNCHANGED <<db, requests>>
  BY DEF Offline, Fail, NoKeyLeft, ReceiveError
<1> QED
  BY <1>1, EndCycleEffect

\* A read of pending() puts rows of the disk into the snapshot, each still unsynced.
Reading(t) == Wake(t) \/ ReadBanks(t) \/ ReadTransactions(t)

Unsynced(table, r) == table[r] # Null /\ table[r].sync_status # "synced"

LEMMA PendingRows ==
  ASSUME NEW table \in Table, NEW r \in Records
  PROVE  /\ Pending(table)[r] = Null \/ Pending(table)[r] = table[r]
         /\ Pending(table)[r] # Null <=> Unsynced(table, r)
<1>1. table[r] # Null => table[r].sync_status \in {"pending", "synced", "failed"}
  BY DEF Table, Row
<1> QED
  BY <1>1 DEF Pending, Only, Ids, Unsynced

LEMMA ReadingEffect ==
  ASSUME Typed, NEW t \in Tabs, Reading(t)
  PROVE  /\ engine[t].phase \in {"idle", "banks", "transactions"}
         /\ engine'[t].phase \in {"banks", "transactions", "sending"}
         /\ \A r \in Records :
              engine'[t].todo[r] # Null =>
                \/ engine'[t].todo[r] = engine[t].todo[r] /\ engine[t].phase # "idle"
                \/ /\ engine'[t].todo[r] = db[DeviceOf[t]][r]
                   /\ Unsynced(db[DeviceOf[t]], r)
                   /\ r \in Transactions => engine'[t].phase = "sending"
         /\ engine'[t].acks = engine[t].acks /\ engine'[t].held = engine[t].held
         /\ PullFieldsRest(t) /\ OthersRest(t)
         /\ UNCHANGED <<now, edits, db, shown, removing, requests, operations, store>>
<1> DEFINE disk == db[DeviceOf[t]]
<1>1. PICK phase, began, todo :
        EngineStep(t, [engine[t] EXCEPT !.phase = phase, !.began = began, !.todo = todo])
  BY ReadingSteps DEF Reading
<1>2. /\ engine'[t] = [engine[t] EXCEPT !.phase = phase, !.began = began, !.todo = todo]
      /\ OthersRest(t)
      /\ UNCHANGED <<now, edits, shown, removing, operations, store>>
  BY <1>1, EngineStepEffect
<1>3. /\ engine'[t].acks = engine[t].acks /\ engine'[t].held = engine[t].held
      /\ PullFieldsRest(t)
  BY <1>2, EngineFields DEF Engine, PullFieldsRest
<1>4. UNCHANGED <<db, requests>>
  BY DEF Reading, Wake, ReadBanks, ReadTransactions
<1>5. disk \in Table
  BY EngineFields
<1>6. CASE Wake(t)
  <2>1. engine[t].phase = "idle" /\ engine'[t].phase = "banks"
        /\ engine'[t].todo = Only(Pending(disk), Categories \ Banks)
    <3>1. EngineStep(t, [engine[t] EXCEPT !.phase = "banks",
                           !.todo = Only(Pending(disk), Categories \ Banks)])
      BY <1>6 DEF Wake
    <3>2. engine'[t] = [engine[t] EXCEPT !.phase = "banks",
                          !.todo = Only(Pending(disk), Categories \ Banks)]
      BY <3>1, EngineStepEffect
    <3> HIDE DEF disk
    <3> QED
      BY <1>6, <3>2, EngineFields DEF Wake, Engine
  <2> HIDE DEF disk
  <2>2. ASSUME NEW r \in Records, engine'[t].todo[r] # Null
        PROVE  engine'[t].todo[r] = disk[r] /\ Unsynced(disk, r) /\ r \notin Transactions
    <3>1. engine'[t].todo[r] = Pending(disk)[r] /\ r \in Categories
      BY <2>1, <2>2 DEF Only
    <3> QED
      BY <3>1, <2>2, <1>5, PendingRows, IdsAssumption DEF IdsAssumption
  <2> QED
    BY <1>2, <1>3, <1>4, <2>1, <2>2 DEF disk
<1>7. CASE ReadBanks(t)
  <2>1. engine[t].phase = "banks" /\ engine'[t].phase = "transactions"
        /\ engine'[t].todo = BulkPut(engine[t].todo, Only(Pending(disk), Banks))
    <3>1. EngineStep(t, [engine[t] EXCEPT !.phase = "transactions",
                           !.todo = BulkPut(@, Only(Pending(disk), Banks))])
      BY <1>7 DEF ReadBanks
    <3>2. engine'[t] = [engine[t] EXCEPT !.phase = "transactions",
                          !.todo = BulkPut(@, Only(Pending(disk), Banks))]
      BY <3>1, EngineStepEffect
    <3> HIDE DEF disk
    <3> QED
      BY <1>7, <3>2, EngineFields DEF ReadBanks, Engine
  <2> HIDE DEF disk
  <2>2. ASSUME NEW r \in Records, engine'[t].todo[r] # Null
        PROVE  \/ engine'[t].todo[r] = engine[t].todo[r]
               \/ engine'[t].todo[r] = disk[r] /\ Unsynced(disk, r) /\ r \notin Transactions
    <3>1. \/ engine'[t].todo[r] = engine[t].todo[r]
          \/ engine'[t].todo[r] = Pending(disk)[r] /\ r \in Banks
      BY <2>1 DEF BulkPut, Only
    <3> QED
      BY <3>1, <2>2, <1>5, PendingRows, IdsAssumption DEF IdsAssumption
  <2> QED
    BY <1>2, <1>3, <1>4, <2>1, <2>2 DEF disk
<1>8. CASE ReadTransactions(t)
  <2>1. engine[t].phase = "transactions" /\ engine'[t].phase = "sending"
        /\ engine'[t].todo = BulkPut(engine[t].todo, Only(Pending(disk), Transactions))
    <3> DEFINE found == BulkPut(engine[t].todo, Only(Pending(disk), Transactions))
    <3>1. EngineStep(t, [engine[t] EXCEPT !.phase = "sending", !.began = edits, !.todo = found])
      BY <1>8 DEF ReadTransactions
    <3>2. engine'[t] = [engine[t] EXCEPT !.phase = "sending", !.began = edits, !.todo = found]
      BY <3>1, EngineStepEffect
    <3> HIDE DEF found
    <3>3. engine'[t].phase = "sending" /\ engine'[t].todo = found
      BY <3>2, EngineFields DEF Engine
    <3> QED
      BY <1>8, <3>3 DEF ReadTransactions, found
  <2> HIDE DEF disk
  <2>2. ASSUME NEW r \in Records, engine'[t].todo[r] # Null
        PROVE  \/ engine'[t].todo[r] = engine[t].todo[r]
               \/ engine'[t].todo[r] = disk[r] /\ Unsynced(disk, r)
    <3>1. \/ engine'[t].todo[r] = engine[t].todo[r]
          \/ engine'[t].todo[r] = Pending(disk)[r]
      BY <2>1 DEF BulkPut, Only
    <3> QED
      BY <3>1, <2>2, <1>5, PendingRows
  <2> QED
    BY <1>2, <1>3, <1>4, <2>1, <2>2 DEF disk
<1> QED
  BY <1>6, <1>7, <1>8 DEF Reading

LEMMA SendBatchEffect ==
  ASSUME Typed, NEW t \in Tabs, SendBatch(t)
  PROVE  \E S \in Batches(engine[t].todo), k \in Keys :
           /\ S # {} /\ S \subseteq Ids(engine[t].todo)
           /\ engine[t].phase = "sending" /\ engine[t].acks = Empty
           /\ engine[t].held = Null
           /\ requests[k] = Null /\ requests'[k] # Null
           /\ requests'[k].device_id = DeviceOf[t]
           /\ requests'[k].client_time = Clock(DeviceOf[t])
           /\ \A r \in Records : requests'[k].rows[r]
                = IF r \in S THEN engine[t].todo[r] ELSE Null
           /\ \A j \in Keys \ {k} : requests'[j] = requests[j]
           /\ engine'[t].phase = "pushing" /\ engine'[t].key = k
           /\ engine'[t].todo \in Table
           /\ \A r \in Records : engine'[t].todo[r]
                = IF r \in S THEN Null ELSE engine[t].todo[r]
           /\ engine'[t].acks = engine[t].acks /\ engine'[t].held = engine[t].held
           /\ engine'[t].began = engine[t].began
           /\ ahead' = ahead \cup Overtaking(engine[t].todo, S)
           /\ PullFieldsRest(t) /\ OthersRest(t)
           /\ UNCHANGED <<now, edits, db, shown, removing, operations, store>>
<1>1. PICK S \in Batches(engine[t].todo), k \in Keys :
        /\ S # {} /\ requests[k] = Null
        /\ requests' = [requests EXCEPT ![k] =
                          [device_id |-> DeviceOf[t], client_time |-> Clock(DeviceOf[t]),
                           rows |-> Only(engine[t].todo, S)]]
        /\ EngineStep(t, [engine[t] EXCEPT !.phase = "pushing", !.key = k,
                            !.todo = Only(@, Records \ S)])
        /\ ahead' = ahead \cup Overtaking(engine[t].todo, S)
  BY DEF SendBatch
<1> DEFINE next == [engine[t] EXCEPT !.phase = "pushing", !.key = k,
                                     !.todo = Only(@, Records \ S)]
           sent == [device_id |-> DeviceOf[t], client_time |-> Clock(DeviceOf[t]),
                    rows |-> Only(engine[t].todo, S)]
<1>2. engine'[t] = next /\ OthersRest(t)
      /\ UNCHANGED <<now, edits, shown, removing, operations, store>>
  BY <1>1, EngineStepEffect
<1>3. requests'[k] = sent /\ \A j \in Keys \ {k} : requests'[j] = requests[j]
  BY <1>1 DEF Typed, TypeOK
<1>4. requests'[k] # Null
  <2>1. sent \in Request
    BY EngineFields, OnlyType, ClockType DEF Request, Typed
  <2> QED
    BY <2>1, <1>3, NullRequestAssumption DEF NullRequestAssumption
<1>5. /\ requests'[k].device_id = DeviceOf[t]
      /\ requests'[k].client_time = Clock(DeviceOf[t])
      /\ requests'[k].rows = Only(engine[t].todo, S)
  BY <1>3
<1>6. \A r \in Records : requests'[k].rows[r]
        = IF r \in S THEN engine[t].todo[r] ELSE Null
  BY <1>5 DEF Only
<1>7. S \subseteq Ids(engine[t].todo)
  BY <1>1 DEF Batches
<1>8. engine'[t].phase = "pushing" /\ engine'[t].key = k
      /\ engine'[t].todo = Only(engine[t].todo, Records \ S)
  BY <1>2, EngineFields DEF Engine
<1>9. \A r \in Records : engine'[t].todo[r]
        = IF r \in S THEN Null ELSE engine[t].todo[r]
  BY <1>8 DEF Only
<1>10. engine'[t].todo \in Table
  BY <1>8, EngineFields, OnlyType
<1>11. engine'[t].acks = engine[t].acks /\ engine'[t].held = engine[t].held
       /\ engine'[t].began = engine[t].began /\ PullFieldsRest(t)
  BY <1>2, EngineFields DEF Engine, PullFieldsRest
<1>12. engine[t].phase = "sending" /\ engine[t].acks = Empty /\ engine[t].held = Null
       /\ UNCHANGED db
  BY DEF SendBatch, Marked
<1> QED
  BY <1>1, <1>2, <1>3, <1>4, <1>5, <1>6, <1>7, <1>8, <1>9, <1>10, <1>11, <1>12

LEMMA ReceiveAnswersEffect ==
  ASSUME Typed, NEW t \in Tabs, ReceiveAnswers(t)
  PROVE  /\ engine[t].phase = "pushing" /\ engine[t].key \in Keys
         /\ operations[engine[t].key] # Null
         /\ engine'[t].phase = "sending" /\ engine'[t].acks = operations[engine[t].key]
         /\ engine'[t].todo = engine[t].todo /\ engine'[t].held = engine[t].held
         /\ engine'[t].began = engine[t].began
         /\ PullFieldsRest(t) /\ OthersRest(t)
         /\ UNCHANGED <<now, edits, db, shown, removing, requests, operations, store>>
<1> DEFINE next == [engine[t] EXCEPT !.phase = "sending",
                      !.acks = operations[engine[t].key], !.key = 0]
<1>1. EngineStep(t, next)
  BY DEF ReceiveAnswers
<1>2. engine'[t] = next /\ OthersRest(t)
  BY <1>1, EngineStepEffect
<1>3. /\ engine'[t].phase = "sending" /\ engine'[t].acks = operations[engine[t].key]
      /\ engine'[t].todo = engine[t].todo /\ engine'[t].held = engine[t].held
      /\ engine'[t].began = engine[t].began /\ PullFieldsRest(t)
  BY <1>2, EngineFields DEF Engine, PullFieldsRest
<1> QED
  BY <1>2, <1>3, EngineFields DEF ReceiveAnswers, EngineStep

LEMMA BeginMarkEffect ==
  ASSUME Typed, NEW t \in Tabs, NEW q \in Records, BeginMark(t, q)
  PROVE  /\ engine[t].phase = "sending" /\ engine[t].held = Null
         /\ engine[t].acks[q] # Null
         /\ db[DeviceOf[t]][q] # Null /\ db[DeviceOf[t]][q] \in Row
         /\ engine'[t].phase = "sending"
         /\ engine'[t].held.id = q
         /\ engine'[t].held.row = db[DeviceOf[t]][q]
         /\ engine'[t].todo = engine[t].todo /\ engine'[t].acks = engine[t].acks
         /\ engine'[t].began = engine[t].began
         /\ PullFieldsRest(t) /\ OthersRest(t)
         /\ UNCHANGED <<now, edits, db, shown, removing, requests, operations, store>>
<1> DEFINE held == [id |-> q, row |-> db[DeviceOf[t]][q]]
           next == [engine[t] EXCEPT !.held = held]
<1>1. EngineStep(t, next)
  BY DEF BeginMark
<1>2. engine'[t] = next /\ OthersRest(t)
  BY <1>1, EngineStepEffect
<1>3. db[DeviceOf[t]][q] \in Row /\ engine[t].phase = "sending"
  BY EngineFields DEF BeginMark, Table
<1>4. engine'[t].held = held
  BY <1>2, EngineFields DEF Engine
<1>5. /\ engine'[t].phase = engine[t].phase
      /\ engine'[t].todo = engine[t].todo /\ engine'[t].acks = engine[t].acks
      /\ engine'[t].began = engine[t].began /\ PullFieldsRest(t)
  BY <1>2, EngineFields DEF Engine, PullFieldsRest
<1> QED
  BY <1>2, <1>3, <1>4, <1>5 DEF BeginMark, EngineStep

LEMMA FinishMarkEffect ==
  ASSUME Typed, NEW t \in Tabs, FinishMark(t)
  PROVE  \E q \in Records :
           /\ engine[t].phase = "sending"
           /\ engine[t].held # Null /\ engine[t].held.id = q
           /\ engine[t].held.row \in Row /\ engine[t].acks[q] \in Answer
           /\ \A d \in Devices, r \in Records :
                db'[d][r] = IF d = DeviceOf[t] /\ r = q
                            THEN Marking(engine[t].held.row, engine[t].acks[q])
                            ELSE db[d][r]
           /\ engine'[t].phase = "sending" /\ engine'[t].held = Null
           /\ \A r \in Records :
                engine'[t].acks[r] = IF r = q THEN Null ELSE engine[t].acks[r]
           /\ engine'[t].todo = engine[t].todo /\ engine'[t].began = engine[t].began
           /\ PullFieldsRest(t) /\ OthersRest(t)
           /\ UNCHANGED <<now, edits, shown, removing, requests, operations, store>>
<1> DEFINE q    == engine[t].held.id
           row  == Marking(engine[t].held.row, engine[t].acks[q])
           next == [engine[t] EXCEPT !.held = Null, !.acks[q] = Null]
<1>1. /\ engine[t].held # Null /\ q \in Records /\ engine[t].held.row \in Row
      /\ engine[t].acks[q] \in Answer /\ engine[t].phase = "sending"
  BY EngineFields DEF FinishMark, AnswerTable
<1>2. db' = [db EXCEPT ![DeviceOf[t]] = Put(@, q, row)] /\ EngineStep(t, next)
  BY DEF FinishMark
<1>3. engine'[t] = next /\ OthersRest(t)
      /\ UNCHANGED <<now, edits, shown, removing, operations, store>>
  BY <1>2, EngineStepEffect
<1>4. /\ engine'[t].phase = "sending" /\ engine'[t].held = Null
      /\ engine'[t].acks = [engine[t].acks EXCEPT ![q] = Null]
      /\ engine'[t].todo = engine[t].todo /\ engine'[t].began = engine[t].began
      /\ PullFieldsRest(t)
  BY <1>1, <1>3, EngineFields DEF Engine, PullFieldsRest
<1>5. \A r \in Records :
        engine'[t].acks[r] = IF r = q THEN Null ELSE engine[t].acks[r]
  BY <1>1, <1>4, EngineFields DEF AnswerTable
<1> HIDE DEF row, next
<1>6. \A d \in Devices, r \in Records :
        db'[d][r] = IF d = DeviceOf[t] /\ r = q THEN row ELSE db[d][r]
  BY <1>1, <1>2, EngineFields DEF Put, Typed, TypeOK, Table
<1>7. requests' = requests
  BY DEF FinishMark
<1> USE DEF row
<1> QED
  BY <1>1, <1>3, <1>4, <1>5, <1>6, <1>7

LEMMA BeginPullEffect ==
  ASSUME Typed, NEW t \in Tabs, BeginPull(t)
  PROVE  /\ engine[t].phase = "sending" /\ engine[t].todo = Empty
         /\ engine[t].acks = Empty /\ engine[t].held = Null
         /\ engine'[t].phase = "pulling"
         /\ PushFieldsRest(t) /\ PullFieldsRest(t) /\ OthersRest(t)
         /\ UNCHANGED <<now, edits, db, shown, removing, requests, operations, store>>
<1> DEFINE next == [engine[t] EXCEPT !.phase = "pulling"]
<1>1. engine'[t] = next /\ OthersRest(t)
  BY EngineStepEffect DEF BeginPull
<1>2. engine'[t].phase = "pulling" /\ PushFieldsRest(t) /\ PullFieldsRest(t)
  BY <1>1, EngineFields DEF Engine, PushFieldsRest, PullFieldsRest
<1> QED
  BY <1>1, <1>2 DEF BeginPull, Marked, EngineStep

LEMMA ReceivePageEffect ==
  ASSUME Typed, NEW t \in Tabs, ReceivePage(t)
  PROVE  LET page == engine[t].page
         IN  /\ engine[t].phase = "pulling" /\ page # Null
             /\ page.rows \in Table /\ page.next_cursor \in Cursor \cup {Null}
             /\ page.server_time \in Nat
             /\ \A d \in Devices, r \in Records :
                  db'[d][r] = IF d = DeviceOf[t] /\ page.rows[r] # Null
                              THEN page.rows[r] ELSE db[d][r]
             /\ engine'[t].lastPulledAt = page.server_time
             /\ \/ /\ IsIdle(engine'[t])
                   /\ page.next_cursor = Null \/ engine[t].pages + 1 > MaxPages
                \/ /\ page.next_cursor # Null
                   /\ engine'[t].phase = "pulling" /\ engine'[t].page = Null
                   /\ engine'[t].cursor = page.next_cursor
                   /\ engine'[t].base = engine[t].base /\ PushFieldsRest(t)
             /\ OthersRest(t)
             /\ UNCHANGED <<now, edits, shown, removing, requests, operations, store>>
<1> DEFINE page  == engine[t].page
           wrote == engine[t].wrote \/ page.rows # Empty
           pages == engine[t].pages + 1
           next  == [engine[t] EXCEPT
                       !.page = Null, !.cursor = page.next_cursor, !.pages = pages,
                       !.wrote = wrote, !.lastPulledAt = page.server_time]
<1>1. engine[t].phase = "pulling" /\ page # Null /\ page \in Page
  BY EngineFields DEF ReceivePage
<1>2. /\ page.rows \in Table /\ page.next_cursor \in Cursor \cup {Null}
      /\ page.server_time \in Nat
  BY <1>1 DEF Page
<1>3. \A d \in Devices, r \in Records :
        db'[d][r] = IF d = DeviceOf[t] /\ page.rows[r] # Null
                    THEN page.rows[r] ELSE db[d][r]
  <2>1. db' = [db EXCEPT ![DeviceOf[t]] = BulkPut(@, page.rows)]
    BY DEF ReceivePage
  <2> HIDE DEF page
  <2> QED
    BY <2>1, EngineFields DEF BulkPut, Typed, TypeOK
<1>4. requests' = requests
  BY DEF ReceivePage
<1>5. CASE page.next_cursor = Null \/ pages > MaxPages
  <2>1. EndCycle(t, page.server_time, wrote)
    BY <1>5 DEF ReceivePage
  <2> HIDE DEF wrote
  <2>2. /\ IsIdle(engine'[t]) /\ engine'[t].lastPulledAt = page.server_time
        /\ OthersRest(t)
        /\ UNCHANGED <<now, edits, shown, removing, operations, store>>
    BY <2>1, EndCycleEffect
  <2> QED
    BY <1>1, <1>2, <1>3, <1>4, <1>5, <2>2
<1>6. CASE ~ (page.next_cursor = Null \/ pages > MaxPages)
  <2>1. EngineStep(t, next)
    BY <1>6 DEF ReceivePage
  <2>2. engine'[t] = next /\ OthersRest(t)
        /\ UNCHANGED <<now, edits, shown, removing, operations, store>>
    BY <2>1, EngineStepEffect
  <2>3. /\ engine'[t].phase = "pulling" /\ engine'[t].page = Null
        /\ engine'[t].cursor = page.next_cursor
        /\ engine'[t].lastPulledAt = page.server_time
        /\ engine'[t].base = engine[t].base /\ PushFieldsRest(t)
    BY <1>1, <2>2, EngineFields DEF Engine, PushFieldsRest
  <2> HIDE DEF next
  <2> QED
    BY <1>1, <1>2, <1>3, <1>4, <1>6, <2>2, <2>3
<1> QED
  BY <1>5, <1>6

LEMMA ServerPullEffect ==
  ASSUME Typed, NEW t \in Tabs, ServerPull(t)
  PROVE  \E page \in PullPages(store, engine[t].lastPulledAt, engine[t].cursor, now) :
           /\ engine[t].phase = "pulling" /\ engine[t].page = Null
           /\ page \in Page
           /\ engine'[t].phase = "pulling" /\ engine'[t].page = page
           /\ engine'[t].base = IF engine[t].lastPulledAt = 0 THEN store ELSE engine[t].base
           /\ engine'[t].cursor = engine[t].cursor
           /\ engine'[t].lastPulledAt = engine[t].lastPulledAt
           /\ PushFieldsRest(t) /\ OthersRest(t)
           /\ UNCHANGED <<now, edits, db, shown, removing, requests, operations, store>>
<1>1. PICK page \in PullPages(store, engine[t].lastPulledAt, engine[t].cursor, now) :
        engine' = [engine EXCEPT
          ![t].page = page,
          ![t].base = IF engine[t].lastPulledAt = 0 THEN store ELSE @]
  BY DEF ServerPull
<1>2. page \in Page
  BY PullPagesType DEF Typed, TypeOK
<1>3. engine[t].phase = "pulling" /\ engine[t].page = Null
  BY DEF ServerPull
<1>4. /\ engine'[t].phase = "pulling" /\ engine'[t].page = page
      /\ engine'[t].base = IF engine[t].lastPulledAt = 0 THEN store ELSE engine[t].base
      /\ engine'[t].cursor = engine[t].cursor
      /\ engine'[t].lastPulledAt = engine[t].lastPulledAt
      /\ PushFieldsRest(t) /\ OthersRest(t)
  BY <1>1, <1>3, EngineFields DEF Engine, PushFieldsRest, OthersRest, Typed, TypeOK
<1>5. UNCHANGED <<now, edits, db, shown, removing, requests, operations, store>>
  BY DEF ServerPull
<1> QED
  BY <1>2, <1>3, <1>4, <1>5

\* The last statement of push k, and what it does to category c.
LEMMA CommitFrame ==
  ASSUME Typed, NEW k \in Keys, CommitPush(k)
  PROVE  /\ requests[k] # Null /\ requests[k] \in Request /\ operations[k] = Null
         /\ serving[k] \in Serving /\ serving[k].state = "open"
         /\ \A j \in Keys \ {k} : operations'[j] = operations[j]
         /\ \A j \in Keys \ {k} : serving'[j] = serving[j]
         /\ serving'[k] = NotServed
         /\ UNCHANGED <<now, edits, db, shown, removing, engine, requests, ahead>>
<1>1. PushStep(k) /\ serving[k].state = "open"
  BY DEF PushStep, CommitPush
<1>2. requests[k] # Null /\ operations[k] = Null
  BY <1>1 DEF Typed, Served
<1>3. requests[k] \in Request /\ serving[k] \in Serving
  BY <1>2 DEF Typed, TypeOK
<1> QED
  BY <1>1, <1>2, <1>3, PushStepFrame

LEMMA CommitCategory ==
  ASSUME Typed, NEW k \in Keys, CommitPush(k), NEW c \in Categories
  PROVE  LET rows == requests[k].rows
             sent == Correct(rows[c], serving[k].skew)
         IN  /\ operations'[k] # Null /\ operations'[k][c] = Null
             /\ rows[c] = Null => store'[c] = store[c]
             /\ rows[c] # Null =>
                  /\ rows[c] \in Row /\ sent \in Row
                  /\ store'[c] = PutCategory(sent, store[c])
<1> DEFINE skew == serving[k].skew
           seen == serving[k].seen
           rows == requests[k].rows
<1>1. skew \in Int /\ rows \in Table /\ seen \in Table
  BY CommitFrame DEF Request, Serving
<1>2. /\ store' = Apply(store, seen, rows, skew)
      /\ operations' = [operations EXCEPT ![k] = Answers(seen, rows, skew)]
  BY DEF CommitPush
<1> HIDE DEF skew, rows, seen
<1>3. c \in Records /\ c \notin Transactions
  BY IdsAssumption DEF Records, IdsAssumption
<1>4. operations'[k] = Answers(seen, rows, skew) /\ operations'[k] \in AnswerTable
  BY <1>1, <1>2, AnswersType DEF Typed, TypeOK
<1>5. operations'[k] # Null /\ operations'[k][c] = Null
  BY <1>3, <1>4, NullAnswerAssumption DEF Answers, NullAnswerAssumption
<1>6. rows[c] = Null => store'[c] = store[c]
  BY <1>2, <1>3 DEF Apply
<1>7. rows[c] # Null => store'[c] = PutCategory(Correct(rows[c], skew), store[c])
  BY <1>2, <1>3 DEF Apply
<1>8. rows[c] # Null => rows[c] \in Row /\ Correct(rows[c], skew) \in Row
  BY <1>1, <1>3, CorrectType DEF Table
<1> USE DEF skew, rows
<1> QED
  BY <1>5, <1>6, <1>7, <1>8

-----------------------------------------------------------------------------
(* Where the new value of each part of the state comes from. *)

LEMMA EngineOrigin ==
  ASSUME Typed, [Next]_vars, NEW t \in Tabs
  PROVE  \/ engine'[t] = engine[t]
         \/ IsIdle(engine'[t])
         \/ Reading(t) \/ SendBatch(t) \/ ReceiveAnswers(t)
         \/ \E q \in Records : BeginMark(t, q)
         \/ FinishMark(t) \/ BeginPull(t) \/ ReceivePage(t) \/ ServerPull(t)
<1>1. CASE Tick \/ UNCHANGED vars \/ \E k \in Keys : PushStep(k)
  BY <1>1, PushStepFrame DEF Tick, vars
<1>2. ASSUME NEW u \in Tabs, UserStep(u)
      PROVE  engine'[t] = engine[t] \/ IsIdle(engine'[t])
  <2>1. CASE Restart(u)
    BY <2>1, RestartEffect DEF OthersRest
  <2>2. CASE engine' = engine
    BY <2>2
  <2> QED
    BY <1>2, <2>1, <2>2 DEF UserStep, Create, Edit, Written, BeginRemove, FinishRemove, Hydrate
<1>3. ASSUME NEW u \in Tabs, EngineAction(u)
      PROVE  \/ engine'[t] = engine[t] \/ IsIdle(engine'[t])
             \/ u = t /\ (Reading(t) \/ SendBatch(t) \/ ReceiveAnswers(t)
                          \/ (\E q \in Records : BeginMark(t, q))
                          \/ FinishMark(t) \/ BeginPull(t) \/ ReceivePage(t))
  <2>1. OthersRest(u)
    <3>1. CASE Offline(u) \/ Fail(u) \/ NoKeyLeft(u) \/ ReceiveError(u)
      BY <3>1, GiveUpEffect
    <3>2. CASE Reading(u) \/ SendBatch(u) \/ ReceiveAnswers(u)
      BY <3>2, ReadingEffect, SendBatchEffect, ReceiveAnswersEffect
    <3>3. CASE (\E q \in Records : BeginMark(u, q)) \/ FinishMark(u)
      BY <3>3, BeginMarkEffect, FinishMarkEffect
    <3>4. CASE BeginPull(u) \/ ReceivePage(u)
      BY <3>4, BeginPullEffect, ReceivePageEffect
    <3> QED
      BY <1>3, <3>1, <3>2, <3>3, <3>4 DEF EngineAction, Reading
  <2>2. CASE u # t
    BY <2>1, <2>2 DEF OthersRest
  <2>3. CASE u = t /\ (Offline(t) \/ Fail(t) \/ NoKeyLeft(t) \/ ReceiveError(t))
    BY <2>3, GiveUpEffect
  <2> QED
    BY <1>3, <2>2, <2>3 DEF EngineAction, Reading
<1>4. ASSUME NEW u \in Tabs, ServerPull(u)
      PROVE  engine'[t] = engine[t] \/ ServerPull(t)
  BY <1>4, ServerPullEffect DEF OthersRest
<1> QED
  BY <1>1, <1>2, <1>3, <1>4 DEF Next, ServerStep

\* The clock and the server leave the devices alone.
LEMMA ServerFrame ==
  ASSUME Typed, Tick \/ UNCHANGED vars \/ ServerStep
  PROVE  /\ UNCHANGED <<edits, db, shown, removing, requests>>
         /\ now' = now \/ Tick
<1>1. ASSUME NEW k \in Keys, PushStep(k)
      PROVE  UNCHANGED <<now, edits, db, shown, removing, requests>>
  BY <1>1, PushStepFrame
<1>2. ASSUME NEW t \in Tabs, ServerPull(t)
      PROVE  UNCHANGED <<now, edits, db, shown, removing, requests>>
  BY <1>2 DEF ServerPull
<1> QED
  BY <1>1, <1>2 DEF Tick, vars, ServerStep

\* An engine leaves the clock, the screens and the user's doings alone.
LEMMA EngineFrame ==
  ASSUME Typed, NEW t \in Tabs, EngineAction(t)
  PROVE  UNCHANGED <<now, edits, shown, removing, contested>>
<1>1. \/ \E next : EngineStep(t, next)
      \/ \E since, wrote : EndCycle(t, since, wrote)
  BY DEF EngineAction, Offline, Wake, ReadBanks, ReadTransactions, Fail, SendBatch, NoKeyLeft,
         ReceiveAnswers, ReceiveError, BeginMark, FinishMark, BeginPull, ReceivePage
<1> QED
  BY <1>1 DEF EndCycle, EngineStep

LEMMA DiskOrigin ==
  ASSUME Typed, [Next]_vars, NEW d \in Devices, NEW r \in Records
  PROVE  \/ db'[d][r] = db[d][r]
         \/ \E t \in Tabs :
              /\ DeviceOf[t] = d
              /\ \/ \E amount \in Amounts : Create(t, r, amount) \/ Edit(t, r, amount)
                 \/ FinishRemove(t) /\ removing[t].id = r
                 \/ FinishMark(t) /\ engine[t].held.id = r
                 \/ ReceivePage(t) /\ engine[t].page.rows[r] # Null
<1>1. CASE Tick \/ UNCHANGED vars \/ ServerStep
  BY <1>1, ServerFrame
<1>2. ASSUME NEW t \in Tabs, UserStep(t), db'[d][r] # db[d][r]
      PROVE  /\ DeviceOf[t] = d
             /\ \/ \E amount \in Amounts : Create(t, r, amount) \/ Edit(t, r, amount)
                \/ FinishRemove(t) /\ removing[t].id = r
  <2>1. ASSUME NEW q \in Records, NEW amount \in Amounts, Create(t, q, amount)
        PROVE  DeviceOf[t] = d /\ q = r
    BY <1>2, <2>1, CreateEffect
  <2>2. ASSUME NEW q \in Records, NEW amount \in Amounts, Edit(t, q, amount)
        PROVE  DeviceOf[t] = d /\ q = r
    BY <1>2, <2>2, EditEffect
  <2>3. CASE FinishRemove(t)
    BY <1>2, <2>3, FinishRemoveEffect
  <2>4. ~ (Hydrate(t) \/ Restart(t) \/ \E q \in Records : BeginRemove(t, q))
    BY <1>2 DEF Hydrate, Restart, BeginRemove
  <2> QED
    BY <1>2, <2>1, <2>2, <2>3, <2>4 DEF UserStep
<1>3. ASSUME NEW t \in Tabs, EngineAction(t), db'[d][r] # db[d][r]
      PROVE  /\ DeviceOf[t] = d
             /\ \/ FinishMark(t) /\ engine[t].held.id = r
                \/ ReceivePage(t) /\ engine[t].page.rows[r] # Null
  <2>1. CASE FinishMark(t)
    BY <1>3, <2>1, FinishMarkEffect
  <2>2. CASE ReceivePage(t)
    BY <1>3, <2>2, ReceivePageEffect
  <2>3. CASE ~ FinishMark(t) /\ ~ ReceivePage(t)
    BY <1>3, <2>3 DEF EngineAction, Offline, Wake, ReadBanks, ReadTransactions, Fail,
                      SendBatch, NoKeyLeft, ReceiveAnswers, ReceiveError, BeginMark, BeginPull
  <2> QED
    BY <2>1, <2>2, <2>3
<1> QED
  BY <1>1, <1>2, <1>3 DEF Next

LEMMA ShownOrigin ==
  ASSUME Typed, [Next]_vars, NEW t \in Tabs, NEW r \in Records
  PROVE  \/ shown'[t][r] = shown[t][r]
         \/ shown'[t][r] = db[DeviceOf[t]][r] /\ (Hydrate(t) \/ Restart(t))
         \/ \E amount \in Amounts : Create(t, r, amount) \/ Edit(t, r, amount)
         \/ FinishRemove(t) /\ removing[t].id = r
<1>1. CASE Tick \/ UNCHANGED vars \/ ServerStep
  BY <1>1, ServerFrame
<1>2. ASSUME NEW u \in Tabs, UserStep(u), shown'[t][r] # shown[t][r]
      PROVE  \/ shown'[t][r] = db[DeviceOf[t]][r] /\ (Hydrate(t) \/ Restart(t))
             \/ \E amount \in Amounts : Create(t, r, amount) \/ Edit(t, r, amount)
             \/ FinishRemove(t) /\ removing[t].id = r
  <2>1. ASSUME NEW q \in Records, NEW amount \in Amounts, Create(u, q, amount)
        PROVE  u = t /\ q = r
    BY <1>2, <2>1, CreateEffect
  <2>2. ASSUME NEW q \in Records, NEW amount \in Amounts, Edit(u, q, amount)
        PROVE  u = t /\ q = r
    BY <1>2, <2>2, EditEffect
  <2>3. CASE FinishRemove(u)
    BY <1>2, <2>3, FinishRemoveEffect
  <2>4. CASE Hydrate(u) \/ Restart(u)
    BY <1>2, <2>4, RefreshEffect
  <2>5. ~ \E q \in Records : BeginRemove(u, q)
    BY <1>2 DEF BeginRemove
  <2> QED
    BY <1>2, <2>1, <2>2, <2>3, <2>4, <2>5 DEF UserStep
<1>3. ASSUME NEW u \in Tabs, EngineAction(u)
      PROVE  shown' = shown
  BY <1>3, EngineFrame
<1> QED
  BY <1>1, <1>2, <1>3 DEF Next

LEMMA RemovingOrigin ==
  ASSUME Typed, [Next]_vars, NEW t \in Tabs
  PROVE  \/ removing'[t] = removing[t] \/ removing'[t] = Null
         \/ \E q \in Records : BeginRemove(t, q)
<1>1. CASE Tick \/ UNCHANGED vars \/ ServerStep
  BY <1>1, ServerFrame
<1>2. ASSUME NEW u \in Tabs, UserStep(u)
      PROVE  \/ removing'[t] = removing[t] \/ removing'[t] = Null
             \/ \E q \in Records : BeginRemove(t, q)
  <2>1. CASE FinishRemove(u)
    BY <2>1, FinishRemoveEffect
  <2>2. CASE Hydrate(u) \/ Restart(u)
    BY <2>2, RefreshEffect
  <2>3. CASE \E q \in Records : BeginRemove(u, q)
    BY <2>3, BeginRemoveEffect
  <2>4. CASE \E q \in Records, amount \in Amounts : Create(u, q, amount) \/ Edit(u, q, amount)
    BY <2>4 DEF Create, Edit, Written
  <2> QED
    BY <1>2, <2>1, <2>2, <2>3, <2>4 DEF UserStep
<1>3. ASSUME NEW u \in Tabs, EngineAction(u)
      PROVE  removing' = removing
  BY <1>3, EngineFrame
<1> QED
  BY <1>1, <1>2, <1>3 DEF Next

LEMMA RequestsOrigin ==
  ASSUME Typed, [Next]_vars
  PROVE  requests' = requests \/ \E t \in Tabs : SendBatch(t)
<1>1. CASE Tick \/ UNCHANGED vars \/ ServerStep
  BY <1>1, ServerFrame
<1>2. ASSUME NEW u \in Tabs, UserStep(u)
      PROVE  requests' = requests
  BY <1>2 DEF UserStep, Create, Edit, Written, BeginRemove, FinishRemove, Hydrate, Restart
<1>3. ASSUME NEW u \in Tabs, EngineAction(u), ~ SendBatch(u)
      PROVE  requests' = requests
  BY <1>3 DEF EngineAction, Offline, Wake, ReadBanks, ReadTransactions, Fail, NoKeyLeft,
              ReceiveAnswers, ReceiveError, BeginMark, FinishMark, BeginPull, ReceivePage
<1> QED
  BY <1>1, <1>2, <1>3 DEF Next

\* The clock and the count of user actions never go back.
LEMMA TimeOrigin ==
  ASSUME Typed, [Next]_vars
  PROVE  /\ now' = now \/ (now' = now + 1 /\ Tick)
         /\ edits' = edits \/ edits' = edits + 1
<1>1. CASE Tick \/ UNCHANGED vars \/ ServerStep
  BY <1>1, ServerFrame DEF Tick
<1>2. ASSUME NEW u \in Tabs, UserStep(u)
      PROVE  now' = now /\ (edits' = edits \/ edits' = edits + 1)
  BY <1>2 DEF UserStep, Create, Edit, Written, BeginRemove, FinishRemove, Hydrate, Restart
<1>3. ASSUME NEW u \in Tabs, EngineAction(u)
      PROVE  now' = now /\ edits' = edits
  BY <1>3, EngineFrame
<1> QED
  BY <1>1, <1>2, <1>3 DEF Next

-----------------------------------------------------------------------------
(* An engine carries only what its phase needs. *)

Shape(e) ==
  /\ e.phase = "idle" => IsIdle(e)
  /\ e.phase # "pulling" => e.page = Null /\ e.cursor = Null /\ e.base = Empty
  /\ e.phase # "sending" => e.acks = Empty /\ e.held = Null
  /\ e.phase \in {"banks", "transactions"} => \A r \in Transactions : e.todo[r] = Null
  /\ e.phase = "pulling" => e.todo = Empty

Shaped == \A t \in Tabs : Shape(engine[t])

LEMMA InitShaped == Init => Shaped
<1> SUFFICES ASSUME Init, NEW t \in Tabs PROVE Shape(engine[t])
  BY DEF Shaped
<1>1. IsIdle(engine[t])
  BY IdleIsIdle DEF Init
<1> QED
  BY <1>1 DEF Shape, IsIdle

LEMMA NextShaped == Typed /\ Shaped /\ [Next]_vars => Shaped'
<1> SUFFICES ASSUME Typed, Shaped, [Next]_vars, NEW t \in Tabs
             PROVE  Shape(engine'[t])
  BY DEF Shaped
<1>1. /\ Shape(engine[t])
      /\ engine[t].phase \in {"idle", "banks", "transactions", "sending", "pushing", "pulling"}
  BY EngineFields DEF Shaped, Engine
<1>2. CASE engine'[t] = engine[t]
  BY <1>1, <1>2
<1>3. CASE IsIdle(engine'[t])
  BY <1>3 DEF Shape, IsIdle
<1>4. CASE Reading(t)
  <2>1. /\ engine'[t].page = Null /\ engine'[t].cursor = Null /\ engine'[t].base = Empty
        /\ engine'[t].acks = Empty /\ engine'[t].held = Null
        /\ engine'[t].phase \in {"banks", "transactions", "sending"}
    BY <1>1, <1>4, ReadingEffect DEF Shape, PullFieldsRest
  <2>2. ASSUME engine'[t].phase # "sending", NEW r \in Transactions
        PROVE  engine'[t].todo[r] = Null
    BY <1>1, <1>4, <2>2, ReadingEffect DEF Shape, Records
  <2> QED
    BY <2>1, <2>2 DEF Shape
<1>5. CASE SendBatch(t)
  BY <1>1, <1>5, SendBatchEffect DEF Shape, PullFieldsRest
<1>6. CASE ReceiveAnswers(t)
  BY <1>1, <1>6, ReceiveAnswersEffect DEF Shape, PullFieldsRest
<1>7. ASSUME NEW q \in Records, BeginMark(t, q)
      PROVE  Shape(engine'[t])
  BY <1>1, <1>7, BeginMarkEffect DEF Shape, PullFieldsRest
<1>8. CASE FinishMark(t)
  BY <1>1, <1>8, FinishMarkEffect DEF Shape, PullFieldsRest
<1>9. CASE BeginPull(t)
  BY <1>1, <1>9, BeginPullEffect DEF Shape, PushFieldsRest, PullFieldsRest
<1>10. CASE ReceivePage(t)
  BY <1>1, <1>3, <1>10, ReceivePageEffect DEF Shape, PushFieldsRest
<1>11. CASE ServerPull(t)
  BY <1>1, <1>11, ServerPullEffect DEF Shape, PushFieldsRest
<1> QED
  BY <1>2, <1>3, <1>4, <1>5, <1>6, <1>7, <1>8, <1>9, <1>10, <1>11, EngineOrigin

-----------------------------------------------------------------------------
(* Categories are pushed without an answer: only a page of a pull can put a *)
(* synced one on a disk, and the server's copy only gets newer.             *)

\* The server holds c in the same or a newer state than a synced row says.
Confirmed(row, c) ==
  row # Null /\ row.sync_status = "synced"
    => store[c] # Null /\ row.updated_at <= store[c].updated_at

CategoriesConfirmed ==
  \A c \in Categories :
    /\ \A d \in Devices : Confirmed(db[d][c], c)
    /\ \A t \in Tabs : engine[t].page # Null => Confirmed(engine[t].page.rows[c], c)
    /\ \A t \in Tabs : engine[t].acks[c] = Null
    /\ \A k \in Keys : operations[k] # Null => operations[k][c] = Null

LEMMA InitConfirmed == Init => CategoriesConfirmed
<1> SUFFICES ASSUME Init, NEW c \in Categories
             PROVE  /\ \A d \in Devices : Confirmed(db[d][c], c)
                    /\ \A t \in Tabs : engine[t].page # Null
                                         => Confirmed(engine[t].page.rows[c], c)
                    /\ \A t \in Tabs : engine[t].acks[c] = Null
                    /\ \A k \in Keys : operations[k] # Null => operations[k][c] = Null
  BY DEF CategoriesConfirmed
<1>1. c \in Records
  BY DEF Records
<1>2. \A t \in Tabs : IsIdle(engine[t])
  BY IdleIsIdle DEF Init
<1> QED
  BY <1>1, <1>2 DEF Init, Empty, Confirmed, IsIdle

\* The server's copy of a category stays, and its time stamp only grows.
LEMMA CategoriesOnlyGetNewer ==
  ASSUME Typed, [Next]_vars, NEW c \in Categories, store[c] # Null
  PROVE  store'[c] # Null /\ store[c].updated_at <= store'[c].updated_at
<1>1. store[c] \in Row
  BY DEF Typed, TypeOK, Table, Records
<1>2. ASSUME NEW k \in Keys, CommitPush(k)
      PROVE  store'[c] # Null /\ store[c].updated_at <= store'[c].updated_at
  <2> DEFINE sent == Correct(requests[k].rows[c], serving[k].skew)
  <2>1. CASE requests[k].rows[c] = Null
    BY <1>1, <1>2, <2>1, CommitCategory DEF Row
  <2>2. CASE requests[k].rows[c] # Null
    <3>1. sent \in Row /\ store'[c] = PutCategory(sent, store[c])
      BY <1>2, <2>2, CommitCategory
    <3> HIDE DEF sent
    <3>2. store[c].updated_at <= store'[c].updated_at
      BY <1>1, <3>1 DEF PutCategory, Materialise, Row
    <3>3. store'[c] \in Row
      BY <1>1, <3>1, PutCategoryType
    <3> QED
      BY <3>2, <3>3, NullAssumption DEF NullAssumption
  <2> QED
    BY <2>1, <2>2
<1>3. CASE \A k \in Keys : ~ CommitPush(k)
  BY <1>1, <1>3, OnlyCommitWrites DEF Row
<1> QED
  BY <1>2, <1>3

LEMMA NextConfirmed ==
  Typed /\ CategoriesConfirmed /\ [Next]_vars => CategoriesConfirmed'
<1> SUFFICES ASSUME Typed, CategoriesConfirmed, [Next]_vars, NEW c \in Categories
             PROVE  /\ \A d \in Devices : Confirmed(db[d][c], c)'
                    /\ \A t \in Tabs : engine'[t].page # Null
                                         => Confirmed(engine[t].page.rows[c], c)'
                    /\ \A t \in Tabs : engine'[t].acks[c] = Null
                    /\ \A k \in Keys : operations'[k] # Null => operations'[k][c] = Null
  BY DEF CategoriesConfirmed
<1>1. c \in Records
  BY DEF Records
<1>2. \A row \in Row \cup {Null} : Confirmed(row, c)
        => (row # Null /\ row.sync_status = "synced"
              => store'[c] # Null /\ row.updated_at <= store'[c].updated_at)
  <2>1. store[c] # Null => /\ store'[c] # Null
                           /\ store[c].updated_at <= store'[c].updated_at
                           /\ store[c] \in Row /\ store'[c] \in Row
    BY <1>1, CategoriesOnlyGetNewer, NextTyped DEF Typed, TypeOK, Table
  <2> QED
    BY <2>1 DEF Confirmed, Row
<1>3. \A k \in Keys : operations'[k] # Null => operations'[k][c] = Null
  <2>1. ASSUME NEW k \in Keys, CommitPush(k)
        PROVE  \A j \in Keys : operations'[j] # Null => operations'[j][c] = Null
    BY <2>1, CommitCategory, CommitFrame DEF CategoriesConfirmed
  <2>2. CASE \A k \in Keys : ~ CommitPush(k)
    BY <2>2, OnlyCommitWrites DEF CategoriesConfirmed
  <2> QED
    BY <2>1, <2>2
<1>4. \A t \in Tabs : engine'[t].acks[c] = Null
  <2> SUFFICES ASSUME NEW t \in Tabs PROVE engine'[t].acks[c] = Null
    OBVIOUS
  <2>1. engine[t].acks[c] = Null
    BY DEF CategoriesConfirmed
  <2>2. CASE engine'[t].acks = engine[t].acks
    BY <2>1, <2>2
  <2>3. CASE IsIdle(engine'[t])
    BY <1>1, <2>3 DEF IsIdle, Empty
  <2>4. CASE ReceiveAnswers(t)
    BY <2>4, ReceiveAnswersEffect DEF CategoriesConfirmed
  <2>5. CASE FinishMark(t)
    BY <1>1, <2>1, <2>5, FinishMarkEffect
  <2>6. CASE Reading(t) \/ SendBatch(t) \/ \E q \in Records : BeginMark(t, q)
    BY <2>2, <2>6, ReadingEffect, SendBatchEffect, BeginMarkEffect
  <2>7. CASE BeginPull(t) \/ ReceivePage(t) \/ ServerPull(t)
    BY <2>2, <2>3, <2>7, BeginPullEffect, ReceivePageEffect, ServerPullEffect
    DEF PushFieldsRest
  <2> QED
    BY <2>2, <2>3, <2>4, <2>5, <2>6, <2>7, EngineOrigin
<1>5. \A t \in Tabs : engine'[t].page # Null => Confirmed(engine[t].page.rows[c], c)'
  <2> SUFFICES ASSUME NEW t \in Tabs, engine'[t].page # Null
               PROVE  Confirmed(engine[t].page.rows[c], c)'
    OBVIOUS
  <2>1. engine[t].page # Null => /\ Confirmed(engine[t].page.rows[c], c)
                                 /\ engine[t].page.rows[c] \in Row \cup {Null}
    BY <1>1, EngineFields DEF CategoriesConfirmed, Page, Table
  <2>2. CASE engine'[t].page = engine[t].page
    BY <1>2, <2>1, <2>2 DEF Confirmed
  <2>3. CASE ServerPull(t)
    <3>1. engine'[t].page.rows[c] = Null \/ engine'[t].page.rows[c] = store'[c]
      BY <1>1, <2>3, ServerPullEffect DEF PullPages, Only
    <3>2. store'[c] # Null => store'[c].updated_at <= store'[c].updated_at
      BY <1>1, NextTyped DEF Typed, TypeOK, Table, Row
    <3> QED
      BY <3>1, <3>2 DEF Confirmed
  <2>4. ~ IsIdle(engine'[t])
    BY DEF IsIdle
  <2>5. CASE Reading(t) \/ SendBatch(t) \/ ReceiveAnswers(t) \/ \E q \in Records : BeginMark(t, q)
    BY <2>2, <2>5, ReadingEffect, SendBatchEffect, ReceiveAnswersEffect, BeginMarkEffect
    DEF PullFieldsRest
  <2>6. CASE FinishMark(t) \/ BeginPull(t) \/ ReceivePage(t)
    BY <2>2, <2>4, <2>6, FinishMarkEffect, BeginPullEffect, ReceivePageEffect
    DEF PullFieldsRest
  <2> QED
    BY <2>2, <2>3, <2>4, <2>5, <2>6, EngineOrigin
<1>6. \A d \in Devices : Confirmed(db[d][c], c)'
  <2> SUFFICES ASSUME NEW d \in Devices
               PROVE  Confirmed(db[d][c], c)'
    OBVIOUS
  <2>1. CASE db'[d][c] = db[d][c]
    BY <1>1, <1>2, <2>1 DEF Confirmed, CategoriesConfirmed, Typed, TypeOK, Table
  <2>2. ASSUME db'[d][c] # Null, db'[d][c].sync_status = "synced",
               NEW t \in Tabs, DeviceOf[t] = d,
               \/ \E amount \in Amounts : Create(t, c, amount) \/ Edit(t, c, amount)
               \/ FinishRemove(t) /\ removing[t].id = c
               \/ FinishMark(t) /\ engine[t].held.id = c
        PROVE  FALSE
    <3>1. CASE \E amount \in Amounts : Create(t, c, amount)
      BY <1>1, <2>2, <3>1, CreateEffect
    <3>2. CASE \E amount \in Amounts : Edit(t, c, amount)
      BY <1>1, <2>2, <3>2, EditEffect
    <3>3. CASE FinishRemove(t) /\ removing[t].id = c
      BY <1>1, <2>2, <3>3, FinishRemoveEffect
    <3>4. CASE FinishMark(t) /\ engine[t].held.id = c
      <4>1. engine[t].held # Null
        BY <3>4 DEF FinishMark
      <4> QED
        BY <3>4, <4>1 DEF Typed, Underway, CategoriesConfirmed
    <3> QED
      BY <2>2, <3>1, <3>2, <3>3, <3>4
  <2>3. ASSUME NEW t \in Tabs, ReceivePage(t), engine[t].page.rows[c] # Null, DeviceOf[t] = d
        PROVE  Confirmed(db[d][c], c)'
    <3>1. engine[t].page # Null /\ engine[t].page.rows[c] \in Row
          /\ db'[d][c] = engine[t].page.rows[c]
      BY <1>1, <2>3, ReceivePageEffect DEF Table
    <3> QED
      BY <1>2, <3>1 DEF CategoriesConfirmed, Confirmed
  <2> QED
    BY <1>1, <2>1, <2>2, <2>3, DiskOrigin DEF Confirmed
<1> QED
  BY <1>3, <1>4, <1>5, <1>6

\* A category a device counts as synced is on the server in the same or a newer
\* state: no answer, and nothing a tab does, marks one synced
\* (SyncService.push returns no record for categories, markSynced needs one).
THEOREM SyncedCategoriesAreStored == Spec => []SyncedCategoryIsStored
<1>1. CategoriesConfirmed => SyncedCategoryIsStored
  BY DEF CategoriesConfirmed, Confirmed, SyncedCategoryIsStored
<1> QED
  BY <1>1, InitTyped, NextTyped, InitConfirmed, NextConfirmed, PTL DEF Spec

-----------------------------------------------------------------------------
(* A transaction reaches the server after its category, or with it.  The    *)
(* user names a category that is on the disk; what is on the disk is        *)
(* pending, and so goes out with the transaction, or is on the server.      *)

\* A row on a disk is never removed from it: deleting writes a tombstone.
LEMMA DiskStays ==
  ASSUME Typed, [Next]_vars, NEW d \in Devices, NEW r \in Records, db[d][r] # Null
  PROVE  db'[d][r] # Null
<1>1. \A row \in Row : row # Null
  BY NullAssumption DEF NullAssumption
<1>2. ASSUME NEW t \in Tabs, \E amount \in Amounts : Create(t, r, amount) \/ Edit(t, r, amount)
      PROVE  db'[d][r] # Null
  BY <1>1, <1>2, CreateEffect, EditEffect
<1>3. ASSUME NEW t \in Tabs, FinishRemove(t)
      PROVE  db'[d][r] # Null
  BY <1>1, <1>3, FinishRemoveEffect
<1>4. ASSUME NEW t \in Tabs, FinishMark(t)
      PROVE  db'[d][r] # Null
  <2>1. PICK q \in Records :
          /\ engine[t].held.row \in Row /\ engine[t].acks[q] \in Answer
          /\ db'[d][r] = IF d = DeviceOf[t] /\ r = q
                         THEN Marking(engine[t].held.row, engine[t].acks[q])
                         ELSE db[d][r]
    BY <1>4, FinishMarkEffect
  <2>2. Marking(engine[t].held.row, engine[t].acks[q]) \in Row
    BY <2>1, MarkingType
  <2> QED
    BY <1>1, <2>1, <2>2
<1>5. ASSUME NEW t \in Tabs, ReceivePage(t)
      PROVE  db'[d][r] # Null
  BY <1>5, ReceivePageEffect
<1> QED
  BY <1>2, <1>3, <1>4, <1>5, DiskOrigin

\* What a tab shows, and what it is about to write, has a row on its disk.
OnItsDisk ==
  \A t \in Tabs :
    /\ \A r \in Records : shown[t][r] # Null => db[DeviceOf[t]][r] # Null
    /\ removing[t] # Null => db[DeviceOf[t]][removing[t].id] # Null
    /\ engine[t].held # Null => db[DeviceOf[t]][engine[t].held.id] # Null

LEMMA InitOnItsDisk == Init => OnItsDisk
<1> SUFFICES ASSUME Init, NEW t \in Tabs
             PROVE  /\ \A r \in Records : shown[t][r] = Null
                    /\ removing[t] = Null /\ engine[t].held = Null
  BY DEF OnItsDisk
<1>1. IsIdle(engine[t])
  BY IdleIsIdle DEF Init
<1> QED
  BY <1>1 DEF Init, Empty, IsIdle

LEMMA NextOnItsDisk == Typed /\ OnItsDisk /\ [Next]_vars => OnItsDisk'
<1> SUFFICES ASSUME Typed, OnItsDisk, [Next]_vars, NEW t \in Tabs
             PROVE  /\ \A r \in Records : shown'[t][r] # Null => db'[DeviceOf[t]][r] # Null
                    /\ removing'[t] # Null => db'[DeviceOf[t]][removing'[t].id] # Null
                    /\ engine'[t].held # Null => db'[DeviceOf[t]][engine'[t].held.id] # Null
  BY DEF OnItsDisk
<1>1. DeviceOf[t] \in Devices
  BY EngineFields
<1>2. \A r \in Records : db[DeviceOf[t]][r] # Null => db'[DeviceOf[t]][r] # Null
  BY <1>1, DiskStays
<1>3. \A row \in Row : row # Null
  BY NullAssumption DEF NullAssumption
<1>4. ASSUME NEW r \in Records, shown'[t][r] # Null
      PROVE  db'[DeviceOf[t]][r] # Null
  <2>1. CASE shown'[t][r] = shown[t][r] \/ shown'[t][r] = db[DeviceOf[t]][r]
    BY <1>2, <1>4, <2>1 DEF OnItsDisk
  <2>2. CASE \E amount \in Amounts : Create(t, r, amount) \/ Edit(t, r, amount)
    BY <1>1, <1>3, <2>2, CreateEffect, EditEffect
  <2>3. CASE FinishRemove(t) /\ removing[t].id = r
    BY <1>1, <1>3, <2>3, FinishRemoveEffect
  <2> QED
    BY <2>1, <2>2, <2>3, ShownOrigin
<1>5. ASSUME removing'[t] # Null
      PROVE  db'[DeviceOf[t]][removing'[t].id] # Null
  <2>1. CASE removing'[t] = removing[t]
    <3>1. removing[t].id \in Records /\ db[DeviceOf[t]][removing[t].id] # Null
      BY <1>5, <2>1 DEF OnItsDisk, Typed, TypeOK
    <3> QED
      BY <1>2, <2>1, <3>1
  <2>2. ASSUME NEW q \in Records, BeginRemove(t, q)
        PROVE  db'[DeviceOf[t]][removing'[t].id] # Null
    BY <1>2, <2>2, BeginRemoveEffect
  <2> QED
    BY <1>5, <2>1, <2>2, RemovingOrigin
<1>6. ASSUME engine'[t].held # Null
      PROVE  db'[DeviceOf[t]][engine'[t].held.id] # Null
  <2>1. CASE engine'[t].held = engine[t].held
    <3>1. engine[t].held.id \in Records /\ db[DeviceOf[t]][engine[t].held.id] # Null
      BY <1>6, <2>1, EngineFields DEF OnItsDisk
    <3> QED
      BY <1>2, <2>1, <3>1
  <2>2. ASSUME NEW q \in Records, BeginMark(t, q)
        PROVE  db'[DeviceOf[t]][engine'[t].held.id] # Null
    BY <1>2, <2>2, BeginMarkEffect
  <2>3. ~ IsIdle(engine'[t]) /\ ~ FinishMark(t)
    BY <1>6, FinishMarkEffect DEF IsIdle
  <2>4. CASE Reading(t) \/ SendBatch(t) \/ ReceiveAnswers(t)
    BY <2>1, <2>4, ReadingEffect, SendBatchEffect, ReceiveAnswersEffect
  <2>5. CASE BeginPull(t) \/ ReceivePage(t) \/ ServerPull(t)
    BY <2>1, <2>3, <2>5, BeginPullEffect, ReceivePageEffect, ServerPullEffect
    DEF PushFieldsRest
  <2> QED
    BY <2>1, <2>2, <2>3, <2>4, <2>5, EngineOrigin
<1> QED
  BY <1>4, <1>5, <1>6

-----------------------------------------------------------------------------
(* Every record was written on some disk, and a transaction only where its  *)
(* category was.                                                            *)

Known(x) == \E d \in Devices : db[d][x] # Null

Traced ==
  /\ \A x \in Records :
       \/ store[x] # Null
       \/ \E k \in Keys : requests[k] # Null /\ requests[k].rows[x] # Null
       \/ \E t \in Tabs : engine[t].todo[x] # Null
       \/ \E t \in Tabs : engine[t].page # Null /\ engine[t].page.rows[x] # Null
       => Known(x)
  /\ \A r \in Transactions : CategoryOf[r] # Null /\ Known(r) => Known(CategoryOf[r])

LEMMA CategoryOfType ==
  ASSUME NEW r \in Transactions, CategoryOf[r] # Null
  PROVE  r \in Records /\ CategoryOf[r] \in Categories /\ CategoryOf[r] \in Records
         /\ CategoryOf[r] # r
  BY PlacesAssumption, IdsAssumption DEF PlacesAssumption, IdsAssumption, Records

LEMMA InitTraced == Init => Traced
<1> SUFFICES ASSUME Init PROVE Traced
  OBVIOUS
<1>1. \A t \in Tabs : IsIdle(engine[t])
  BY IdleIsIdle DEF Init
<1>2. \A d \in Devices, x \in Records : db[d][x] = Null
  BY DEF Init, Empty
<1>3. \A r \in Transactions : r \in Records
  BY DEF Records
<1>4. \A x \in Records : store[x] = Null /\ \A t \in Tabs : engine[t].todo[x] = Null
  BY <1>1 DEF Init, Empty, IsIdle
<1>5. \A k \in Keys : requests[k] = Null
  BY DEF Init
<1>6. \A t \in Tabs : engine[t].page = Null
  BY <1>1 DEF IsIdle
<1> QED
  BY <1>2, <1>3, <1>4, <1>5, <1>6 DEF Known, Traced

\* A record that is stored for the first time was in the batch.
LEMMA CommitStores ==
  ASSUME Typed, NEW k \in Keys, CommitPush(k), NEW x \in Records,
         store[x] = Null, store'[x] # Null
  PROVE  requests[k].rows[x] # Null
  BY DEF CommitPush, Apply

LEMMA NextTraced == Typed /\ OnItsDisk /\ Traced /\ [Next]_vars => Traced'
<1> SUFFICES ASSUME Typed, OnItsDisk, Traced, [Next]_vars
             PROVE  Traced'
  OBVIOUS
<1>1. \A x \in Records : Known(x) => Known(x)'
  BY DiskStays DEF Known
<1>2. ASSUME NEW x \in Records, store'[x] # Null PROVE Known(x)
  <2>1. ASSUME NEW k \in Keys, CommitPush(k), store[x] = Null
        PROVE  Known(x)
    BY <1>2, <2>1, CommitStores, CommitFrame DEF Traced
  <2>2. CASE \A k \in Keys : ~CommitPush(k)
    BY <1>2, <2>2, OnlyCommitWrites DEF Traced
  <2> QED
    BY <2>1, <2>2 DEF Traced
<1>3. ASSUME NEW x \in Records, NEW k \in Keys, requests'[k] # Null, requests'[k].rows[x] # Null
      PROVE  Known(x)
  <2>1. CASE requests'[k] = requests[k]
    BY <1>3, <2>1 DEF Traced
  <2>2. CASE requests'[k] # requests[k]
    <3>1. PICK t \in Tabs : SendBatch(t)
      BY <2>2, RequestsOrigin
    <3>2. requests'[k].rows[x] = engine[t].todo[x]
      BY <1>3, <2>2, <3>1, SendBatchEffect
    <3> QED
      BY <1>3, <3>2 DEF Traced
  <2> QED
    BY <2>1, <2>2
<1>4. ASSUME NEW x \in Records, NEW t \in Tabs, engine'[t].todo[x] # Null
      PROVE  Known(x)
  <2>1. CASE engine'[t].todo = engine[t].todo
    BY <1>4, <2>1 DEF Traced
  <2>2. CASE Reading(t)
    <3>1. engine[t].todo[x] # Null \/ db[DeviceOf[t]][x] # Null
      BY <1>4, <2>2, ReadingEffect
    <3> QED
      BY <3>1, EngineFields DEF Traced, Known
  <2>3. CASE SendBatch(t)
    <3>1. engine[t].todo[x] # Null
      BY <1>4, <2>3, SendBatchEffect
    <3> QED
      BY <3>1 DEF Traced
  <2>4. ~IsIdle(engine'[t])
    BY <1>4 DEF IsIdle, Empty
  <2>5. CASE ReceiveAnswers(t) \/ FinishMark(t) \/ \E q \in Records : BeginMark(t, q)
    BY <2>1, <2>5, ReceiveAnswersEffect, FinishMarkEffect, BeginMarkEffect
  <2>6. CASE BeginPull(t) \/ ReceivePage(t) \/ ServerPull(t)
    BY <2>1, <2>4, <2>6, BeginPullEffect, ReceivePageEffect, ServerPullEffect
    DEF PushFieldsRest
  <2> QED
    BY <2>1, <2>2, <2>3, <2>4, <2>5, <2>6, EngineOrigin
<1>5. ASSUME NEW x \in Records, NEW t \in Tabs, engine'[t].page # Null,
             engine'[t].page.rows[x] # Null
      PROVE  Known(x)
  <2>1. CASE engine'[t].page = engine[t].page
    BY <1>5, <2>1 DEF Traced
  <2>2. CASE ServerPull(t)
    <3>1. store[x] # Null
      BY <1>5, <2>2, ServerPullEffect DEF PullPages, Only
    <3> QED
      BY <3>1 DEF Traced
  <2>3. ~IsIdle(engine'[t])
    BY <1>5 DEF IsIdle
  <2>4. CASE Reading(t) \/ SendBatch(t) \/ ReceiveAnswers(t) \/ \E q \in Records : BeginMark(t, q)
    BY <2>1, <2>4, ReadingEffect, SendBatchEffect, ReceiveAnswersEffect, BeginMarkEffect
    DEF PullFieldsRest
  <2>5. CASE FinishMark(t) \/ BeginPull(t) \/ ReceivePage(t)
    BY <1>5, <2>1, <2>3, <2>5, FinishMarkEffect, BeginPullEffect, ReceivePageEffect
    DEF PullFieldsRest
  <2> QED
    BY <2>1, <2>2, <2>3, <2>4, <2>5, EngineOrigin
<1>6. ASSUME NEW r \in Transactions, CategoryOf[r] # Null, Known(r)'
      PROVE  Known(CategoryOf[r])'
  <2>1. r \in Records /\ CategoryOf[r] \in Records
    BY <1>6, CategoryOfType
  <2>2. CASE Known(r)
    BY <1>1, <1>6, <2>1, <2>2 DEF Traced
  <2>3. CASE ~Known(r)
    <3>1. PICK d \in Devices : db'[d][r] # Null
      BY <1>6 DEF Known
    <3>2. db[d][r] = Null
      BY <2>3 DEF Known
    <3>3. PICK t \in Tabs :
            /\ DeviceOf[t] = d
            /\ \/ \E amount \in Amounts : Create(t, r, amount) \/ Edit(t, r, amount)
               \/ FinishRemove(t) /\ removing[t].id = r
               \/ FinishMark(t) /\ engine[t].held.id = r
               \/ ReceivePage(t) /\ engine[t].page.rows[r] # Null
      BY <2>1, <3>1, <3>2, DiskOrigin
    <3>4. CASE \E amount \in Amounts : Create(t, r, amount)
      <4>1. IsLive(shown[t], CategoryOf[r])
        BY <1>6, <3>4 DEF Create
      <4> QED
        BY <1>1, <2>1, <3>3, <4>1 DEF IsLive, OnItsDisk, Known
    <3>5. ~ \E amount \in Amounts : Edit(t, r, amount)
      BY <2>1, <3>2, <3>3 DEF Edit, IsLive, OnItsDisk
    <3>6. ~ (FinishRemove(t) /\ removing[t].id = r)
      BY <3>2, <3>3 DEF FinishRemove, OnItsDisk
    <3>7. ~ (FinishMark(t) /\ engine[t].held.id = r)
      BY <3>2, <3>3 DEF FinishMark, OnItsDisk
    <3>8. ~ (ReceivePage(t) /\ engine[t].page.rows[r] # Null)
      BY <2>1, <2>3 DEF ReceivePage, Traced
    <3> QED
      BY <3>3, <3>4, <3>5, <3>6, <3>7, <3>8
  <2> QED
    BY <2>2, <2>3
<1> QED
  BY <1>1, <1>2, <1>3, <1>4, <1>5, <1>6 DEF Traced

-----------------------------------------------------------------------------
(* A transaction reaches the server after its category, or with it, unless  *)
(* it was sent ahead.                                                       *)

\* In table, the category c of transaction r is there with r, or on the server.
Accompanied(table, r, c) ==
  table[r] # Null => table[c] # Null \/ store[c] # Null \/ r \in ahead

\* The batch that the engine of t waits for carries c.
OnItsWay(t, c) == engine[t].phase = "pushing" /\ requests[engine[t].key].rows[c] # Null

CategoryFirst ==
  \A r \in Transactions : CategoryOf[r] # Null =>
    /\ \A d \in Devices : Accompanied(db[d], r, CategoryOf[r])
    /\ \A t \in Tabs :
         /\ Accompanied(engine[t].todo, r, CategoryOf[r]) \/ OnItsWay(t, CategoryOf[r])
         /\ engine[t].page # Null /\ engine[t].page.rows[r] # Null
              => store[CategoryOf[r]] # Null \/ r \in ahead
    /\ \A k \in Keys : requests[k] # Null => Accompanied(requests[k].rows, r, CategoryOf[r])
    /\ store[r] # Null => store[CategoryOf[r]] # Null \/ r \in ahead

\* A category is on the server when its batch is answered.
CategoriesAnswered ==
  \A k \in Keys, c \in Categories :
    operations[k] # Null => requests[k] # Null /\ (requests[k].rows[c] # Null => store[c] # Null)

LEMMA InitCategoryFirst == Init => CategoryFirst /\ CategoriesAnswered
<1> SUFFICES ASSUME Init, NEW r \in Transactions, CategoryOf[r] # Null
             PROVE  /\ \A d \in Devices : db[d][r] = Null
                    /\ \A t \in Tabs : engine[t].todo[r] = Null /\ engine[t].page = Null
                    /\ \A k \in Keys : requests[k] = Null
                    /\ store[r] = Null
  BY DEF Init, CategoryFirst, CategoriesAnswered, Accompanied
<1>1. \A t \in Tabs : IsIdle(engine[t])
  BY IdleIsIdle DEF Init
<1> QED
  BY <1>1 DEF Init, Empty, IsIdle, Records

\* A category of a batch is stored when the batch is committed.
LEMMA CommitStoresCategory ==
  ASSUME Typed, NEW k \in Keys, CommitPush(k), NEW c \in Categories,
         requests[k].rows[c] # Null
  PROVE  store'[c] # Null
<1>1. c \in Records
  BY DEF Records
<1>2. store'[c] \in Row
  BY <1>1, CommitCategory, PutCategoryType DEF Typed, TypeOK, Table
<1> QED
  BY <1>2, NullAssumption DEF NullAssumption

LEMMA NextCategoriesAnswered ==
  Typed /\ CategoriesAnswered /\ [Next]_vars => CategoriesAnswered'
<1> SUFFICES ASSUME Typed, CategoriesAnswered, [Next]_vars,
                    NEW k \in Keys, NEW c \in Categories, operations'[k] # Null
             PROVE  requests'[k] # Null /\ (requests'[k].rows[c] # Null => store'[c] # Null)
  BY DEF CategoriesAnswered
<1>1. RequestsStay /\ (store[c] # Null => store'[c] # Null)
  BY NextRequestsStay, CategoriesOnlyGetNewer
<1>2. CASE operations'[k] = operations[k]
  BY <1>1, <1>2 DEF CategoriesAnswered, RequestsStay
<1>3. CASE CommitPush(k)
  BY <1>3, CommitFrame, CommitStoresCategory
<1>4. ASSUME NEW j \in Keys, CommitPush(j), j # k
      PROVE  operations'[k] = operations[k]
  BY <1>4, CommitFrame
<1> QED
  BY <1>2, <1>3, <1>4, OnlyCommitWrites

\* What was sent ahead stays so.
LEMMA AheadStays ==
  ASSUME Typed, [Next]_vars
  PROVE  ahead \subseteq ahead'
<1>1. CASE Tick \/ UNCHANGED vars
  BY <1>1 DEF Tick, vars
<1>2. ASSUME NEW t \in Tabs, UserStep(t)
      PROVE  ahead' = ahead
  BY <1>2 DEF UserStep, Create, Edit, Written, BeginRemove, FinishRemove, Hydrate, Restart
<1>3. ASSUME NEW t \in Tabs, EngineAction(t)
      PROVE  ahead \subseteq ahead'
  BY <1>3 DEF EngineAction, Offline, Wake, ReadBanks, ReadTransactions, Fail, SendBatch,
       NoKeyLeft, ReceiveAnswers, ReceiveError, BeginMark, FinishMark, BeginPull, ReceivePage
<1>4. CASE ServerStep
  BY <1>4, PushStepFrame DEF ServerStep, ServerPull
<1> QED
  BY <1>1, <1>2, <1>3, <1>4 DEF Next

\* The third query of pending() finds the category of a transaction that was collected by
\* the first two, or knows that it was missed.
LEMMA ReadingAccompanies ==
  ASSUME Typed, Shaped, CategoriesConfirmed, NEW t \in Tabs, Reading(t),
         NEW r \in Transactions, NEW c, c = CategoryOf[r], c # Null,
         Accompanied(db[DeviceOf[t]], r, c), engine'[t].todo[r] # Null
  PROVE  engine'[t].todo[c] # Null \/ store[c] # Null \/ r \in ahead'
<1> DEFINE disk == db[DeviceOf[t]]
           todo == engine'[t].todo
<1>1. r \in Records /\ c \in Categories /\ c \in Records /\ c # r
  BY CategoryOfType
<1>2. disk \in Table /\ Shape(engine[t])
  BY EngineFields DEF Shaped
<1>3. todo[r] = disk[r] /\ Unsynced(disk, r) /\ engine'[t].phase = "sending"
  BY <1>1, <1>2, ReadingEffect DEF Shape
<1>4. ReadTransactions(t)
  <2>1. ASSUME Wake(t) PROVE engine'[t].phase = "banks"
    BY <2>1, EngineFields DEF Wake, EngineStep, Typed, TypeOK, Engine
  <2>2. ASSUME ReadBanks(t) PROVE engine'[t].phase = "transactions"
    BY <2>2, EngineFields DEF ReadBanks, EngineStep, Typed, TypeOK, Engine
  <2> QED
    BY <1>3, <2>1, <2>2 DEF Reading
<1>5. ahead' = ahead \cup Missed(todo, Pending(disk))
  <2> DEFINE read == BulkPut(engine[t].todo, Only(Pending(disk), Transactions))
  <2>1. EngineStep(t, [engine[t] EXCEPT !.phase = "sending", !.began = edits, !.todo = read])
        /\ ahead' = ahead \cup Missed(read, Pending(disk))
    BY <1>4 DEF ReadTransactions
  <2>2. engine'[t] = [engine[t] EXCEPT !.phase = "sending", !.began = edits, !.todo = read]
    BY <2>1, EngineStepEffect
  <2> HIDE DEF read
  <2>3. engine'[t].todo = read
    BY <2>2, EngineFields DEF Engine
  <2> QED
    BY <2>1, <2>3
<1>6. disk[c] # Null /\ ~Unsynced(disk, c) => store[c] # Null
  <2>1. Confirmed(disk[c], c)
    BY <1>1, EngineFields DEF CategoriesConfirmed
  <2> QED
    BY <2>1 DEF Confirmed, Unsynced
<1> HIDE DEF disk
<1>7. Unsynced(disk, c) => Pending(disk)[c] # Null
  BY <1>1, <1>2, PendingRows
<1>8. Unsynced(disk, c) /\ todo[c] = Null => r \in Missed(todo, Pending(disk))
  BY <1>1, <1>7 DEF Missed, Ids
<1>9. disk[c] # Null \/ store[c] # Null \/ r \in ahead
  BY <1>3 DEF Accompanied, Unsynced, disk
<1> QED
  BY <1>5, <1>6, <1>8, <1>9

\* A batch takes the category of its transactions along, or it was sent before, or the
\* transaction overtakes it.
LEMMA SendingAccompanies ==
  ASSUME Typed, NEW t \in Tabs, SendBatch(t), NEW r \in Transactions,
         NEW c, c = CategoryOf[r], c # Null,
         Accompanied(engine[t].todo, r, c)
  PROVE  \E k \in Keys :
           /\ engine'[t].phase = "pushing" /\ engine'[t].key = k
           /\ \A j \in Keys \ {k} : requests'[j] = requests[j]
           /\ Accompanied(requests[k].rows, r, c)'
           /\ Accompanied(engine[t].todo, r, c)' \/ requests'[k].rows[c] # Null
<1> DEFINE todo == engine[t].todo
<1>1. r \in Records /\ c \in Categories /\ c \in Records /\ c # r
  BY CategoryOfType
<1>2. PICK S \in Batches(todo), k \in Keys :
        /\ engine'[t].phase = "pushing" /\ engine'[t].key = k
        /\ \A j \in Keys \ {k} : requests'[j] = requests[j]
        /\ \A q \in Records : requests'[k].rows[q] = IF q \in S THEN todo[q] ELSE Null
        /\ \A q \in Records : engine'[t].todo[q] = IF q \in S THEN Null ELSE todo[q]
        /\ ahead' = ahead \cup Overtaking(todo, S)
        /\ store' = store
  BY SendBatchEffect
<1>3. todo \in Table
  BY EngineFields
<1> HIDE DEF todo
<1>4. S \subseteq Ids(todo) /\ \A x \in S, y \in Ids(todo) \ S : NotAfter(todo, x, y)
  BY DEF Batches
<1>5. r \in S /\ c \in Ids(todo) \ S => r \in Overtaking(todo, S)
  <2> SUFFICES ASSUME r \in S, c \in Ids(todo) \ S PROVE r \in Overtaking(todo, S)
    OBVIOUS
  <2>1. NotAfter(todo, r, c)
    BY <1>4
  <2>2. Rank(r) = 3 /\ (Rank(c) = 1 \/ Rank(c) = 2)
    BY <1>1, IdsAssumption DEF Rank, IdsAssumption
  <2>3. todo[r].updated_at < todo[c].updated_at
    BY <2>1, <2>2 DEF NotAfter
  <2> QED
    BY <2>3 DEF Overtaking
<1>6. todo[r] # Null => todo[c] # Null \/ store[c] # Null \/ r \in ahead
  BY DEF Accompanied, todo
<1>7. todo[c] # Null <=> c \in Ids(todo)
  BY <1>1 DEF Ids
<1>8. requests'[k].rows[r] # Null =>
        requests'[k].rows[c] # Null \/ store'[c] # Null \/ r \in ahead'
  BY <1>1, <1>2, <1>5, <1>6, <1>7
<1>9. engine'[t].todo[r] # Null =>
        \/ engine'[t].todo[c] # Null \/ store'[c] # Null \/ r \in ahead'
        \/ requests'[k].rows[c] # Null
  BY <1>1, <1>2, <1>6
<1> QED
  BY <1>2, <1>8, <1>9 DEF Accompanied

LEMMA NextCategoryFirst ==
  /\ Typed /\ Shaped /\ CategoriesConfirmed /\ CategoriesAnswered /\ OnItsDisk
  /\ CategoryFirst /\ Ordered /\ [Next]_vars
  => CategoryFirst'
<1> SUFFICES ASSUME Typed, Shaped, CategoriesConfirmed, CategoriesAnswered, OnItsDisk,
                    CategoryFirst, Ordered, [Next]_vars,
                    NEW r \in Transactions, CategoryOf[r] # Null,
                    NEW c, c = CategoryOf[r]
             PROVE  /\ \A d \in Devices : Accompanied(db[d], r, c)'
                    /\ \A t \in Tabs :
                         /\ Accompanied(engine[t].todo, r, c)' \/ OnItsWay(t, c)'
                         /\ engine'[t].page # Null /\ engine'[t].page.rows[r] # Null
                              => store'[c] # Null \/ r \in ahead'
                    /\ \A k \in Keys : requests'[k] # Null => Accompanied(requests[k].rows, r, c)'
                    /\ store'[r] # Null => store'[c] # Null \/ r \in ahead'
  BY DEF CategoryFirst
<1>1. r \in Records /\ c \in Categories /\ c \in Records /\ c # r
  BY CategoryOfType
<1>2. store[c] # Null \/ r \in ahead => store'[c] # Null \/ r \in ahead'
  BY <1>1, CategoriesOnlyGetNewer, AheadStays
<1>3. ASSUME NEW d \in Devices PROVE Accompanied(db[d], r, c)'
  <2>1. db[d][c] # Null => db'[d][c] # Null
    BY <1>1, DiskStays
  <2>2. Accompanied(db[d], r, c)
    BY DEF CategoryFirst
  <2>3. CASE db[d][r] # Null
    BY <1>2, <2>1, <2>2, <2>3 DEF Accompanied
  <2>4. CASE db[d][r] = Null /\ db'[d][r] # Null
    <3>1. PICK t \in Tabs :
            /\ DeviceOf[t] = d
            /\ \/ \E amount \in Amounts : Create(t, r, amount) \/ Edit(t, r, amount)
               \/ FinishRemove(t) /\ removing[t].id = r
               \/ FinishMark(t) /\ engine[t].held.id = r
               \/ ReceivePage(t) /\ engine[t].page.rows[r] # Null
      BY <1>1, <2>4, DiskOrigin
    <3>2. CASE \E amount \in Amounts : Create(t, r, amount)
      <4>1. IsLive(shown[t], c)
        BY <3>2, <1>1, CreateEffect
      <4> QED
        BY <4>1, <3>1, <1>1, <2>1 DEF IsLive, OnItsDisk, Accompanied
    <3>3. ~ \E amount \in Amounts : Edit(t, r, amount)
      BY <1>1, <2>4, <3>1 DEF Edit, IsLive, OnItsDisk
    <3>4. ~ (FinishRemove(t) /\ removing[t].id = r)
      BY <2>4, <3>1 DEF FinishRemove, OnItsDisk
    <3>5. ~ (FinishMark(t) /\ engine[t].held.id = r)
      BY <2>4, <3>1 DEF FinishMark, OnItsDisk
    <3>6. CASE ReceivePage(t) /\ engine[t].page.rows[r] # Null
      <4>1. store[c] # Null \/ r \in ahead
        BY <3>6 DEF ReceivePage, CategoryFirst
      <4> QED
        BY <4>1, <1>2 DEF Accompanied
    <3> QED
      BY <3>1, <3>2, <3>3, <3>4, <3>5, <3>6
  <2> QED
    BY <2>3, <2>4 DEF Accompanied
<1>4. ASSUME NEW t \in Tabs PROVE Accompanied(engine[t].todo, r, c)' \/ OnItsWay(t, c)'
  <2>1. Accompanied(engine[t].todo, r, c) \/ OnItsWay(t, c)
    BY DEF CategoryFirst
  <2>2. CASE engine'[t] = engine[t]
    <3>1. engine[t].phase = "pushing" => requests'[engine[t].key] = requests[engine[t].key]
      BY NextRequestsStay, EngineFields DEF Ordered, InOrder, RequestsStay
    <3> QED
      BY <1>2, <2>1, <2>2, <3>1 DEF Accompanied, OnItsWay
  <2>3. CASE IsIdle(engine'[t])
    BY <1>1, <2>3 DEF IsIdle, Empty, Accompanied
  <2>4. CASE engine'[t].todo = engine[t].todo /\ engine[t].phase # "pushing"
    BY <1>2, <2>1, <2>4 DEF Accompanied, OnItsWay
  <2>5. CASE Reading(t)
    <3>1. Accompanied(db[DeviceOf[t]], r, c)
      BY EngineFields DEF CategoryFirst
    <3>2. store' = store
      BY <2>5, ReadingEffect
    <3> QED
      BY <2>5, <3>1, <3>2, ReadingAccompanies DEF Accompanied
  <2>6. CASE SendBatch(t)
    <3>1. engine[t].phase # "pushing"
      BY <2>6, SendBatchEffect
    <3>2. Accompanied(engine[t].todo, r, c)
      BY <2>1, <3>1 DEF OnItsWay
    <3> QED
      BY <2>6, <3>2, SendingAccompanies DEF OnItsWay
  <2>7. CASE ReceiveAnswers(t)
    <3>1. engine'[t].todo = engine[t].todo /\ OnItsWay(t, c) => store[c] # Null
      BY <1>1, <2>7, ReceiveAnswersEffect DEF OnItsWay, CategoriesAnswered
    <3> QED
      BY <1>2, <2>1, <2>7, <3>1, ReceiveAnswersEffect DEF Accompanied
  <2>8. CASE FinishMark(t) \/ \E q \in Records : BeginMark(t, q)
    BY <2>4, <2>8, FinishMarkEffect, BeginMarkEffect
  <2>9. CASE BeginPull(t) \/ ReceivePage(t) \/ ServerPull(t)
    BY <2>3, <2>4, <2>9, BeginPullEffect, ReceivePageEffect, ServerPullEffect
    DEF PushFieldsRest
  <2> QED
    BY <2>2, <2>3, <2>5, <2>6, <2>7, <2>8, <2>9, EngineOrigin
<1>5. ASSUME NEW k \in Keys, requests'[k] # Null
      PROVE  Accompanied(requests[k].rows, r, c)'
  <2>1. CASE requests'[k] = requests[k]
    BY <1>2, <1>5, <2>1 DEF CategoryFirst, Accompanied
  <2>2. CASE requests'[k] # requests[k]
    <3>1. PICK t \in Tabs : SendBatch(t)
      BY <2>2, RequestsOrigin
    <3>2. engine[t].phase # "pushing"
      BY <3>1, SendBatchEffect
    <3>3. Accompanied(engine[t].todo, r, c)
      BY <3>2 DEF CategoryFirst, OnItsWay
    <3> QED
      BY <2>2, <3>1, <3>3, SendingAccompanies
  <2> QED
    BY <2>1, <2>2
<1>6. store'[r] # Null => store'[c] # Null \/ r \in ahead'
  <2>1. store[r] # Null => store[c] # Null \/ r \in ahead
    BY DEF CategoryFirst
  <2>2. ASSUME NEW k \in Keys, CommitPush(k), store[r] = Null, store'[r] # Null
        PROVE  store'[c] # Null \/ r \in ahead'
    <3>1. requests[k].rows[r] # Null
      BY <1>1, <2>2, CommitStores
    <3>2. requests[k].rows[c] # Null \/ store[c] # Null \/ r \in ahead
      BY <2>2, <3>1, CommitFrame DEF CategoryFirst, Accompanied
    <3> QED
      BY <1>1, <1>2, <2>2, <3>2, CommitStoresCategory
  <2>3. CASE \A k \in Keys : ~CommitPush(k)
    BY <1>2, <2>1, <2>3, OnlyCommitWrites
  <2> QED
    BY <1>2, <2>1, <2>2, <2>3
<1>7. ASSUME NEW t \in Tabs, engine'[t].page # Null, engine'[t].page.rows[r] # Null
      PROVE  store'[c] # Null \/ r \in ahead'
  <2>1. CASE engine'[t].page = engine[t].page
    BY <1>2, <1>7, <2>1 DEF CategoryFirst
  <2>2. CASE ServerPull(t)
    <3>1. store[r] # Null
      BY <1>1, <1>7, <2>2, ServerPullEffect DEF PullPages, Only
    <3> QED
      BY <1>2, <3>1 DEF CategoryFirst
  <2>3. ~IsIdle(engine'[t])
    BY <1>7 DEF IsIdle
  <2>4. CASE Reading(t) \/ SendBatch(t) \/ ReceiveAnswers(t) \/ \E q \in Records : BeginMark(t, q)
    BY <2>1, <2>4, ReadingEffect, SendBatchEffect, ReceiveAnswersEffect, BeginMarkEffect
    DEF PullFieldsRest
  <2>5. CASE FinishMark(t) \/ BeginPull(t) \/ ReceivePage(t)
    BY <1>7, <2>1, <2>3, <2>5, FinishMarkEffect, BeginPullEffect, ReceivePageEffect
    DEF PullFieldsRest
  <2> QED
    BY <2>1, <2>2, <2>3, <2>4, <2>5, EngineOrigin
<1> QED
  BY <1>3, <1>4, <1>5, <1>6, <1>7

\* A category that a device or a page holds was not refused: nothing tells a device that one
\* was.
NotRefused(row) == row # Null => row.sync_status # "failed"

CategoriesWait ==
  \A c \in Categories :
    /\ \A d \in Devices : NotRefused(db[d][c])
    /\ \A t \in Tabs : engine[t].page # Null => NotRefused(engine[t].page.rows[c])
    /\ NotRefused(store[c])

LEMMA InitCategoriesWait == Init => CategoriesWait
<1> SUFFICES ASSUME Init, NEW c \in Categories
             PROVE  /\ \A d \in Devices : db[d][c] = Null
                    /\ \A t \in Tabs : engine[t].page = Null
                    /\ store[c] = Null
  BY DEF CategoriesWait, NotRefused
<1>1. c \in Records
  BY DEF Records
<1>2. \A t \in Tabs : IsIdle(engine[t])
  BY IdleIsIdle DEF Init
<1> QED
  BY <1>1, <1>2 DEF Init, Empty, IsIdle

LEMMA NextCategoriesWait ==
  Typed /\ CategoriesConfirmed /\ CategoriesWait /\ [Next]_vars => CategoriesWait'
<1> SUFFICES ASSUME Typed, CategoriesConfirmed, CategoriesWait, [Next]_vars,
                    NEW c \in Categories
             PROVE  /\ \A d \in Devices : NotRefused(db'[d][c])
                    /\ \A t \in Tabs : engine'[t].page # Null => NotRefused(engine'[t].page.rows[c])
                    /\ NotRefused(store'[c])
  BY DEF CategoriesWait
<1>1. c \in Records
  BY DEF Records
<1>2. NotRefused(store'[c])
  <2>1. ASSUME NEW k \in Keys, CommitPush(k)
        PROVE  NotRefused(store'[c])
    <3> DEFINE sent == Correct(requests[k].rows[c], serving[k].skew)
    <3>1. CASE requests[k].rows[c] = Null
      BY <2>1, <3>1, CommitCategory DEF CategoriesWait
    <3>2. CASE requests[k].rows[c] # Null
      <4>1. sent \in Row /\ store'[c] = PutCategory(sent, store[c])
        BY <2>1, <3>2, CommitCategory
      <4> HIDE DEF sent
      <4>2. Materialise(sent, sent.version).sync_status = "synced"
        BY <4>1 DEF Materialise, Row
      <4> QED
        BY <4>1, <4>2 DEF PutCategory, NotRefused, CategoriesWait
    <3> QED
      BY <3>1, <3>2
  <2>2. CASE \A k \in Keys : ~CommitPush(k)
    BY <2>2, OnlyCommitWrites DEF CategoriesWait
  <2> QED
    BY <2>1, <2>2
<1>3. ASSUME NEW t \in Tabs, engine'[t].page # Null
      PROVE  NotRefused(engine'[t].page.rows[c])
  <2>1. CASE engine'[t].page = engine[t].page
    BY <1>3, <2>1 DEF CategoriesWait
  <2>2. CASE ServerPull(t)
    <3>1. engine'[t].page.rows[c] = Null \/ engine'[t].page.rows[c] = store[c]
      BY <1>1, <2>2, ServerPullEffect DEF PullPages, Only
    <3> QED
      BY <3>1 DEF CategoriesWait, NotRefused
  <2>3. ~IsIdle(engine'[t])
    BY <1>3 DEF IsIdle
  <2>4. CASE Reading(t) \/ SendBatch(t) \/ ReceiveAnswers(t) \/ \E q \in Records : BeginMark(t, q)
    BY <2>1, <2>4, ReadingEffect, SendBatchEffect, ReceiveAnswersEffect, BeginMarkEffect
    DEF PullFieldsRest
  <2>5. CASE FinishMark(t) \/ BeginPull(t) \/ ReceivePage(t)
    BY <1>3, <2>1, <2>3, <2>5, FinishMarkEffect, BeginPullEffect, ReceivePageEffect
    DEF PullFieldsRest
  <2> QED
    BY <2>1, <2>2, <2>3, <2>4, <2>5, EngineOrigin
<1>4. ASSUME NEW d \in Devices PROVE NotRefused(db'[d][c])
  <2>1. CASE db'[d][c] = db[d][c]
    BY <2>1 DEF CategoriesWait
  <2>2. ASSUME NEW t \in Tabs, DeviceOf[t] = d,
               \/ \E amount \in Amounts : Create(t, c, amount) \/ Edit(t, c, amount)
               \/ FinishRemove(t) /\ removing[t].id = c
               \/ FinishMark(t) /\ engine[t].held.id = c
        PROVE  NotRefused(db'[d][c])
    <3>1. CASE \E amount \in Amounts : Create(t, c, amount)
      BY <1>1, <2>2, <3>1, CreateEffect DEF NotRefused
    <3>2. CASE \E amount \in Amounts : Edit(t, c, amount)
      BY <1>1, <2>2, <3>2, EditEffect DEF NotRefused
    <3>3. CASE FinishRemove(t) /\ removing[t].id = c
      BY <1>1, <2>2, <3>3, FinishRemoveEffect DEF NotRefused
    <3>4. CASE FinishMark(t) /\ engine[t].held.id = c
      <4>1. engine[t].held # Null
        BY <3>4 DEF FinishMark
      <4> QED
        BY <3>4, <4>1 DEF Typed, Underway, CategoriesConfirmed
    <3> QED
      BY <2>2, <3>1, <3>2, <3>3, <3>4
  <2>3. ASSUME NEW t \in Tabs, ReceivePage(t), engine[t].page.rows[c] # Null, DeviceOf[t] = d
        PROVE  NotRefused(db'[d][c])
    <3>1. engine[t].page # Null /\ db'[d][c] = engine[t].page.rows[c]
      BY <1>1, <2>3, ReceivePageEffect
    <3> QED
      BY <3>1 DEF CategoriesWait
  <2> QED
    BY <1>1, <2>1, <2>2, <2>3, DiskOrigin
<1> QED
  BY <1>2, <1>3, <1>4

\* The server holds a transaction without its category only when the engine sent it ahead:
\* the category was written between two queries of one pending(), or had a later stamp and
\* was left for a later batch. It then waits on a disk, where the next cycle finds it
\* (DexieAdapter.pending, SyncEngine.push).
THEOREM CategoriesArriveFirst == Spec => []NoDanglingReference
<1> DEFINE Inv == /\ Typed /\ Shaped /\ CategoriesConfirmed /\ CategoriesAnswered
                  /\ OnItsDisk /\ Traced /\ CategoryFirst /\ Ordered /\ CategoriesWait
<1>1. Init => Inv
  BY InitTyped, InitShaped, InitConfirmed, InitOnItsDisk, InitTraced, InitCategoryFirst,
     InitOrdered, InitCategoriesWait
<1>2. Inv /\ [Next]_vars => Inv'
  BY NextTyped, NextShaped, NextConfirmed, NextCategoriesAnswered, NextOnItsDisk, NextTraced,
     NextCategoryFirst, NextOrdered, NextCategoriesWait
<1>3. Inv => NoDanglingReference
  <2> SUFFICES ASSUME Inv, NEW r \in Transactions, store[r] # Null, CategoryOf[r] # Null,
                      store[CategoryOf[r]] = Null
               PROVE  r \in ahead /\ \E d \in Devices : IsPending(db[d], CategoryOf[r])
    BY DEF NoDanglingReference
  <2>1. r \in Records /\ CategoryOf[r] \in Categories /\ CategoryOf[r] \in Records
    BY CategoryOfType
  <2>2. r \in ahead
    BY DEF CategoryFirst
  <2>3. PICK d \in Devices : db[d][CategoryOf[r]] # Null
    BY <2>1 DEF Traced, Known
  <2>4. db[d][CategoryOf[r]] \in Row
    BY <2>1, <2>3 DEF Typed, TypeOK, Table
  <2>5. db[d][CategoryOf[r]].sync_status # "synced" /\ db[d][CategoryOf[r]].sync_status # "failed"
    BY <2>1, <2>3 DEF CategoriesConfirmed, Confirmed, CategoriesWait, NotRefused
  <2> QED
    BY <2>2, <2>3, <2>4, <2>5 DEF IsPending, Row
<1> QED
  BY <1>1, <1>2, <1>3, PTL DEF Spec

-----------------------------------------------------------------------------
(* What a device has given away and not yet heard about.  Requests stay as  *)
(* they were sent, and an answer is about a transaction of its request.     *)

AnswersMatch ==
  \A k \in Keys : operations[k] # Null =>
    /\ requests[k] # Null
    /\ \A r \in Transactions : operations[k][r] # Null => requests[k].rows[r] # Null

\* What the commit of push k does to transaction r.
LEMMA CommitTransaction ==
  ASSUME Typed, NEW k \in Keys, CommitPush(k), NEW r \in Transactions
  PROVE  LET row  == requests[k].rows[r]
             seen == serving[k].seen[r]
             sent == Correct(row, serving[k].skew)
         IN  /\ row = Null => operations'[k][r] = Null /\ store'[r] = store[r]
             /\ row # Null =>
                  /\ row \in Row /\ sent \in Row
                  /\ store'[r] = IF Accepts(sent, seen) THEN PutTransaction(sent, seen)
                                                       ELSE store[r]
                  /\ operations'[k][r] = AnswerTo(sent, seen)
<1> DEFINE skew == serving[k].skew
           all  == serving[k].seen
           rows == requests[k].rows
<1>1. skew \in Int /\ rows \in Table /\ all \in Table
  BY CommitFrame DEF Request, Serving
<1>2. /\ store' = Apply(store, all, rows, skew)
      /\ operations' = [operations EXCEPT ![k] = Answers(all, rows, skew)]
  BY DEF CommitPush
<1> HIDE DEF skew, rows, all
<1>4. r \in Records /\ r \notin Categories
  BY IdsAssumption DEF Records, IdsAssumption
<1>5. operations'[k] = Answers(all, rows, skew)
  BY <1>2 DEF Typed, TypeOK
<1>6. rows[r] = Null => operations'[k][r] = Null /\ store'[r] = store[r]
  BY <1>2, <1>4, <1>5 DEF Answers, Apply
<1>7. rows[r] # Null =>
        /\ store'[r] = IF Accepts(Correct(rows[r], skew), all[r])
                       THEN PutTransaction(Correct(rows[r], skew), all[r]) ELSE store[r]
        /\ operations'[k][r] = AnswerTo(Correct(rows[r], skew), all[r])
  BY <1>2, <1>4, <1>5 DEF Answers, Apply
<1>8. rows[r] # Null => rows[r] \in Row /\ Correct(rows[r], skew) \in Row
  BY <1>1, <1>4, CorrectType DEF Table
<1> USE DEF skew, rows, all
<1> QED
  BY <1>6, <1>7, <1>8

LEMMA InitAnswersMatch == Init => AnswersMatch
  BY DEF Init, AnswersMatch

LEMMA NextAnswersMatch == Typed /\ AnswersMatch /\ [Next]_vars => AnswersMatch'
<1> SUFFICES ASSUME Typed, AnswersMatch, [Next]_vars, NEW k \in Keys, operations'[k] # Null
             PROVE  /\ requests'[k] # Null
                    /\ \A r \in Transactions :
                         operations'[k][r] # Null => requests'[k].rows[r] # Null
  BY DEF AnswersMatch
<1>1. RequestsStay
  BY NextRequestsStay
<1>2. CASE operations'[k] = operations[k]
  BY <1>1, <1>2 DEF AnswersMatch, RequestsStay
<1>3. CASE CommitPush(k)
  BY <1>1, <1>3, CommitTransaction, CommitFrame DEF RequestsStay
<1>4. ASSUME NEW j \in Keys, CommitPush(j), j # k
      PROVE  operations'[k] = operations[k]
  BY <1>4, CommitFrame
<1> QED
  BY <1>2, <1>3, <1>4, OnlyCommitWrites

-----------------------------------------------------------------------------
(* One tab for a device.  Its engine is the only one that writes the disk,  *)
(* so a row it has in hand is still unsynced there.                         *)

OneTabEach == \A s, t \in Tabs : DeviceOf[s] = DeviceOf[t] => s = t

\* What engine t took from its disk and has not written back.
InHand(t, r) ==
  \/ engine[t].todo[r] # Null
  \/ engine[t].acks[r] # Null
  \/ engine[t].phase = "pushing" /\ requests[engine[t].key].rows[r] # Null

\* One tab for a device: what its engine has in hand is still unsynced on the
\* disk, and a row is in one place of the push only.
Taken(t) ==
  /\ engine[t].phase = "pushing" =>
       /\ requests[engine[t].key] # Null
       /\ requests[engine[t].key].device_id = DeviceOf[t]
  /\ \A r \in Transactions :
       /\ InHand(t, r) => Unsynced(db[DeviceOf[t]], r)
       /\ engine[t].held # Null /\ engine[t].held.id = r
            => engine[t].held.row.sync_status # "synced"
       /\ \/ engine[t].acks[r] # Null
          \/ engine[t].phase = "pushing" /\ requests[engine[t].key].rows[r] # Null
          => engine[t].todo[r] = Null

InTheirHands == \A t \in Tabs : Taken(t)

\* What the disk of t becomes while its engine neither marks nor pulls.
LEMMA DiskOfUser ==
  ASSUME Typed, OneTabEach, [Next]_vars, NEW t \in Tabs, NEW r \in Records,
         ~ FinishMark(t), ~ ReceivePage(t)
  PROVE  \/ db'[DeviceOf[t]][r] = db[DeviceOf[t]][r]
         \/ /\ \/ \E amount \in Amounts : Create(t, r, amount) \/ Edit(t, r, amount)
               \/ FinishRemove(t) /\ removing[t].id = r
            /\ db'[DeviceOf[t]][r] \in Row
            /\ db'[DeviceOf[t]][r].sync_status = "pending"
            /\ db'[DeviceOf[t]][r].rev = edits + 1
<1>1. DeviceOf[t] \in Devices
  BY EngineFields
<1>2. CASE \E amount \in Amounts : Create(t, r, amount) \/ Edit(t, r, amount)
  BY <1>1, <1>2, CreateEffect, EditEffect
<1>3. CASE FinishRemove(t) /\ removing[t].id = r
  BY <1>1, <1>3, FinishRemoveEffect
<1> QED
  BY <1>1, <1>2, <1>3, DiskOrigin DEF OneTabEach

LEMMA StaysUnsynced ==
  ASSUME Typed, OneTabEach, [Next]_vars, NEW t \in Tabs, NEW r \in Records,
         ~ FinishMark(t), ~ ReceivePage(t), Unsynced(db[DeviceOf[t]], r)
  PROVE  Unsynced(db'[DeviceOf[t]], r)
<1>1. \A row \in Row : row # Null
  BY NullAssumption DEF NullAssumption
<1> QED
  BY <1>1, DiskOfUser DEF Unsynced

LEMMA InitInTheirHands == Init => InTheirHands
<1> SUFFICES ASSUME Init, NEW t \in Tabs PROVE Taken(t)
  BY DEF InTheirHands
<1>1. IsIdle(engine[t])
  BY IdleIsIdle DEF Init
<1> QED
  BY <1>1 DEF Taken, InHand, IsIdle, Empty, Records

LEMMA NextInTheirHands ==
  ASSUME OneTabEach
  PROVE  Typed /\ Shaped /\ AnswersMatch /\ InTheirHands /\ [Next]_vars => InTheirHands'
<1> SUFFICES ASSUME Typed, Shaped, AnswersMatch, InTheirHands, [Next]_vars, NEW t \in Tabs
             PROVE  Taken(t)'
  BY DEF InTheirHands
<1>1. /\ Taken(t) /\ Shape(engine[t]) /\ DeviceOf[t] \in Devices
  BY EngineFields DEF InTheirHands, Shaped
<1>2. RequestsStay /\ (engine[t].phase = "pushing" => engine[t].key \in Keys)
  BY NextRequestsStay, EngineFields
<1>3. \A r \in Transactions : r \in Records
  BY DEF Records
<1>4. CASE FinishMark(t)
  <2>1. PICK q \in Records :
          /\ engine[t].held # Null /\ engine[t].held.id = q
          /\ engine[t].acks[q] \in Answer
          /\ \A d \in Devices, r \in Records : r # q => db'[d][r] = db[d][r]
          /\ engine'[t].phase = "sending" /\ engine'[t].held = Null
          /\ \A r \in Records :
               engine'[t].acks[r] = IF r = q THEN Null ELSE engine[t].acks[r]
          /\ engine'[t].todo = engine[t].todo
    BY <1>4, FinishMarkEffect
  <2>2. engine[t].acks[q] # Null
    BY <2>1, NullAnswerAssumption DEF NullAnswerAssumption
  <2> SUFFICES ASSUME NEW r \in Transactions
               PROVE  /\ InHand(t, r)' => Unsynced(db'[DeviceOf[t]], r)
                      /\ engine'[t].acks[r] # Null => engine'[t].todo[r] = Null
    BY <2>1 DEF Taken
  <2>3. CASE r = q
    BY <1>1, <1>3, <2>1, <2>2, <2>3 DEF Taken, InHand
  <2>4. CASE r # q
    BY <1>1, <1>3, <2>1, <2>4 DEF Taken, InHand, Unsynced
  <2> QED
    BY <2>3, <2>4
<1>5. CASE IsIdle(engine'[t])
  BY <1>3, <1>5 DEF Taken, InHand, IsIdle, Empty
<1>6. CASE ReceivePage(t)
  <2>1. CASE ~ IsIdle(engine'[t])
    <3>1. /\ engine'[t].phase = "pulling"
          /\ engine'[t].todo = Empty /\ engine'[t].acks = Empty /\ engine'[t].held = Null
      BY <1>1, <1>6, <2>1, ReceivePageEffect DEF Shape, PushFieldsRest
    <3> QED
      BY <1>3, <3>1 DEF Taken, InHand, Empty
  <2> QED
    BY <1>5, <2>1
<1>7. ASSUME ~ FinishMark(t), ~ ReceivePage(t), NEW r \in Transactions, InHand(t, r)
      PROVE  Unsynced(db'[DeviceOf[t]], r)
  BY <1>1, <1>3, <1>7, StaysUnsynced DEF Taken
<1>8. CASE ~ FinishMark(t) /\ ~ ReceivePage(t) /\ engine'[t] = engine[t]
  <2>1. engine[t].phase = "pushing" => requests'[engine[t].key] = requests[engine[t].key]
    BY <1>1, <1>2 DEF Taken, RequestsStay
  <2> QED
    BY <1>1, <1>7, <1>8, <2>1 DEF Taken, InHand
<1>9. CASE Reading(t)
  <2>1. /\ engine'[t].acks = Empty /\ engine'[t].held = Null
        /\ engine[t].acks = Empty /\ engine[t].phase # "pushing"
        /\ engine'[t].phase # "pushing" /\ db' = db
    BY <1>1, <1>9, ReadingEffect DEF Shape, IsIdle
  <2>2. ASSUME NEW r \in Transactions, engine'[t].todo[r] # Null
        PROVE  Unsynced(db'[DeviceOf[t]], r)
    <3>1. Unsynced(db[DeviceOf[t]], r) \/ engine[t].todo[r] # Null
      BY <1>3, <1>9, <2>2, ReadingEffect
    <3> QED
      BY <1>1, <2>1, <3>1 DEF Taken, InHand
  <2> QED
    BY <1>3, <2>1, <2>2 DEF Taken, InHand, Empty
<1>10. CASE SendBatch(t)
  <2>1. PICK S \in Batches(engine[t].todo), k \in Keys :
          /\ engine[t].acks = Empty /\ engine[t].held = Null
          /\ requests'[k] # Null /\ requests'[k].device_id = DeviceOf[t]
          /\ \A r \in Records : requests'[k].rows[r]
               = IF r \in S THEN engine[t].todo[r] ELSE Null
          /\ engine'[t].phase = "pushing" /\ engine'[t].key = k
          /\ \A r \in Records : engine'[t].todo[r]
               = IF r \in S THEN Null ELSE engine[t].todo[r]
          /\ engine'[t].acks = Empty /\ engine'[t].held = Null
          /\ db' = db
    BY <1>10, SendBatchEffect
  <2>2. \A r \in Transactions : engine[t].todo[r] # Null => Unsynced(db'[DeviceOf[t]], r)
    BY <1>1, <2>1 DEF Taken, InHand
  <2>3. \A r \in Transactions : InHand(t, r)' => engine[t].todo[r] # Null
    BY <1>3, <2>1 DEF InHand, Empty
  <2>4. \A r \in Transactions :
          engine'[t].acks[r] = Null
          /\ (requests'[engine'[t].key].rows[r] # Null => engine'[t].todo[r] = Null)
    BY <1>3, <2>1 DEF Empty
  <2> QED
    BY <2>1, <2>2, <2>3, <2>4 DEF Taken
<1>11. CASE ReceiveAnswers(t)
  <2>1. /\ engine[t].phase = "pushing" /\ engine[t].key \in Keys
        /\ operations[engine[t].key] # Null /\ engine[t].held = Null
        /\ engine'[t].phase = "sending" /\ engine'[t].acks = operations[engine[t].key]
        /\ engine'[t].todo = engine[t].todo /\ engine'[t].held = Null
        /\ db' = db
    BY <1>1, <1>11, ReceiveAnswersEffect DEF Shape
  <2>2. \A r \in Transactions : engine'[t].acks[r] # Null
                                  => requests[engine[t].key].rows[r] # Null
    BY <2>1 DEF AnswersMatch
  <2> QED
    BY <1>1, <2>1, <2>2 DEF Taken, InHand
<1>12. ASSUME NEW q \in Records, BeginMark(t, q)
       PROVE  Taken(t)'
  <2>1. /\ engine[t].phase = "sending" /\ engine[t].acks[q] # Null
        /\ engine'[t].phase = "sending"
        /\ engine'[t].held.id = q /\ engine'[t].held.row = db[DeviceOf[t]][q]
        /\ engine'[t].todo = engine[t].todo /\ engine'[t].acks = engine[t].acks
        /\ db' = db
    BY <1>12, BeginMarkEffect
  <2> QED
    BY <1>1, <2>1 DEF Taken, InHand, Unsynced
<1>13. CASE BeginPull(t) \/ ServerPull(t)
  <2>1. /\ engine'[t].phase = "pulling" /\ db' = db
        /\ engine'[t].todo = engine[t].todo /\ engine'[t].acks = engine[t].acks
        /\ engine'[t].held = engine[t].held
    BY <1>13, BeginPullEffect, ServerPullEffect DEF PushFieldsRest
  <2> QED
    BY <1>1, <2>1 DEF Taken, InHand
<1> QED
  BY <1>4, <1>5, <1>6, <1>8, <1>9, <1>10, <1>11, <1>12, <1>13, EngineOrigin

-----------------------------------------------------------------------------
(* Time stamps.  What a device has not synced carries its own clock, and    *)
(* what the server stores is stamped after the epoch: a pull of everything  *)
(* asks for rows stamped after it.                                          *)

\* The time stamp at was read from the clock of device d.
FromClock(at, d) == StartTime + SkewOf[d] <= at /\ at <= Clock(d)

EngineStamped(t) ==
  \A r \in Transactions :
    /\ engine[t].todo[r] # Null => FromClock(engine[t].todo[r].updated_at, DeviceOf[t])
    /\ engine[t].held # Null /\ engine[t].held.id = r
         => FromClock(engine[t].held.row.updated_at, DeviceOf[t])

RequestStamped(k) ==
  requests[k] # Null =>
    /\ requests[k].client_time <= Clock(requests[k].device_id)
    /\ \A r \in Transactions : requests[k].rows[r] # Null =>
         /\ StartTime + SkewOf[requests[k].device_id] <= requests[k].rows[r].updated_at
         /\ requests[k].rows[r].updated_at <= requests[k].client_time

\* Push k moves time stamps by the offset it has measured, at most to its present.
ServingStamped(k) ==
  /\ \A r \in Transactions : serving[k].seen[r] # Null => serving[k].seen[r].updated_at > 0
  /\ serving[k].state = "open" =>
       /\ requests[k].client_time + serving[k].skew <= now
       /\ 0 <= SkewOf[requests[k].device_id] + serving[k].skew

Stamped ==
  /\ StartTime <= now
  /\ \A d \in Devices, r \in Transactions :
       Unsynced(db[d], r) => FromClock(db[d][r].updated_at, d)
  /\ \A t \in Tabs : removing[t] # Null => FromClock(removing[t].at, DeviceOf[t])
  /\ \A t \in Tabs : EngineStamped(t)
  /\ \A k \in Keys : RequestStamped(k) /\ ServingStamped(k)
  /\ \A r \in Transactions : store[r] # Null => store[r].updated_at > 0

\* A row the server corrects keeps all but its time stamp.
LEMMA CorrectEffect ==
  ASSUME NEW row \in Row, NEW skew \in Int
  PROVE  LET sent == Correct(row, skew)
         IN  /\ sent.updated_at = row.updated_at
                  \/ sent.updated_at = row.updated_at + skew
             /\ sent.rev = row.rev /\ sent.version = row.version
             /\ sent.deleted = row.deleted
  BY DEF Correct, Row

\* The stored row is one of the two that were merged.
LEMMA MergedFrom ==
  ASSUME NEW incoming \in Row, NEW existing \in Row \cup {Null}
  PROVE  LET stored == PutTransaction(incoming, existing)
         IN  \/ /\ stored.updated_at = incoming.updated_at
                /\ stored.rev = incoming.rev /\ stored.deleted = incoming.deleted
             \/ /\ existing # Null /\ stored.updated_at = existing.updated_at
                /\ stored.rev = existing.rev /\ stored.deleted = existing.deleted
<1> DEFINE stored == PutTransaction(incoming, existing)
<1>1. \A row \in Row, v \in Nat :
        /\ Materialise(row, v).updated_at = row.updated_at
        /\ Materialise(row, v).rev = row.rev
        /\ Materialise(row, v).deleted = row.deleted
  BY DEF Materialise, Row
<1>2. CASE existing = Null
  BY <1>1, <1>2 DEF PutTransaction
<1>3. CASE existing # Null
  <2>1. existing \in Row /\ existing.version + 1 \in Nat
    BY <1>3 DEF Row
  <2>2. Merge(incoming, existing) = incoming \/ Merge(incoming, existing) = existing
    BY DEF Merge
  <2>3. \/ stored = existing
        \/ stored = Materialise(Merge(incoming, existing), existing.version + 1)
    BY <1>3 DEF PutTransaction
  <2> QED
    BY <1>1, <1>3, <2>1, <2>2, <2>3
<1> QED
  BY <1>2, <1>3

LEMMA InitStamped == Init => Stamped
<1> SUFFICES ASSUME Init PROVE Stamped
  OBVIOUS
<1>1. \A t \in Tabs : IsIdle(engine[t])
  BY IdleIsIdle DEF Init
<1>2. \A t \in Tabs : EngineStamped(t)
  BY <1>1 DEF EngineStamped, IsIdle, Empty, Records
<1>3. \A r \in Transactions : store[r] = Null /\ \A d \in Devices : db[d][r] = Null
  BY DEF Init, Empty, Records
<1>4. \A k \in Keys : RequestStamped(k) /\ ServingStamped(k)
  BY DEF Init, RequestStamped, ServingStamped, NotServed, Empty, Records
<1>5. StartTime <= now
  BY BoundsAssumption DEF Init, BoundsAssumption
<1> QED
  BY <1>2, <1>3, <1>4, <1>5 DEF Init, Stamped, Unsynced

\* A time stamp stays one of its device while time passes.
LEMMA StampsStay ==
  ASSUME Typed, [Next]_vars, NEW d \in Devices, NEW at \in Int, FromClock(at, d)
  PROVE  FromClock(at, d)'
<1>1. Clock(d) \in Int /\ now \in Int /\ SkewOf[d] \in Int
  BY ClockType, PlacesAssumption DEF Typed, TypeOK, PlacesAssumption
<1> QED
  BY <1>1, TimeOrigin DEF FromClock, Clock

LEMMA ReadNow ==
  ASSUME Typed, StartTime <= now, NEW d \in Devices
  PROVE  FromClock(Clock(d), d) /\ Clock(d) \in Int
<1>1. now \in Int /\ SkewOf[d] \in Int /\ StartTime \in Int
  BY PlacesAssumption, BoundsAssumption DEF Typed, TypeOK, PlacesAssumption, BoundsAssumption
<1> QED
  BY <1>1 DEF FromClock, Clock

\* The statements of push k: where its own record comes from.
LEMMA ServingOrigin ==
  ASSUME Typed, [Next]_vars, NEW k \in Keys
  PROVE  \/ serving'[k] = serving[k]
         \/ serving'[k].state # "open" /\ serving'[k].seen = Empty
         \/ /\ serving'[k].state = "open" /\ serving'[k].seen = Empty
            /\ serving'[k].skew = now - requests[k].client_time
            /\ requests[k] # Null
            /\ UNCHANGED <<now, requests, store>>
         \/ /\ serving[k].state = "open" /\ serving'[k].state = "open"
            /\ serving'[k].skew = serving[k].skew
            /\ \A r \in Transactions : \/ serving'[k].seen[r] = serving[k].seen[r]
                                       \/ serving'[k].seen[r] = store[r]
            /\ UNCHANGED <<now, requests, store>>
<1>1. CASE BeginPush(k)
  <2> DEFINE begun == [NotServed EXCEPT !.state = "open", !.skew = now - requests[k].client_time]
  <2>1. /\ Serve(k, begun) /\ requests[k] # Null
        /\ UNCHANGED <<now, requests, store>>
    BY <1>1 DEF BeginPush, Serve
  <2>2. begun.state = "open" /\ begun.skew = now - requests[k].client_time /\ begun.seen = Empty
    BY DEF NotServed
  <2> HIDE DEF begun
  <2>3. serving'[k] = begun
    BY <2>1 DEF Serve, Typed, TypeOK
  <2> QED
    BY <2>1, <2>2, <2>3
<1>2. ASSUME NEW q \in Records, ReachRow(k, q)
      PROVE  /\ serving[k].state = "open" /\ serving'[k].state = "open"
             /\ serving'[k].skew = serving[k].skew
             /\ \A r \in Transactions : \/ serving'[k].seen[r] = serving[k].seen[r]
                                        \/ serving'[k].seen[r] = store[r]
             /\ UNCHANGED <<now, requests, store>>
  <2>1. /\ serving[k].state = "open" /\ serving' = [serving EXCEPT ![k] = Reached(k, q)]
        /\ UNCHANGED <<now, requests, store>>
    BY <1>2 DEF ReachRow, Serve, Reached
  <2>2. serving'[k] = Reached(k, q)
    BY <2>1 DEF Typed, TypeOK
  <2>3. \A r \in Transactions : \/ serving'[k].seen[r] = serving[k].seen[r]
                                \/ serving'[k].seen[r] = store[r]
    <3>1. serving[k].seen \in Table
      BY DEF Typed, TypeOK, Serving
    <3>2. serving'[k].seen = [serving[k].seen EXCEPT ![q] =
                                IF q \in Transactions THEN store[q] ELSE Null]
      BY <2>2, ReachedType
    <3> QED
      BY <3>1, <3>2 DEF Table, Records
  <2>4. Reached(k, q).state = serving[k].state /\ Reached(k, q).skew = serving[k].skew
    BY ReachedType
  <2> QED
    BY <2>1, <2>2, <2>3, <2>4
<1>3. CASE CommitPush(k) \/ RollBack(k)
  <2> DEFINE failed == [NotServed EXCEPT !.state = "failed"]
  <2>1. NotServed.state = "new" /\ NotServed.seen = Empty
    BY DEF NotServed
  <2>2. failed.state = "failed" /\ failed.seen = Empty
    BY DEF NotServed
  <2>3. Serve(k, NotServed) \/ Serve(k, failed)
    BY <1>3 DEF CommitPush, RollBack
  <2> HIDE DEF failed
  <2>4. PICK push : Serve(k, push) /\ push.state # "open" /\ push.seen = Empty
    BY <2>1, <2>2, <2>3
  <2>5. serving'[k] = push
    BY <2>4 DEF Serve, Typed, TypeOK
  <2> QED
    BY <2>4, <2>5
<1>4. ASSUME NEW j \in Keys, PushStep(j), j # k
      PROVE  serving'[k] = serving[k]
  BY <1>4, PushStepFrame
<1>5. CASE \A j \in Keys : ~PushStep(j)
  BY <1>5, OthersLeaveServer
<1> QED
  BY <1>1, <1>2, <1>3, <1>4, <1>5 DEF PushStep

LEMMA PushStamped ==
  ASSUME Typed, Stamped, NEW k \in Keys, CommitPush(k), NEW r \in Transactions,
         store'[r] # Null
  PROVE  store'[r].updated_at > 0
<1>1. r \in Records /\ serving[k].seen[r] \in Row \cup {Null}
  BY DEF Records, Typed, TypeOK, Table, Serving
<1>2. CASE store'[r] = store[r]
  BY <1>2 DEF Stamped
<1>3. CASE store'[r] # store[r]
  <2> DEFINE row  == requests[k].rows[r]
             skew == serving[k].skew
             seen == serving[k].seen[r]
             sent == Correct(row, skew)
             d    == requests[k].device_id
  <2>1. row # Null /\ row \in Row /\ sent \in Row /\ store'[r] = PutTransaction(sent, seen)
    BY <1>3, CommitTransaction
  <2>2. requests[k] # Null /\ requests[k] \in Request /\ skew \in Int
    BY CommitFrame DEF Serving
  <2>3. d \in Devices
    BY <2>2 DEF Request
  <2>4. SkewOf[d] \in Int /\ StartTime \in Int /\ row.updated_at \in Int
    BY <2>1, <2>3, PlacesAssumption, BoundsAssumption
    DEF PlacesAssumption, BoundsAssumption, Row
  <2>5. StartTime > 0 /\ StartTime + SkewOf[d] > 0
    BY <2>3, BoundsAssumption DEF BoundsAssumption
  <2>6. StartTime + SkewOf[d] <= row.updated_at /\ 0 <= SkewOf[d] + skew
    BY <2>1, <2>2, CommitFrame DEF Stamped, RequestStamped, ServingStamped
  <2>7. sent.updated_at = row.updated_at \/ sent.updated_at = row.updated_at + skew
    BY <2>1, <2>2, CorrectEffect
  <2>8. seen # Null => seen.updated_at > 0
    BY DEF Stamped, ServingStamped
  <2> HIDE DEF row, sent, d, skew, seen
  <2>9. sent.updated_at > 0
    BY <2>2, <2>4, <2>5, <2>6, <2>7
  <2>10. seen \in Row \cup {Null}
    BY <1>1 DEF seen
  <2> QED
    BY <2>1, <2>8, <2>9, <2>10, MergedFrom
<1> QED
  BY <1>2, <1>3

LEMMA NextStamped ==
  ASSUME OneTabEach
  PROVE  Typed /\ Ordered /\ InTheirHands /\ Stamped /\ [Next]_vars => Stamped'
<1> SUFFICES ASSUME Typed, Ordered, InTheirHands, Stamped, [Next]_vars
             PROVE  Stamped'
  OBVIOUS
<1>1. \A r \in Transactions : r \in Records
  BY DEF Records
<1>2. StartTime <= now'
  BY TimeOrigin, BoundsAssumption DEF Stamped, Typed, TypeOK, BoundsAssumption
<1>3. ASSUME NEW t \in Tabs, removing'[t] # Null
      PROVE  FromClock(removing[t].at, DeviceOf[t])'
  <2>1. DeviceOf[t] \in Devices
    BY EngineFields
  <2>2. CASE removing'[t] = removing[t]
    <3>1. removing[t].at \in Int /\ FromClock(removing[t].at, DeviceOf[t])
      BY <1>3, <2>2 DEF Stamped, Typed, TypeOK
    <3> QED
      BY <2>1, <2>2, <3>1, StampsStay DEF FromClock
  <2>3. ASSUME NEW q \in Records, BeginRemove(t, q)
        PROVE  FromClock(removing[t].at, DeviceOf[t])'
    <3>1. removing'[t].at = Clock(DeviceOf[t])
      BY <2>3, BeginRemoveEffect
    <3>2. FromClock(Clock(DeviceOf[t]), DeviceOf[t]) /\ Clock(DeviceOf[t]) \in Int
      BY <2>1, ReadNow DEF Stamped
    <3> DEFINE at == Clock(DeviceOf[t])
    <3>3. PICK x \in Int : x = at
      BY <3>2
    <3>4. FromClock(x, DeviceOf[t])'
      BY <2>1, <3>2, <3>3, StampsStay
    <3> QED
      BY <3>1, <3>3, <3>4 DEF FromClock
  <2> QED
    BY <1>3, <2>2, <2>3, RemovingOrigin
<1>4. ASSUME NEW d \in Devices, NEW r \in Transactions, Unsynced(db'[d], r)
      PROVE  FromClock(db[d][r].updated_at, d)'
  <2>1. \A x \in Int : FromClock(x, d) /\ db'[d][r].updated_at = x
          => FromClock(db[d][r].updated_at, d)'
    BY StampsStay DEF FromClock
  <2>2. CASE db'[d][r] = db[d][r]
    <3>1. db[d][r].updated_at \in Int
      BY <1>1, <1>4, <2>2 DEF Unsynced, Typed, TypeOK, Table, Row
    <3> QED
      BY <1>4, <2>1, <2>2, <3>1 DEF Stamped, Unsynced
  <2>3. ASSUME NEW t \in Tabs, DeviceOf[t] = d,
               \E amount \in Amounts : Create(t, r, amount) \/ Edit(t, r, amount)
        PROVE  FromClock(db[d][r].updated_at, d)'
    <3>1. db'[d][r].updated_at = Clock(d)
      BY <1>1, <2>3, CreateEffect, EditEffect
    <3> QED
      BY <2>1, <3>1, ReadNow DEF Stamped
  <2>4. ASSUME NEW t \in Tabs, DeviceOf[t] = d, FinishRemove(t), removing[t].id = r
        PROVE  FromClock(db[d][r].updated_at, d)'
    <3>1. removing[t] # Null /\ db'[d][r].updated_at = removing[t].at
      BY <1>1, <2>4, FinishRemoveEffect
    <3>2. removing[t].at \in Int
      BY <3>1 DEF Typed, TypeOK
    <3> QED
      BY <2>1, <2>4, <3>1, <3>2 DEF Stamped
  <2>5. ASSUME NEW t \in Tabs, DeviceOf[t] = d, FinishMark(t), engine[t].held.id = r
        PROVE  FromClock(db[d][r].updated_at, d)'
    <3>1. /\ engine[t].held # Null /\ engine[t].held.row \in Row
          /\ engine[t].acks[r] \in Answer
          /\ db'[d][r] = Marking(engine[t].held.row, engine[t].acks[r])
      BY <1>1, <2>5, FinishMarkEffect
    <3>2. db'[d][r].updated_at = engine[t].held.row.updated_at
      BY <3>1 DEF Marking, Row
    <3>3. engine[t].held.row.updated_at \in Int
      BY <3>1 DEF Row
    <3>4. FromClock(engine[t].held.row.updated_at, d)
      BY <2>5, <3>1 DEF Stamped, EngineStamped
    <3> QED
      BY <2>1, <3>2, <3>3, <3>4
  <2>6. ASSUME NEW t \in Tabs, DeviceOf[t] = d, ReceivePage(t), engine[t].page.rows[r] # Null
        PROVE  FALSE
    <3>1. engine[t].page # Null /\ db'[d][r] = engine[t].page.rows[r]
      BY <1>1, <2>6, ReceivePageEffect
    <3> QED
      BY <1>4, <2>6, <3>1 DEF Ordered, InOrder, PageSettled, Settled, Unsynced
  <2> QED
    BY <1>1, <2>2, <2>3, <2>4, <2>5, <2>6, DiskOrigin
<1>5. ASSUME NEW t \in Tabs PROVE EngineStamped(t)'
  <2>1. DeviceOf[t] \in Devices /\ EngineStamped(t)
    BY EngineFields DEF Stamped
  <2>2. CASE engine'[t].todo = engine[t].todo /\ engine'[t].held = engine[t].held
    <3> SUFFICES ASSUME NEW r \in Transactions
                 PROVE  /\ engine[t].todo[r] # Null
                             => FromClock(engine[t].todo[r].updated_at, DeviceOf[t])'
                        /\ engine[t].held # Null /\ engine[t].held.id = r
                             => FromClock(engine[t].held.row.updated_at, DeviceOf[t])'
      BY <2>2 DEF EngineStamped, FromClock
    <3>1. engine[t].todo[r] # Null => engine[t].todo[r].updated_at \in Int
      BY <1>1, EngineFields DEF Table, Row
    <3>2. engine[t].held # Null => engine[t].held.row.updated_at \in Int
      BY EngineFields DEF Row
    <3>3. \A x \in Int : FromClock(x, DeviceOf[t]) => StartTime + SkewOf[DeviceOf[t]] <= x
                                                     /\ x <= Clock(DeviceOf[t])'
      BY <2>1, StampsStay DEF FromClock
    <3> QED
      BY <2>1, <2>2, <3>1, <3>2, <3>3 DEF EngineStamped, FromClock
  <2>3. CASE IsIdle(engine'[t])
    BY <1>1, <2>3 DEF IsIdle, Empty, EngineStamped
  <2>4. CASE Reading(t)
    <3>1. /\ engine'[t].held = engine[t].held /\ now' = now
          /\ \A r \in Records : engine'[t].todo[r] # Null
               => \/ engine'[t].todo[r] = engine[t].todo[r]
                  \/ engine'[t].todo[r] = db[DeviceOf[t]][r] /\ Unsynced(db[DeviceOf[t]], r)
      BY <2>4, ReadingEffect
    <3> QED
      BY <1>1, <2>1, <3>1 DEF Stamped, EngineStamped, FromClock, Clock
  <2>5. CASE SendBatch(t)
    <3>1. /\ engine'[t].held = engine[t].held /\ now' = now
          /\ \A r \in Records : engine'[t].todo[r] = Null
                                \/ engine'[t].todo[r] = engine[t].todo[r]
      BY <2>5, SendBatchEffect
    <3> QED
      BY <1>1, <2>1, <3>1 DEF EngineStamped, FromClock, Clock
  <2>6. ASSUME NEW q \in Records, BeginMark(t, q) PROVE EngineStamped(t)'
    <3>1. /\ engine'[t].held.id = q /\ engine'[t].held.row = db[DeviceOf[t]][q]
          /\ engine'[t].todo = engine[t].todo /\ engine[t].acks[q] # Null /\ now' = now
      BY <2>6, BeginMarkEffect
    <3>2. q \in Transactions => Unsynced(db[DeviceOf[t]], q)
      BY <3>1 DEF InTheirHands, Taken, InHand
    <3> QED
      BY <1>1, <2>1, <3>1, <3>2 DEF Stamped, EngineStamped, FromClock, Clock
  <2>7. CASE FinishMark(t)
    <3>1. engine'[t].held = Null /\ engine'[t].todo = engine[t].todo /\ now' = now
      BY <2>7, FinishMarkEffect
    <3> QED
      BY <2>1, <3>1 DEF EngineStamped, FromClock, Clock
  <2>8. CASE ReceiveAnswers(t)
    BY <2>2, <2>8, ReceiveAnswersEffect
  <2>9. CASE BeginPull(t) \/ ReceivePage(t) \/ ServerPull(t)
    BY <2>2, <2>3, <2>9, BeginPullEffect, ReceivePageEffect, ServerPullEffect
    DEF PushFieldsRest
  <2> QED
    BY <2>2, <2>3, <2>4, <2>5, <2>6, <2>7, <2>8, <2>9, EngineOrigin
<1>6. ASSUME NEW k \in Keys PROVE RequestStamped(k)'
  <2>1. CASE requests'[k] = requests[k]
    <3>1. requests[k] # Null => requests[k].client_time \in Int
                                /\ requests[k].device_id \in Devices
      BY DEF Typed, TypeOK, Request
    <3>2. \A d \in Devices : Clock(d) \in Int /\ Clock(d)' \in Int /\ Clock(d) <= Clock(d)'
      BY TimeOrigin, PlacesAssumption DEF Clock, Typed, TypeOK, PlacesAssumption
    <3>3. RequestStamped(k)
      BY DEF Stamped
    <3> QED
      BY <2>1, <3>1, <3>2, <3>3 DEF RequestStamped
  <2>2. CASE requests'[k] # requests[k]
    <3>1. PICK t \in Tabs : SendBatch(t)
      BY <2>2, RequestsOrigin
    <3>2. /\ requests'[k].device_id = DeviceOf[t]
          /\ requests'[k].client_time = Clock(DeviceOf[t])
          /\ \A r \in Records : \/ requests'[k].rows[r] = Null
                                \/ requests'[k].rows[r] = engine[t].todo[r]
          /\ now' = now
      BY <2>2, <3>1, SendBatchEffect
    <3>3. DeviceOf[t] \in Devices /\ Clock(DeviceOf[t]) \in Int
      BY EngineFields, ClockType DEF Typed
    <3> QED
      BY <1>1, <3>2, <3>3 DEF Stamped, EngineStamped, RequestStamped, FromClock, Clock
  <2> QED
    BY <2>1, <2>2
<1>7. ASSUME NEW r \in Transactions, store'[r] # Null
      PROVE  store'[r].updated_at > 0
  <2>1. CASE \E k \in Keys : CommitPush(k)
    BY <1>7, <2>1, PushStamped
  <2>2. CASE \A k \in Keys : ~ CommitPush(k)
    BY <1>7, <2>2, OnlyCommitWrites DEF Stamped
  <2> QED
    BY <2>1, <2>2
<1>8. ASSUME NEW k \in Keys PROVE ServingStamped(k)'
  <2>1. ServingStamped(k) /\ RequestStamped(k) /\ now \in Int /\ now' \in Int /\ now <= now'
    BY TimeOrigin DEF Stamped, Typed, TypeOK
  <2>2. serving[k].state = "open" => requests[k] # Null /\ requests'[k] = requests[k]
    BY NextRequestsStay DEF RequestsStay, Typed, Served
  <2>3. requests[k] # Null => requests[k].client_time \in Int /\ SkewOf[requests[k].device_id] \in Int
    BY PlacesAssumption DEF PlacesAssumption, Typed, TypeOK, Request
  <2>4. serving[k].skew \in Int
    BY DEF Typed, TypeOK, Serving
  <2>5. CASE serving'[k] = serving[k]
    BY <2>1, <2>2, <2>3, <2>4, <2>5 DEF ServingStamped
  <2>6. CASE serving'[k].state # "open" /\ serving'[k].seen = Empty
    BY <1>1, <2>6 DEF ServingStamped, Empty
  <2>7. CASE /\ serving'[k].state = "open" /\ serving'[k].seen = Empty
             /\ serving'[k].skew = now - requests[k].client_time
             /\ requests[k] # Null
             /\ UNCHANGED <<now, requests, store>>
    <3>1. requests[k].client_time <= now + SkewOf[requests[k].device_id]
      BY <2>1, <2>7 DEF RequestStamped, Clock
    <3>2. /\ requests[k].client_time + serving'[k].skew <= now'
          /\ 0 <= SkewOf[requests[k].device_id] + serving'[k].skew
      BY <2>1, <2>3, <2>7, <3>1
    <3>3. \A r \in Transactions : serving'[k].seen[r] = Null
      BY <1>1, <2>7 DEF Empty
    <3> QED
      BY <2>7, <3>2, <3>3 DEF ServingStamped
  <2>8. CASE /\ serving[k].state = "open" /\ serving'[k].state = "open"
             /\ serving'[k].skew = serving[k].skew
             /\ \A r \in Transactions : \/ serving'[k].seen[r] = serving[k].seen[r]
                                        \/ serving'[k].seen[r] = store[r]
             /\ UNCHANGED <<now, requests, store>>
    BY <2>1, <2>8 DEF ServingStamped, Stamped
  <2> QED
    BY <2>5, <2>6, <2>7, <2>8, ServingOrigin
<1> QED
  BY <1>2, <1>3, <1>4, <1>5, <1>6, <1>7, <1>8 DEF Stamped

-----------------------------------------------------------------------------
(* A pull of everything.  Every transaction the server held when the pull   *)
(* began, and still holds unchanged, is on the disk, in the page under way, *)
(* or behind the cursor the next page starts from.                          *)

LEMMA PrecedesIsAnOrder ==
  ASSUME NEW k \in Cursor, NEW l \in Cursor
  PROVE  /\ ~ (Precedes(k, l) /\ Precedes(l, k))
         /\ k.id # l.id => Precedes(k, l) \/ Precedes(l, k)
         /\ \A m \in Cursor : Precedes(k, l) /\ Precedes(l, m) => Precedes(k, m)
  BY DEF Precedes, Cursor

LEMMA KeyType ==
  ASSUME NEW table \in Table, NEW r \in Transactions, table[r] # Null
  PROVE  Key(table, r) \in Cursor /\ Key(table, r).id = r
  BY IdsAssumption DEF Key, Cursor, IdsAssumption, Table, Row, Records

\* A changed transaction is in the page, or the cursor of the next page is
\* before it.
LEMMA InPageOrLater ==
  ASSUME NEW table \in Table, NEW changed, changed \subseteq Transactions \cap Ids(table),
         IsFiniteSet(changed), NEW next \in NextCursors(table, changed, FirstPage(table, changed)),
         NEW r \in changed, r \notin FirstPage(table, changed)
  PROVE  next # Null /\ Precedes(next, Key(table, r))
<1> DEFINE page == FirstPage(table, changed)
           before(q) == {x \in changed : Precedes(Key(table, x), Key(table, q))}
<1>1. \A q \in changed : Key(table, q) \in Cursor /\ Key(table, q).id = q
  BY KeyType DEF Ids
<1>2. \A q \in changed : q \in page <=> Cardinality(before(q)) < PageSize
  BY DEF FirstPage
<1>3. PICK m \in page : next = Key(table, m)
  <2>1. page # changed
    OBVIOUS
  <2> QED
    BY <2>1 DEF NextCursors
<1>4. m \in changed /\ m # r
  BY <1>3 DEF FirstPage
<1>5. ~ Precedes(Key(table, r), Key(table, m))
  <2> SUFFICES ASSUME Precedes(Key(table, r), Key(table, m)) PROVE FALSE
    OBVIOUS
  <2>1. before(r) \subseteq before(m)
    BY <1>1, <1>4, PrecedesIsAnOrder
  <2>2. IsFiniteSet(before(m))
    BY FS_Subset
  <2> HIDE DEF before
  <2>3. /\ Cardinality(before(r)) <= Cardinality(before(m))
        /\ Cardinality(before(r)) \in Nat /\ Cardinality(before(m)) \in Nat
    BY <2>1, <2>2, FS_Subset, FS_CardinalityType
  <2>4. Cardinality(before(m)) < PageSize /\ PageSize \in Nat
    BY <1>2, <1>3, <1>4, SizesAssumption DEF SizesAssumption
  <2>5. Cardinality(before(r)) < PageSize
    BY <2>3, <2>4
  <2> QED
    BY <1>2, <2>5
<1>6. Precedes(Key(table, m), Key(table, r))
  BY <1>1, <1>4, <1>5, PrecedesIsAnOrder
<1> QED
  BY <1>1, <1>3, <1>4, <1>6, NullPageAssumption DEF NullPageAssumption

\* What the answer to a pull says about transaction r.
LEMMA PullPageEffect ==
  ASSUME IsFiniteSet(Transactions), NEW table \in Table, NEW since, NEW cursor, NEW time,
         NEW page \in PullPages(table, since, cursor, time), NEW r \in Transactions
  PROVE  /\ page.server_time = time
         /\ page.rows[r] = Null \/ page.rows[r] = table[r]
         /\ table[r] # Null
            /\ Precedes(IF cursor = Null THEN [at |-> since, id |-> 0] ELSE cursor, Key(table, r))
            => \/ page.rows[r] = table[r]
               \/ page.next_cursor # Null /\ Precedes(page.next_cursor, Key(table, r))
<1> DEFINE changed == ChangedTransactions(table, since, cursor)
           first   == FirstPage(table, changed)
           cats    == IF cursor = Null THEN ChangedCategories(table, since) ELSE {}
<1>1. PICK next \in NextCursors(table, changed, first) :
        page = [rows |-> Only(table, first \cup cats), next_cursor |-> next,
                server_time |-> time]
  BY DEF PullPages
<1>2. changed \subseteq Transactions \cap Ids(table) /\ IsFiniteSet(changed)
  BY FS_Subset DEF ChangedTransactions
<1>3. r \in Records
  BY DEF Records
<1>4. page.rows = Only(table, first \cup cats) /\ page.next_cursor = next
      /\ page.server_time = time
  BY <1>1
<1>5. table[r] # Null
      /\ Precedes(IF cursor = Null THEN [at |-> since, id |-> 0] ELSE cursor, Key(table, r))
      => r \in changed
  BY <1>3 DEF ChangedTransactions, Ids
<1> HIDE DEF changed, cats
<1>6. r \in first => page.rows[r] = table[r]
  BY <1>3, <1>4 DEF Only
<1>7. r \in changed /\ r \notin first => next # Null /\ Precedes(next, Key(table, r))
  BY <1>1, <1>2, InPageOrLater
<1> QED
  BY <1>3, <1>4, <1>5, <1>6, <1>7 DEF Only

\* The pull of engine t has brought r, or more than it asked for.
Got(t, r) ==
  LET row == db[DeviceOf[t]][r]
  IN  row # Null /\ (row.rev = engine[t].base[r].rev \/ row.rev > engine[t].began)

StillToCome(cursor, t, r) == cursor # Null /\ Precedes(cursor, Key(engine[t].base, r))

\* Every transaction the server held when the pull of everything began, and
\* still holds unchanged, is on the disk, in the page, or behind the cursor, unless
\* pushes have overlapped on it.
PullsComplete(t) ==
  /\ engine[t].lastPulledAt = 0 => engine[t].cursor = Null
  /\ engine[t].page # Null => engine[t].page.server_time > 0
  /\ \A r \in Transactions \ contested : engine[t].base[r] # Null =>
       /\ engine[t].base[r].version <= StoredVersion(r)
       /\ engine[t].base[r] = store[r] =>
            /\ engine[t].page = Null => Got(t, r) \/ StillToCome(engine[t].cursor, t, r)
            /\ engine[t].page # Null =>
                 /\ \/ Got(t, r)
                    \/ engine[t].page.rows[r] = engine[t].base[r]
                    \/ StillToCome(engine[t].page.next_cursor, t, r)
                 /\ engine[t].page.rows[r] # Null
                      => engine[t].page.rows[r] = engine[t].base[r]

AllPullsComplete == \A t \in Tabs : PullsComplete(t)

\* The guard of the pull loop ends no pull that has more pages to come.
GuardNotHit ==
  \A t \in Tabs : ReceivePage(t) /\ engine[t].page.next_cursor # Null
                    => engine[t].pages < MaxPages

LEMMA ContestedStays ==
  ASSUME Typed, [Next]_vars
  PROVE  contested \subseteq contested'
  BY OnlyCommitWrites, CommitKeeps

\* The server does not go back to a row it has left: as long as pushes do not overlap on it,
\* its version only grows.
LEMMA RowsDoNotReturn ==
  ASSUME Typed, [Next]_vars, NEW r \in Transactions \ contested', NEW was \in Row,
         was.version <= StoredVersion(r)
  PROVE  /\ was.version <= StoredVersion(r)'
         /\ was = store'[r] => was = store[r]
<1>1. was.version \in Nat /\ was # Null
  BY NullAssumption DEF Row, NullAssumption
<1>2. ASSUME NEW k \in Keys, CommitPush(k)
      PROVE  /\ was.version <= StoredVersion(r)'
             /\ was = store'[r] => was = store[r]
  <2>1. StoredVersion(r) \in Nat
    BY <1>2, CommitPushEffect DEF StoredVersion, Row
  <2>2. \/ StoredVersion(r)' = StoredVersion(r) + 1
        \/ StoredVersion(r)' = StoredVersion(r) /\ store'[r] = store[r]
    <3>1. CASE IsAccepted(k, r)
      <4>1. serving[k].seen[r] = store[r]
        BY <1>2, <3>1, CommitKeeps
      <4>2. store'[r] # Null /\ store'[r].version = SeenVersion(k, r) + 1
        BY <1>2, <3>1, CommitPushEffect
      <4> QED
        BY <4>1, <4>2 DEF SeenVersion, StoredVersion
    <3>2. CASE ~IsAccepted(k, r)
      BY <1>2, <3>2, CommitPushEffect DEF StoredVersion
    <3> QED
      BY <3>1, <3>2
  <2>3. was = store'[r] => StoredVersion(r)' = was.version
    BY <1>1 DEF StoredVersion
  <2> QED
    BY <1>1, <2>1, <2>2, <2>3
<1>3. CASE \A k \in Keys : ~ CommitPush(k)
  BY <1>3, OnlyCommitWrites DEF StoredVersion
<1> QED
  BY <1>2, <1>3

LEMMA NoPullComplete ==
  ASSUME NEW t \in Tabs, engine[t].base = Empty, engine[t].cursor = Null,
         engine[t].page = Null
  PROVE  PullsComplete(t)
  BY DEF PullsComplete, Empty, Records

LEMMA InitPullsComplete == Init => AllPullsComplete
<1> SUFFICES ASSUME Init, NEW t \in Tabs PROVE PullsComplete(t)
  BY DEF AllPullsComplete
<1>1. IsIdle(engine[t])
  BY IdleIsIdle DEF Init
<1> QED
  BY <1>1, NoPullComplete DEF IsIdle

\* While the engine of t does nothing, what it has got stays.
LEMMA PullWaits ==
  ASSUME Typed, OneTabEach, Ordered, [Next]_vars, NEW t \in Tabs, PullsComplete(t),
         engine'[t] = engine[t], ~ FinishMark(t), ~ ReceivePage(t)
  PROVE  PullsComplete(t)'
<1> SUFFICES ASSUME NEW r \in Transactions \ contested', engine[t].base[r] # Null
             PROVE  /\ engine[t].base[r].version <= StoredVersion(r)'
                    /\ engine[t].base[r] = store'[r] =>
                         /\ engine[t].base[r] = store[r]
                         /\ Got(t, r) => Got(t, r)'
  BY ContestedStays DEF PullsComplete, StillToCome
<1>0. r \in Transactions \ contested
  BY ContestedStays
<1>1. r \in Records /\ engine[t].base[r] \in Row
  BY EngineFields DEF Engine, Table, Records
<1>2. /\ engine[t].base[r].version <= StoredVersion(r)'
      /\ engine[t].base[r] = store'[r] => engine[t].base[r] = store[r]
  BY <1>0, <1>1, RowsDoNotReturn DEF PullsComplete
<1>3. Got(t, r) => Got(t, r)'
  <2>1. engine[t].began <= edits /\ engine[t].began \in Nat /\ edits \in Nat
    BY EngineFields DEF Ordered, InOrder, Engine, Typed, TypeOK
  <2>2. \A row \in Row : row # Null
    BY NullAssumption DEF NullAssumption
  <2>3. CASE db'[DeviceOf[t]][r] = db[DeviceOf[t]][r]
    BY <2>3 DEF Got
  <2>4. CASE db'[DeviceOf[t]][r] \in Row /\ db'[DeviceOf[t]][r].rev = edits + 1
    BY <2>1, <2>2, <2>4 DEF Got
  <2> QED
    BY <1>1, <2>3, <2>4, DiskOfUser
<1> QED
  BY <1>2, <1>3

LEMMA ServerPullComplete ==
  ASSUME Typed, Shaped, Stamped, IsFiniteSet(Transactions), NEW t \in Tabs,
         PullsComplete(t), ServerPull(t)
  PROVE  PullsComplete(t)'
<1>1. PICK page \in PullPages(store, engine[t].lastPulledAt, engine[t].cursor, now) :
        /\ engine[t].page = Null /\ page \in Page
        /\ engine'[t].page = page
        /\ engine'[t].base = IF engine[t].lastPulledAt = 0 THEN store ELSE engine[t].base
        /\ engine'[t].cursor = engine[t].cursor
        /\ engine'[t].lastPulledAt = engine[t].lastPulledAt
        /\ engine'[t].began = engine[t].began
        /\ UNCHANGED <<now, db, store>>
  BY ServerPullEffect DEF PushFieldsRest
<1>c. contested' = contested
  BY DEF ServerPull
<1>2. store \in Table /\ now > 0
  BY BoundsAssumption DEF Typed, TypeOK, Stamped, BoundsAssumption
<1>3. page.server_time > 0
  <2>1. page.server_time = now
    BY <1>1 DEF PullPages
  <2> QED
    BY <1>2, <2>1
<1>a. engine'[t].lastPulledAt = 0 => engine'[t].cursor = Null
  BY <1>1 DEF PullsComplete
<1>b. page # Null /\ \A q \in Transactions : StoredVersion(q)' = StoredVersion(q)
  BY <1>1, <1>3, NullPageAssumption DEF StoredVersion, NullPageAssumption
<1> SUFFICES ASSUME NEW r \in Transactions \ contested, engine'[t].base[r] # Null
             PROVE  /\ engine'[t].base[r].version <= StoredVersion(r)
                    /\ engine'[t].base[r] = store[r] =>
                         /\ \/ Got(t, r)'
                            \/ page.rows[r] = engine'[t].base[r]
                            \/ StillToCome(page.next_cursor, t, r)'
                         /\ page.rows[r] # Null => page.rows[r] = engine'[t].base[r]
  BY <1>1, <1>3, <1>a, <1>b, <1>c DEF PullsComplete
<1>4. r \in Records
  BY DEF Records
<1>5. Key(store, r)' = Key(store, r)
  BY <1>1 DEF Key
<1>6. engine'[t].base[r] = store[r] => Key(engine'[t].base, r) = Key(store, r)
  BY DEF Key
<1>7. /\ page.rows[r] = Null \/ page.rows[r] = store[r]
      /\ store[r] # Null
         /\ Precedes(IF engine[t].cursor = Null THEN [at |-> engine[t].lastPulledAt, id |-> 0]
                     ELSE engine[t].cursor, Key(store, r))
         => \/ page.rows[r] = store[r]
            \/ page.next_cursor # Null /\ Precedes(page.next_cursor, Key(store, r))
  BY <1>1, <1>2, PullPageEffect
<1>8. CASE engine[t].lastPulledAt = 0
  <2>1. engine'[t].base = store /\ store[r] # Null /\ engine[t].cursor = Null
    BY <1>1, <1>8 DEF PullsComplete
  <2>2. store[r] \in Row /\ store[r].updated_at > 0
    BY <1>2, <1>4, <2>1 DEF Stamped, Table
  <2>3. Precedes([at |-> 0, id |-> 0], Key(store, r))
    BY <2>2 DEF Precedes, Key, Row
  <2>4. StoredVersion(r) = store[r].version /\ store[r].version \in Nat
    BY <2>1, <2>2 DEF StoredVersion, Row
  <2> QED
    BY <1>6, <1>7, <1>8, <2>1, <2>3, <2>4 DEF StillToCome
<1>9. CASE engine[t].lastPulledAt # 0
  <2>1. engine'[t].base = engine[t].base
    BY <1>1, <1>9
  <2>2. engine[t].base[r].version <= StoredVersion(r)
    BY <2>1 DEF PullsComplete
  <2>3. CASE engine[t].base[r] = store[r]
    <3>1. Got(t, r) \/ StillToCome(engine[t].cursor, t, r)
      BY <1>1, <2>1, <2>3 DEF PullsComplete
    <3>2. CASE Got(t, r)
      BY <1>1, <1>7, <2>1, <2>2, <2>3, <3>2 DEF Got
    <3>3. CASE StillToCome(engine[t].cursor, t, r)
      <4>1. engine[t].cursor # Null /\ Precedes(engine[t].cursor, Key(store, r))
        BY <2>3, <3>3 DEF StillToCome, Key
      <4>2. \/ page.rows[r] = store[r]
            \/ page.next_cursor # Null /\ Precedes(page.next_cursor, Key(store, r))
        BY <1>7, <2>1, <2>3, <4>1
      <4> QED
        BY <1>6, <1>7, <2>1, <2>2, <2>3, <4>2 DEF StillToCome
    <3> QED
      BY <3>1, <3>2, <3>3
  <2> QED
    BY <2>1, <2>2, <2>3
<1> QED
  BY <1>8, <1>9

LEMMA ReceivePageComplete ==
  ASSUME Typed, NEW t \in Tabs, PullsComplete(t), ReceivePage(t)
  PROVE  /\ PullsComplete(t)'
         /\ \A r \in Transactions \ contested :
              /\ engine[t].base[r] # Null /\ engine[t].base[r] = store[r]
              /\ engine[t].page.next_cursor = Null
              => db'[DeviceOf[t]][r] # Null
                 /\ \/ db'[DeviceOf[t]][r].rev = engine[t].base[r].rev
                    \/ db'[DeviceOf[t]][r].rev > engine[t].began
<1> DEFINE page == engine[t].page
<1>a. contested' = contested
  BY EngineFrame DEF EngineAction
<1>1. /\ page # Null /\ page.server_time > 0 /\ page.server_time \in Nat
      /\ \A r \in Records : db'[DeviceOf[t]][r] = IF page.rows[r] # Null
                            THEN page.rows[r] ELSE db[DeviceOf[t]][r]
      /\ engine'[t].lastPulledAt = page.server_time
      /\ \/ IsIdle(engine'[t])
         \/ /\ page.next_cursor # Null
            /\ engine'[t].page = Null /\ engine'[t].cursor = page.next_cursor
            /\ engine'[t].base = engine[t].base /\ engine'[t].began = engine[t].began
      /\ store' = store
  BY ReceivePageEffect, EngineFields DEF PullsComplete, PushFieldsRest
<1>2. ASSUME NEW r \in Transactions \ contested, engine[t].base[r] # Null, engine[t].base[r] = store[r]
      PROVE  \/ /\ db'[DeviceOf[t]][r] # Null
                /\ \/ db'[DeviceOf[t]][r].rev = engine[t].base[r].rev
                   \/ db'[DeviceOf[t]][r].rev > engine[t].began
             \/ StillToCome(page.next_cursor, t, r)
  <2>1. r \in Records
    BY DEF Records
  <2>2. /\ \/ Got(t, r)
           \/ page.rows[r] = engine[t].base[r]
           \/ StillToCome(page.next_cursor, t, r)
        /\ page.rows[r] # Null => page.rows[r] = engine[t].base[r]
    BY <1>1, <1>2 DEF PullsComplete
  <2>3. CASE page.rows[r] # Null
    BY <1>1, <2>1, <2>2, <2>3
  <2>4. CASE page.rows[r] = Null
    BY <1>1, <1>2, <2>1, <2>2, <2>4 DEF Got
  <2> QED
    BY <2>3, <2>4
<1>3. PullsComplete(t)'
  <2>1. CASE IsIdle(engine'[t])
    BY <1>a, <2>1, NoPullComplete DEF IsIdle, PullsComplete, Empty, Records
  <2>2. CASE ~ IsIdle(engine'[t])
    <3>0. /\ engine'[t].page = Null /\ engine'[t].cursor = page.next_cursor
          /\ engine'[t].base = engine[t].base /\ engine'[t].began = engine[t].began
          /\ engine'[t].lastPulledAt > 0 /\ store' = store
      BY <1>1, <2>2
    <3>1. ASSUME NEW r \in Transactions \ contested, engine[t].base[r] # Null
          PROVE  engine[t].base[r].version <= StoredVersion(r)'
      BY <3>0, <3>1 DEF PullsComplete, StoredVersion
    <3>2. ASSUME NEW r \in Transactions \ contested, engine[t].base[r] # Null,
                 engine[t].base[r] = store[r]
          PROVE  Got(t, r)' \/ StillToCome(engine[t].cursor, t, r)'
      <4>1. StillToCome(page.next_cursor, t, r) => StillToCome(engine[t].cursor, t, r)'
        BY <3>0 DEF StillToCome, Key
      <4>2. \/ /\ db'[DeviceOf[t]][r] # Null
               /\ \/ db'[DeviceOf[t]][r].rev = engine[t].base[r].rev
                  \/ db'[DeviceOf[t]][r].rev > engine[t].began
            => Got(t, r)'
        BY <3>0 DEF Got
      <4> QED
        BY <1>2, <3>2, <4>1, <4>2
    <3>3. engine'[t].lastPulledAt = 0 => engine'[t].cursor = Null
      BY <3>0
    <3>4. ASSUME NEW r \in Transactions \ contested, engine'[t].base[r] # Null
          PROVE  /\ engine'[t].base[r].version <= StoredVersion(r)'
                 /\ engine'[t].base[r] = store'[r]
                      => Got(t, r)' \/ StillToCome(engine[t].cursor, t, r)'
      BY <3>0, <3>1, <3>2, <3>4
    <3> QED
      BY <1>a, <3>0, <3>3, <3>4 DEF PullsComplete
  <2> QED
    BY <2>1, <2>2
<1> QED
  BY <1>2, <1>3 DEF StillToCome

LEMMA NextPullsComplete ==
  ASSUME OneTabEach, IsFiniteSet(Transactions)
  PROVE  Typed /\ Shaped /\ Ordered /\ Stamped /\ AllPullsComplete /\ [Next]_vars
           => AllPullsComplete'
<1> SUFFICES ASSUME Typed, Shaped, Ordered, Stamped, AllPullsComplete, [Next]_vars,
                    NEW t \in Tabs
             PROVE  PullsComplete(t)'
  BY DEF AllPullsComplete
<1>1. PullsComplete(t) /\ Shape(engine[t])
  BY DEF AllPullsComplete, Shaped
<1>2. CASE engine'[t].base = Empty /\ engine'[t].cursor = Null /\ engine'[t].page = Null
  BY <1>2 DEF PullsComplete, Empty, Records
<1>3. CASE IsIdle(engine'[t])
  BY <1>2, <1>3 DEF IsIdle
<1>4. CASE engine[t].phase # "pulling" /\ PullFieldsRest(t)
  BY <1>1, <1>2, <1>4 DEF Shape, PullFieldsRest
<1>5. CASE Reading(t) \/ SendBatch(t) \/ ReceiveAnswers(t) \/ \E q \in Records : BeginMark(t, q)
  BY <1>4, <1>5, ReadingEffect, SendBatchEffect, ReceiveAnswersEffect, BeginMarkEffect
<1>6. CASE FinishMark(t) \/ BeginPull(t)
  BY <1>4, <1>6, FinishMarkEffect, BeginPullEffect
<1>7. CASE ServerPull(t)
  BY <1>1, <1>7, ServerPullComplete
<1>8. CASE ReceivePage(t)
  BY <1>1, <1>8, ReceivePageComplete
<1>9. CASE engine'[t] = engine[t] /\ ~ FinishMark(t) /\ ~ ReceivePage(t)
  BY <1>1, <1>9, PullWaits
<1> QED
  BY <1>3, <1>5, <1>6, <1>7, <1>8, <1>9, EngineOrigin

\* A pull ends with a page, unless its cycle fails or its tab is closed.
LEMMA PullEnds ==
  ASSUME Typed, [Next]_vars, NEW t \in Tabs,
         engine[t].phase = "pulling", engine'[t].phase = "idle", faults' = faults
  PROVE  ReceivePage(t)
<1>0. faults \in Nat
  BY DEF Typed, TypeOK
<1>1. ~ (Tick \/ UNCHANGED vars \/ \E k \in Keys : PushStep(k))
  BY PushStepFrame DEF Tick, vars
<1>2. \A u \in Tabs : ~ UserStep(u)
  <2>1. \A u \in Tabs : ~ Restart(u)
    <3>1. faults' # faults + 1
      BY <1>0
    <3> QED
      BY <3>1 DEF Restart
  <2>2. engine' # engine
    OBVIOUS
  <2> QED
    BY <2>1, <2>2 DEF UserStep, Create, Edit, Written, BeginRemove, FinishRemove, Hydrate
<1>3. \A u \in Tabs : ~ ServerPull(u)
  BY ServerPullEffect DEF OthersRest
<1>4. ASSUME NEW u \in Tabs, EngineAction(u)
      PROVE  u = t /\ ReceivePage(t)
  <2>1. ~ Fail(u)
    <3>1. faults' # faults + 1
      BY <1>0
    <3> QED
      BY <3>1 DEF Fail
  <2>2. CASE Offline(u) \/ NoKeyLeft(u) \/ ReceiveError(u)
    BY <2>2, GiveUpEffect DEF OthersRest, Offline, NoKeyLeft, Marked, ReceiveError
  <2>3. CASE Reading(u) \/ SendBatch(u) \/ ReceiveAnswers(u)
    BY <2>3, ReadingEffect, SendBatchEffect, ReceiveAnswersEffect DEF OthersRest
  <2>4. CASE (\E q \in Records : BeginMark(u, q)) \/ FinishMark(u) \/ BeginPull(u)
    BY <2>4, BeginMarkEffect, FinishMarkEffect, BeginPullEffect DEF OthersRest
  <2>5. CASE ReceivePage(u)
    BY <2>5, ReceivePageEffect DEF OthersRest
  <2> QED
    BY <1>4, <2>1, <2>2, <2>3, <2>4, <2>5 DEF EngineAction, Reading
<1> QED
  BY <1>1, <1>2, <1>3, <1>4 DEF Next, ServerStep

\* With one tab for a device, and as long as the guard of the loop is not hit, a
\* pull from the epoch ends with every transaction the server held when it began
\* and has not changed since (PgSyncRepo's keyset pages, SyncEngine.pull), but for those
\* that a push has written over a change it had not read: of these the server may hold
\* again what it held before.
THEOREM FullPullsAreComplete ==
  ASSUME OneTabEach, IsFiniteSet(Transactions)
  PROVE  Spec /\ [][GuardNotHit]_vars => FullPullMissesNothing
<1> DEFINE Inv == /\ Typed /\ Shaped /\ Ordered /\ AnswersMatch /\ InTheirHands
                  /\ Stamped /\ AllPullsComplete
<1>1. Init => Inv
  BY InitTyped, InitShaped, InitOrdered, InitAnswersMatch, InitInTheirHands, InitStamped,
     InitPullsComplete
<1>2. Inv /\ [Next]_vars => Inv'
  BY NextTyped, NextShaped, NextOrdered, NextAnswersMatch, NextInTheirHands, NextStamped,
     NextPullsComplete
<1> DEFINE Ends ==
       \A t \in Tabs :
         engine[t].phase = "pulling" /\ engine'[t].phase = "idle" /\ faults' = faults
         => \A r \in Transactions :
              LET was == engine[t].base[r]
                  row == db'[DeviceOf[t]][r]
              IN  /\ was # Null /\ was = store[r] /\ r \notin contested
                  /\ engine'[t].lastPulledAt > 0
                  => row # Null /\ (row.rev = was.rev \/ row.rev > engine[t].began)
<1>3. Inv /\ [Next]_vars /\ [GuardNotHit]_vars => [Ends]_vars
  <2> SUFFICES ASSUME Inv, [Next]_vars, [GuardNotHit]_vars, NEW t \in Tabs,
                      engine[t].phase = "pulling", engine'[t].phase = "idle",
                      faults' = faults, NEW r \in Transactions \ contested,
                      engine[t].base[r] # Null, engine[t].base[r] = store[r]
               PROVE  /\ db'[DeviceOf[t]][r] # Null
                      /\ \/ db'[DeviceOf[t]][r].rev = engine[t].base[r].rev
                         \/ db'[DeviceOf[t]][r].rev > engine[t].began
    OBVIOUS
  <2>1. ReceivePage(t)
    BY PullEnds
  <2>2. engine[t].page.next_cursor = Null \/ engine[t].pages < MaxPages
    BY <2>1 DEF GuardNotHit, vars
  <2>3. engine[t].page.next_cursor = Null
    <3>1. engine[t].pages \in Nat /\ MaxPages \in Nat
      BY EngineFields, BoundsAssumption DEF BoundsAssumption
    <3> QED
      BY <2>1, <2>2, <3>1, ReceivePageEffect
  <2> QED
    BY <2>1, <2>3, ReceivePageComplete DEF AllPullsComplete
<1> HIDE DEF Inv
<1>4. Spec /\ [][GuardNotHit]_vars => [][Ends]_vars
  BY <1>1, <1>2, <1>3, PTL DEF Spec
<1> QED
  BY <1>4 DEF FullPullMissesNothing

-----------------------------------------------------------------------------
(* What was accepted is what is stored.  The server compares versions before *)
(* it compares times, so a change accepted by its version must also be the   *)
(* later one: with one tab for a device, and clocks that agree, an unsynced  *)
(* row that carries the server's version was written after the server's row. *)

ClocksAgree == \A d \in Devices : SkewOf[d] = 0

VersionOf(stored) == IF stored = Null THEN 0 ELSE stored.version

Current(row, stored) == row.version = VersionOf(stored)

Gone(row) == row # Null /\ row.deleted

Open(row) == row # Null /\ row.sync_status # "synced"

\* A merge of row into stored takes row.
Beats(row, stored) ==
  stored # Null => \/ row.deleted /\ ~ stored.deleted
                   \/ row.deleted = stored.deleted /\ row.updated_at >= stored.updated_at

Wins(row, stored) == Current(row, stored) => Beats(row, stored)

\* A row at the server's version is deleted if the server's is.
Carries(row, stored) == row # Null /\ Current(row, stored) /\ Gone(stored) => row.deleted

ServerWins(r) == store[r] # Null => store[r].version >= 1 /\ store[r].updated_at <= now

DiskWins(d, r) ==
  /\ Carries(db[d][r], store[r])
  /\ Open(db[d][r]) => Wins(db[d][r], store[r])

\* A row deleted here and not yet synced is not shown as live, so no edit
\* brings it back.
TabWins(t, r) ==
  /\ Carries(shown[t][r], store[r])
  /\ Gone(db[DeviceOf[t]][r]) /\ Open(db[DeviceOf[t]][r]) => ~ IsLive(shown[t], r)
  /\ /\ removing[t] # Null /\ removing[t].id = r
     /\ Current(removing[t].row, store[r]) /\ store[r] # Null
     => removing[t].at >= store[r].updated_at

EngineWins(t, r) ==
  LET e    == engine[t]
      mine == db[DeviceOf[t]][r]
      sent == requests[e.key].rows[r]
  IN  /\ e.todo[r] # Null =>
           /\ e.todo[r].version <= VersionOf(store[r])
           /\ Wins(e.todo[r], store[r])
           /\ e.todo[r].deleted => Gone(mine)
      /\ e.held # Null /\ e.held.id = r =>
           /\ Carries(e.held.row, store[r])
           /\ Wins(e.held.row, store[r])
           /\ e.held.row.deleted => Gone(mine) /\ Open(mine)
      /\ e.page # Null => Carries(e.page.rows[r], store[r])
      /\ e.phase = "pushing" /\ sent # Null /\ sent.deleted => Gone(mine)
      /\ /\ e.acks[r] # Null /\ e.acks[r].verdict = "accepted"
         /\ Current(e.acks[r], store[r]) /\ Gone(store[r])
         => Gone(mine) /\ (e.held # Null /\ e.held.id = r => e.held.row.deleted)

RequestWins(k, r) ==
  requests[k] # Null /\ requests[k].rows[r] # Null =>
    /\ requests[k].rows[r].version <= VersionOf(store[r])
    /\ operations[k] = Null => Wins(requests[k].rows[r], store[r])

AcceptedWins(k, r) ==
  /\ operations[k] # Null /\ operations[k][r] # Null
  /\ operations[k][r].verdict = "accepted" /\ Current(operations[k][r], store[r])
  => /\ store[r].rev = requests[k].rows[r].rev
     /\ store[r].deleted = requests[k].rows[r].deleted

Winning ==
  \A r \in Transactions \ contested :
    /\ ServerWins(r)
    /\ \A d \in Devices : DiskWins(d, r)
    /\ \A t \in Tabs : TabWins(t, r) /\ EngineWins(t, r)
    /\ \A k \in Keys : RequestWins(k, r) /\ AcceptedWins(k, r)

LEMMA InitWinning == Init => Winning
<1> SUFFICES ASSUME Init, NEW r \in Transactions \ contested
             PROVE  /\ ServerWins(r)
                    /\ \A d \in Devices : DiskWins(d, r)
                    /\ \A t \in Tabs : TabWins(t, r) /\ EngineWins(t, r)
                    /\ \A k \in Keys : RequestWins(k, r) /\ AcceptedWins(k, r)
  BY DEF Winning
<1>1. /\ r \in Records /\ store[r] = Null
      /\ \A d \in Devices : db[d][r] = Null
      /\ \A t \in Tabs : shown[t][r] = Null /\ removing[t] = Null
      /\ \A k \in Keys : requests[k] = Null /\ operations[k] = Null
  BY DEF Init, Empty, Records
<1>2. \A t \in Tabs : IsIdle(engine[t])
  BY IdleIsIdle DEF Init
<1>3. \A t \in Tabs : EngineWins(t, r)
  BY <1>1, <1>2 DEF EngineWins, IsIdle, Empty
<1>4. \A t \in Tabs : DeviceOf[t] \in Devices
  BY PlacesAssumption DEF PlacesAssumption
<1> QED
  BY <1>1, <1>3, <1>4
  DEF ServerWins, DiskWins, Carries, Open, TabWins, Gone, RequestWins, AcceptedWins

\* A row the server has gone past neither is current nor has to win.
LEMMA LeftBehind ==
  ASSUME NEW row, NEW stored, NEW later, row.version \in Nat, VersionOf(stored) \in Nat,
         row.version <= VersionOf(stored), VersionOf(later) = VersionOf(stored) + 1
  PROVE  ~ Current(row, later) /\ Carries(row, later) /\ Wins(row, later)
  BY DEF Current, Carries, Wins

\* The server takes the row of a batch it accepts, and stamps it no later than now.
LEMMA AcceptedIsTaken ==
  ASSUME Typed, Stamped, ClocksAgree, Winning, NEW k \in Keys, CommitPush(k),
         NEW r \in Transactions, r \notin contested', IsAccepted(k, r)
  PROVE  /\ store'[r] # Null /\ store'[r].updated_at <= now
         /\ store'[r].rev = requests[k].rows[r].rev
         /\ store'[r].deleted = requests[k].rows[r].deleted
<1> DEFINE row  == requests[k].rows[r]
           skew == serving[k].skew
           sent == Correct(row, skew)
           d    == requests[k].device_id
<1>0. r \notin contested /\ serving[k].seen[r] = store[r]
  BY CommitKeeps
<1>1. row # Null
  BY CommitTransaction DEF IsAccepted
<1>2. /\ row \in Row /\ sent \in Row
      /\ store'[r] = IF Accepts(sent, store[r]) THEN PutTransaction(sent, store[r])
                                               ELSE store[r]
      /\ operations'[k][r] = AnswerTo(sent, store[r])
  BY <1>0, <1>1, CommitTransaction
<1>3. /\ requests[k] # Null /\ requests[k] \in Request /\ operations[k] = Null
      /\ serving[k] \in Serving /\ serving[k].state = "open"
  BY CommitFrame
<1>4. d \in Devices /\ requests[k].client_time \in Int /\ now \in Int /\ skew \in Int
  BY <1>3 DEF Request, Serving, Typed, TypeOK
<1>5. /\ requests[k].client_time + skew <= now /\ 0 <= skew
      /\ row.updated_at <= requests[k].client_time
  <2>1. SkewOf[d] = 0
    BY <1>4 DEF ClocksAgree
  <2>2. row.updated_at <= requests[k].client_time
    BY <1>1, <1>3 DEF Stamped, RequestStamped
  <2>3. requests[k].client_time + skew <= now /\ 0 <= SkewOf[d] + skew
    BY <1>3 DEF Stamped, ServingStamped
  <2> HIDE DEF d, skew
  <2> QED
    BY <1>4, <2>1, <2>2, <2>3
<1>6. row.updated_at \in Int /\ row.version \in Nat /\ skew \in Int /\ sent.updated_at \in Int
  BY <1>2, <1>4 DEF Row
<1>7. /\ sent.updated_at = row.updated_at \/ sent.updated_at = row.updated_at + skew
      /\ sent.rev = row.rev /\ sent.version = row.version /\ sent.deleted = row.deleted
  BY <1>2, <1>6, CorrectEffect
<1>8. row.updated_at <= sent.updated_at /\ sent.updated_at <= now
  BY <1>4, <1>5, <1>6, <1>7
<1>9. RequestWins(k, r)
  BY <1>0 DEF Winning
<1>10. store[r] \in Row \cup {Null}
  BY DEF Records, Typed, TypeOK, Table
<1> HIDE DEF row, sent, skew
<1>11. CASE store[r] = Null
  <2>1. store'[r] = Materialise(sent, 1)
    BY <1>2, <1>11 DEF PutTransaction, Accepts
  <2> QED
    <3>1. \A version \in Nat : LET stored == Materialise(sent, version)
                              IN  /\ stored \in Row /\ stored.updated_at = sent.updated_at
                                  /\ stored.rev = sent.rev /\ stored.deleted = sent.deleted
      BY <1>2 DEF Materialise, Row
    <3>2. /\ store'[r] \in Row /\ store'[r].updated_at = sent.updated_at
          /\ store'[r].rev = sent.rev /\ store'[r].deleted = sent.deleted
      BY <2>1, <3>1
    <3> QED
      BY <1>7, <1>8, <3>2, NullAssumption DEF NullAssumption, row
<1>12. CASE store[r] # Null
  <2>1. store[r] \in Row /\ Verdict(sent, store[r]) = "accepted"
    BY <1>2, <1>10, <1>12 DEF AnswerTo, IsAccepted
  <2>2. Merge(sent, store[r]) = sent
    <3>1. CASE sent.deleted /\ ~ store[r].deleted
      BY <3>1 DEF Merge
    <3>2. CASE sent.version >= store[r].version
      <4>1. row.version <= store[r].version /\ (Current(row, store[r]) => Beats(row, store[r]))
        BY <1>1, <1>3, <1>9, <1>12 DEF RequestWins, Wins, VersionOf, row
      <4>2. Beats(row, store[r])
        BY <1>6, <1>7, <1>12, <2>1, <3>2, <4>1 DEF Current, VersionOf, Row
      <4>3. store[r].updated_at \in Int
        BY <2>1 DEF Row
      <4> QED
        BY <1>6, <1>7, <1>8, <1>12, <4>2, <4>3 DEF Beats, Merge
    <3> QED
      BY <2>1, <3>1, <3>2 DEF Verdict
  <2>3. store'[r] = Materialise(sent, store[r].version + 1)
    BY <1>2, <1>12, <2>1, <2>2 DEF PutTransaction, Accepts
  <2>4. store[r].version + 1 \in Nat
    BY <2>1 DEF Row
  <2> QED
    BY <1>2, <1>7, <1>8, <2>3, <2>4, NullAssumption DEF Materialise, Row, NullAssumption, row
<1> QED
  BY <1>11, <1>12

LEMMA PushWins ==
  ASSUME Typed, NotAhead, Stamped, ClocksAgree, Winning, NEW k \in Keys, CommitPush(k),
         NEW r \in Transactions, r \notin contested'
  PROVE  /\ ServerWins(r)'
         /\ \A d \in Devices : DiskWins(d, r)'
         /\ \A t \in Tabs : TabWins(t, r)' /\ EngineWins(t, r)'
         /\ \A j \in Keys : RequestWins(j, r)' /\ AcceptedWins(j, r)'
<1> DEFINE accepted == IsAccepted(k, r)
<1>0. r \notin contested
  BY CommitKeeps
<1>1. /\ requests[k] # Null /\ operations[k] = Null
      /\ \A j \in Keys \ {k} : operations'[j] = operations[j]
      /\ UNCHANGED <<now, edits, db, shown, removing, engine, requests>>
  BY CommitFrame
<1>2. /\ operations'[k] # Null /\ operations'[k][r] \in Answer \cup {Null}
      /\ VersionOf(store[r]) \in Nat
      /\ VersionOf(store'[r]) = IF accepted THEN VersionOf(store[r]) + 1
                                ELSE VersionOf(store[r])
      /\ ~ accepted => store'[r] = store[r]
  <2>1. /\ operations'[k] # Null /\ operations'[k][r] \in Answer \cup {Null}
        /\ store[r] \in Row \cup {Null}
        /\ ~ accepted => store'[r] = store[r]
    BY CommitPushEffect
  <2>2. VersionOf(store[r]) \in Nat
    BY <2>1 DEF VersionOf, Row
  <2>3. ASSUME accepted PROVE VersionOf(store'[r]) = VersionOf(store[r]) + 1
    <3>1. serving[k].seen[r] = store[r]
      BY <2>3, CommitKeeps
    <3>2. store'[r] # Null /\ store'[r].version = SeenVersion(k, r) + 1
      BY <2>3, CommitPushEffect
    <3> QED
      BY <3>1, <3>2 DEF SeenVersion, VersionOf
  <2> HIDE DEF accepted
  <2> QED
    BY <2>1, <2>2, <2>3
<1>3. /\ ServerWins(r)
      /\ \A d \in Devices : DiskWins(d, r)
      /\ \A t \in Tabs : TabWins(t, r) /\ EngineWins(t, r)
      /\ \A j \in Keys : RequestWins(j, r) /\ AcceptedWins(j, r)
  BY <1>0 DEF Winning
<1>4. CASE ~ accepted
  <2>1. store'[r] = store[r]
    BY <1>2, <1>4
  <2>2. ServerWins(r)' /\ \A d \in Devices : DiskWins(d, r)'
    BY <1>1, <1>3, <2>1 DEF ServerWins, DiskWins
  <2>3. \A t \in Tabs : TabWins(t, r)' /\ EngineWins(t, r)'
    BY <1>1, <1>3, <2>1 DEF TabWins, EngineWins, IsLive
  <2>4. \A j \in Keys : RequestWins(j, r)'
    BY <1>1, <1>2, <1>3, <2>1 DEF RequestWins
  <2>5. \A j \in Keys : AcceptedWins(j, r)'
    BY <1>1, <1>3, <1>4, <2>1 DEF AcceptedWins, IsAccepted
  <2> QED
    BY <2>2, <2>3, <2>4, <2>5
<1>5. CASE accepted
  <2>1. /\ VersionOf(store[r]) \in Nat
        /\ VersionOf(store'[r]) = VersionOf(store[r]) + 1
    BY <1>2, <1>5
  <2>2. /\ store'[r] # Null /\ store'[r].updated_at <= now
        /\ store'[r].rev = requests[k].rows[r].rev
        /\ store'[r].deleted = requests[k].rows[r].deleted
    BY <1>5, AcceptedIsTaken
  <2> HIDE DEF accepted
  <2>3. ServerWins(r)'
    BY <1>1, <2>1, <2>2 DEF ServerWins, VersionOf
  <2>4. \A row : row.version \in Nat /\ row.version <= VersionOf(store[r]) =>
          ~ Current(row, store'[r]) /\ Carries(row, store'[r]) /\ Wins(row, store'[r])
    BY <2>1, LeftBehind
  <2>5. r \in Records
    BY DEF Records
  <2>6. ASSUME NEW d \in Devices PROVE DiskWins(d, r)'
    <3>1. CASE db[d][r] = Null
      BY <1>1, <3>1 DEF DiskWins, Carries, Open
    <3>2. CASE db[d][r] # Null
      <4>1. db[d][r].version \in Nat /\ db[d][r].version <= VersionOf(store[r])
        BY <1>0, <2>5, <3>2 DEF NotAhead, AtMostStored, StoredVersion, VersionOf, Typed, TypeOK,
                          Table, Row
      <4> QED
        BY <1>1, <2>4, <4>1 DEF DiskWins
    <3> QED
      BY <3>1, <3>2
  <2>7. ASSUME NEW t \in Tabs PROVE TabWins(t, r)'
    <3>1. Carries(shown[t][r], store'[r])
      <4>1. shown[t][r] # Null =>
              shown[t][r].version \in Nat /\ shown[t][r].version <= VersionOf(store[r])
        BY <1>0, <2>5 DEF NotAhead, AtMostStored, StoredVersion, VersionOf, Typed, TypeOK, Table, Row
      <4> QED
        BY <2>4, <4>1 DEF Carries
    <3>2. removing[t] # Null /\ removing[t].id = r => ~ Current(removing[t].row, store'[r])
      <4>1. removing[t] # Null /\ removing[t].id = r =>
              /\ removing[t].row.version \in Nat
              /\ removing[t].row.version <= VersionOf(store[r])
        BY <1>0 DEF NotAhead, AtMostStored, StoredVersion, VersionOf, Typed, TypeOK, Row
      <4> QED
        BY <2>4, <4>1
    <3> QED
      BY <1>1, <1>3, <3>1, <3>2 DEF TabWins, IsLive
  <2>8. ASSUME NEW t \in Tabs PROVE EngineWins(t, r)'
    <3>1. engine[t] \in Engine /\ EngineNotAhead(engine[t], r) /\ EngineWins(t, r)
      BY <1>0, <1>3, EngineFields DEF NotAhead
    <3>2. engine[t].todo[r] # Null =>
            /\ engine[t].todo[r].version \in Nat
            /\ engine[t].todo[r].version <= VersionOf(store[r])
      BY <2>5, <3>1 DEF EngineWins, Engine, Table, Row
    <3>3. engine[t].held # Null /\ engine[t].held.id = r =>
            /\ engine[t].held.row.version \in Nat
            /\ engine[t].held.row.version <= VersionOf(store[r])
      BY <3>1 DEF EngineNotAhead, Engine, Row, StoredVersion, VersionOf
    <3>4. engine[t].page # Null /\ engine[t].page.rows[r] # Null =>
            /\ engine[t].page.rows[r].version \in Nat
            /\ engine[t].page.rows[r].version <= VersionOf(store[r])
      BY <2>5, <3>1 DEF EngineNotAhead, AtMostStored, Engine, Page, Table, Row,
                        StoredVersion, VersionOf
    <3>5. engine[t].acks[r] # Null =>
            /\ engine[t].acks[r].version \in Nat
            /\ engine[t].acks[r].version <= VersionOf(store[r])
      BY <2>5, <3>1 DEF EngineNotAhead, AtMostStored, Engine, AnswerTable, Answer,
                        StoredVersion, VersionOf
    <3>6. engine[t].page # Null => Carries(engine[t].page.rows[r], store'[r])
      BY <2>4, <3>4 DEF Carries
    <3>7. engine[t].todo[r] # Null =>
            /\ engine[t].todo[r].version <= VersionOf(store'[r])
            /\ Wins(engine[t].todo[r], store'[r])
      BY <2>1, <2>4, <3>2
    <3>8. engine[t].held # Null /\ engine[t].held.id = r =>
            Carries(engine[t].held.row, store'[r]) /\ Wins(engine[t].held.row, store'[r])
      BY <2>4, <3>3
    <3>9. engine[t].acks[r] # Null => ~ Current(engine[t].acks[r], store'[r])
      BY <2>4, <3>5
    <3> QED
      BY <1>1, <3>1, <3>6, <3>7, <3>8, <3>9 DEF EngineWins
  <2>9. ASSUME NEW j \in Keys PROVE RequestWins(j, r)' /\ AcceptedWins(j, r)'
    <3>1. requests[j] # Null /\ requests[j].rows[r] # Null =>
            /\ requests[j].rows[r].version \in Nat
            /\ requests[j].rows[r].version <= VersionOf(store[r])
      BY <1>3, <2>5 DEF RequestWins, Typed, TypeOK, Request, Table, Row
    <3>2. RequestWins(j, r)'
      BY <1>1, <2>1, <2>4, <3>1 DEF RequestWins
    <3>3. CASE j = k
      BY <1>1, <2>2, <3>2, <3>3 DEF AcceptedWins
    <3>4. CASE j # k
      <4>1. operations[j] # Null /\ operations[j][r] # Null =>
              /\ operations[j][r].version \in Nat
              /\ operations[j][r].version <= VersionOf(store[r])
        BY <1>0, <2>5 DEF NotAhead, AtMostStored, StoredVersion, VersionOf, Typed, TypeOK,
                    AnswerTable, Answer
      <4> QED
        BY <1>1, <2>4, <3>2, <3>4, <4>1 DEF AcceptedWins
    <3> QED
      BY <3>2, <3>3, <3>4
  <2> QED
    BY <2>3, <2>6, <2>7, <2>8, <2>9
<1> QED
  BY <1>4, <1>5


\* The rows of disk and screen, the server standing still.
LEMMA WrittenRowWins ==
  ASSUME Typed, Winning, ClocksAgree, NEW t \in Tabs, NEW r \in Transactions,
         r \notin contested, NEW row \in Row,
         \/ row.version = 0
         \/ /\ IsLive(shown[t], r) /\ row.version = shown[t][r].version
            /\ ~ row.deleted /\ row.updated_at = Clock(DeviceOf[t])
         \/ /\ removing[t] # Null /\ removing[t].id = r
            /\ row.version = removing[t].row.version
            /\ row.deleted /\ row.updated_at = removing[t].at
  PROVE  Carries(row, store[r]) /\ Wins(row, store[r])
<1>1. ServerWins(r) /\ TabWins(t, r) /\ DeviceOf[t] \in Devices
  BY EngineFields DEF Winning
<1>2. store[r] \in Row \cup {Null}
  BY DEF Records, Typed, TypeOK, Table
<1>3. CASE row.version = 0
  BY <1>1, <1>2, <1>3 DEF ServerWins, Carries, Wins, Current, VersionOf, Gone, Beats, Row
<1>4. CASE /\ IsLive(shown[t], r) /\ row.version = shown[t][r].version
           /\ ~ row.deleted /\ row.updated_at = Clock(DeviceOf[t])
  <2>1. Current(row, store[r]) => ~ Gone(store[r])
    BY <1>1, <1>4 DEF TabWins, Carries, Current, IsLive
  <2>2. store[r] # Null => store[r].updated_at <= row.updated_at
    <3>1. SkewOf[DeviceOf[t]] = 0 /\ now \in Int
      BY <1>1 DEF ClocksAgree, Typed, TypeOK
    <3>2. Clock(DeviceOf[t]) = now
      BY <3>1 DEF Clock
    <3> QED
      BY <1>1, <1>4, <3>2 DEF ServerWins
  <2>3. store[r] # Null => store[r] \in Row
    BY <1>2
  <2> QED
    BY <1>4, <2>1, <2>2, <2>3 DEF Carries, Wins, Beats, Gone, Row
<1>5. CASE /\ removing[t] # Null /\ removing[t].id = r
           /\ row.version = removing[t].row.version
           /\ row.deleted /\ row.updated_at = removing[t].at
  BY <1>1, <1>2, <1>5 DEF TabWins, Carries, Wins, Current, Beats, Row
<1> QED
  BY <1>3, <1>4, <1>5

\* What a user's step puts on the disk of t, and what it leaves on the screen.
LEMMA UserRowWins ==
  ASSUME Typed, Winning, ClocksAgree, NEW t \in Tabs, NEW r \in Transactions,
         r \notin contested,
         \/ \E amount \in Amounts : Create(t, r, amount) \/ Edit(t, r, amount)
         \/ FinishRemove(t) /\ removing[t].id = r
  PROVE  LET row == db'[DeviceOf[t]][r]
         IN  /\ row \in Row /\ row.sync_status = "pending"
             /\ Carries(row, store[r]) /\ Wins(row, store[r])
             /\ Carries(shown'[t][r], store[r])
             /\ row.deleted => ~ IsLive(shown'[t], r)
             /\ db[DeviceOf[t]][r] # Null => row.deleted \/ IsLive(shown[t], r)
<1>1. r \in Records /\ DeviceOf[t] \in Devices
  BY EngineFields DEF Records
<1>2. ASSUME NEW amount \in Amounts, Create(t, r, amount)
      PROVE  \E row \in Row :
               /\ db'[DeviceOf[t]][r] = row /\ shown'[t][r] = row
               /\ row.sync_status = "pending" /\ row.version = 0 /\ ~ row.deleted
               /\ db[DeviceOf[t]][r] = Null
  BY <1>1, <1>2, CreateEffect
<1>3. ASSUME NEW amount \in Amounts, Edit(t, r, amount)
      PROVE  \E row \in Row :
               /\ db'[DeviceOf[t]][r] = row /\ shown'[t][r] = row
               /\ row.sync_status = "pending" /\ ~ row.deleted
               /\ IsLive(shown[t], r) /\ row.version = shown[t][r].version
               /\ row.updated_at = Clock(DeviceOf[t])
  BY <1>1, <1>3, EditEffect
<1>4. ASSUME FinishRemove(t), removing[t].id = r
      PROVE  \E row \in Row :
               /\ db'[DeviceOf[t]][r] = row
               /\ row.sync_status = "pending" /\ row.deleted
               /\ removing[t] # Null /\ row.version = removing[t].row.version
               /\ row.updated_at = removing[t].at
               /\ shown'[t][r] # Null => shown'[t][r].deleted
  BY <1>1, <1>4, FinishRemoveEffect
<1>5. CASE \E amount \in Amounts : Create(t, r, amount)
  BY <1>2, <1>5, WrittenRowWins
<1>6. CASE \E amount \in Amounts : Edit(t, r, amount)
  BY <1>3, <1>6, WrittenRowWins
<1>7. CASE FinishRemove(t) /\ removing[t].id = r
  <2>1. PICK row \in Row :
          /\ db'[DeviceOf[t]][r] = row
          /\ row.sync_status = "pending" /\ row.deleted
          /\ removing[t] # Null /\ row.version = removing[t].row.version
          /\ row.updated_at = removing[t].at
          /\ shown'[t][r] # Null => shown'[t][r].deleted
    BY <1>4, <1>7
  <2>2. Carries(row, store[r]) /\ Wins(row, store[r])
    BY <1>7, <2>1, WrittenRowWins
  <2> QED
    BY <2>1, <2>2 DEF Carries, IsLive
<1> QED
  BY <1>5, <1>6, <1>7

\* The disk of t, the server standing still.
LEMMA DiskStaysWinning ==
  ASSUME Typed, Ordered, OneTabEach, ClocksAgree, Winning, [Next]_vars, store' = store,
         NEW d \in Devices, NEW r \in Transactions, r \notin contested
  PROVE  DiskWins(d, r)'
<1>1. r \in Records /\ DiskWins(d, r)
  BY DEF Records, Winning
<1>2. CASE db'[d][r] = db[d][r]
  BY <1>1, <1>2 DEF DiskWins
<1>3. ASSUME NEW t \in Tabs, DeviceOf[t] = d,
             \/ \E amount \in Amounts : Create(t, r, amount) \/ Edit(t, r, amount)
             \/ FinishRemove(t) /\ removing[t].id = r
      PROVE  DiskWins(d, r)'
  BY <1>3, UserRowWins DEF DiskWins
<1>4. ASSUME NEW t \in Tabs, DeviceOf[t] = d, FinishMark(t), engine[t].held.id = r
      PROVE  DiskWins(d, r)'
  <2>1. /\ engine[t].held # Null /\ engine[t].held.row \in Row /\ engine[t].acks[r] \in Answer
        /\ db'[d][r] = Marking(engine[t].held.row, engine[t].acks[r])
    BY <1>1, <1>4, FinishMarkEffect
  <2>2. EngineWins(t, r) /\ engine[t].acks[r] # Null
    BY <2>1, NullAnswerAssumption DEF Winning, NullAnswerAssumption
  <2> DEFINE row == Marking(engine[t].held.row, engine[t].acks[r])
  <2>3. CASE engine[t].acks[r].verdict = "accepted"
    <3>1. /\ row.sync_status = "synced" /\ row.version = engine[t].acks[r].version
          /\ row.deleted = engine[t].held.row.deleted
      BY <2>1, <2>3 DEF Marking, Row
    <3>2. Carries(row, store[r])
      BY <1>4, <2>1, <2>2, <2>3, <3>1 DEF EngineWins, Carries, Current
    <3> QED
      BY <2>1, <3>1, <3>2 DEF DiskWins, Open
  <2>4. CASE engine[t].acks[r].verdict # "accepted"
    <3>1. /\ row.version = engine[t].held.row.version
          /\ row.updated_at = engine[t].held.row.updated_at
          /\ row.deleted = engine[t].held.row.deleted
      BY <2>1, <2>4 DEF Marking, Row
    <3>2. Carries(engine[t].held.row, store[r]) /\ Wins(engine[t].held.row, store[r])
      BY <1>4, <2>1, <2>2 DEF EngineWins
    <3>3. engine[t].held.row # Null
      BY <2>1, NullAssumption DEF NullAssumption
    <3> HIDE DEF row
    <3>4. Carries(row, store[r]) /\ Wins(row, store[r])
      BY <3>1, <3>2, <3>3 DEF Carries, Wins, Beats, Current
    <3> QED
      BY <2>1, <3>4 DEF DiskWins, row
  <2> QED
    BY <2>3, <2>4
<1>5. ASSUME NEW t \in Tabs, DeviceOf[t] = d, ReceivePage(t), engine[t].page.rows[r] # Null
      PROVE  DiskWins(d, r)'
  <2>1. engine[t].page # Null /\ db'[d][r] = engine[t].page.rows[r]
    BY <1>1, <1>5, ReceivePageEffect
  <2>2. Carries(engine[t].page.rows[r], store[r])
    BY <2>1 DEF Winning, EngineWins
  <2>3. engine[t].page.rows[r].sync_status = "synced"
    BY <1>5, <2>1 DEF Ordered, InOrder, PageSettled, Settled
  <2> QED
    BY <2>1, <2>2, <2>3 DEF DiskWins, Open
<1> QED
  BY <1>1, <1>2, <1>3, <1>4, <1>5, DiskOrigin

LEMMA TabStaysWinning ==
  ASSUME Typed, Ordered, InTheirHands, OneTabEach, ClocksAgree, Winning, [Next]_vars,
         store' = store, NEW t \in Tabs, NEW r \in Transactions, r \notin contested
  PROVE  TabWins(t, r)'
<1> DEFINE d == DeviceOf[t]
<1>1. /\ r \in Records /\ d \in Devices
      /\ DiskWins(d, r) /\ TabWins(t, r) /\ EngineWins(t, r) /\ ServerWins(r)
  BY EngineFields DEF Records, Winning
<1>2. Carries(shown'[t][r], store[r])
  <2>1. CASE shown'[t][r] = shown[t][r] \/ shown'[t][r] = db[d][r]
    BY <1>1, <2>1 DEF TabWins, DiskWins
  <2>2. CASE \/ \E amount \in Amounts : Create(t, r, amount) \/ Edit(t, r, amount)
             \/ FinishRemove(t) /\ removing[t].id = r
    BY <2>2, UserRowWins
  <2> QED
    BY <1>1, <2>1, <2>2, ShownOrigin
<1>3. ASSUME Gone(db'[d][r]), Open(db'[d][r]) PROVE ~ IsLive(shown'[t], r)
  <2>1. CASE \/ \E amount \in Amounts : Create(t, r, amount) \/ Edit(t, r, amount)
             \/ FinishRemove(t) /\ removing[t].id = r
    BY <1>3, <2>1, UserRowWins DEF Gone
  <2>2. CASE ~ \/ \E amount \in Amounts : Create(t, r, amount) \/ Edit(t, r, amount)
               \/ FinishRemove(t) /\ removing[t].id = r
    <3>1. \/ shown'[t][r] = shown[t][r]
          \/ shown'[t][r] = db[d][r] /\ (Hydrate(t) \/ Restart(t))
      BY <1>1, <2>2, ShownOrigin
    <3>2. \/ db'[d][r] = db[d][r]
          \/ FinishMark(t) /\ engine[t].held.id = r
          \/ ReceivePage(t) /\ engine[t].page.rows[r] # Null
      BY <1>1, <2>2, DiskOrigin DEF OneTabEach
    <3>3. CASE db'[d][r] = db[d][r]
      BY <1>1, <1>3, <3>1, <3>3 DEF TabWins, IsLive, Gone
    <3>4. CASE FinishMark(t) /\ engine[t].held.id = r
      <4>1. /\ engine[t].held # Null /\ engine[t].held.row \in Row
            /\ engine[t].acks[r] \in Answer
            /\ db'[d][r] = Marking(engine[t].held.row, engine[t].acks[r])
            /\ shown' = shown
        BY <1>1, <3>4, FinishMarkEffect
      <4>2. engine[t].held.row.deleted
        BY <1>3, <4>1 DEF Gone, Marking, Row
      <4> QED
        BY <1>1, <3>4, <4>1, <4>2 DEF EngineWins, TabWins, IsLive
    <3>5. CASE ReceivePage(t) /\ engine[t].page.rows[r] # Null
      <4>1. engine[t].page # Null /\ db'[d][r] = engine[t].page.rows[r]
        BY <1>1, <3>5, ReceivePageEffect
      <4>2. engine[t].page.rows[r].sync_status = "synced"
        BY <3>5, <4>1 DEF Ordered, InOrder, PageSettled, Settled
      <4> QED
        BY <1>3, <4>1, <4>2 DEF Open
    <3> QED
      BY <3>2, <3>3, <3>4, <3>5
  <2> QED
    BY <2>1, <2>2
<1>4. ASSUME removing'[t] # Null, removing'[t].id = r,
             Current(removing'[t].row, store[r]), store[r] # Null
      PROVE  removing'[t].at >= store[r].updated_at
  <2>1. CASE removing'[t] = removing[t]
    BY <1>1, <1>4, <2>1 DEF TabWins
  <2>2. ASSUME NEW q \in Records, BeginRemove(t, q)
        PROVE  removing'[t].at >= store[r].updated_at
    <3>1. removing'[t].at = Clock(d) /\ SkewOf[d] = 0 /\ now \in Int
      BY <1>1, <2>2, BeginRemoveEffect DEF ClocksAgree, Typed, TypeOK
    <3>2. Clock(d) = now
      BY <3>1 DEF Clock
    <3>3. store[r].updated_at \in Int
      BY <1>1, <1>4 DEF Typed, TypeOK, Table, Row
    <3> QED
      BY <1>1, <1>4, <3>1, <3>2, <3>3 DEF ServerWins
  <2> QED
    BY <1>4, <2>1, <2>2, RemovingOrigin
<1> QED
  BY <1>2, <1>3, <1>4 DEF TabWins, IsLive


\* A row deleted on the disk of t and not yet synced stays so, but for a mark
\* or a page: no edit starts from it.
LEMMA StaysGone ==
  ASSUME Typed, OneTabEach, ClocksAgree, Winning, [Next]_vars, NEW t \in Tabs,
         NEW r \in Transactions, r \notin contested, ~ FinishMark(t), ~ ReceivePage(t),
         Gone(db[DeviceOf[t]][r]), Open(db[DeviceOf[t]][r])
  PROVE  Gone(db'[DeviceOf[t]][r]) /\ Open(db'[DeviceOf[t]][r])
<1>1. r \in Records /\ TabWins(t, r)
  BY DEF Records, Winning
<1>2. CASE db'[DeviceOf[t]][r] = db[DeviceOf[t]][r]
  BY <1>2
<1>3. CASE \/ \E amount \in Amounts : Create(t, r, amount) \/ Edit(t, r, amount)
           \/ FinishRemove(t) /\ removing[t].id = r
  <2>1. LET row == db'[DeviceOf[t]][r]
        IN  row \in Row /\ row.sync_status = "pending" /\ row.deleted
    BY <1>1, <1>3, UserRowWins DEF TabWins, Gone
  <2> QED
    BY <2>1, NullAssumption DEF Gone, Open, NullAssumption
<1> QED
  BY <1>1, <1>2, <1>3, DiskOfUser

LEMMA IdleWins ==
  ASSUME NEW t \in Tabs, NEW r \in Transactions, IsIdle(engine[t])
  PROVE  EngineWins(t, r)
  BY DEF IsIdle, Empty, Records, EngineWins

\* The engine takes rows from its disk, its answers or its page.
LEMMA EngineStaysWinning ==
  ASSUME Typed, Shaped, Ordered, AnswersMatch, NotAhead, InTheirHands, OneTabEach,
         ClocksAgree, Winning, [Next]_vars, store' = store, NEW t \in Tabs,
         NEW r \in Transactions, r \notin contested
  PROVE  EngineWins(t, r)'
<1> DEFINE mine == db[DeviceOf[t]][r]
<1>1. /\ r \in Records /\ DeviceOf[t] \in Devices /\ EngineWins(t, r)
      /\ DiskWins(DeviceOf[t], r) /\ Taken(t) /\ Shape(engine[t])
      /\ engine[t].phase \in
           {"idle", "banks", "transactions", "sending", "pushing", "pulling"}
  BY EngineFields DEF Records, Winning, InTheirHands, Shaped, Engine
<1>2. InHand(t, r) => Open(mine)
  BY <1>1 DEF Taken, Unsynced, Open
<1>3. CASE IsIdle(engine'[t])
  BY <1>3 DEF IsIdle, Empty, Records, EngineWins
<1>4. CASE engine'[t] = engine[t] /\ ~ FinishMark(t) /\ ~ ReceivePage(t)
  <2>1. Gone(mine) /\ Open(mine) => Gone(mine') /\ Open(mine')
    BY <1>4, StaysGone
  <2>2. engine[t].phase = "pushing" => requests'[engine[t].key] = requests[engine[t].key]
    BY <1>1, NextRequestsStay, EngineFields DEF Taken, RequestsStay
  <2>3. engine[t].todo[r] # Null /\ engine[t].todo[r].deleted => Gone(mine')
    BY <1>1, <1>2, <2>1 DEF EngineWins, InHand
  <2>4. engine[t].held # Null /\ engine[t].held.id = r /\ engine[t].held.row.deleted
          => Gone(mine') /\ Open(mine')
    BY <1>1, <2>1 DEF EngineWins
  <2>5. /\ engine[t].phase = "pushing" /\ requests[engine[t].key].rows[r] # Null
        /\ requests[engine[t].key].rows[r].deleted
        => Gone(mine')
    BY <1>1, <1>2, <2>1 DEF EngineWins, InHand
  <2>6. /\ engine[t].acks[r] # Null /\ engine[t].acks[r].verdict = "accepted"
        /\ Current(engine[t].acks[r], store[r]) /\ Gone(store[r])
        => Gone(mine')
    BY <1>1, <1>2, <2>1 DEF EngineWins, InHand
  <2> QED
    BY <1>1, <1>4, <2>2, <2>3, <2>4, <2>5, <2>6 DEF EngineWins
<1>5. CASE Reading(t)
  <2>1. /\ engine[t].phase \in {"idle", "banks", "transactions"}
        /\ engine'[t].phase \in {"banks", "transactions", "sending"}
        /\ engine'[t].acks = engine[t].acks /\ engine'[t].held = engine[t].held
        /\ engine'[t].page = engine[t].page
        /\ db' = db
    BY <1>5, ReadingEffect DEF PullFieldsRest
  <2>2. engine'[t].todo[r] # Null =>
          \/ engine'[t].todo[r] = engine[t].todo[r]
          \/ engine'[t].todo[r] = mine /\ Open(mine)
    BY <1>1, <1>5, ReadingEffect DEF Unsynced, Open
  <2>3. mine # Null => mine.version <= VersionOf(store[r])
    BY <1>1 DEF NotAhead, AtMostStored, StoredVersion, VersionOf
  <2>4. /\ engine'[t].todo[r] # Null =>
             /\ engine'[t].todo[r].version <= VersionOf(store[r])
             /\ Wins(engine'[t].todo[r], store[r])
             /\ engine'[t].todo[r].deleted => Gone(mine)
    BY <1>1, <2>2, <2>3 DEF EngineWins, DiskWins, Gone, Open
  <2> QED
    BY <1>1, <2>1, <2>4 DEF EngineWins
<1>6. CASE SendBatch(t)
  <2>1. PICK S \in Batches(engine[t].todo), k \in Keys :
          /\ engine[t].acks = Empty /\ engine[t].held = Null
          /\ requests'[k].rows[r] = IF r \in S THEN engine[t].todo[r] ELSE Null
          /\ engine'[t].phase = "pushing" /\ engine'[t].key = k
          /\ engine'[t].todo[r] = IF r \in S THEN Null ELSE engine[t].todo[r]
          /\ engine'[t].acks = engine[t].acks /\ engine'[t].held = engine[t].held
          /\ engine'[t].page = engine[t].page
          /\ db' = db
    BY <1>1, <1>6, SendBatchEffect DEF PullFieldsRest
  <2> QED
    BY <1>1, <2>1 DEF EngineWins, Empty
<1>7. CASE ReceiveAnswers(t)
  <2> DEFINE k == engine[t].key
  <2>1. /\ engine[t].phase = "pushing" /\ k \in Keys /\ operations[k] # Null
        /\ engine'[t].phase = "sending" /\ engine'[t].acks = operations[k]
        /\ engine'[t].todo = engine[t].todo /\ engine'[t].held = Null
        /\ engine'[t].page = engine[t].page
        /\ db' = db
    BY <1>1, <1>7, ReceiveAnswersEffect DEF PullFieldsRest, Shape
  <2>2. /\ operations[k][r] # Null /\ operations[k][r].verdict = "accepted"
        /\ Current(operations[k][r], store[r]) /\ Gone(store[r])
        => Gone(mine)
    <3>1. AcceptedWins(k, r)
      BY <2>1 DEF Winning
    <3>2. operations[k][r] # Null => requests[k].rows[r] # Null
      BY <2>1 DEF AnswersMatch
    <3> QED
      BY <1>1, <2>1, <3>1, <3>2 DEF AcceptedWins, EngineWins, Gone
  <2> QED
    BY <1>1, <2>1, <2>2 DEF EngineWins
<1>8. ASSUME NEW q \in Records, BeginMark(t, q)
      PROVE  EngineWins(t, r)'
  <2>1. /\ engine[t].phase = "sending" /\ engine[t].held = Null
        /\ engine[t].acks[q] # Null /\ db[DeviceOf[t]][q] # Null
        /\ engine'[t].phase = "sending"
        /\ engine'[t].held.id = q /\ engine'[t].held.row = db[DeviceOf[t]][q]
        /\ engine'[t].todo = engine[t].todo /\ engine'[t].acks = engine[t].acks
        /\ engine'[t].page = engine[t].page
        /\ db' = db
    BY <1>8, BeginMarkEffect DEF PullFieldsRest
  <2>2. CASE q = r
    <3>1. Open(mine) /\ mine # Null
      BY <1>2, <2>1, <2>2 DEF InHand
    <3> QED
      BY <1>1, <2>1, <2>2, <3>1 DEF EngineWins, DiskWins, Gone
  <2>3. CASE q # r
    BY <1>1, <2>1, <2>3 DEF EngineWins
  <2> QED
    BY <2>2, <2>3
<1>9. CASE FinishMark(t)
  <2>1. PICK q \in Records :
          /\ engine[t].phase = "sending"
          /\ engine[t].held # Null /\ engine[t].acks[q] \in Answer
          /\ r # q => db'[DeviceOf[t]][r] = db[DeviceOf[t]][r]
          /\ engine'[t].phase = "sending" /\ engine'[t].held = Null
          /\ engine'[t].acks[r] = IF r = q THEN Null ELSE engine[t].acks[r]
          /\ engine'[t].todo = engine[t].todo /\ engine'[t].page = engine[t].page
    BY <1>1, <1>9, FinishMarkEffect DEF PullFieldsRest
  <2>2. CASE r = q
    <3>1. engine[t].todo[r] = Null
      BY <1>1, <2>1, <2>2, NullAnswerAssumption DEF Taken, NullAnswerAssumption
    <3> QED
      BY <1>1, <2>1, <2>2, <3>1 DEF EngineWins
  <2>3. CASE r # q
    BY <1>1, <2>1, <2>3 DEF EngineWins
  <2> QED
    BY <2>2, <2>3
<1>10. CASE BeginPull(t)
  <2>1. /\ engine'[t].phase = "pulling" /\ engine[t].todo = Empty
        /\ engine'[t].todo = engine[t].todo /\ engine'[t].acks = engine[t].acks
        /\ engine'[t].held = engine[t].held /\ engine'[t].page = engine[t].page
        /\ db' = db
    BY <1>10, BeginPullEffect DEF PushFieldsRest, PullFieldsRest
  <2> QED
    BY <1>1, <2>1 DEF EngineWins
<1>11. CASE ReceivePage(t) /\ ~ IsIdle(engine'[t])
  <2>1. /\ engine'[t].phase = "pulling" /\ engine'[t].page = Null
        /\ engine'[t].todo = Empty /\ engine'[t].acks = Empty /\ engine'[t].held = Null
    BY <1>1, <1>11, ReceivePageEffect DEF Shape, PushFieldsRest
  <2> QED
    BY <1>1, <2>1 DEF EngineWins, Empty
<1>12. CASE ServerPull(t)
  <2>1. PICK page \in PullPages(store, engine[t].lastPulledAt, engine[t].cursor, now) :
          /\ engine'[t].phase = "pulling" /\ engine[t].phase = "pulling"
          /\ engine'[t].page = page
          /\ engine'[t].todo = Empty /\ engine'[t].acks = Empty /\ engine'[t].held = Null
    BY <1>1, <1>12, ServerPullEffect DEF PushFieldsRest, Shape
  <2>2. page.rows[r] = Null \/ page.rows[r] = store[r]
    BY <1>1, <2>1 DEF PullPages, Only
  <2>3. Carries(page.rows[r], store[r])
    BY <2>2 DEF Carries, Gone
  <2> QED
    BY <1>1, <2>1, <2>3 DEF EngineWins, Empty
<1> QED
  BY <1>3, <1>4, <1>5, <1>6, <1>7, <1>8, <1>9, <1>10, <1>11, <1>12, EngineOrigin

LEMMA BatchesStayWinning ==
  ASSUME Typed, AnswersMatch, Winning, [Next]_vars, store' = store,
         operations' = operations, NEW k \in Keys, NEW r \in Transactions, r \notin contested
  PROVE  RequestWins(k, r)' /\ AcceptedWins(k, r)'
<1>1. r \in Records /\ RequestWins(k, r) /\ AcceptedWins(k, r)
  BY DEF Records, Winning
<1>2. AcceptedWins(k, r)'
  <2>1. operations[k] # Null => requests'[k] = requests[k]
    BY NextRequestsStay DEF RequestsStay, AnswersMatch
  <2> QED
    BY <1>1, <2>1 DEF AcceptedWins
<1>3. CASE requests'[k] = requests[k]
  BY <1>1, <1>2, <1>3 DEF RequestWins
<1>4. ASSUME NEW t \in Tabs, SendBatch(t), requests'[k] # requests[k]
      PROVE  RequestWins(k, r)'
  <2>1. requests'[k].rows[r] # Null => requests'[k].rows[r] = engine[t].todo[r]
    BY <1>1, <1>4, SendBatchEffect
  <2>2. EngineWins(t, r)
    BY DEF Winning
  <2> QED
    BY <2>1, <2>2 DEF EngineWins, RequestWins
<1> QED
  BY <1>2, <1>3, <1>4, RequestsOrigin

LEMMA NextWinning ==
  ASSUME OneTabEach, ClocksAgree
  PROVE  /\ Typed /\ Shaped /\ Ordered /\ AnswersMatch /\ NotAhead /\ InTheirHands
         /\ Stamped /\ Winning /\ [Next]_vars
         => Winning'
<1> SUFFICES ASSUME Typed, Shaped, Ordered, AnswersMatch, NotAhead, InTheirHands, Stamped,
                    Winning, [Next]_vars, NEW r \in Transactions, r \notin contested'
             PROVE  /\ ServerWins(r)'
                    /\ \A d \in Devices : DiskWins(d, r)'
                    /\ \A t \in Tabs : TabWins(t, r)' /\ EngineWins(t, r)'
                    /\ \A k \in Keys : RequestWins(k, r)' /\ AcceptedWins(k, r)'
  BY DEF Winning
<1>1. CASE \E k \in Keys : CommitPush(k)
  BY <1>1, PushWins
<1>2. CASE \A k \in Keys : ~ CommitPush(k)
  <2>1. store' = store /\ operations' = operations /\ r \notin contested
    BY <1>2, OnlyCommitWrites
  <2>2. ServerWins(r)'
    <3>1. ServerWins(r) /\ now \in Int
      BY <2>1 DEF Winning, Typed, TypeOK
    <3>2. now' = now \/ now' = now + 1
      BY TimeOrigin
    <3>3. store[r] # Null => store[r].updated_at \in Int
      BY DEF Records, Typed, TypeOK, Table, Row
    <3> QED
      BY <2>1, <3>1, <3>2, <3>3 DEF ServerWins
  <2> QED
    BY <2>1, <2>2, DiskStaysWinning, TabStaysWinning, EngineStaysWinning, BatchesStayWinning
<1> QED
  BY <1>1, <1>2

\* Devices with one tab each and clocks that agree: of a transaction that pushes have not
\* overlapped on, the server holds whatever it accepted last. A change that was made
\* before the server's row never comes in under the server's version (SyncService.merge,
\* LWW by updated_at after a check by version).
THEOREM AcceptedChangesAreStored ==
  ASSUME OneTabEach, ClocksAgree
  PROVE  Spec => []AcceptedIsStored
<1> DEFINE Inv == /\ Typed /\ Shaped /\ Ordered /\ AnswersMatch /\ NotAhead
                  /\ InTheirHands /\ Stamped /\ Winning
<1>1. Init => Inv
  BY InitTyped, InitShaped, InitOrdered, InitAnswersMatch, InitNotAhead, InitInTheirHands,
     InitStamped, InitWinning
<1>2. Inv /\ [Next]_vars => Inv'
  BY NextTyped, NextShaped, NextOrdered, NextAnswersMatch, NextNotAhead, NextInTheirHands,
     NextStamped, NextWinning
<1>3. Inv => AcceptedIsStored
  BY DEF AcceptedIsStored, AcceptedKeys, Winning, AcceptedWins, Current, VersionOf,
         StoredVersion
<1> HIDE DEF Inv
<1> QED
  BY <1>1, <1>2, <1>3, PTL DEF Spec
=============================================================================
