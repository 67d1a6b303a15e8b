------------------------- MODULE SyncSafetyProofs -------------------------
(***************************************************************************)
(* The sync protocol for every set of devices, tabs and records, every     *)
(* clock skew, batch size and page size, and every bound.  First its types; *)
(* then what the server does with the rows it is sent, whatever devices,   *)
(* tabs, clocks and the network do: versions only grow, no device is ahead *)
(* of them, a tombstone is final, and the tables implement VersionedStore. *)
(***************************************************************************)
EXTENDS SyncProperties, FiniteSetTheorems, TLAPS

-----------------------------------------------------------------------------
(* The operators on tables and rows return tables and rows. *)

LEMMA EmptyType == Empty \in Table /\ Empty \in AnswerTable
  BY DEF Empty, Table, AnswerTable

LEMMA OnlyType ==
  ASSUME NEW table \in Table, NEW S
  PROVE  Only(table, S) \in Table
  BY DEF Only, Table

LEMMA PendingType ==
  ASSUME NEW table \in Table
  PROVE  Pending(table) \in Table
  BY OnlyType DEF Pending

LEMMA PutType ==
  ASSUME NEW table \in Table, NEW r \in Records, NEW row \in Row
  PROVE  Put(table, r, row) \in Table
  BY DEF Put, Table

LEMMA BulkPutType ==
  ASSUME NEW table \in Table, NEW rows \in Table
  PROVE  BulkPut(table, rows) \in Table
  BY DEF BulkPut, Table

LEMMA CorrectType ==
  ASSUME NEW row \in Row, NEW skew \in Int
  PROVE  Correct(row, skew) \in Row
  BY DEF Correct, Row

LEMMA MaterialiseType ==
  ASSUME NEW row \in Row, NEW version \in Nat
  PROVE  Materialise(row, version) \in Row
  BY DEF Materialise, Row

LEMMA PutTransactionType ==
  ASSUME NEW incoming \in Row, NEW existing \in Row \cup {Null}
  PROVE  PutTransaction(incoming, existing) \in Row
<1>1. CASE existing = Null
  BY <1>1, MaterialiseType DEF PutTransaction
<1>2. CASE existing \in Row
  <2>1. Merge(incoming, existing) \in Row
    BY <1>2 DEF Merge
  <2>2. existing.version + 1 \in Nat
    BY <1>2 DEF Row
  <2>3. Materialise(Merge(incoming, existing), existing.version + 1) \in Row
    BY <2>1, <2>2, MaterialiseType
  <2> QED
    BY <1>2, <2>3, NullAssumption DEF PutTransaction
<1> QED
  BY <1>1, <1>2

LEMMA PutCategoryType ==
  ASSUME NEW incoming \in Row, NEW existing \in Row \cup {Null}
  PROVE  PutCategory(incoming, existing) \in Row
  BY DEF PutCategory, Materialise, Row

LEMMA ApplyType ==
  ASSUME NEW old \in Table, NEW seen \in Table, NEW rows \in Table, NEW skew \in Int
  PROVE  Apply(old, seen, rows, skew) \in Table
<1> SUFFICES ASSUME NEW r \in Records
             PROVE  Apply(old, seen, rows, skew)[r] \in Row \cup {Null}
  BY DEF Apply, Table
<1>1. /\ old[r] \in Row \cup {Null} /\ seen[r] \in Row \cup {Null}
      /\ rows[r] \in Row \cup {Null}
  BY DEF Table
<1>2. CASE rows[r] = Null
  BY <1>1, <1>2 DEF Apply
<1>3. CASE rows[r] # Null
  <2>1. Correct(rows[r], skew) \in Row
    BY <1>1, <1>3, CorrectType
  <2> QED
    BY <2>1, <1>1, <1>3, PutTransactionType, PutCategoryType DEF Apply
<1> QED
  BY <1>2, <1>3

LEMMA AnswerToType ==
  ASSUME NEW incoming \in Row, NEW existing \in Row \cup {Null}
  PROVE  AnswerTo(incoming, existing) \in Answer
<1>1. Verdict(incoming, existing) \in {"accepted", "amount_mismatch", "version_behind"}
  BY DEF Verdict
<1> QED
  BY <1>1 DEF AnswerTo, Answer, Row

LEMMA AnswersType ==
  ASSUME NEW seen \in Table, NEW rows \in Table, NEW skew \in Int
  PROVE  Answers(seen, rows, skew) \in AnswerTable
<1> SUFFICES ASSUME NEW r \in Records, rows[r] # Null
             PROVE  AnswerTo(Correct(rows[r], skew), seen[r]) \in Answer
  BY DEF Answers, AnswerTable
<1>1. seen[r] \in Row \cup {Null} /\ rows[r] \in Row
  BY DEF Table
<1> QED
  BY <1>1, CorrectType, AnswerToType

LEMMA PullPagesType ==
  ASSUME NEW table \in Table, NEW since, NEW cursor, NEW time \in Nat,
         NEW page \in PullPages(table, since, cursor, time)
  PROVE  page \in Page
<1>1. PICK S, C, next : /\ next \in NextCursors(table, C, S)
                        /\ S \subseteq Ids(table)
                        /\ page.rows \in Table
                        /\ page = [rows |-> page.rows, next_cursor |-> next,
                                   server_time |-> time]
  <2> DEFINE changed == ChangedTransactions(table, since, cursor)
             first   == FirstPage(table, changed)
             cats    == IF cursor = Null THEN ChangedCategories(table, since) ELSE {}
  <2>1. PICK next \in NextCursors(table, changed, first) :
          page = [rows |-> Only(table, first \cup cats), next_cursor |-> next,
                  server_time |-> time]
    BY DEF PullPages
  <2>2. first \subseteq Ids(table)
    BY DEF FirstPage, ChangedTransactions
  <2>3. Only(table, first \cup cats) \in Table
    BY OnlyType
  <2> QED
    BY <2>1, <2>2, <2>3
<1>2. next \in Cursor \cup {Null}
  <2> SUFFICES ASSUME NEW r \in S, next = Key(table, r)
               PROVE  next \in Cursor
    BY <1>1 DEF NextCursors
  <2>1. r \in Nat /\ table[r] \in Row
    BY <1>1, IdsAssumption DEF Ids, Table, Records
  <2> QED
    BY <2>1 DEF Key, Cursor, Row
<1> QED
  BY <1>1, <1>2 DEF Page

-----------------------------------------------------------------------------
(* Types.  Two facts about an engine between two of its steps are needed    *)
(* with them: a batch under way has a key, and a row is only held for       *)
(* marking while its answer is.                                             *)

Underway ==
  \A t \in Tabs :
    /\ engine[t].phase = "pushing" => engine[t].key \in Keys
    /\ engine[t].held # Null =>
         engine[t].phase = "sending" /\ engine[t].acks[engine[t].held.id] # Null

Types == TypeOK /\ Underway

\* A push is open only on a request that was sent and has no stored answer.
Served ==
  \A k \in Keys : serving[k].state = "open" => requests[k] # Null /\ operations[k] = Null

Typed == TypeOK /\ Underway /\ Served

LEMMA IdleType ==
  ASSUME NEW since \in Nat, NEW primed \in BOOLEAN
  PROVE  Idle(since, primed) \in Engine
  BY EmptyType DEF Idle, Engine

LEMMA InitTyped == Init => Typed
<1> SUFFICES ASSUME Init PROVE Typed
  OBVIOUS
<1> USE BoundsAssumption, PlacesAssumption DEF BoundsAssumption, PlacesAssumption
<1>1. Empty \in Table
  BY EmptyType
<1>2. Idle(0, FALSE) \in Engine
  BY IdleType
<1>3. TypeOK
  <2>1. serving \in [Keys -> Serving]
    BY <1>1 DEF Init, NotServed, Serving
  <2> QED
    BY <1>1, <1>2, <2>1 DEF Init, TypeOK
<1>4. Underway
  BY <1>2 DEF Init, Underway, Idle
<1>5. Served
  BY DEF Init, Served, NotServed
<1> QED
  BY <1>3, <1>4, <1>5 DEF Typed

LEMMA ClockType ==
  ASSUME TypeOK, NEW d \in Devices
  PROVE  Clock(d) \in Int
  BY PlacesAssumption DEF Clock, TypeOK, PlacesAssumption

LEMMA WrittenTyped ==
  ASSUME Typed, NEW t \in Tabs, NEW r \in Records, NEW row \in Row, Written(t, r, row)
  PROVE  Types'
<1> USE DEF Typed, Types
<1>1. DeviceOf[t] \in Devices
  BY PlacesAssumption DEF PlacesAssumption
<1>2. db' \in [Devices -> Table]
  <2>1. Put(db[DeviceOf[t]], r, row) \in Table
    BY <1>1, PutType DEF TypeOK
  <2> QED
    BY <2>1 DEF Written, TypeOK
<1>3. shown' \in [Tabs -> Table]
  BY DEF Written, TypeOK, Table
<1>4. TypeOK'
  BY <1>2, <1>3 DEF Written, TypeOK
<1>5. Underway'
  BY DEF Written, Underway
<1> QED
  BY <1>4, <1>5

LEMMA CreateTyped ==
  ASSUME Typed, NEW t \in Tabs, NEW r \in Records, NEW amount \in Amounts,
         Create(t, r, amount)
  PROVE  Types'
<1> DEFINE row == [rev |-> edits + 1, amount_minor |-> amount,
                   updated_at |-> Clock(DeviceOf[t]), deleted |-> FALSE,
                   version |-> 0, sync_status |-> "pending"]
<1>1. Clock(DeviceOf[t]) \in Int
  BY ClockType, PlacesAssumption DEF Typed, PlacesAssumption
<1>2. row \in Row
  BY <1>1 DEF Row, Typed, TypeOK
<1>3. Written(t, r, row)
  BY DEF Create
<1> HIDE DEF row
<1> QED
  BY <1>2, <1>3, WrittenTyped

LEMMA EditTyped ==
  ASSUME Typed, NEW t \in Tabs, NEW r \in Records, NEW amount \in Amounts,
         Edit(t, r, amount)
  PROVE  Types'
<1> DEFINE row == [shown[t][r] EXCEPT !.rev = edits + 1, !.amount_minor = amount,
                     !.updated_at = Clock(DeviceOf[t]), !.sync_status = "pending"]
<1>1. Clock(DeviceOf[t]) \in Int
  BY ClockType, PlacesAssumption DEF Typed, PlacesAssumption
<1>2. shown[t][r] \in Row
  BY DEF Edit, IsLive, Typed, TypeOK, Table
<1>3. row \in Row
  <2>0. edits + 1 \in Nat
    BY DEF Typed, TypeOK
  <2>1. [shown[t][r] EXCEPT !.rev = edits + 1, !.amount_minor = amount] \in Row
    BY <1>2, <2>0 DEF Row
  <2>2. \A x \in Row : [x EXCEPT !.updated_at = Clock(DeviceOf[t]),
                                 !.sync_status = "pending"] \in Row
    BY <1>1 DEF Row
  <2> QED
    BY <2>1, <2>2
<1>4. Written(t, r, row)
  BY DEF Edit
<1> HIDE DEF row
<1> QED
  BY <1>3, <1>4, WrittenTyped

LEMMA BeginRemoveTyped ==
  ASSUME Typed, NEW t \in Tabs, NEW r \in Records, BeginRemove(t, r)
  PROVE  Types'
<1>1. DeviceOf[t] \in Devices /\ Clock(DeviceOf[t]) \in Int
  BY ClockType, PlacesAssumption DEF Typed, PlacesAssumption
<1>2. db[DeviceOf[t]][r] \in Row
  BY <1>1 DEF BeginRemove, Typed, TypeOK, Table
<1>3. TypeOK'
  BY <1>1, <1>2 DEF BeginRemove, Typed, TypeOK
<1>4. Underway'
  BY DEF BeginRemove, Typed, Underway
<1> QED
  BY <1>3, <1>4 DEF Typed, Types

LEMMA TombstoneType ==
  ASSUME TypeOK, NEW row \in Row, NEW at \in Int
  PROVE  Tombstone(row, at) \in Row
<1>0. edits + 1 \in Nat
  BY DEF TypeOK
<1>1. [row EXCEPT !.rev = edits + 1, !.updated_at = at] \in Row
  BY <1>0 DEF Row
<1>2. \A x \in Row : [x EXCEPT !.deleted = TRUE, !.sync_status = "pending"] \in Row
  BY DEF Row
<1> QED
  BY <1>1, <1>2 DEF Tombstone

LEMMA FinishRemoveTyped ==
  ASSUME Typed, NEW t \in Tabs, FinishRemove(t)
  PROVE  Types'
<1> DEFINE del == removing[t]
           cur == shown[t][del.id]
           now_shown == IF cur = Null THEN Null ELSE Tombstone(cur, del.at)
<1>1. DeviceOf[t] \in Devices
  BY PlacesAssumption DEF PlacesAssumption
<1>2. del \in [id : Records, at : Int, row : Row]
  BY DEF FinishRemove, Typed, TypeOK
<1>3. Tombstone(del.row, del.at) \in Row
  BY <1>2, TombstoneType DEF Typed
<1>4. Put(db[DeviceOf[t]], del.id, Tombstone(del.row, del.at)) \in Table
  <2>1. db[DeviceOf[t]] \in Table
    BY <1>1 DEF Typed, TypeOK
  <2> QED
    BY <2>1, <1>2, <1>3, PutType
<1>5. now_shown \in Row \cup {Null}
  <2>1. cur \in Row \cup {Null}
    BY <1>2 DEF Typed, TypeOK, Table
  <2> QED
    BY <2>1, <1>2, TombstoneType DEF Typed
<1>6. db' \in [Devices -> Table]
  BY <1>4 DEF FinishRemove, Typed, TypeOK
<1>7. shown' = [shown EXCEPT ![t][del.id] = now_shown]
  BY DEF FinishRemove
<1> HIDE DEF now_shown, cur, del
<1>8. shown' \in [Tabs -> Table]
  BY <1>2, <1>5, <1>7 DEF Typed, TypeOK, Table
<1>9. TypeOK'
  BY <1>6, <1>8 DEF FinishRemove, Typed, TypeOK
<1>10. Underway'
  BY DEF FinishRemove, Typed, Underway
<1> QED
  BY <1>9, <1>10 DEF Typed, Types

LEMMA HydrateTyped ==
  ASSUME Typed, NEW t \in Tabs, Hydrate(t)
  PROVE  Types'
<1>1. db[DeviceOf[t]] \in Table
  BY PlacesAssumption DEF Typed, TypeOK, PlacesAssumption
<1>2. TypeOK'
  BY <1>1 DEF Hydrate, Typed, TypeOK
<1>3. Underway'
  BY DEF Hydrate, Typed, Underway
<1> QED
  BY <1>2, <1>3 DEF Typed, Types

LEMMA RestartTyped ==
  ASSUME Typed, NEW t \in Tabs, Restart(t)
  PROVE  Types'
<1>1. db[DeviceOf[t]] \in Table
  BY PlacesAssumption DEF Typed, TypeOK, PlacesAssumption
<1>2. Idle(0, FALSE) \in Engine
  BY IdleType
<1>3. TypeOK'
  <2>1. engine' \in [Tabs -> Engine]
    BY <1>2 DEF Restart, Typed, TypeOK
  <2>2. shown' \in [Tabs -> Table]
    BY <1>1 DEF Restart, Typed, TypeOK
  <2>3. removing' \in [Tabs -> [id : Records, at : Int, row : Row] \cup {Null}]
    BY DEF Restart, Typed, TypeOK
  <2>4. refresh' \in [Tabs -> BOOLEAN]
    BY DEF Restart, Typed, TypeOK
  <2>5. faults' \in Nat
    BY DEF Restart, Typed, TypeOK
  <2> QED
    BY <2>1, <2>2, <2>3, <2>4, <2>5 DEF Restart, Typed, TypeOK
<1>4. Idle(0, FALSE).phase # "pushing" /\ Idle(0, FALSE).held = Null
  BY DEF Idle
<1>5. Underway'
  BY <1>4 DEF Restart, Typed, TypeOK, Underway
<1> QED
  BY <1>3, <1>5 DEF Typed, Types

(* The engine. *)

LEMMA EngineStepTyped ==
  ASSUME Typed, NEW t \in Tabs, NEW next \in Engine, EngineStep(t, next),
         next.phase = "pushing" => next.key \in Keys,
         next.held # Null => next.phase = "sending" /\ next.acks[next.held.id] # Null
  PROVE  /\ engine' \in [Tabs -> Engine]
         /\ Underway'
         /\ now' \in Nat /\ edits' \in Nat
         /\ shown' \in [Tabs -> Table]
         /\ removing' \in [Tabs -> [id : Records, at : Int, row : Row] \cup {Null}]
         /\ operations' \in [Keys -> AnswerTable \cup {Null}]
         /\ store' \in Table
         /\ serving' \in [Keys -> Serving]
         /\ contested' \subseteq Transactions
<1>1. engine' \in [Tabs -> Engine]
  BY DEF EngineStep, Typed, TypeOK
<1>2. Underway'
  BY DEF EngineStep, Typed, TypeOK, Underway
<1> QED
  BY <1>1, <1>2 DEF EngineStep, Typed, Types, TypeOK

LEMMA EndCycleTyped ==
  ASSUME Typed, NEW t \in Tabs, NEW since \in Nat, NEW wrote \in BOOLEAN,
         EndCycle(t, since, wrote),
         faults' \in Nat, db' \in [Devices -> Table],
         requests' \in [Keys -> Request \cup {Null}],
         ahead' \subseteq Transactions
  PROVE  Types'
<1> DEFINE next == Idle(since, TRUE)
<1>1. next \in Engine
  BY IdleType
<1>2. next.phase # "pushing" /\ next.held = Null
  BY DEF Idle
<1>3. EngineStep(t, next)
  BY DEF EndCycle
<1>4. refresh' \in [Tabs -> BOOLEAN]
  <2>1. \A u \in Tabs : refresh'[u] \in BOOLEAN
    BY DEF EndCycle, Typed, TypeOK
  <2> QED
    BY <2>1 DEF EndCycle, Typed, TypeOK
<1> HIDE DEF next
<1> QED
  BY <1>1, <1>2, <1>3, <1>4, EngineStepTyped DEF Typed, Types, TypeOK

\* What an engine in step t has in its fields.
LEMMA EngineFields ==
  ASSUME Typed, NEW t \in Tabs
  PROVE  /\ engine[t] \in Engine
         /\ engine[t].todo \in Table
         /\ engine[t].acks \in AnswerTable
         /\ engine[t].held \in [id : Records, row : Row] \cup {Null}
         /\ engine[t].lastPulledAt \in Nat
         /\ engine[t].page \in Page \cup {Null}
         /\ engine[t].pages \in Nat
         /\ engine[t].wrote \in BOOLEAN
         /\ engine[t].phase = "pushing" => engine[t].key \in Keys
         /\ engine[t].held # Null =>
              engine[t].phase = "sending" /\ engine[t].acks[engine[t].held.id] # Null
         /\ DeviceOf[t] \in Devices
         /\ db[DeviceOf[t]] \in Table
<1>1. engine[t] \in Engine
  BY DEF Typed, TypeOK
<1>2. DeviceOf[t] \in Devices /\ db[DeviceOf[t]] \in Table
  BY PlacesAssumption DEF Typed, TypeOK, PlacesAssumption
<1>3. /\ engine[t].phase = "pushing" => engine[t].key \in Keys
      /\ engine[t].held # Null =>
           engine[t].phase = "sending" /\ engine[t].acks[engine[t].held.id] # Null
  BY DEF Typed, Underway
<1> QED
  BY <1>1, <1>2, <1>3 DEF Engine

LEMMA OfflineTyped ==
  ASSUME Typed, NEW t \in Tabs, Offline(t)
  PROVE  Types'
  BY EngineFields, EndCycleTyped DEF Offline, Typed, Types, TypeOK

LEMMA FailTyped ==
  ASSUME Typed, NEW t \in Tabs, Fail(t)
  PROVE  Types'
<1>1. faults' \in Nat
  BY DEF Fail, Typed, TypeOK
<1> QED
  BY <1>1, EngineFields, EndCycleTyped DEF Fail, Typed, Types, TypeOK

LEMMA NoKeyLeftTyped ==
  ASSUME Typed, NEW t \in Tabs, NoKeyLeft(t)
  PROVE  Types'
  BY EngineFields, EndCycleTyped DEF NoKeyLeft, Typed, Types, TypeOK

\* The reads of pending() change what is left to send, and the phase.
LEMMA ReadingTyped ==
  ASSUME Typed, NEW t \in Tabs, NEW next \in Engine, EngineStep(t, next),
         next.phase # "pushing", next.held = Null,
         UNCHANGED <<faults, db, refresh, requests>>, ahead' \subseteq Transactions
  PROVE  Types'
  BY EngineStepTyped DEF Typed, Types, TypeOK

LEMMA WakeTyped ==
  ASSUME Typed, NEW t \in Tabs, Wake(t)
  PROVE  Types'
<1> DEFINE next == [engine[t] EXCEPT !.phase = "banks",
                      !.todo = Only(Pending(db[DeviceOf[t]]), Categories \ Banks)]
<1>1. Only(Pending(db[DeviceOf[t]]), Categories \ Banks) \in Table
  BY EngineFields, PendingType, OnlyType
<1>2. next \in Engine
  BY <1>1, EngineFields DEF Engine
<1>3. next.phase # "pushing" /\ next.held = Null
  BY EngineFields DEF Engine, Wake
<1>4. EngineStep(t, next)
  BY DEF Wake
<1> HIDE DEF next
<1> QED
  BY <1>2, <1>3, <1>4, ReadingTyped DEF Wake, Typed, TypeOK

LEMMA ReadBanksTyped ==
  ASSUME Typed, NEW t \in Tabs, ReadBanks(t)
  PROVE  Types'
<1> DEFINE todo == BulkPut(engine[t].todo, Only(Pending(db[DeviceOf[t]]), Banks))
           next == [engine[t] EXCEPT !.phase = "transactions", !.todo = todo]
<1>1. todo \in Table
  BY EngineFields, PendingType, OnlyType, BulkPutType
<1>2. next \in Engine
  <2> HIDE DEF todo
  <2> QED
    BY <1>1, EngineFields DEF Engine
<1>3. next.phase # "pushing" /\ next.held = Null
  BY EngineFields DEF Engine, ReadBanks
<1>4. EngineStep(t, next)
  <2>1. next = [engine[t] EXCEPT !.phase = "transactions",
                  !.todo = BulkPut(@, Only(Pending(db[DeviceOf[t]]), Banks))]
    BY EngineFields DEF Engine
  <2> QED
    BY <2>1 DEF ReadBanks
<1> HIDE DEF next
<1> QED
  BY <1>2, <1>3, <1>4, ReadingTyped DEF ReadBanks, Typed, TypeOK

LEMMA ReadTransactionsTyped ==
  ASSUME Typed, NEW t \in Tabs, ReadTransactions(t)
  PROVE  Types'
<1> DEFINE pending == Pending(db[DeviceOf[t]])
           todo    == BulkPut(engine[t].todo, Only(pending, Transactions))
           next    == [engine[t] EXCEPT !.phase = "sending", !.began = edits, !.todo = todo]
<1>1. todo \in Table /\ edits \in Nat
  BY EngineFields, PendingType, OnlyType, BulkPutType DEF Typed, TypeOK
<1>2. EngineStep(t, next) /\ ahead' = ahead \cup Missed(todo, pending)
  BY DEF ReadTransactions
<1> HIDE DEF todo, pending
<1>3. next \in Engine
  BY <1>1, EngineFields DEF Engine
<1>4. next.phase # "pushing" /\ next.held = Null
  BY EngineFields DEF Engine, ReadTransactions
<1> HIDE DEF next
<1>5. ahead' \subseteq Transactions
  BY <1>2 DEF Missed, Typed, TypeOK
<1> QED
  BY <1>2, <1>3, <1>4, <1>5, ReadingTyped DEF ReadTransactions

\* What the reads of pending() have in common.
LEMMA ReadingSteps ==
  ASSUME Typed, NEW t \in Tabs, Wake(t) \/ ReadBanks(t) \/ ReadTransactions(t)
  PROVE  \E phase, began, todo :
           EngineStep(t, [engine[t] EXCEPT !.phase = phase, !.began = began, !.todo = todo])
<1>1. CASE Wake(t)
  <2> DEFINE todo == Only(Pending(db[DeviceOf[t]]), Categories \ Banks)
  <2>1. [engine[t] EXCEPT !.phase = "banks", !.began = engine[t].began, !.todo = todo]
          = [engine[t] EXCEPT !.phase = "banks", !.todo = todo]
    BY EngineFields DEF Engine
  <2>2. EngineStep(t, [engine[t] EXCEPT !.phase = "banks", !.todo = todo])
    BY <1>1 DEF Wake
  <2> HIDE DEF todo
  <2> QED
    BY <2>1, <2>2
<1>2. CASE ReadBanks(t)
  <2> DEFINE todo == BulkPut(engine[t].todo, Only(Pending(db[DeviceOf[t]]), Banks))
  <2>1. [engine[t] EXCEPT !.phase = "transactions", !.began = engine[t].began, !.todo = todo]
          = [engine[t] EXCEPT !.phase = "transactions", !.todo = todo]
    BY EngineFields DEF Engine
  <2>2. EngineStep(t, [engine[t] EXCEPT !.phase = "transactions", !.todo = todo])
    BY <1>2 DEF ReadBanks
  <2> HIDE DEF todo
  <2> QED
    BY <2>1, <2>2
<1>3. CASE ReadTransactions(t)
  <2> DEFINE todo == BulkPut(engine[t].todo, Only(Pending(db[DeviceOf[t]]), Transactions))
  <2>1. EngineStep(t, [engine[t] EXCEPT !.phase = "sending", !.began = edits, !.todo = todo])
    BY <1>3 DEF ReadTransactions
  <2> HIDE DEF todo
  <2> QED
    BY <2>1
<1> QED
  BY <1>1, <1>2, <1>3

LEMMA ReceiveErrorTyped ==
  ASSUME Typed, NEW t \in Tabs, ReceiveError(t)
  PROVE  Types'
  BY EngineFields, EndCycleTyped DEF ReceiveError, Typed, TypeOK

LEMMA SendBatchTyped ==
  ASSUME Typed, NEW t \in Tabs, SendBatch(t)
  PROVE  Types'
<1>1. PICK S \in Batches(engine[t].todo), k \in Keys :
        /\ requests' = [requests EXCEPT ![k] =
                          [device_id |-> DeviceOf[t], client_time |-> Clock(DeviceOf[t]),
                           rows |-> Only(engine[t].todo, S)]]
        /\ EngineStep(t, [engine[t] EXCEPT !.phase = "pushing", !.key = k,
                            !.todo = Only(@, Records \ S)])
        /\ ahead' = ahead \cup Overtaking(engine[t].todo, S)
  BY DEF SendBatch
<1> DEFINE next == [engine[t] EXCEPT !.phase = "pushing", !.key = k,
                                     !.todo = Only(@, Records \ S)]
           sent == [device_id |-> DeviceOf[t], client_time |-> Clock(DeviceOf[t]),
                    rows |-> Only(engine[t].todo, S)]
<1>2. next \in Engine
  <2>1. Only(engine[t].todo, Records \ S) \in Table
    BY EngineFields, OnlyType
  <2> QED
    BY <2>1, EngineFields DEF Engine
<1>3. next.key \in Keys /\ next.held = Null
  BY EngineFields DEF Engine, SendBatch, Marked
<1>4. sent \in Request
  BY EngineFields, OnlyType, ClockType DEF Request, Typed
<1>5. requests' \in [Keys -> Request \cup {Null}]
  BY <1>1, <1>4 DEF Typed, TypeOK
<1>6. EngineStep(t, next)
  BY <1>1
<1>7. ahead' \subseteq Transactions
  BY <1>1 DEF Overtaking, Typed, TypeOK
<1> HIDE DEF next
<1> QED
  BY <1>2, <1>3, <1>5, <1>6, <1>7, EngineStepTyped DEF SendBatch, Typed, Types, TypeOK

LEMMA ReceiveAnswersTyped ==
  ASSUME Typed, NEW t \in Tabs, ReceiveAnswers(t)
  PROVE  Types'
<1> DEFINE next == [engine[t] EXCEPT !.phase = "sending",
                      !.acks = operations[engine[t].key], !.key = 0]
<1>1. operations[engine[t].key] \in AnswerTable
  BY EngineFields DEF ReceiveAnswers, Typed, TypeOK
<1>2. next \in Engine
  BY <1>1, EngineFields DEF Engine
<1>3. next.phase # "pushing" /\ next.held = Null
  BY EngineFields DEF Engine, ReceiveAnswers
<1>4. EngineStep(t, next)
  BY DEF ReceiveAnswers
<1> HIDE DEF next
<1> QED
  BY <1>2, <1>3, <1>4, EngineStepTyped DEF ReceiveAnswers, Typed, Types, TypeOK

LEMMA BeginMarkTyped ==
  ASSUME Typed, NEW t \in Tabs, NEW r \in Records, BeginMark(t, r)
  PROVE  Types'
<1> DEFINE held == [id |-> r, row |-> db[DeviceOf[t]][r]]
           next == [engine[t] EXCEPT !.held = held]
<1>1. held \in [id : Records, row : Row]
  BY EngineFields DEF BeginMark, Table
<1>2. next \in Engine
  BY <1>1, EngineFields DEF Engine
<1>3. /\ next.phase = "sending" /\ next.held.id = r
      /\ next.acks = engine[t].acks /\ engine[t].acks[r] # Null
  BY EngineFields DEF Engine, BeginMark
<1>4. EngineStep(t, next)
  BY DEF BeginMark
<1> HIDE DEF next
<1> QED
  BY <1>2, <1>3, <1>4, EngineStepTyped DEF BeginMark, Typed, Types, TypeOK

LEMMA MarkingType ==
  ASSUME NEW row \in Row, NEW answer \in Answer
  PROVE  Marking(row, answer) \in Row
<1>1. answer.version \in Nat
  BY DEF Answer
<1> QED
  BY <1>1 DEF Marking, Row

LEMMA FinishMarkTyped ==
  ASSUME Typed, NEW t \in Tabs, FinishMark(t)
  PROVE  Types'
<1> DEFINE r    == engine[t].held.id
           row  == Marking(engine[t].held.row, engine[t].acks[r])
           next == [engine[t] EXCEPT !.held = Null, !.acks[r] = Null]
<1>1. r \in Records /\ engine[t].held.row \in Row /\ engine[t].acks[r] \in Answer
  BY EngineFields DEF FinishMark, AnswerTable
<1>2. row \in Row
  BY <1>1, MarkingType
<1>3. db' = [db EXCEPT ![DeviceOf[t]] = Put(@, r, row)]
  BY DEF FinishMark
<1>4. [engine[t].acks EXCEPT ![r] = Null] \in AnswerTable
  BY <1>1, EngineFields DEF AnswerTable
<1>5. next \in Engine
  BY <1>4, EngineFields DEF Engine
<1>6. next.phase = engine[t].phase /\ next.key = engine[t].key /\ next.held = Null
  BY EngineFields DEF Engine
<1>7. EngineStep(t, next)
  BY DEF FinishMark
<1> HIDE DEF row, next, r
<1>8. Put(db[DeviceOf[t]], r, row) \in Table
  BY <1>1, <1>2, EngineFields, PutType
<1>9. db' \in [Devices -> Table]
  BY <1>3, <1>8 DEF Typed, TypeOK
<1>10. engine[t].phase = "pushing" => engine[t].key \in Keys
  BY EngineFields
<1> QED
  BY <1>5, <1>6, <1>7, <1>9, <1>10, EngineStepTyped DEF FinishMark, Typed, Types, TypeOK

LEMMA BeginPullTyped ==
  ASSUME Typed, NEW t \in Tabs, BeginPull(t)
  PROVE  Types'
<1> DEFINE next == [engine[t] EXCEPT !.phase = "pulling"]
<1>1. next \in Engine
  BY EngineFields DEF Engine
<1>2. next.phase = "pulling" /\ next.held = Null
  BY EngineFields DEF Engine, BeginPull, Marked
<1>3. EngineStep(t, next)
  BY DEF BeginPull
<1> HIDE DEF next
<1> QED
  BY <1>1, <1>2, <1>3, EngineStepTyped DEF BeginPull, Typed, Types, TypeOK

LEMMA ReceivePageTyped ==
  ASSUME Typed, NEW t \in Tabs, ReceivePage(t)
  PROVE  Types'
<1> DEFINE page  == engine[t].page
           wrote == engine[t].wrote \/ page.rows # Empty
           pages == engine[t].pages + 1
           next  == [engine[t] EXCEPT
                       !.page = Null, !.cursor = page.next_cursor, !.pages = pages,
                       !.wrote = wrote, !.lastPulledAt = page.server_time]
<1>1. page \in Page
  BY EngineFields DEF ReceivePage
<1>2. /\ page.rows \in Table /\ page.next_cursor \in Cursor \cup {Null}
      /\ page.server_time \in Nat
  BY <1>1 DEF Page
<1>3. wrote \in BOOLEAN /\ pages \in Nat
  BY EngineFields
<1>4. db' \in [Devices -> Table]
  <2>1. BulkPut(db[DeviceOf[t]], page.rows) \in Table
    BY <1>2, EngineFields, BulkPutType
  <2> QED
    BY <2>1 DEF ReceivePage, Typed, TypeOK
<1>5. /\ faults' \in Nat /\ requests' \in [Keys -> Request \cup {Null}]
      /\ ahead' \subseteq Transactions
  BY DEF ReceivePage, Typed, TypeOK
<1>6. CASE page.next_cursor = Null \/ pages > MaxPages
  <2>1. EndCycle(t, page.server_time, wrote)
    BY <1>6 DEF ReceivePage
  <2> HIDE DEF page, wrote
  <2> QED
    BY <2>1, <1>2, <1>3, <1>4, <1>5, EndCycleTyped
<1>7. CASE ~(page.next_cursor = Null \/ pages > MaxPages)
  <2>1. EngineStep(t, next) /\ UNCHANGED refresh
    BY <1>7 DEF ReceivePage
  <2>2. next \in Engine
    <3> HIDE DEF page, wrote, pages
    <3>1. [engine[t] EXCEPT !.page = Null] \in Engine
      BY EngineFields DEF Engine
    <3>2. \A e \in Engine : [e EXCEPT !.cursor = page.next_cursor] \in Engine
      BY <1>2 DEF Engine
    <3>3. \A e \in Engine : [e EXCEPT !.pages = pages] \in Engine
      BY <1>3 DEF Engine
    <3>4. \A e \in Engine : [e EXCEPT !.wrote = wrote] \in Engine
      BY <1>3 DEF Engine
    <3>5. \A e \in Engine : [e EXCEPT !.lastPulledAt = page.server_time] \in Engine
      BY <1>2 DEF Engine
    <3> QED
      BY <3>1, <3>2, <3>3, <3>4, <3>5
  <2>3. next.phase = "pulling" /\ next.held = Null
    BY EngineFields DEF Engine, ReceivePage
  <2> HIDE DEF next
  <2> QED
    BY <2>1, <2>2, <2>3, <1>4, <1>5, EngineStepTyped DEF Typed, Types, TypeOK
<1> QED
  BY <1>6, <1>7

(* The server. *)

\* A step of push k keeps the types if what it leaves of the push is a push.
LEMMA ServeTyped ==
  ASSUME Typed, NEW k \in Keys, NEW push \in Serving, Serve(k, push),
         faults' \in Nat, operations' \in [Keys -> AnswerTable \cup {Null}],
         store' \in Table, contested' \subseteq Transactions
  PROVE  Types'
<1>1. serving' \in [Keys -> Serving]
  BY DEF Serve, Typed, TypeOK
<1>2. TypeOK'
  BY <1>1 DEF Serve, Typed, TypeOK
<1>3. Underway'
  BY DEF Serve, Typed, Underway
<1> QED
  BY <1>2, <1>3 DEF Types

LEMMA NotServedType ==
  /\ NotServed \in Serving
  /\ [NotServed EXCEPT !.state = "failed"] \in Serving
  /\ \A skew \in Int : [NotServed EXCEPT !.state = "open", !.skew = skew] \in Serving
<1>1. NotServed \in Serving
  BY EmptyType DEF NotServed, Serving
<1>2. \A push \in Serving : [push EXCEPT !.state = "failed"] \in Serving
  BY DEF Serving
<1>3. \A push \in Serving, skew \in Int :
        [push EXCEPT !.state = "open", !.skew = skew] \in Serving
  BY DEF Serving
<1> QED
  BY <1>1, <1>2, <1>3

LEMMA BeginPushTyped ==
  ASSUME Typed, NEW k \in Keys, BeginPush(k)
  PROVE  Types'
<1> DEFINE skew == now - requests[k].client_time
<1>1. skew \in Int
  <2>1. requests[k] \in Request
    BY DEF BeginPush, Typed, TypeOK
  <2> QED
    BY <2>1 DEF Request, Typed, TypeOK
<1>2. Serve(k, [NotServed EXCEPT !.state = "open", !.skew = skew])
  BY DEF BeginPush
<1> HIDE DEF skew
<1> QED
  BY <1>1, <1>2, NotServedType, ServeTyped DEF BeginPush, Typed, TypeOK

\* The push once the loop has reached r.
Reached(k, r) ==
  [serving[k] EXCEPT !.row = r, !.passed = @ \cup ({serving[k].row} \ {0}),
                     !.seen[r] = IF r \in Transactions THEN store[r] ELSE Null]

LEMMA ReachedType ==
  ASSUME Typed, NEW k \in Keys, NEW r \in Records
  PROVE  /\ serving[k] \in Serving
         /\ Reached(k, r) \in Serving
         /\ Reached(k, r).state = serving[k].state
         /\ Reached(k, r).skew = serving[k].skew
         /\ Reached(k, r).row = r
         /\ Reached(k, r).passed = serving[k].passed \cup ({serving[k].row} \ {0})
         /\ Reached(k, r).seen = [serving[k].seen EXCEPT ![r] =
                                    IF r \in Transactions THEN store[r] ELSE Null]
<1>1. serving[k] \in Serving
  BY DEF Typed, TypeOK
<1>2. serving[k].passed \cup ({serving[k].row} \ {0}) \subseteq Records
  BY <1>1 DEF Serving
<1>3. [serving[k].seen EXCEPT ![r] = IF r \in Transactions THEN store[r] ELSE Null] \in Table
  <2>1. serving[k].seen \in Table /\ store[r] \in Row \cup {Null}
    BY <1>1 DEF Serving, Typed, TypeOK, Table
  <2> QED
    BY <2>1 DEF Table
<1> QED
  BY <1>1, <1>2, <1>3 DEF Reached, Serving

LEMMA ReachRowTyped ==
  ASSUME Typed, NEW k \in Keys, NEW r \in Records, ReachRow(k, r)
  PROVE  Types'
<1>1. Serve(k, Reached(k, r))
  BY DEF ReachRow, Reached
<1> QED
  BY <1>1, ReachedType, ServeTyped DEF ReachRow, Typed, TypeOK

LEMMA CommitPushTyped ==
  ASSUME Typed, NEW k \in Keys, CommitPush(k)
  PROVE  Types'
<1> DEFINE rows == requests[k].rows
           push == serving[k]
<1>1. requests[k] \in Request
  BY DEF CommitPush, Typed, Served, TypeOK
<1>2. rows \in Table /\ push.skew \in Int /\ push.seen \in Table
  BY <1>1 DEF Request, Typed, TypeOK, Serving
<1>3. /\ store' = Apply(store, push.seen, rows, push.skew)
      /\ operations' = [operations EXCEPT ![k] = Answers(push.seen, rows, push.skew)]
  BY DEF CommitPush
<1> HIDE DEF rows, push
<1>4. store' \in Table
  BY <1>2, <1>3, ApplyType DEF Typed, TypeOK
<1>5. operations' \in [Keys -> AnswerTable \cup {Null}]
  <2>1. Answers(push.seen, rows, push.skew) \in AnswerTable
    BY <1>2, AnswersType
  <2> QED
    BY <2>1, <1>3 DEF Typed, TypeOK
<1>6. contested' \subseteq Transactions
  BY DEF CommitPush, Overwrites, Typed, TypeOK
<1>7. Serve(k, NotServed) /\ faults' \in Nat
  BY DEF CommitPush, Typed, TypeOK
<1> QED
  BY <1>4, <1>5, <1>6, <1>7, NotServedType, ServeTyped

LEMMA RollBackTyped ==
  ASSUME Typed, NEW k \in Keys, RollBack(k)
  PROVE  Types'
<1>1. faults' \in Nat
  BY DEF RollBack, Typed, TypeOK
<1> QED
  BY <1>1, NotServedType, ServeTyped DEF RollBack, Typed, TypeOK

LEMMA ServerPullTyped ==
  ASSUME Typed, NEW t \in Tabs, ServerPull(t)
  PROVE  Types'
<1>1. PICK page \in PullPages(store, engine[t].lastPulledAt, engine[t].cursor, now) :
        engine' = [engine EXCEPT
          ![t].page = page,
          ![t].base = IF engine[t].lastPulledAt = 0 THEN store ELSE @]
  BY DEF ServerPull
<1> DEFINE base == IF engine[t].lastPulledAt = 0 THEN store ELSE engine[t].base
           next == [engine[t] EXCEPT !.page = page, !.base = base]
<1>2. page \in Page
  BY PullPagesType DEF Typed, TypeOK
<1>3. base \in Table
  BY EngineFields DEF Engine, Typed, TypeOK
<1>4. next \in Engine
  BY <1>2, <1>3, EngineFields DEF Engine
<1>5. next.phase = "pulling" /\ next.held = Null
  BY EngineFields DEF Engine, ServerPull
<1>6. engine' = [engine EXCEPT ![t] = next]
  BY <1>1 DEF Typed, TypeOK
<1> HIDE DEF next, base
<1>7. engine' \in [Tabs -> Engine]
  BY <1>4, <1>6 DEF Typed, TypeOK
<1>8. Underway'
  BY <1>5, <1>6 DEF ServerPull, Typed, TypeOK, Underway
<1> QED
  BY <1>7, <1>8 DEF ServerPull, Typed, Types, TypeOK

LEMMA TickTyped == Typed /\ Tick => Types'
<1> SUFFICES ASSUME Typed, Tick PROVE Types'
  OBVIOUS
<1>1. now' \in Nat
  BY DEF Tick, Typed, TypeOK
<1>2. TypeOK'
  BY <1>1 DEF Tick, Typed, TypeOK
<1>3. Underway'
  BY DEF Tick, Typed, Underway
<1> QED
  BY <1>2, <1>3 DEF Types

\* A request is never taken back.
RequestsStay == \A k \in Keys : requests[k] # Null => requests'[k] = requests[k]

LEMMA NextRequestsStay ==
  ASSUME Typed, [Next]_vars
  PROVE  RequestsStay
<1>1. CASE requests' = requests
  BY <1>1 DEF RequestsStay
<1>2. ASSUME NEW t \in Tabs, SendBatch(t)
      PROVE  RequestsStay
  BY <1>2 DEF SendBatch, RequestsStay, Typed, TypeOK
<1>3. CASE Tick \/ UNCHANGED vars
  BY <1>1, <1>3 DEF Tick, vars
<1>4. ASSUME NEW t \in Tabs, UserStep(t)
      PROVE  RequestsStay
  BY <1>1, <1>4 DEF UserStep, Create, Edit, Written, BeginRemove, FinishRemove, Hydrate,
                    Restart
<1>5. ASSUME NEW t \in Tabs, EngineAction(t)
      PROVE  RequestsStay
  BY <1>1, <1>2, <1>5 DEF EngineAction, Offline, Wake, ReadBanks, ReadTransactions, Fail,
       NoKeyLeft, ReceiveAnswers, ReceiveError, BeginMark, FinishMark, BeginPull, ReceivePage
<1>6. CASE ServerStep
  BY <1>1, <1>6 DEF ServerStep, PushStep, BeginPush, ReachRow, CommitPush, RollBack, Serve,
                    ServerPull
<1> QED
  BY <1>3, <1>4, <1>5, <1>6 DEF Next

\* Only the steps of pushes touch the server's side of them.
LEMMA OthersLeaveServer ==
  ASSUME [Next]_vars, \A k \in Keys : ~PushStep(k)
  PROVE  UNCHANGED <<store, operations, serving, contested>>
<1>1. CASE Tick
  BY <1>1 DEF Tick
<1>2. ASSUME NEW t \in Tabs, UserStep(t)
      PROVE  UNCHANGED <<store, operations, serving, contested>>
  BY <1>2 DEF UserStep, Create, Edit, Written, BeginRemove, FinishRemove, Hydrate, Restart
<1>3. ASSUME NEW t \in Tabs, EngineAction(t)
      PROVE  UNCHANGED <<store, operations, serving, contested>>
  <2>1. CASE Offline(t) \/ Fail(t) \/ NoKeyLeft(t) \/ ReceiveError(t)
    BY <2>1 DEF Offline, Fail, NoKeyLeft, ReceiveError, EndCycle, EngineStep
  <2>2. CASE Wake(t) \/ ReadBanks(t) \/ ReadTransactions(t)
    BY <2>2 DEF Wake, ReadBanks, ReadTransactions, EngineStep
  <2>3. CASE SendBatch(t) \/ ReceiveAnswers(t) \/ FinishMark(t) \/ BeginPull(t)
    BY <2>3 DEF SendBatch, ReceiveAnswers, FinishMark, BeginPull, EngineStep
  <2>4. CASE \E r \in Records : BeginMark(t, r)
    BY <2>4 DEF BeginMark, EngineStep
  <2>5. CASE ReceivePage(t)
    BY <2>5 DEF ReceivePage, EndCycle, EngineStep
  <2> QED
    BY <1>3, <2>1, <2>2, <2>3, <2>4, <2>5 DEF EngineAction
<1>4. ASSUME NEW t \in Tabs, ServerPull(t)
      PROVE  UNCHANGED <<store, operations, serving, contested>>
  BY <1>4 DEF ServerPull
<1>5. CASE UNCHANGED vars
  BY <1>5 DEF vars
<1> QED
  BY <1>1, <1>2, <1>3, <1>4, <1>5 DEF Next, ServerStep

\* What a step of push k leaves alone: all but its own record, unless it commits.
LEMMA PushStepFrame ==
  ASSUME Typed, NEW k \in Keys, PushStep(k)
  PROVE  /\ \A j \in Keys \ {k} : serving'[j] = serving[j] /\ operations'[j] = operations[j]
         /\ UNCHANGED <<now, edits, db, shown, removing, refresh, engine, requests, ahead>>
         /\ ~CommitPush(k) => UNCHANGED <<store, operations, contested>>
         /\ CommitPush(k) => serving'[k] = NotServed
<1>1. PICK push : Serve(k, push)
  BY DEF PushStep, BeginPush, ReachRow, CommitPush, RollBack
<1>2. \A j \in Keys \ {k} : serving'[j] = serving[j]
  BY <1>1 DEF Serve, Typed, TypeOK
<1>3. UNCHANGED <<now, edits, db, shown, removing, refresh, engine, requests, ahead>>
  BY <1>1 DEF Serve
<1>4. CASE CommitPush(k)
  BY <1>2, <1>3, <1>4 DEF CommitPush, Serve, Typed, TypeOK
<1>5. CASE ~CommitPush(k)
  BY <1>2, <1>3, <1>5 DEF PushStep, BeginPush, ReachRow, RollBack
<1> QED
  BY <1>4, <1>5

LEMMA NextServed ==
  ASSUME Typed, [Next]_vars
  PROVE  Served'
<1>0. RequestsStay
  BY NextRequestsStay
<1>1. ASSUME NEW k \in Keys, PushStep(k)
      PROVE  Served'
  <2>1. \A j \in Keys \ {k} : serving'[j].state = "open" =>
          requests'[j] # Null /\ operations'[j] = Null
    BY <1>0, <1>1, PushStepFrame DEF RequestsStay, Typed, Served
  <2>2. serving'[k].state = "open" => requests'[k] # Null /\ operations'[k] = Null
    <3>1. CASE BeginPush(k)
      BY <1>1, <3>1, PushStepFrame DEF BeginPush, Serve
    <3>2. ASSUME NEW r \in Records, ReachRow(k, r)
          PROVE  requests'[k] # Null /\ operations'[k] = Null
      BY <3>2 DEF ReachRow, Serve, Typed, Served
    <3>3. CASE CommitPush(k)
      BY <1>1, <3>3, PushStepFrame DEF NotServed
    <3>4. CASE RollBack(k)
      BY <3>4 DEF RollBack, Serve, NotServed, Typed, TypeOK
    <3> QED
      BY <1>1, <3>1, <3>2, <3>3, <3>4 DEF PushStep
  <2> QED
    BY <2>1, <2>2 DEF Served
<1>2. CASE \A k \in Keys : ~PushStep(k)
  BY <1>0, <1>2, OthersLeaveServer DEF RequestsStay, Typed, Served
<1> QED
  BY <1>1, <1>2

LEMMA NextTyped == Typed /\ [Next]_vars => Typed'
<1> SUFFICES ASSUME Typed, [Next]_vars PROVE Types'
  BY NextServed DEF Typed, Types
<1>1. CASE Tick
  BY <1>1, TickTyped
<1>2. ASSUME NEW t \in Tabs, UserStep(t) PROVE Types'
  BY <1>2, CreateTyped, EditTyped, BeginRemoveTyped, FinishRemoveTyped,
     HydrateTyped, RestartTyped DEF UserStep
<1>3. ASSUME NEW t \in Tabs, EngineAction(t) PROVE Types'
  BY <1>3, OfflineTyped, WakeTyped, ReadBanksTyped, ReadTransactionsTyped, FailTyped,
     SendBatchTyped, NoKeyLeftTyped, ReceiveAnswersTyped, ReceiveErrorTyped,
     BeginMarkTyped, FinishMarkTyped, BeginPullTyped, ReceivePageTyped DEF EngineAction
<1>4. ASSUME NEW k \in Keys, PushStep(k) PROVE Types'
  BY <1>4, BeginPushTyped, ReachRowTyped, CommitPushTyped, RollBackTyped DEF PushStep
<1>5. ASSUME NEW t \in Tabs, ServerPull(t) PROVE Types'
  BY <1>5, ServerPullTyped
<1>6. CASE UNCHANGED vars
  BY <1>6 DEF vars, Typed, Types, TypeOK, Underway
<1> QED
  BY <1>1, <1>2, <1>3, <1>4, <1>5, <1>6 DEF Next, ServerStep

\* Every reachable state is typed: no row, message or engine field is ever
\* outside its type, whatever is lost, late or repeated.
THEOREM TypeCorrectness == Spec => []TypeOK
<1>1. Typed => TypeOK
  BY DEF Typed
<1> QED
  BY <1>1, InitTyped, NextTyped, PTL DEF Spec

-----------------------------------------------------------------------------
(* One transaction of a batch. *)

\* A stored transaction after a batch that carries it.
LEMMA PutTransactionEffect ==
  ASSUME NEW incoming \in Row, NEW existing \in Row \cup {Null}
  PROVE  LET stored == PutTransaction(incoming, existing)
             answer == AnswerTo(incoming, existing)
         IN  /\ stored \in Row /\ answer \in Answer
             /\ stored.version = answer.version
             /\ existing = Null => answer.verdict = "accepted" /\ stored.version = 1
             /\ existing # Null /\ answer.verdict = "accepted"
                  => stored.version = existing.version + 1
             /\ answer.verdict # "accepted" => stored = existing
             /\ existing # Null /\ existing.deleted => stored.deleted
             /\ Accepts(incoming, existing) <=> answer.verdict = "accepted"
<1> DEFINE stored == PutTransaction(incoming, existing)
           answer == AnswerTo(incoming, existing)
<1>1. stored \in Row /\ answer \in Answer
  BY PutTransactionType, AnswerToType
<1>2. \A row \in Row, v \in Nat : /\ Materialise(row, v).version = v
                                  /\ Materialise(row, v).deleted = row.deleted
  BY DEF Materialise, Row
<1>3. CASE existing = Null
  <2>1. stored = Materialise(incoming, 1)
    BY <1>3 DEF PutTransaction
  <2>2. answer = [verdict |-> "accepted", version |-> 1]
    BY <1>3 DEF AnswerTo
  <2> QED
    BY <1>1, <1>2, <1>3, <2>1, <2>2 DEF Accepts
<1>4. CASE existing # Null /\ Verdict(incoming, existing) = "accepted"
  <2>1. existing \in Row /\ existing.version + 1 \in Nat
    BY <1>4 DEF Row
  <2>2. stored = Materialise(Merge(incoming, existing), existing.version + 1)
    BY <1>4 DEF PutTransaction
  <2>3. answer = [verdict |-> "accepted", version |-> existing.version + 1]
    BY <1>4 DEF AnswerTo
  <2>4. Merge(incoming, existing) \in Row
    BY <2>1 DEF Merge
  <2>5. existing.deleted => Merge(incoming, existing).deleted
    BY DEF Merge
  <2> QED
    BY <1>1, <1>2, <1>4, <2>1, <2>2, <2>3, <2>4, <2>5 DEF Accepts
<1>5. CASE existing # Null /\ Verdict(incoming, existing) # "accepted"
  <2>1. stored = existing
    BY <1>5 DEF PutTransaction
  <2>2. answer = [verdict |-> Verdict(incoming, existing), version |-> existing.version]
    BY <1>5 DEF AnswerTo
  <2> QED
    BY <1>1, <1>5, <2>1, <2>2 DEF Accepts
<1> QED
  BY <1>3, <1>4, <1>5

\* The version push k read of r, 0 when it found no such record.
SeenVersion(k, r) == IF serving[k].seen[r] = Null THEN 0 ELSE serving[k].seen[r].version

\* The answer that the step stores for r under k is "accepted".
IsAccepted(k, r) == operations'[k][r] # Null /\ operations'[k][r].verdict = "accepted"

\* What CommitPush does to transaction r: an accepted change is written over whatever is
\* there, with the version that follows the one read; a refused one leaves the record.
LEMMA CommitPushEffect ==
  ASSUME Typed, NEW k \in Keys, CommitPush(k), NEW r \in Transactions
  PROVE  /\ operations[k] = Null /\ operations'[k] # Null
         /\ operations'[k][r] \in Answer \cup {Null}
         /\ store[r] \in Row \cup {Null} /\ serving[k].seen[r] \in Row \cup {Null}
         /\ store'[r] \in Row \cup {Null}
         /\ requests[k].rows[r] # Null => operations'[k][r] # Null
         /\ operations'[k][r] # Null /\ ~IsAccepted(k, r)
              => /\ serving[k].seen[r] # Null
                 /\ operations'[k][r].version = serving[k].seen[r].version
         /\ IsAccepted(k, r)
              => /\ store'[r] # Null /\ store'[r].sync_status = "synced"
                 /\ store'[r].version = SeenVersion(k, r) + 1
                 /\ operations'[k][r].version = store'[r].version
         /\ ~IsAccepted(k, r) => store'[r] = store[r]
         /\ r \in Overwrites(k) <=> IsAccepted(k, r) /\ store[r] # serving[k].seen[r]
         /\ IsAccepted(k, r) /\ IsDeleted(serving[k].seen, r) => IsDeleted(store', r)
<1> DEFINE rows == requests[k].rows
           push == serving[k]
           sent == Correct(rows[r], push.skew)
           seen == push.seen[r]
<1>1. requests[k] \in Request
  BY DEF CommitPush, Typed, Served, TypeOK
<1>2. rows \in Table /\ push.skew \in Int /\ push.seen \in Table
  BY <1>1 DEF Request, Typed, TypeOK, Serving
<1>3. /\ store' = Apply(store, push.seen, rows, push.skew)
      /\ operations' = [operations EXCEPT ![k] = Answers(push.seen, rows, push.skew)]
      /\ operations[k] = Null
  BY DEF CommitPush, Typed, Served
<1>4. r \in Records /\ r \notin Categories
  BY IdsAssumption DEF Records, IdsAssumption
<1>5. r \in Overwrites(k) <=> rows[r] # Null /\ Accepts(sent, seen) /\ store[r] # seen
  BY <1>4 DEF Overwrites, Ids, Writes, Incoming
<1> HIDE DEF rows, push
<1>6. store[r] \in Row \cup {Null} /\ rows[r] \in Row \cup {Null} /\ seen \in Row \cup {Null}
  BY <1>2, <1>4 DEF Typed, TypeOK, Table
<1>7. operations'[k] = Answers(push.seen, rows, push.skew)
  BY <1>3 DEF Typed, TypeOK
<1>8. operations'[k] # Null /\ operations'[k][r] \in Answer \cup {Null}
  <2>1. operations'[k] \in AnswerTable
    BY <1>2, <1>7, AnswersType
  <2> QED
    BY <2>1, <1>4, NullAnswerAssumption DEF AnswerTable, NullAnswerAssumption
<1>9. CASE rows[r] = Null
  <2>1. store'[r] = store[r]
    BY <1>3, <1>4, <1>9 DEF Apply
  <2>2. operations'[k][r] = Null
    BY <1>4, <1>7, <1>9 DEF Answers
  <2> QED
    BY <1>3, <1>5, <1>6, <1>8, <1>9, <2>1, <2>2 DEF IsAccepted, rows, push
<1>10. CASE rows[r] # Null
  <2>1. sent \in Row
    BY <1>2, <1>6, <1>10, CorrectType
  <2>2. operations'[k][r] = AnswerTo(sent, seen)
    BY <1>4, <1>7, <1>10 DEF Answers
  <2>3. store'[r] = IF Accepts(sent, seen) THEN PutTransaction(sent, seen) ELSE store[r]
    BY <1>3, <1>4, <1>10 DEF Apply
  <2> HIDE DEF sent, seen
  <2> DEFINE written == PutTransaction(sent, seen)
             answer  == AnswerTo(sent, seen)
  <2>4. /\ written \in Row /\ answer \in Answer /\ written.version = answer.version
        /\ seen = Null => answer.verdict = "accepted" /\ written.version = 1
        /\ seen # Null /\ answer.verdict = "accepted" => written.version = seen.version + 1
        /\ seen # Null /\ seen.deleted => written.deleted
        /\ Accepts(sent, seen) <=> answer.verdict = "accepted"
    BY <1>6, <2>1, PutTransactionEffect
  <2>5. written # Null /\ answer # Null
    BY <2>4, NullAssumption, NullAnswerAssumption DEF NullAssumption, NullAnswerAssumption
  <2>6. answer.verdict # "accepted" => seen # Null /\ answer.version = seen.version
    BY <2>4 DEF AnswerTo
  <2>7. written.sync_status = "synced" \/ answer.verdict # "accepted"
    <3>1. \A row \in Row, v \in Nat : Materialise(row, v).sync_status = "synced"
      BY DEF Materialise, Row
    <3>2. \A row \in Row, old \in Row : Merge(row, old) \in Row /\ old.version + 1 \in Nat
      BY DEF Merge, Row
    <3> QED
      BY <1>6, <2>1, <2>4, <3>1, <3>2 DEF PutTransaction, Accepts
  <2> HIDE DEF written, answer
  <2>8. IsAccepted(k, r) <=> answer.verdict = "accepted"
    BY <2>2, <2>5 DEF IsAccepted, answer
  <2>9. store'[r] = IF answer.verdict = "accepted" THEN written ELSE store[r]
    BY <2>3, <2>4 DEF written
  <2>10. SeenVersion(k, r) = IF seen = Null THEN 0 ELSE seen.version
    BY DEF SeenVersion, seen, push
  <2>11. IsDeleted(serving[k].seen, r) <=> seen # Null /\ seen.deleted
    BY DEF IsDeleted, seen, push
  <2>12. serving[k].seen[r] = seen /\ operations'[k][r] = answer
    BY <2>2 DEF seen, push, answer
  <2> QED
    BY <1>3, <1>5, <1>6, <1>8, <1>10, <2>4, <2>5, <2>6, <2>7, <2>8, <2>9, <2>10, <2>11,
       <2>12 DEF IsDeleted, sent, rows
<1> QED
  BY <1>9, <1>10

\* Only CommitPush touches the server's tables.
LEMMA OnlyCommitWrites ==
  ASSUME Typed, [Next]_vars, \A k \in Keys : ~CommitPush(k)
  PROVE  UNCHANGED <<store, operations, contested>>
<1>1. CASE \E k \in Keys : PushStep(k)
  BY <1>1, PushStepFrame
<1>2. CASE \A k \in Keys : ~PushStep(k)
  BY <1>2, OthersLeaveServer
<1> QED
  BY <1>1, <1>2

LEMMA CommitContests ==
  ASSUME NEW k \in Keys, CommitPush(k)
  PROVE  contested' = contested \cup Overwrites(k)
  BY DEF CommitPush

\* No push takes a stored record away, and pushes that have overlapped stay known.
LEMMA CommitKeeps ==
  ASSUME Typed, NEW k \in Keys, CommitPush(k)
  PROVE  /\ contested \subseteq contested'
         /\ \A r \in Transactions : store[r] # Null => store'[r] # Null
         /\ \A r \in Transactions \ contested' :
              /\ r \notin contested
              /\ IsAccepted(k, r) => serving[k].seen[r] = store[r]
<1>1. contested' = contested \cup Overwrites(k)
  BY CommitContests
<1>2. \A r \in Transactions : store[r] # Null => store'[r] # Null
  BY CommitPushEffect
<1>3. \A r \in Transactions \ contested' : IsAccepted(k, r) => serving[k].seen[r] = store[r]
  BY <1>1, CommitPushEffect
<1> QED
  BY <1>1, <1>2, <1>3

-----------------------------------------------------------------------------
\* A deleted transaction stays deleted on the server, whatever is pushed, unless a push
\* that had read the record before the deletion was committed is accepted for it and
\* writes over it (SyncService.merge, and no lock in getTransaction).
THEOREM TombstonesAreFinal == Spec => TombstoneFinal
<1> DEFINE Kept(r) == IsDeleted(store, r) /\ (\A k \in Keys : CommitPush(k) => r \notin Overwrites(k))
                        => IsDeleted(store', r)
<1>1. Typed /\ [Next]_vars => [\A r \in Transactions : Kept(r)]_vars
  <2> SUFFICES ASSUME Typed, [Next]_vars, NEW r \in Transactions, IsDeleted(store, r),
                      \A k \in Keys : CommitPush(k) => r \notin Overwrites(k)
               PROVE  IsDeleted(store', r)
    OBVIOUS
  <2>1. ASSUME NEW k \in Keys, CommitPush(k)
        PROVE  IsDeleted(store', r)
    <3>1. r \notin Overwrites(k)
      BY <2>1
    <3>2. CASE IsAccepted(k, r)
      <4>1. store[r] = serving[k].seen[r]
        BY <2>1, <3>1, <3>2, CommitPushEffect
      <4> QED
        BY <2>1, <3>2, <4>1, CommitPushEffect DEF IsDeleted
    <3>3. CASE ~IsAccepted(k, r)
      BY <2>1, <3>3, CommitPushEffect DEF IsDeleted
    <3> QED
      BY <3>2, <3>3
  <2>2. CASE \A k \in Keys : ~CommitPush(k)
    BY <2>2, OnlyCommitWrites DEF IsDeleted
  <2> QED
    BY <2>1, <2>2
<1> QED
  BY <1>1, InitTyped, NextTyped, PTL DEF Spec, TombstoneFinal

\* The server's tables implement the versioned store: a push that is read and written row
\* by row, with others committing meanwhile, takes effect once and whole, and nothing else
\* touches versions, tombstones or answers (SyncService.push over PgSyncRepo). Of a record
\* that a push wrote over a change it had not read, the store promises only that it exists.
THEOREM StoreRefinement == Spec => ServerIsVersionedStore
<1>1. Init => V!Init
  <2> SUFFICES ASSUME Init PROVE V!Init
    OBVIOUS
  <2>1. \A r \in Transactions : store[r] = Null
    BY DEF Init, Empty, Records
  <2>2. \A k \in Keys : operations[k] = Null
    BY DEF Init
  <2>3. contested = {}
    BY DEF Init
  <2> QED
    BY <2>1, <2>2, <2>3 DEF V!Init, StoredVersion, IsDeleted
<1>2. Typed /\ [Next]_vars => [V!Next]_(V!vars)
  <2> SUFFICES ASSUME Typed, [Next]_vars
               PROVE  V!Next \/ UNCHANGED V!vars
    OBVIOUS
  <2>1. ASSUME NEW k \in Keys, CommitPush(k)
        PROVE  V!Next
    <3>0. PICK accepted \in SUBSET Transactions :
            accepted = {r \in Transactions : IsAccepted(k, r)}
      OBVIOUS
    <3>1. k \notin {j \in Keys : operations[j] # Null}
      BY <2>1, CommitPushEffect DEF CommitPush, Typed, Served
    <3>2. {j \in Keys : operations'[j] # Null} = {j \in Keys : operations[j] # Null} \cup {k}
      <4>1. operations'[k] # Null
        <5>1. requests[k] \in Request
          BY <2>1 DEF CommitPush, Typed, Served, TypeOK
        <5>2. /\ requests[k].rows \in Table
              /\ serving[k].skew \in Int /\ serving[k].seen \in Table
          BY <5>1 DEF Request, Typed, TypeOK, Serving
        <5>3. Answers(serving[k].seen, requests[k].rows, serving[k].skew) \in AnswerTable
          BY <5>2, AnswersType
        <5> QED
          BY <2>1, <5>3, NullAnswerAssumption
          DEF CommitPush, Typed, TypeOK, NullAnswerAssumption
      <4>2. \A j \in Keys \ {k} : operations'[j] = operations[j]
        BY <2>1, PushStepFrame DEF PushStep
      <4> QED
        BY <4>1, <4>2
    <3>3. PICK over \in SUBSET accepted : contested' = contested \cup over
      <4>1. \A r \in Overwrites(k) : r \in Transactions
        BY DEF Overwrites
      <4> QED
        BY <2>1, <3>0, <4>1, CommitContests, CommitPushEffect
    <3>4. ASSUME NEW r \in Transactions
          PROVE  StoredVersion(r)' \in IF r \notin accepted THEN {StoredVersion(r)}
                                       ELSE IF r \in contested' THEN Nat \ {0}
                                       ELSE {StoredVersion(r) + 1}
      <4>1. CASE r \notin accepted
        BY <2>1, <3>0, <4>1, CommitPushEffect DEF StoredVersion
      <4>2. CASE r \in accepted
        <5>1. SeenVersion(k, r) \in Nat
          BY <2>1, CommitPushEffect DEF SeenVersion, Row
        <5>2. StoredVersion(r)' = SeenVersion(k, r) + 1
          BY <2>1, <3>0, <4>2, CommitPushEffect DEF StoredVersion
        <5>3. r \notin contested' => SeenVersion(k, r) = StoredVersion(r)
          BY <2>1, <3>0, <4>2, CommitKeeps DEF SeenVersion, StoredVersion
        <5> QED
          BY <4>2, <5>1, <5>2, <5>3
      <4> QED
        BY <4>1, <4>2
    <3> DEFINE gone  == {r \in Transactions : IsDeleted(store, r)}
               gone2 == {r \in Transactions : IsDeleted(store', r)}
    <3>5. gone \ (accepted \cap contested') \subseteq gone2
      <4> SUFFICES ASSUME NEW r \in Transactions, IsDeleted(store, r),
                          r \notin accepted \cap contested'
                   PROVE  IsDeleted(store', r)
        OBVIOUS
      <4>1. CASE r \notin accepted
        BY <2>1, <3>0, <4>1, CommitPushEffect DEF IsDeleted
      <4>2. CASE r \in accepted
        <5>1. serving[k].seen[r] = store[r]
          BY <2>1, <3>0, <4>2, CommitKeeps
        <5> QED
          BY <2>1, <3>0, <4>2, <5>1, CommitPushEffect DEF IsDeleted
      <4> QED
        BY <4>1, <4>2
    <3>6. gone2 \subseteq gone \cup accepted
      BY <2>1, <3>0, CommitPushEffect DEF IsDeleted
    <3>7. V!Answer(k, accepted, over)
      BY <3>1, <3>2, <3>3, <3>4, <3>5, <3>6 DEF V!Answer
    <3> QED
      BY <3>0, <3>3, <3>7 DEF V!Next
  <2>2. CASE \A k \in Keys : ~CommitPush(k)
    BY <2>2, OnlyCommitWrites DEF V!vars, StoredVersion, IsDeleted
  <2> QED
    BY <2>1, <2>2
<1> QED
  BY <1>1, <1>2, InitTyped, NextTyped, PTL DEF Spec, ServerIsVersionedStore, V!Spec

-----------------------------------------------------------------------------
(* No device is ahead of the server.  Versions reach a device's rows from   *)
(* answers and from pages, and wait in rows read before they are written,   *)
(* the server's own reads among them: all of them have to be at most the    *)
(* server's, as long as no push has written over a change it had not read.  *)

AtMostStored(row, r) == row # Null => row.version <= StoredVersion(r)

EngineNotAhead(e, r) ==
  /\ e.held # Null /\ e.held.id = r => e.held.row.version <= StoredVersion(r)
  /\ AtMostStored(e.acks[r], r)
  /\ e.page # Null => AtMostStored(e.page.rows[r], r)

NotAhead ==
  \A r \in Transactions \ contested :
    /\ \A d \in Devices : AtMostStored(db[d][r], r)
    /\ \A t \in Tabs : AtMostStored(shown[t][r], r)
    /\ \A t \in Tabs : removing[t] # Null /\ removing[t].id = r
                         => removing[t].row.version <= StoredVersion(r)
    /\ \A t \in Tabs : EngineNotAhead(engine[t], r)
    /\ \A k \in Keys : operations[k] # Null => AtMostStored(operations[k][r], r)
    /\ \A k \in Keys : AtMostStored(serving[k].seen[r], r)

LEMMA IdleNotAhead ==
  ASSUME NEW r \in Records, NEW since, NEW primed
  PROVE  EngineNotAhead(Idle(since, primed), r)
  BY DEF EngineNotAhead, Idle, Empty, AtMostStored

LEMMA InitNotAhead == Init => NotAhead
<1> SUFFICES ASSUME Init, NEW r \in Transactions \ contested
             PROVE  /\ \A d \in Devices : AtMostStored(db[d][r], r)
                    /\ \A t \in Tabs : AtMostStored(shown[t][r], r)
                    /\ \A t \in Tabs : removing[t] # Null /\ removing[t].id = r
                                         => removing[t].row.version <= StoredVersion(r)
                    /\ \A t \in Tabs : EngineNotAhead(engine[t], r)
                    /\ \A k \in Keys : operations[k] # Null => AtMostStored(operations[k][r], r)
                    /\ \A k \in Keys : AtMostStored(serving[k].seen[r], r)
  BY DEF NotAhead
<1>1. r \in Records
  BY DEF Records
<1>2. \A t \in Tabs : EngineNotAhead(engine[t], r)
  BY <1>1, IdleNotAhead DEF Init
<1> QED
  BY <1>1, <1>2 DEF Init, NotServed, Empty, AtMostStored

\* The last statement of a push: versions only grow, and an answer tells the new one.
LEMMA CommitNotAhead ==
  ASSUME Typed, NotAhead, NEW k \in Keys, CommitPush(k)
  PROVE  NotAhead'
<1> SUFFICES ASSUME NEW r \in Transactions \ contested'
             PROVE  /\ \A d \in Devices : AtMostStored(db[d][r], r)'
                    /\ \A t \in Tabs : AtMostStored(shown[t][r], r)'
                    /\ \A t \in Tabs : removing'[t] # Null /\ removing'[t].id = r
                                         => removing'[t].row.version <= StoredVersion(r)'
                    /\ \A t \in Tabs : EngineNotAhead(engine[t], r)'
                    /\ \A j \in Keys : operations'[j] # Null
                                         => AtMostStored(operations[j][r], r)'
                    /\ \A j \in Keys : AtMostStored(serving[j].seen[r], r)'
  BY DEF NotAhead
<1>0. r \in Transactions \ contested /\ r \in Records
  BY CommitKeeps DEF Records
<1>1. /\ StoredVersion(r) \in Nat /\ StoredVersion(r)' \in Nat
      /\ StoredVersion(r) <= StoredVersion(r)'
      /\ IsAccepted(k, r) => operations'[k][r].version = StoredVersion(r)'
  <2>1. StoredVersion(r) \in Nat
    BY CommitPushEffect DEF StoredVersion, Row
  <2>2. CASE IsAccepted(k, r)
    <3>1. SeenVersion(k, r) = StoredVersion(r)
      BY <2>2, CommitKeeps DEF SeenVersion, StoredVersion
    <3>2. /\ StoredVersion(r)' = SeenVersion(k, r) + 1
          /\ operations'[k][r].version = StoredVersion(r)'
      BY <2>2, CommitPushEffect DEF StoredVersion
    <3> QED
      BY <2>1, <3>1, <3>2
  <2>3. CASE ~IsAccepted(k, r)
    BY <2>1, <2>3, CommitPushEffect DEF StoredVersion
  <2> QED
    BY <2>2, <2>3
<1>2. UNCHANGED <<now, edits, db, shown, removing, refresh, engine, requests>>
  BY PushStepFrame DEF PushStep
<1>3. \A row \in Row \cup {Null} : AtMostStored(row, r)
        => (row # Null => row.version <= StoredVersion(r)')
  BY <1>1 DEF AtMostStored, Row
<1>4. \A a \in Answer \cup {Null} : AtMostStored(a, r)
        => (a # Null => a.version <= StoredVersion(r)')
  BY <1>1 DEF AtMostStored, Answer
<1>5. \A d \in Devices : AtMostStored(db[d][r], r)'
  <2>1. \A d \in Devices : db[d][r] \in Row \cup {Null}
    BY <1>0 DEF Typed, TypeOK, Table
  <2> QED
    BY <2>1, <1>0, <1>2, <1>3 DEF NotAhead, AtMostStored
<1>6. \A t \in Tabs : AtMostStored(shown[t][r], r)'
  <2>1. \A t \in Tabs : shown[t][r] \in Row \cup {Null}
    BY <1>0 DEF Typed, TypeOK, Table
  <2> QED
    BY <2>1, <1>0, <1>2, <1>3 DEF NotAhead, AtMostStored
<1>7. \A t \in Tabs : removing'[t] # Null /\ removing'[t].id = r
                        => removing'[t].row.version <= StoredVersion(r)'
  <2>1. \A t \in Tabs : removing[t] # Null => removing[t].row.version \in Nat
    BY DEF Typed, TypeOK, Row
  <2> QED
    BY <2>1, <1>0, <1>1, <1>2 DEF NotAhead
<1>8. \A t \in Tabs : EngineNotAhead(engine[t], r)'
  <2> SUFFICES ASSUME NEW t \in Tabs
               PROVE  EngineNotAhead(engine[t], r)'
    OBVIOUS
  <2>1. EngineNotAhead(engine[t], r)
    BY <1>0 DEF NotAhead
  <2>2. engine[t].held # Null => engine[t].held.row.version \in Nat
    BY EngineFields DEF Row
  <2>3. engine[t].acks[r] \in Answer \cup {Null}
    BY <1>0, EngineFields DEF AnswerTable
  <2>4. engine[t].page # Null => engine[t].page.rows[r] \in Row \cup {Null}
    BY <1>0, EngineFields DEF Page, Table
  <2> QED
    BY <2>1, <2>2, <2>3, <2>4, <1>1, <1>2, <1>3, <1>4 DEF EngineNotAhead, AtMostStored
<1>9. \A j \in Keys : operations'[j] # Null => AtMostStored(operations[j][r], r)'
  <2>1. AtMostStored(operations[k][r], r)'
    <3>1. CASE IsAccepted(k, r)
      BY <1>1, <3>1 DEF AtMostStored
    <3>2. CASE ~IsAccepted(k, r)
      <4>1. AtMostStored(serving[k].seen[r], r)
        BY <1>0 DEF NotAhead
      <4> QED
        BY <1>3, <3>2, <4>1, CommitPushEffect DEF AtMostStored
    <3> QED
      BY <3>1, <3>2
  <2>2. \A j \in Keys \ {k} : operations'[j] = operations[j]
    BY PushStepFrame DEF PushStep
  <2>3. \A j \in Keys : operations[j] # Null => operations[j][r] \in Answer \cup {Null}
    BY <1>0 DEF Typed, TypeOK, AnswerTable
  <2> QED
    BY <2>1, <2>2, <2>3, <1>0, <1>4 DEF NotAhead, AtMostStored
<1>10. \A j \in Keys : AtMostStored(serving[j].seen[r], r)'
  <2>1. serving'[k] = NotServed /\ \A j \in Keys \ {k} : serving'[j] = serving[j]
    BY PushStepFrame DEF PushStep
  <2>2. \A j \in Keys : serving[j].seen[r] \in Row \cup {Null}
    BY <1>0 DEF Typed, TypeOK, Serving, Table
  <2> QED
    BY <2>1, <2>2, <1>0, <1>3 DEF NotAhead, AtMostStored, NotServed, Empty
<1> QED
  BY <1>5, <1>6, <1>7, <1>8, <1>9, <1>10

\* The other statements of a push read what is stored.
LEMMA StatementsNotAhead ==
  ASSUME Typed, NotAhead, NEW k \in Keys, PushStep(k), ~CommitPush(k)
  PROVE  NotAhead'
<1>1. /\ UNCHANGED <<now, edits, db, shown, removing, refresh, engine, requests>>
      /\ UNCHANGED <<store, operations, contested>>
      /\ \A j \in Keys \ {k} : serving'[j] = serving[j]
  BY PushStepFrame
<1>2. \A r \in Transactions \ contested : AtMostStored(serving'[k].seen[r], r)
  <2> SUFFICES ASSUME NEW r \in Transactions \ contested
               PROVE  AtMostStored(serving'[k].seen[r], r)
    OBVIOUS
  <2>1. r \in Records /\ StoredVersion(r) \in Nat
    BY DEF StoredVersion, Typed, TypeOK, Table, Row, Records
  <2>2. CASE serving'[k].seen = Empty
    BY <2>1, <2>2 DEF Empty, AtMostStored
  <2>3. ASSUME NEW q \in Records, ReachRow(k, q)
        PROVE  AtMostStored(serving'[k].seen[r], r)
    <3>1. serving' = [serving EXCEPT ![k] = Reached(k, q)]
      BY <2>3 DEF ReachRow, Serve, Reached
    <3>2. serving'[k] = Reached(k, q)
      BY <3>1 DEF Typed, TypeOK
    <3>3. \/ serving'[k].seen[r] = serving[k].seen[r]
          \/ serving'[k].seen[r] = store[r]
      <4>1. serving[k].seen \in Table
        BY DEF Typed, TypeOK, Serving
      <4>2. serving'[k].seen = [serving[k].seen EXCEPT ![q] =
                                  IF q \in Transactions THEN store[q] ELSE Null]
        BY <3>2, ReachedType
      <4> QED
        BY <2>1, <4>1, <4>2 DEF Table
    <3> QED
      BY <2>1, <3>3 DEF AtMostStored, StoredVersion, NotAhead
  <2>4. CASE BeginPush(k) \/ RollBack(k)
    BY <2>2, <2>4 DEF BeginPush, RollBack, Serve, NotServed, Typed, TypeOK
  <2> QED
    BY <2>3, <2>4 DEF PushStep
<1> QED
  BY <1>1, <1>2 DEF NotAhead, AtMostStored, StoredVersion, EngineNotAhead

\* The fields of transaction r that the user's steps write.
UserNotAhead(r) ==
  /\ \A d \in Devices : AtMostStored(db[d][r], r)
  /\ \A t \in Tabs : AtMostStored(shown[t][r], r)
  /\ \A t \in Tabs : removing[t] # Null /\ removing[t].id = r
                       => removing[t].row.version <= StoredVersion(r)

LEMMA UserNotAheadSteps ==
  ASSUME Typed, NotAhead, NEW t \in Tabs, UserStep(t)
  PROVE  NotAhead'
<1>1. UNCHANGED <<store, operations, serving, contested>>
  BY DEF UserStep, Create, Edit, Written, BeginRemove, FinishRemove, Hydrate, Restart
<1>2. \A r \in Transactions \ contested, u \in Tabs : EngineNotAhead(engine[u], r)'
  <2>1. CASE Restart(t)
    <3>1. \A r \in Transactions \ contested, u \in Tabs : EngineNotAhead(engine'[u], r)
      BY <2>1, IdleNotAhead DEF Restart, NotAhead, Typed, TypeOK, Records
    <3> QED
      BY <3>1, <1>1 DEF EngineNotAhead, AtMostStored, StoredVersion
  <2>2. CASE engine' = engine
    BY <2>2, <1>1 DEF NotAhead, EngineNotAhead, AtMostStored, StoredVersion
  <2> QED
    BY <2>1, <2>2 DEF UserStep, Create, Edit, Written, BeginRemove, FinishRemove, Hydrate
<1>3. ASSUME NEW r \in Transactions \ contested
      PROVE  UserNotAhead(r)'
  <2>1. UserNotAhead(r) /\ r \in Records /\ DeviceOf[t] \in Devices
    BY EngineFields DEF NotAhead, UserNotAhead, Records
  <2>2. StoredVersion(r)' = StoredVersion(r)
    BY <1>1 DEF StoredVersion
  <2>3. \A row : AtMostStored(row, r)' <=> AtMostStored(row, r)
    BY <2>2 DEF AtMostStored
  <2>4. ASSUME NEW q \in Records, NEW amount \in Amounts, Create(t, q, amount)
        PROVE  UserNotAhead(r)'
    <3>1. StoredVersion(r) \in Nat
      BY <2>1 DEF StoredVersion, Typed, TypeOK, Table, Row
    <3>2. \A d \in Devices : db'[d][r] = db[d][r] \/ db'[d][r].version = 0
      BY <2>4, <2>1 DEF Create, Written, Put, Typed, TypeOK, Table
    <3>3. \A u \in Tabs : shown'[u][r] = shown[u][r] \/ shown'[u][r].version = 0
      BY <2>4, <2>1 DEF Create, Written, Typed, TypeOK, Table
    <3>4. removing' = removing
      BY <2>4 DEF Create, Written
    <3> QED
      BY <3>1, <3>2, <3>3, <3>4, <2>1, <2>2 DEF UserNotAhead, AtMostStored
  <2>5. ASSUME NEW q \in Records, NEW amount \in Amounts, Edit(t, q, amount)
        PROVE  UserNotAhead(r)'
    <3> DEFINE row == [shown[t][q] EXCEPT !.rev = edits + 1, !.amount_minor = amount,
                         !.updated_at = Clock(DeviceOf[t]), !.sync_status = "pending"]
    <3>1. shown[t][q] \in Row
      BY <2>5 DEF Edit, IsLive, Typed, TypeOK, Table
    <3>2. shown[t][q] # Null /\ row.version = shown[t][q].version
      BY <2>5, <3>1 DEF Edit, IsLive, Row
    <3>3. Written(t, q, row)
      BY <2>5 DEF Edit
    <3> HIDE DEF row
    <3>4. \A d \in Devices : db'[d][r] = db[d][r] \/ (q = r /\ db'[d][r] = row)
      BY <3>3, <2>1 DEF Written, Put, Typed, TypeOK, Table
    <3>5. \A u \in Tabs : shown'[u][r] = shown[u][r] \/ (q = r /\ shown'[u][r] = row)
      BY <3>3, <2>1 DEF Written, Typed, TypeOK, Table
    <3>6. removing' = removing
      BY <3>3 DEF Written
    <3>7. q = r => AtMostStored(row, r)
      BY <3>2, <2>1 DEF UserNotAhead, AtMostStored
    <3> QED
      BY <3>4, <3>5, <3>6, <3>7, <2>1, <2>2, <2>3 DEF UserNotAhead, AtMostStored
  <2>6. ASSUME NEW q \in Records, BeginRemove(t, q)
        PROVE  UserNotAhead(r)'
    <3>1. UNCHANGED <<db, shown>>
      BY <2>6 DEF BeginRemove
    <3>2. \A u \in Tabs : \/ removing'[u] = removing[u]
                          \/ /\ removing'[u].id = q
                             /\ removing'[u].row = db[DeviceOf[t]][q]
      BY <2>6 DEF BeginRemove, Typed, TypeOK
    <3>3. db[DeviceOf[t]][q] # Null
      BY <2>6 DEF BeginRemove
    <3> QED
      BY <3>1, <3>2, <3>3, <2>1, <2>2, <2>3 DEF UserNotAhead, AtMostStored
  <2>7. CASE FinishRemove(t)
    <3> DEFINE del == removing[t]
               cur == shown[t][del.id]
               row == Tombstone(del.row, del.at)
               new == IF cur = Null THEN Null ELSE Tombstone(cur, del.at)
    <3>1. /\ db' = [db EXCEPT ![DeviceOf[t]] = Put(@, del.id, row)]
          /\ shown' = [shown EXCEPT ![t][del.id] = new]
          /\ removing' = [removing EXCEPT ![t] = Null]
      BY <2>7 DEF FinishRemove
    <3>2. del # Null /\ del.id \in Records /\ del.row \in Row
      BY <2>7 DEF FinishRemove, Typed, TypeOK
    <3>3. cur \in Row \cup {Null}
      BY <3>2 DEF Typed, TypeOK, Table
    <3>4. \A x \in Row : Tombstone(x, del.at).version = x.version
      BY DEF Tombstone, Row
    <3>5. del.id = r => AtMostStored(row, r)
      BY <3>2, <3>4, <2>1 DEF UserNotAhead, AtMostStored
    <3>6. del.id = r => AtMostStored(new, r)
      BY <3>3, <3>4, <2>1 DEF UserNotAhead, AtMostStored
    <3> HIDE DEF del, cur, row, new
    <3>7. \A d \in Devices : db'[d][r] = db[d][r] \/ (del.id = r /\ db'[d][r] = row)
      BY <3>1, <3>2, <2>1 DEF Put, Typed, TypeOK, Table
    <3>8. \A u \in Tabs : shown'[u][r] = shown[u][r] \/ (del.id = r /\ shown'[u][r] = new)
      BY <3>1, <3>2, <2>1 DEF Typed, TypeOK, Table
    <3>9. \A u \in Tabs : removing'[u] = removing[u] \/ removing'[u] = Null
      BY <3>1 DEF Typed, TypeOK
    <3> QED
      BY <3>5, <3>6, <3>7, <3>8, <3>9, <2>1, <2>2, <2>3 DEF UserNotAhead, AtMostStored
  <2>8. CASE Hydrate(t) \/ Restart(t)
    <3>1. db' = db
      BY <2>8 DEF Hydrate, Restart
    <3>2. \A u \in Tabs : shown'[u] = shown[u] \/ shown'[u] = db[DeviceOf[t]]
      BY <2>8 DEF Hydrate, Restart, Typed, TypeOK
    <3>3. \A u \in Tabs : removing'[u] = removing[u] \/ removing'[u] = Null
      BY <2>8 DEF Hydrate, Restart, Typed, TypeOK
    <3> QED
      BY <3>1, <3>2, <3>3, <2>1, <2>2, <2>3 DEF UserNotAhead, AtMostStored
  <2> QED
    BY <2>4, <2>5, <2>6, <2>7, <2>8 DEF UserStep
<1>4. \A r \in Transactions \ contested, k \in Keys :
        /\ operations'[k] # Null => AtMostStored(operations[k][r], r)'
        /\ AtMostStored(serving[k].seen[r], r)'
  BY <1>1 DEF NotAhead, AtMostStored, StoredVersion
<1> QED
  BY <1>1, <1>2, <1>3, <1>4 DEF NotAhead, UserNotAhead

\* A step of engine t keeps NotAhead if the engine it leaves and the rows it
\* writes to the disk do.
LEMMA EngineNotAheadStep ==
  ASSUME Typed, NotAhead, NEW t \in Tabs,
         UNCHANGED <<shown, removing, operations, store, serving, contested>>,
         \A u \in Tabs \ {t} : engine'[u] = engine[u],
         \A r \in Transactions \ contested : EngineNotAhead(engine'[t], r),
         \A r \in Transactions \ contested, d \in Devices : AtMostStored(db'[d][r], r)
  PROVE  NotAhead'
<1>1. \A r \in Transactions \ contested : StoredVersion(r)' = StoredVersion(r)
  BY DEF StoredVersion
<1>2. \A r \in Transactions \ contested, u \in Tabs : EngineNotAhead(engine'[u], r)
  BY DEF NotAhead
<1>3. \A r \in Transactions \ contested, u \in Tabs : EngineNotAhead(engine[u], r)'
  BY <1>1, <1>2 DEF EngineNotAhead, AtMostStored
<1> QED
  BY <1>1, <1>3 DEF NotAhead, AtMostStored

\* A step of engine t that leaves the disk alone and keeps what it holds.
LEMMA SteadyNotAhead ==
  ASSUME Typed, NotAhead, NEW t \in Tabs, NEW next, EngineStep(t, next), UNCHANGED db,
         \A r \in Transactions \ contested : EngineNotAhead(next, r)
  PROVE  NotAhead'
<1>1. engine'[t] = next /\ \A u \in Tabs \ {t} : engine'[u] = engine[u]
  BY DEF EngineStep, Typed, TypeOK
<1>2. UNCHANGED <<shown, removing, operations, store, serving, contested>>
  BY DEF EngineStep
<1>3. \A r \in Transactions \ contested, d \in Devices : AtMostStored(db'[d][r], r)
  BY DEF NotAhead
<1> QED
  BY <1>1, <1>2, <1>3, EngineNotAheadStep

LEMMA EngineNotAheadSteps ==
  ASSUME Typed, NotAhead, NEW t \in Tabs, EngineAction(t)
  PROVE  NotAhead'
<1>1. \A r \in Transactions \ contested : EngineNotAhead(engine[t], r) /\ r \in Records
  BY DEF NotAhead, Records
<1>2. ASSUME NEW since \in Nat, NEW wrote, EndCycle(t, since, wrote), UNCHANGED db
      PROVE  NotAhead'
  <2>1. EngineStep(t, Idle(since, TRUE)) /\ Idle(since, TRUE) \in Engine
    BY <1>2, IdleType DEF EndCycle
  <2>2. \A r \in Transactions \ contested : EngineNotAhead(Idle(since, TRUE), r)
    BY <1>1, IdleNotAhead
  <2> QED
    BY <1>2, <2>1, <2>2, SteadyNotAhead
<1>3. ASSUME NEW next, EngineStep(t, next), UNCHANGED db,
             next.held = engine[t].held, next.acks = engine[t].acks,
             next.page = engine[t].page
      PROVE  NotAhead'
  <2>1. \A r \in Transactions \ contested : EngineNotAhead(next, r)
    BY <1>1, <1>3 DEF EngineNotAhead
  <2> QED
    BY <1>3, <2>1, SteadyNotAhead
<1>4. CASE Offline(t) \/ Fail(t) \/ NoKeyLeft(t) \/ ReceiveError(t)
  BY <1>2, <1>4, EngineFields DEF Offline, Fail, NoKeyLeft, ReceiveError
<1>5. CASE Wake(t) \/ ReadBanks(t) \/ ReadTransactions(t)
  <2>1. PICK phase, began, todo :
          EngineStep(t, [engine[t] EXCEPT !.phase = phase, !.began = began, !.todo = todo])
    BY <1>5, ReadingSteps
  <2> DEFINE next == [engine[t] EXCEPT !.phase = phase, !.began = began, !.todo = todo]
  <2>2. /\ next.held = engine[t].held
        /\ next.acks = engine[t].acks /\ next.page = engine[t].page
    BY EngineFields DEF Engine
  <2>3. EngineStep(t, next) /\ UNCHANGED db
    BY <1>5, <2>1 DEF Wake, ReadBanks, ReadTransactions
  <2> HIDE DEF next
  <2> QED
    BY <2>2, <2>3, <1>3
<1>6. CASE SendBatch(t)
  <2>1. PICK S \in Batches(engine[t].todo), k \in Keys :
          EngineStep(t, [engine[t] EXCEPT !.phase = "pushing", !.key = k,
                           !.todo = Only(@, Records \ S)])
    BY <1>6 DEF SendBatch
  <2> DEFINE next == [engine[t] EXCEPT !.phase = "pushing", !.key = k,
                                       !.todo = Only(@, Records \ S)]
  <2>2. Only(engine[t].todo, Records \ S) \in Table
    BY EngineFields, OnlyType
  <2>3. /\ next \in Engine /\ next.held = engine[t].held
        /\ next.acks = engine[t].acks /\ next.page = engine[t].page
    BY <2>2, EngineFields DEF Engine
  <2>4. EngineStep(t, next) /\ UNCHANGED db
    BY <1>6, <2>1 DEF SendBatch
  <2> HIDE DEF next
  <2> QED
    BY <2>3, <2>4, <1>3
<1>7. CASE ReceiveAnswers(t)
  <2> DEFINE k    == engine[t].key
             next == [engine[t] EXCEPT !.phase = "sending", !.acks = operations[k],
                                       !.key = 0]
  <2>1. k \in Keys /\ operations[k] # Null /\ operations[k] \in AnswerTable
    BY <1>7, EngineFields DEF ReceiveAnswers, Typed, TypeOK
  <2>2. /\ next \in Engine /\ next.held = engine[t].held
        /\ next.acks = operations[k] /\ next.page = engine[t].page
    BY <2>1, EngineFields DEF Engine
  <2>3. EngineStep(t, next) /\ UNCHANGED db
    BY <1>7 DEF ReceiveAnswers
  <2> HIDE DEF next, k
  <2>4. \A r \in Transactions \ contested : EngineNotAhead(next, r)
    BY <1>1, <2>1, <2>2 DEF EngineNotAhead, NotAhead
  <2> QED
    BY <2>2, <2>3, <2>4, SteadyNotAhead
<1>8. ASSUME NEW q \in Records, BeginMark(t, q)
      PROVE  NotAhead'
  <2> DEFINE held == [id |-> q, row |-> db[DeviceOf[t]][q]]
             next == [engine[t] EXCEPT !.held = held]
  <2>1. db[DeviceOf[t]][q] # Null /\ db[DeviceOf[t]][q] \in Row
    BY <1>8, EngineFields DEF BeginMark, Table
  <2>2. next \in Engine /\ next.held = held
    BY <2>1, EngineFields DEF Engine
  <2>3. next.acks = engine[t].acks /\ next.page = engine[t].page
    BY EngineFields DEF Engine
  <2>4. EngineStep(t, next) /\ UNCHANGED db
    BY <1>8 DEF BeginMark
  <2> HIDE DEF next
  <2>5. \A r \in Transactions \ contested : EngineNotAhead(next, r)
    BY <1>1, <2>1, <2>2, <2>3, EngineFields DEF EngineNotAhead, NotAhead, AtMostStored
  <2> QED
    BY <2>2, <2>4, <2>5, SteadyNotAhead
<1>9. CASE FinishMark(t)
  <2> DEFINE q    == engine[t].held.id
             row  == Marking(engine[t].held.row, engine[t].acks[q])
             next == [engine[t] EXCEPT !.held = Null, !.acks[q] = Null]
  <2>1. /\ engine[t].held # Null /\ q \in Records /\ engine[t].held.row \in Row
        /\ engine[t].acks[q] # Null /\ engine[t].acks[q] \in Answer
    BY <1>9, EngineFields DEF FinishMark, AnswerTable
  <2>2. row.version = engine[t].held.row.version \/ row.version = engine[t].acks[q].version
    <3>1. \A x \in Row, a \in Answer :
            Marking(x, a).version = x.version \/ Marking(x, a).version = a.version
      BY DEF Marking, Row
    <3> QED
      BY <2>1, <3>1
  <2>3. \A r \in Transactions \ contested : q = r => AtMostStored(row, r)
    BY <1>1, <2>1, <2>2 DEF EngineNotAhead, AtMostStored
  <2>4. db' = [db EXCEPT ![DeviceOf[t]] = Put(@, q, row)]
    BY <1>9 DEF FinishMark
  <2>5. next.held = Null /\ next.acks = [engine[t].acks EXCEPT ![q] = Null]
        /\ next.page = engine[t].page
    BY EngineFields DEF Engine
  <2>6. engine' = [engine EXCEPT ![t] = next] /\ UNCHANGED <<shown, removing, operations, store, serving, contested>>
    BY <1>9 DEF FinishMark, EngineStep
  <2> HIDE DEF row, next, q
  <2>7. \A r \in Transactions \ contested, d \in Devices :
          db'[d][r] = db[d][r] \/ (q = r /\ db'[d][r] = row)
    BY <2>1, <2>4, <1>1 DEF Put, Typed, TypeOK, Table
  <2>8. \A r \in Transactions \ contested, d \in Devices : AtMostStored(db'[d][r], r)
    BY <2>3, <2>7 DEF NotAhead
  <2>9. \A r \in Transactions \ contested : EngineNotAhead(next, r)
    <3>1. \A r \in Transactions \ contested : next.acks[r] = engine[t].acks[r] \/ next.acks[r] = Null
      BY <1>1, <2>1, <2>5, EngineFields DEF AnswerTable
    <3> QED
      BY <1>1, <2>5, <3>1 DEF EngineNotAhead, AtMostStored
  <2>10. engine'[t] = next /\ \A u \in Tabs \ {t} : engine'[u] = engine[u]
    BY <2>6 DEF Typed, TypeOK
  <2> QED
    BY <2>6, <2>8, <2>9, <2>10, EngineNotAheadStep
<1>10. CASE BeginPull(t)
  <2> DEFINE next == [engine[t] EXCEPT !.phase = "pulling"]
  <2>1. /\ next \in Engine /\ next.held = engine[t].held
        /\ next.acks = engine[t].acks /\ next.page = engine[t].page
    BY EngineFields DEF Engine
  <2>2. EngineStep(t, next) /\ UNCHANGED db
    BY <1>10 DEF BeginPull
  <2> HIDE DEF next
  <2> QED
    BY <2>1, <2>2, <1>3
<1>11. CASE ReceivePage(t)
  <2> DEFINE page == engine[t].page
  <2>1. page # Null /\ page.rows \in Table /\ page.server_time \in Nat
    BY <1>11, EngineFields DEF ReceivePage, Page
  <2>2. db' = [db EXCEPT ![DeviceOf[t]] = BulkPut(@, page.rows)]
    BY <1>11 DEF ReceivePage
  <2>3. \A r \in Transactions \ contested : AtMostStored(page.rows[r], r)
    BY <1>1, <2>1 DEF EngineNotAhead
  <2>4. PICK next : /\ EngineStep(t, next)
                    /\ \A r \in Transactions \ contested : EngineNotAhead(next, r)
    <3>1. CASE \E wrote : EndCycle(t, page.server_time, wrote)
      BY <3>1, <1>1, IdleNotAhead DEF EndCycle
    <3>2. CASE ~ \E wrote : EndCycle(t, page.server_time, wrote)
      <4>1. PICK pages, wrote :
              EngineStep(t, [engine[t] EXCEPT
                !.page = Null, !.cursor = page.next_cursor, !.pages = pages,
                !.wrote = wrote, !.lastPulledAt = page.server_time])
        BY <3>2, <1>11 DEF ReceivePage
      <4> DEFINE next == [engine[t] EXCEPT
                !.page = Null, !.cursor = page.next_cursor, !.pages = pages,
                !.wrote = wrote, !.lastPulledAt = page.server_time]
      <4>2. next.page = Null /\ next.held = engine[t].held /\ next.acks = engine[t].acks
        BY EngineFields DEF Engine
      <4>3. EngineStep(t, next)
        BY <4>1
      <4> HIDE DEF next
      <4>4. \A r \in Transactions \ contested : EngineNotAhead(next, r)
        BY <1>1, <4>2 DEF EngineNotAhead
      <4> QED
        BY <4>3, <4>4
    <3> QED
      BY <3>1, <3>2
  <2> HIDE DEF page
  <2>5. \A r \in Transactions \ contested, d \in Devices :
          db'[d][r] = db[d][r] \/ db'[d][r] = page.rows[r]
    BY <2>2, <1>1 DEF BulkPut, Typed, TypeOK, Table
  <2>6. \A r \in Transactions \ contested, d \in Devices : AtMostStored(db'[d][r], r)
    BY <2>3, <2>5 DEF NotAhead
  <2>7. engine'[t] = next /\ \A u \in Tabs \ {t} : engine'[u] = engine[u]
    BY <2>4 DEF EngineStep, Typed, TypeOK
  <2>8. UNCHANGED <<shown, removing, operations, store, serving, contested>>
    BY <2>4 DEF EngineStep
  <2> QED
    BY <2>4, <2>6, <2>7, <2>8, EngineNotAheadStep
<1> QED
  BY <1>4, <1>5, <1>6, <1>7, <1>8, <1>9, <1>10, <1>11 DEF EngineAction

LEMMA ServerPullNotAhead ==
  ASSUME Typed, NotAhead, NEW t \in Tabs, ServerPull(t)
  PROVE  NotAhead'
<1>1. PICK page \in PullPages(store, engine[t].lastPulledAt, engine[t].cursor, now) :
        engine' = [engine EXCEPT
          ![t].page = page,
          ![t].base = IF engine[t].lastPulledAt = 0 THEN store ELSE @]
  BY DEF ServerPull
<1>2. PICK S : page.rows = Only(store, S)
  BY DEF PullPages
<1>3. \A r \in Transactions \ contested : page.rows[r] = Null \/ page.rows[r] = store[r]
  BY <1>2 DEF Only, Records
<1>4. \A r \in Transactions \ contested : AtMostStored(page.rows[r], r)
  <2>1. \A r \in Transactions \ contested : StoredVersion(r) \in Nat
    BY DEF StoredVersion, Typed, TypeOK, Table, Row, Records
  <2> QED
    BY <1>3, <2>1 DEF AtMostStored, StoredVersion
<1>5. /\ engine'[t].held = engine[t].held /\ engine'[t].acks = engine[t].acks
      /\ engine'[t].page = page
      /\ \A u \in Tabs \ {t} : engine'[u] = engine[u]
  BY <1>1, EngineFields DEF Typed, TypeOK, Engine
<1>6. \A r \in Transactions \ contested : EngineNotAhead(engine'[t], r)
  BY <1>4, <1>5 DEF EngineNotAhead, NotAhead
<1>7. \A r \in Transactions \ contested, d \in Devices : AtMostStored(db'[d][r], r)
  BY DEF ServerPull, NotAhead
<1> QED
  BY <1>5, <1>6, <1>7, EngineNotAheadStep DEF ServerPull

LEMMA NextNotAhead == Typed /\ NotAhead /\ [Next]_vars => NotAhead'
<1> SUFFICES ASSUME Typed, NotAhead, [Next]_vars PROVE NotAhead'
  OBVIOUS
<1>1. CASE Tick \/ UNCHANGED vars
  BY <1>1 DEF Tick, vars, NotAhead, EngineNotAhead, AtMostStored, StoredVersion
<1>2. ASSUME NEW t \in Tabs, UserStep(t) PROVE NotAhead'
  BY <1>2, UserNotAheadSteps
<1>3. ASSUME NEW t \in Tabs, EngineAction(t) PROVE NotAhead'
  BY <1>3, EngineNotAheadSteps
<1>4. CASE ServerStep
  BY <1>4, CommitNotAhead, StatementsNotAhead, ServerPullNotAhead DEF ServerStep
<1> QED
  BY <1>1, <1>2, <1>3, <1>4 DEF Next

\* No device carries a version the server has not reached, of a transaction that pushes
\* have not overlapped on, so the comparison of versions in detectConflict means what it is
\* used for.
THEOREM DevicesKnowNoFutureVersion == Spec => []KnownVersions
<1>1. NotAhead => KnownVersions
  BY DEF NotAhead, KnownVersions, AtMostStored
<1> QED
  BY <1>1, InitTyped, NextTyped, InitNotAhead, NextNotAhead, PTL DEF Spec

-----------------------------------------------------------------------------
(* A version counts the batches accepted for it. *)

LEMMA AcceptedKeysFinite == \A r \in Transactions : IsFiniteSet(AcceptedKeys(r))
<1>1. IsFiniteSet(Keys)
  BY FS_Interval, BoundsAssumption DEF Keys, BoundsAssumption
<1>2. \A r \in Transactions : AcceptedKeys(r) \subseteq Keys
  BY DEF AcceptedKeys
<1> QED
  BY <1>1, <1>2, FS_Subset

\* What counts: the stored version, and the versions that pushes under way have read.
Counted ==
  /\ VersionCountsAccepted
  /\ \A r \in Transactions, k \in Keys : SeenVersion(k, r) <= Cardinality(AcceptedKeys(r))

LEMMA SeenVersionType ==
  ASSUME Typed, NEW k \in Keys, NEW r \in Transactions
  PROVE  SeenVersion(k, r) \in Nat /\ StoredVersion(r) \in Nat
<1>1. r \in Records /\ serving[k].seen \in Table
  BY DEF Typed, TypeOK, Serving, Records
<1> QED
  BY <1>1 DEF SeenVersion, StoredVersion, Typed, TypeOK, Table, Row

LEMMA InitCounted == Init => Counted
<1> SUFFICES ASSUME Init, NEW r \in Transactions
             PROVE  /\ StoredVersion(r) = Cardinality(AcceptedKeys(r))
                    /\ StoredVersion(r) <= Cardinality(AcceptedKeys(r))
                    /\ \A k \in Keys : SeenVersion(k, r) <= Cardinality(AcceptedKeys(r))
  BY DEF Counted, VersionCountsAccepted
<1>1. StoredVersion(r) = 0 /\ \A k \in Keys : SeenVersion(k, r) = 0
  BY DEF Init, NotServed, Empty, Records, StoredVersion, SeenVersion
<1>2. AcceptedKeys(r) = {}
  BY DEF Init, AcceptedKeys
<1> QED
  BY <1>1, <1>2, FS_EmptySet

\* A batch that is accepted adds one to the count, and one to the version it has read.
LEMMA CommitCounted ==
  ASSUME Typed, Counted, NEW k \in Keys, CommitPush(k)
  PROVE  Counted'
<1> SUFFICES ASSUME NEW r \in Transactions
             PROVE  /\ StoredVersion(r)' <= Cardinality(AcceptedKeys(r)')
                    /\ r \notin contested' => StoredVersion(r)' = Cardinality(AcceptedKeys(r)')
                    /\ \A j \in Keys : SeenVersion(j, r)' <= Cardinality(AcceptedKeys(r)')
  BY DEF Counted, VersionCountsAccepted
<1> DEFINE count  == Cardinality(AcceptedKeys(r))
           count2 == Cardinality(AcceptedKeys(r)')
<1>1. /\ StoredVersion(r) <= count
      /\ r \notin contested => StoredVersion(r) = count
      /\ \A j \in Keys : SeenVersion(j, r) <= count
  BY DEF Counted, VersionCountsAccepted
<1>2. count \in Nat
  BY AcceptedKeysFinite, FS_CardinalityType
<1>3. /\ \A j \in Keys \ {k} : operations'[j] = operations[j] /\ serving'[j] = serving[j]
      /\ serving'[k] = NotServed
  BY PushStepFrame DEF PushStep
<1>4. k \notin AcceptedKeys(r) /\ operations'[k] # Null
  BY CommitPushEffect DEF AcceptedKeys
<1>5. /\ StoredVersion(r) \in Nat
      /\ \A j \in Keys : SeenVersion(j, r) \in Nat
  BY SeenVersionType
<1>6. /\ \A j \in Keys \ {k} : SeenVersion(j, r)' = SeenVersion(j, r)
      /\ SeenVersion(k, r)' = 0
  BY <1>3 DEF SeenVersion, NotServed, Empty, Records
<1>7. CASE IsAccepted(k, r)
  <2>1. AcceptedKeys(r)' = AcceptedKeys(r) \cup {k}
    BY <1>3, <1>4, <1>7 DEF AcceptedKeys, IsAccepted
  <2>2. count2 = count + 1
    BY <1>4, <2>1, AcceptedKeysFinite, FS_AddElement
  <2>3. StoredVersion(r)' = SeenVersion(k, r) + 1
    BY <1>7, CommitPushEffect DEF StoredVersion
  <2>4. r \notin contested' => SeenVersion(k, r) = StoredVersion(r) /\ r \notin contested
    BY <1>7, CommitKeeps DEF SeenVersion, StoredVersion
  <2> HIDE DEF count, count2
  <2> QED
    BY <1>1, <1>2, <1>5, <1>6, <2>2, <2>3, <2>4 DEF count2
<1>8. CASE ~IsAccepted(k, r)
  <2>1. AcceptedKeys(r)' = AcceptedKeys(r)
    BY <1>3, <1>4, <1>8 DEF AcceptedKeys, IsAccepted
  <2>2. StoredVersion(r)' = StoredVersion(r)
    BY <1>8, CommitPushEffect DEF StoredVersion
  <2>3. r \notin contested' => r \notin contested
    BY CommitKeeps
  <2>4. count2 = count
    BY <2>1
  <2> HIDE DEF count, count2
  <2> QED
    BY <1>1, <1>2, <1>5, <1>6, <2>2, <2>3, <2>4 DEF count2
<1> QED
  BY <1>7, <1>8

LEMMA NextCounted == Typed /\ Counted /\ [Next]_vars => Counted'
<1> SUFFICES ASSUME Typed, Counted, [Next]_vars PROVE Counted'
  OBVIOUS
<1>1. ASSUME NEW k \in Keys, CommitPush(k)
      PROVE  Counted'
  BY <1>1, CommitCounted
<1>2. CASE \A k \in Keys : ~CommitPush(k)
  <2>1. UNCHANGED <<store, operations, contested>>
    BY <1>2, OnlyCommitWrites
  <2>2. ASSUME NEW r \in Transactions
        PROVE  StoredVersion(r)' = StoredVersion(r) /\ AcceptedKeys(r)' = AcceptedKeys(r)
    BY <2>1 DEF StoredVersion, AcceptedKeys
  <2>3. VersionCountsAccepted'
    BY <2>1, <2>2 DEF Counted, VersionCountsAccepted
  <2>4. ASSUME NEW r \in Transactions, NEW k \in Keys
        PROVE  SeenVersion(k, r)' <= Cardinality(AcceptedKeys(r)')
    <3>1. /\ SeenVersion(k, r) <= Cardinality(AcceptedKeys(r))
          /\ StoredVersion(r) <= Cardinality(AcceptedKeys(r))
          /\ Cardinality(AcceptedKeys(r)) \in Nat
      BY AcceptedKeysFinite, FS_CardinalityType DEF Counted, VersionCountsAccepted
    <3>2. \/ SeenVersion(k, r)' = SeenVersion(k, r)
          \/ SeenVersion(k, r)' = StoredVersion(r)
          \/ SeenVersion(k, r)' = 0
      <4>1. CASE serving'[k] = serving[k]
        BY <4>1 DEF SeenVersion
      <4>2. CASE serving'[k].seen = Empty
        BY <4>2 DEF SeenVersion, Empty, Records
      <4>3. ASSUME NEW q \in Records, ReachRow(k, q)
            PROVE  SeenVersion(k, r)' \in {SeenVersion(k, r), StoredVersion(r)}
        <5>1. serving'[k] = Reached(k, q)
          BY <4>3 DEF ReachRow, Serve, Reached, Typed, TypeOK
        <5>2. serving'[k].seen = [serving[k].seen EXCEPT ![q] =
                                    IF q \in Transactions THEN store[q] ELSE Null]
          BY <5>1, ReachedType
        <5>3. serving[k].seen \in Table /\ r \in Records
          BY DEF Typed, TypeOK, Serving, Records
        <5> QED
          BY <5>2, <5>3 DEF SeenVersion, StoredVersion, Table
      <4>4. CASE BeginPush(k) \/ RollBack(k)
        BY <4>2, <4>4 DEF BeginPush, RollBack, Serve, NotServed, Typed, TypeOK
      <4>5. CASE \A j \in Keys : ~PushStep(j)
        BY <4>1, <4>5, OthersLeaveServer
      <4>6. ASSUME NEW j \in Keys \ {k}, PushStep(j)
            PROVE  serving'[k] = serving[k]
        BY <4>6, PushStepFrame
      <4> QED
        BY <1>2, <4>1, <4>3, <4>4, <4>5, <4>6 DEF PushStep
    <3> QED
      BY <2>2, <3>1, <3>2
  <2> QED
    BY <2>3, <2>4 DEF Counted
<1> QED
  BY <1>1, <1>2

\* The version of a transaction on the server is the number of batches that were accepted
\* for it: each counts once, whatever is repeated or rolled back (SyncService.push). Once
\* pushes have overlapped on it, it is at most that number.
THEOREM VersionsCountAcceptedBatches == Spec => []VersionCountsAccepted
<1>1. Counted => VersionCountsAccepted
  BY DEF Counted
<1> QED
  BY <1>1, InitTyped, NextTyped, InitCounted, NextCounted, PTL DEF Spec

(***************************************************************************)
(* Push before pull: when an engine pulls, every transaction that was      *)
(* pending when its cycle read the disk has been answered.  Other tabs     *)
(* write the same disk at any time.                                        *)
(***************************************************************************)

-----------------------------------------------------------------------------
(* What is true between two pulls.  A row that was pending at the snapshot  *)
(* is in what is left of it, in the batch under way, or among the answers   *)
(* not yet written down; a request is answered for every transaction in it; *)
(* and nothing that comes from the server is pending.                       *)

Outstanding(t, r) ==
  LET e == engine[t]
  IN  \/ e.phase = "sending" /\ (e.todo[r] # Null \/ e.acks[r] # Null)
      \/ e.phase = "pushing" /\ (e.todo[r] # Null \/ requests[e.key].rows[r] # Null)

\* The phases of a cycle once pending() has read the transactions.
Collected == {"sending", "pushing", "pulling"}

Covered(t) ==
  engine[t].phase \in Collected =>
    \A r \in Transactions :
      /\ IsPending(db[DeviceOf[t]], r)
      /\ db[DeviceOf[t]][r].rev <= engine[t].began
      => Outstanding(t, r)

Settled(row) == row # Null => row.sync_status = "synced"

PageSettled(e) == e.page # Null => \A r \in Transactions : Settled(e.page.rows[r])

\* What engine t owes to the order of its cycle.
InOrder(t) ==
  /\ engine[t].began <= edits
  /\ engine[t].phase = "pushing" => requests[engine[t].key] # Null
  /\ PageSettled(engine[t])
  /\ Covered(t)

ServerSettled ==
  /\ \A r \in Transactions : Settled(store[r])
  /\ \A k \in Keys : operations[k] # Null =>
       /\ requests[k] # Null
       /\ \A r \in Transactions :
            requests[k].rows[r] # Null => operations[k][r] # Null

Ordered == ServerSettled /\ \A t \in Tabs : InOrder(t)

\* A step writes to the disk new actions of the user and rows that await nothing.
FreshOrSettled ==
  \A d \in Devices, r \in Transactions :
    \/ db'[d][r] = db[d][r]
    \/ ~IsPending(db'[d], r)
    \/ db'[d][r].rev = edits + 1

-----------------------------------------------------------------------------
\* An engine that a step leaves alone stays in order.
LEMMA OthersInOrder ==
  ASSUME Typed, Ordered, NEW t \in Tabs, engine'[t] = engine[t], edits' >= edits,
         edits' \in Nat, RequestsStay, FreshOrSettled
  PROVE  InOrder(t)'
<1>1. InOrder(t) /\ DeviceOf[t] \in Devices /\ engine[t] \in Engine
  BY EngineFields DEF Ordered
<1>2. engine[t].began \in Nat /\ edits \in Nat
  BY <1>1 DEF Engine, Typed, TypeOK
<1>3. engine'[t].began <= edits'
  BY <1>1, <1>2 DEF InOrder
<1>4. engine[t].phase = "pushing" =>
        /\ requests[engine[t].key] # Null
        /\ requests'[engine[t].key] = requests[engine[t].key]
  BY <1>1, EngineFields DEF InOrder, RequestsStay
<1>5. PageSettled(engine'[t])
  BY <1>1 DEF InOrder
<1>6. Covered(t)'
  <2> SUFFICES ASSUME engine[t].phase \in Collected, NEW r \in Transactions,
                      IsPending(db'[DeviceOf[t]], r),
                      db'[DeviceOf[t]][r].rev <= engine[t].began
               PROVE  Outstanding(t, r)'
    BY DEF Covered
  <2>1. db'[DeviceOf[t]][r].rev # edits + 1
    BY <1>1, <1>2 DEF InOrder
  <2>2. IsPending(db[DeviceOf[t]], r) /\ db[DeviceOf[t]][r].rev <= engine[t].began
    BY <1>1, <2>1 DEF FreshOrSettled, IsPending
  <2>3. Outstanding(t, r)
    BY <1>1, <2>2 DEF InOrder, Covered
  <2> QED
    BY <1>4, <2>3 DEF Outstanding
<1> QED
  BY <1>3, <1>4, <1>5, <1>6 DEF InOrder, PageSettled, Settled

-----------------------------------------------------------------------------
\* A step that leaves the server alone and never takes back a request.
LEMMA ServerStaysSettled ==
  ASSUME ServerSettled, UNCHANGED <<operations, store>>, RequestsStay
  PROVE  ServerSettled'
  BY DEF ServerSettled, RequestsStay, Settled

\* The user's steps: what they write is new, and they leave the engines alone.
LEMMA UserKeepsOrder ==
  ASSUME Typed, Ordered, NEW t \in Tabs, UserStep(t)
  PROVE  Ordered'
<1>1. UNCHANGED <<operations, store, requests>>
  BY DEF UserStep, Create, Edit, Written, BeginRemove, FinishRemove, Hydrate, Restart
<1>2. RequestsStay
  BY <1>1 DEF RequestsStay
<1>3. edits \in Nat /\ DeviceOf[t] \in Devices
  BY EngineFields DEF Typed, TypeOK
<1>4. edits' \in Nat /\ edits' >= edits
  <2>1. edits' = edits \/ edits' = edits + 1
    BY DEF UserStep, Create, Edit, Written, BeginRemove, FinishRemove, Hydrate, Restart
  <2> QED
    BY <1>3, <2>1
<1>5. FreshOrSettled
  <2>1. ASSUME NEW r \in Records, NEW row, row.rev = edits + 1, Written(t, r, row)
        PROVE  FreshOrSettled
    BY <2>1, <1>3 DEF Written, Put, FreshOrSettled, Typed, TypeOK, Table, Records
  <2>2. ASSUME NEW r \in Records, NEW amount \in Amounts, Create(t, r, amount)
        PROVE  FreshOrSettled
    BY <2>1, <2>2 DEF Create
  <2>3. ASSUME NEW r \in Records, NEW amount \in Amounts, Edit(t, r, amount)
        PROVE  FreshOrSettled
    <3>1. shown[t][r] \in Row
      BY <2>3 DEF Edit, IsLive, Typed, TypeOK, Table
    <3> DEFINE row == [shown[t][r] EXCEPT !.rev = edits + 1, !.amount_minor = amount,
                         !.updated_at = Clock(DeviceOf[t]), !.sync_status = "pending"]
    <3>2. row.rev = edits + 1
      BY <3>1 DEF Row
    <3>3. Written(t, r, row)
      BY <2>3 DEF Edit
    <3> HIDE DEF row
    <3> QED
      BY <2>1, <3>2, <3>3
  <2>4. CASE FinishRemove(t)
    <3> DEFINE del == removing[t]
               row == Tombstone(del.row, del.at)
    <3>1. db' = [db EXCEPT ![DeviceOf[t]] = Put(@, del.id, row)]
      BY <2>4 DEF FinishRemove
    <3>2. del.id \in Records /\ del.row \in Row
      BY <2>4 DEF FinishRemove, Typed, TypeOK
    <3>3. row.rev = edits + 1
      BY <3>2 DEF Tombstone, Row
    <3> HIDE DEF del, row
    <3> QED
      BY <3>1, <3>2, <3>3, <1>3 DEF Put, FreshOrSettled, Typed, TypeOK, Table, Records
  <2>5. CASE db' = db
    BY <2>5 DEF FreshOrSettled
  <2> QED
    BY <2>2, <2>3, <2>4, <2>5 DEF UserStep, BeginRemove, Hydrate, Restart
<1>6. ASSUME NEW u \in Tabs
      PROVE  InOrder(u)'
  <2>1. CASE engine'[u] = engine[u]
    BY <2>1, <1>2, <1>4, <1>5, OthersInOrder
  <2>2. CASE engine'[u] = Idle(0, FALSE)
    BY <2>2, <1>4 DEF Idle, InOrder, PageSettled, Covered, Collected
  <2>3. engine'[u] = engine[u] \/ engine'[u] = Idle(0, FALSE)
    BY DEF UserStep, Create, Edit, Written, BeginRemove, FinishRemove, Hydrate, Restart,
           Typed, TypeOK
  <2> QED
    BY <2>1, <2>2, <2>3
<1> QED
  BY <1>1, <1>2, <1>6, ServerStaysSettled DEF Ordered

-----------------------------------------------------------------------------
\* A step of engine t keeps the order if it leaves t itself in order.
LEMMA EngineKeepsOrder ==
  ASSUME Typed, Ordered, NEW t \in Tabs, NEW next, EngineStep(t, next),
         RequestsStay, FreshOrSettled, InOrder(t)'
  PROVE  Ordered'
<1>1. /\ UNCHANGED <<edits, operations, store>>
      /\ \A u \in Tabs \ {t} : engine'[u] = engine[u]
  BY DEF EngineStep, Typed, TypeOK
<1>2. edits' \in Nat /\ edits' >= edits
  BY <1>1 DEF Typed, TypeOK
<1>3. \A u \in Tabs \ {t} : InOrder(u)'
  BY <1>1, <1>2, OthersInOrder
<1> QED
  BY <1>1, <1>3, ServerStaysSettled DEF Ordered

\* A step of engine t that leaves the disk and the requests alone.
LEMMA SteadyKeepsOrder ==
  ASSUME Typed, Ordered, NEW t \in Tabs, NEW next, EngineStep(t, next),
         UNCHANGED <<db, requests>>,
         next.began <= edits,
         next.phase # "pushing",
         next.page = Null \/ next.page = engine[t].page,
         next.phase \in Collected =>
           \A r \in Transactions :
             IsPending(db[DeviceOf[t]], r) /\ db[DeviceOf[t]][r].rev <= next.began
               => next.phase = "sending" /\ (next.todo[r] # Null \/ next.acks[r] # Null)
  PROVE  Ordered'
<1>1. engine'[t] = next /\ edits' = edits
  BY DEF EngineStep, Typed, TypeOK
<1>2. RequestsStay /\ FreshOrSettled
  BY DEF RequestsStay, FreshOrSettled
<1>3. PageSettled(engine'[t])
  BY <1>1 DEF Ordered, InOrder, PageSettled
<1>4. Covered(t)'
  BY <1>1 DEF Covered, Outstanding
<1>5. InOrder(t)'
  BY <1>1, <1>3, <1>4 DEF InOrder, PageSettled, Settled
<1> QED
  BY <1>2, <1>5, EngineKeepsOrder

\* What the order of engine t says of a row in each phase.
LEMMA OrderOfRow ==
  ASSUME Typed, Ordered, NEW t \in Tabs, NEW r \in Transactions,
         IsPending(db[DeviceOf[t]], r), db[DeviceOf[t]][r].rev <= engine[t].began,
         engine[t].phase \in Collected
  PROVE  /\ engine[t].phase \in {"sending", "pushing"}
         /\ engine[t].phase = "sending" => engine[t].todo[r] # Null \/ engine[t].acks[r] # Null
         /\ engine[t].phase = "pushing" =>
              engine[t].todo[r] # Null \/ requests[engine[t].key].rows[r] # Null
  BY DEF Ordered, InOrder, Covered, Outstanding

LEMMA EndCycleKeepsOrder ==
  ASSUME Typed, Ordered, NEW t \in Tabs, NEW since \in Nat, NEW wrote,
         EndCycle(t, since, wrote), RequestsStay, FreshOrSettled
  PROVE  Ordered'
<1>1. EngineStep(t, Idle(since, TRUE))
  BY DEF EndCycle
<1>2. engine'[t] = Idle(since, TRUE) /\ edits' = edits /\ edits \in Nat
  BY <1>1 DEF EngineStep, Typed, TypeOK
<1>3. InOrder(t)'
  BY <1>2 DEF Idle, InOrder, PageSettled, Covered, Collected
<1> QED
  BY <1>1, <1>3, EngineKeepsOrder

\* Before the transactions are read nothing is owed; then everything pending is listed.
LEMMA ReadingKeepsOrder ==
  ASSUME Typed, Ordered, NEW t \in Tabs, Wake(t) \/ ReadBanks(t) \/ ReadTransactions(t)
  PROVE  Ordered'
<1>1. edits \in Nat /\ engine[t].began <= edits
  BY DEF Typed, TypeOK, Ordered, InOrder
<1>2. CASE Wake(t)
  <2> DEFINE todo == Only(Pending(db[DeviceOf[t]]), Categories \ Banks)
             next == [engine[t] EXCEPT !.phase = "banks", !.todo = todo]
  <2>1. /\ next.phase = "banks" /\ next.began = engine[t].began
        /\ next.page = engine[t].page
    BY EngineFields DEF Engine
  <2>2. EngineStep(t, next) /\ UNCHANGED <<db, requests>>
    BY <1>2 DEF Wake
  <2> HIDE DEF next
  <2> QED
    BY <1>1, <2>1, <2>2, SteadyKeepsOrder DEF Collected
<1>3. CASE ReadBanks(t)
  <2> DEFINE todo == BulkPut(engine[t].todo, Only(Pending(db[DeviceOf[t]]), Banks))
             next == [engine[t] EXCEPT !.phase = "transactions", !.todo = todo]
  <2>1. /\ next.phase = "transactions" /\ next.began = engine[t].began
        /\ next.page = engine[t].page
    BY EngineFields DEF Engine
  <2>2. EngineStep(t, next) /\ UNCHANGED <<db, requests>>
    BY <1>3 DEF ReadBanks
  <2> HIDE DEF next
  <2> QED
    BY <1>1, <2>1, <2>2, SteadyKeepsOrder DEF Collected
<1>4. CASE ReadTransactions(t)
  <2> DEFINE pending == Pending(db[DeviceOf[t]])
             todo    == BulkPut(engine[t].todo, Only(pending, Transactions))
             next    == [engine[t] EXCEPT !.phase = "sending", !.began = edits, !.todo = todo]
  <2>1. /\ next.phase = "sending" /\ next.began = edits
        /\ next.page = engine[t].page /\ next.todo = todo
    BY EngineFields DEF Engine
  <2>2. EngineStep(t, next) /\ UNCHANGED <<db, requests>>
    BY <1>4 DEF ReadTransactions
  <2>3. \A r \in Transactions :
          IsPending(db[DeviceOf[t]], r) => todo[r] # Null
    BY DEF IsPending, BulkPut, Pending, Only, Ids, Records
  <2> HIDE DEF next, todo
  <2> QED
    BY <1>1, <2>1, <2>2, <2>3, SteadyKeepsOrder
<1> QED
  BY <1>2, <1>3, <1>4

\* A row of the snapshot is left in it, or goes into the batch.
LEMMA SendBatchKeepsOrder ==
  ASSUME Typed, Ordered, NEW t \in Tabs, SendBatch(t)
  PROVE  Ordered'
<1>1. PICK S \in Batches(engine[t].todo), k \in Keys :
        /\ requests[k] = Null
        /\ requests' = [requests EXCEPT ![k] =
                          [device_id |-> DeviceOf[t], client_time |-> Clock(DeviceOf[t]),
                           rows |-> Only(engine[t].todo, S)]]
        /\ EngineStep(t, [engine[t] EXCEPT !.phase = "pushing", !.key = k,
                            !.todo = Only(@, Records \ S)])
  BY DEF SendBatch
<1> DEFINE next == [engine[t] EXCEPT !.phase = "pushing", !.key = k,
                                     !.todo = Only(@, Records \ S)]
           sent == [device_id |-> DeviceOf[t], client_time |-> Clock(DeviceOf[t]),
                    rows |-> Only(engine[t].todo, S)]
<1>2. requests'[k] = sent /\ RequestsStay /\ FreshOrSettled
  BY <1>1 DEF RequestsStay, FreshOrSettled, Typed, TypeOK, SendBatch
<1>3. sent # Null
  <2>1. sent \in Request
    BY EngineFields, OnlyType, ClockType DEF Request, Typed
  <2> QED
    BY <2>1, NullRequestAssumption DEF NullRequestAssumption
<1>4. EngineStep(t, next) /\ engine'[t] = next /\ edits' = edits
  BY <1>1 DEF EngineStep, Typed, TypeOK
<1>5. /\ next.phase = "pushing" /\ next.key = k /\ next.began = engine[t].began
      /\ next.page = engine[t].page /\ next.todo = Only(engine[t].todo, Records \ S)
  BY EngineFields DEF Engine
<1> HIDE DEF next
<1>6. PageSettled(next)
  BY <1>5 DEF Ordered, InOrder, PageSettled
<1>7. Covered(t)'
  <2> SUFFICES ASSUME NEW r \in Transactions, IsPending(db[DeviceOf[t]], r),
                      db[DeviceOf[t]][r].rev <= engine[t].began
               PROVE  next.todo[r] # Null \/ sent.rows[r] # Null
    BY <1>2, <1>4, <1>5 DEF Covered, Outstanding, SendBatch
  <2>1. engine[t].todo[r] # Null
    <3>1. engine[t].phase = "sending" /\ engine[t].acks = Empty
      BY DEF SendBatch, Marked
    <3> QED
      BY <3>1, OrderOfRow DEF Empty, Records, Collected
  <2> QED
    BY <1>5, <2>1 DEF Only, Records
<1>8. InOrder(t)'
  BY <1>2, <1>3, <1>4, <1>5, <1>6, <1>7 DEF InOrder, Ordered, PageSettled, Settled
<1> QED
  BY <1>2, <1>4, <1>8, EngineKeepsOrder

\* The answers name every transaction of the batch.
LEMMA ReceiveAnswersKeepsOrder ==
  ASSUME Typed, Ordered, NEW t \in Tabs, ReceiveAnswers(t)
  PROVE  Ordered'
<1> DEFINE next == [engine[t] EXCEPT !.phase = "sending",
                      !.acks = operations[engine[t].key], !.key = 0]
<1>1. engine[t].key \in Keys /\ operations[engine[t].key] # Null
  BY EngineFields DEF ReceiveAnswers
<1>2. operations[engine[t].key] \in AnswerTable
  BY <1>1 DEF Typed, TypeOK
<1>3. /\ next \in Engine /\ next.phase = "sending" /\ next.began = engine[t].began
      /\ next.page = engine[t].page /\ next.todo = engine[t].todo
      /\ next.acks = operations[engine[t].key]
  BY <1>2, EngineFields DEF Engine
<1>4. EngineStep(t, next) /\ UNCHANGED <<db, requests>>
  BY DEF ReceiveAnswers
<1> HIDE DEF next
<1>5. ASSUME NEW r \in Transactions, IsPending(db[DeviceOf[t]], r),
             db[DeviceOf[t]][r].rev <= next.began
      PROVE  next.todo[r] # Null \/ next.acks[r] # Null
  <2>1. engine[t].todo[r] # Null \/ requests[engine[t].key].rows[r] # Null
    BY <1>3, <1>5, OrderOfRow DEF ReceiveAnswers, Collected
  <2> QED
    BY <1>1, <1>3, <2>1 DEF Ordered, ServerSettled
<1>6. next.began <= edits
  BY <1>3 DEF Ordered, InOrder
<1> QED
  BY <1>3, <1>4, <1>5, <1>6, SteadyKeepsOrder

\* A row read to be marked is still among the answers.
LEMMA BeginMarkKeepsOrder ==
  ASSUME Typed, Ordered, NEW t \in Tabs, NEW q \in Records, BeginMark(t, q)
  PROVE  Ordered'
<1> DEFINE held == [id |-> q, row |-> db[DeviceOf[t]][q]]
           next == [engine[t] EXCEPT !.held = held]
<1>1. held \in [id : Records, row : Row]
  BY EngineFields DEF BeginMark, Table
<1>2. /\ next \in Engine /\ next.phase = "sending" /\ next.began = engine[t].began
      /\ next.page = engine[t].page /\ next.todo = engine[t].todo
      /\ next.acks = engine[t].acks
  BY <1>1, EngineFields DEF Engine, BeginMark
<1>3. EngineStep(t, next) /\ UNCHANGED <<db, requests>>
  BY DEF BeginMark
<1> HIDE DEF next
<1>4. next.began <= edits
  BY <1>2 DEF Ordered, InOrder
<1>5. ASSUME NEW r \in Transactions, IsPending(db[DeviceOf[t]], r),
             db[DeviceOf[t]][r].rev <= next.began
      PROVE  next.todo[r] # Null \/ next.acks[r] # Null
  BY <1>2, <1>5, OrderOfRow DEF BeginMark, Collected
<1> QED
  BY <1>2, <1>3, <1>4, <1>5, SteadyKeepsOrder

\* Nothing is left of the snapshot, so no row of it is pending.
LEMMA BeginPullKeepsOrder ==
  ASSUME Typed, Ordered, NEW t \in Tabs, BeginPull(t)
  PROVE  Ordered'
<1> DEFINE next == [engine[t] EXCEPT !.phase = "pulling"]
<1>1. /\ next \in Engine /\ next.phase = "pulling" /\ next.began = engine[t].began
      /\ next.page = engine[t].page
  BY EngineFields DEF Engine
<1>2. EngineStep(t, next) /\ UNCHANGED <<db, requests>>
  BY DEF BeginPull
<1> HIDE DEF next
<1>3. next.began <= edits
  BY <1>1 DEF Ordered, InOrder
<1>4. /\ engine[t].phase = "sending"
      /\ \A r \in Transactions : engine[t].todo[r] = Null /\ engine[t].acks[r] = Null
  BY DEF BeginPull, Marked, Empty, Records
<1>5. \A r \in Transactions :
        ~(IsPending(db[DeviceOf[t]], r) /\ db[DeviceOf[t]][r].rev <= next.began)
  BY <1>1, <1>4, OrderOfRow DEF Collected
<1> QED
  BY <1>1, <1>2, <1>3, <1>5, SteadyKeepsOrder

\* The row marked is pending no more, whatever was on the disk.
LEMMA FinishMarkKeepsOrder ==
  ASSUME Typed, Ordered, NEW t \in Tabs, FinishMark(t)
  PROVE  Ordered'
<1> DEFINE q == engine[t].held.id
           row == Marking(engine[t].held.row, engine[t].acks[q])
           next == [engine[t] EXCEPT !.held = Null, !.acks[q] = Null]
<1>1. /\ engine[t].held # Null /\ q \in Records /\ engine[t].held.row \in Row
      /\ engine[t].phase = "sending"
  BY EngineFields DEF FinishMark
<1>2. row.sync_status # "pending"
  BY <1>1 DEF Marking, Row
<1>3. /\ db' = [db EXCEPT ![DeviceOf[t]] = Put(@, q, row)]
      /\ EngineStep(t, next) /\ UNCHANGED requests
  BY DEF FinishMark
<1>4. /\ next.phase = "sending" /\ next.began = engine[t].began
      /\ next.page = engine[t].page /\ next.todo = engine[t].todo
      /\ \A r \in Records \ {q} : next.acks[r] = engine[t].acks[r]
  BY <1>1, EngineFields DEF Engine, AnswerTable
<1>5. engine'[t] = next /\ edits' = edits
  BY <1>3 DEF EngineStep, Typed, TypeOK
<1> HIDE DEF q, row, next
<1>6. \A d \in Devices, r \in Transactions :
        db'[d][r] = db[d][r] \/ (db'[d][r] = row /\ r = q)
  BY <1>1, <1>3 DEF Put, Typed, TypeOK, Table, Records
<1>7. db'[DeviceOf[t]][q] = row
  BY <1>1, <1>3, EngineFields DEF Put, Typed, TypeOK, Table
<1>8. FreshOrSettled /\ RequestsStay
  BY <1>2, <1>3, <1>6 DEF FreshOrSettled, RequestsStay, IsPending
<1>9. Covered(t)'
  <2> SUFFICES ASSUME NEW r \in Transactions, IsPending(db'[DeviceOf[t]], r),
                      db'[DeviceOf[t]][r].rev <= engine[t].began
               PROVE  next.todo[r] # Null \/ next.acks[r] # Null
    BY <1>4, <1>5 DEF Covered, Outstanding
  <2>1. r # q
    BY <1>2, <1>7 DEF IsPending
  <2>2. db'[DeviceOf[t]][r] = db[DeviceOf[t]][r]
    BY <1>6, <2>1, EngineFields
  <2>3. engine[t].todo[r] # Null \/ engine[t].acks[r] # Null
    BY <1>1, <2>2, OrderOfRow DEF IsPending, Collected
  <2> QED
    BY <1>4, <2>1, <2>3 DEF Records
<1>10. InOrder(t)'
  BY <1>4, <1>5, <1>9 DEF InOrder, Ordered, PageSettled, Settled
<1> QED
  BY <1>3, <1>8, <1>10, EngineKeepsOrder

\* Pulled transactions are not pending, and the rows they replace were answered.
LEMMA ReceivePageKeepsOrder ==
  ASSUME Typed, Ordered, NEW t \in Tabs, ReceivePage(t)
  PROVE  Ordered'
<1> DEFINE page == engine[t].page
<1>1. page \in Page /\ page # Null /\ page.server_time \in Nat /\ page.rows \in Table
  BY EngineFields DEF ReceivePage, Page
<1>2. \A r \in Transactions : Settled(page.rows[r])
  BY <1>1 DEF Ordered, InOrder, PageSettled
<1>3. /\ db' = [db EXCEPT ![DeviceOf[t]] = BulkPut(@, page.rows)]
      /\ requests' = requests
  BY DEF ReceivePage
<1> HIDE DEF page
<1>4. \A d \in Devices, r \in Transactions :
        \/ db'[d][r] = db[d][r]
        \/ db'[d][r] = page.rows[r] /\ page.rows[r] # Null
  BY <1>3 DEF BulkPut, Typed, TypeOK, Table, Records
<1>5. FreshOrSettled /\ RequestsStay
  BY <1>2, <1>3, <1>4 DEF FreshOrSettled, RequestsStay, IsPending, Settled
<1>6. CASE \E wrote : EndCycle(t, page.server_time, wrote)
  BY <1>1, <1>5, <1>6, EndCycleKeepsOrder
<1>7. CASE ~ \E wrote : EndCycle(t, page.server_time, wrote)
  <2>1. PICK pages, wrote :
          EngineStep(t, [engine[t] EXCEPT
            !.page = Null, !.cursor = page.next_cursor, !.pages = pages,
            !.wrote = wrote, !.lastPulledAt = page.server_time])
    BY <1>7 DEF ReceivePage, page
  <2> DEFINE next == [engine[t] EXCEPT
            !.page = Null, !.cursor = page.next_cursor, !.pages = pages,
            !.wrote = wrote, !.lastPulledAt = page.server_time]
  <2>2. next.page = Null /\ next.phase = "pulling" /\ next.began = engine[t].began
    BY EngineFields DEF Engine, ReceivePage
  <2>3. EngineStep(t, next)
    BY <2>1
  <2> HIDE DEF next
  <2>4. engine'[t] = next /\ edits' = edits
    BY <2>3 DEF EngineStep, Typed, TypeOK
  <2>5. Covered(t)'
    <3> SUFFICES ASSUME NEW r \in Transactions, IsPending(db'[DeviceOf[t]], r),
                        db'[DeviceOf[t]][r].rev <= engine[t].began
                 PROVE  FALSE
      BY <2>2, <2>4 DEF Covered
    <3>1. db'[DeviceOf[t]][r] = db[DeviceOf[t]][r]
      BY <1>2, <1>4, EngineFields DEF IsPending, Settled
    <3> QED
      BY <3>1, OrderOfRow DEF IsPending, ReceivePage, Collected
  <2>6. InOrder(t)'
    BY <2>2, <2>4, <2>5 DEF InOrder, Ordered, PageSettled
  <2> QED
    BY <1>5, <2>3, <2>6, EngineKeepsOrder
<1> QED
  BY <1>6, <1>7

LEMMA EngineActionKeepsOrder ==
  ASSUME Typed, Ordered, NEW t \in Tabs, EngineAction(t)
  PROVE  Ordered'
<1>1. CASE Offline(t) \/ Fail(t) \/ NoKeyLeft(t) \/ ReceiveError(t)
  <2>1. RequestsStay /\ FreshOrSettled
    BY <1>1 DEF Offline, Fail, NoKeyLeft, ReceiveError, RequestsStay, FreshOrSettled
  <2> QED
    BY <1>1, <2>1, EngineFields, EndCycleKeepsOrder
    DEF Offline, Fail, NoKeyLeft, ReceiveError
<1> QED
  BY <1>1, ReadingKeepsOrder, SendBatchKeepsOrder, ReceiveAnswersKeepsOrder,
     BeginMarkKeepsOrder, FinishMarkKeepsOrder, BeginPullKeepsOrder,
     ReceivePageKeepsOrder DEF EngineAction

-----------------------------------------------------------------------------
(* The server. *)

\* What is stored is synced, and a batch is answered for all its transactions.
LEMMA CommitSettles ==
  ASSUME Typed, ServerSettled, NEW k \in Keys, CommitPush(k)
  PROVE  ServerSettled'
<1>1. /\ requests' = requests /\ requests[k] # Null
      /\ \A j \in Keys \ {k} : operations'[j] = operations[j]
  BY PushStepFrame DEF PushStep, CommitPush, Typed, Served
<1>2. \A r \in Transactions :
        /\ Settled(store'[r])
        /\ requests[k].rows[r] # Null => operations'[k][r] # Null
  BY CommitPushEffect DEF ServerSettled, Settled
<1> QED
  BY <1>1, <1>2 DEF ServerSettled, Settled

LEMMA PushStepKeepsOrder ==
  ASSUME Typed, Ordered, NEW k \in Keys, PushStep(k)
  PROVE  Ordered'
<1>1. UNCHANGED <<engine, edits, db, requests>>
  BY PushStepFrame
<1>2. RequestsStay /\ FreshOrSettled /\ edits' \in Nat /\ edits' >= edits
  BY <1>1 DEF RequestsStay, FreshOrSettled, Typed, TypeOK
<1>3. ServerSettled'
  <2>1. CASE CommitPush(k)
    BY <2>1, CommitSettles DEF Ordered
  <2>2. CASE ~CommitPush(k)
    BY <2>2, <1>2, PushStepFrame, ServerStaysSettled DEF Ordered
  <2> QED
    BY <2>1, <2>2
<1>4. \A t \in Tabs : InOrder(t)'
  BY <1>1, <1>2, OthersInOrder
<1> QED
  BY <1>3, <1>4 DEF Ordered

LEMMA ServerPullKeepsOrder ==
  ASSUME Typed, Ordered, NEW t \in Tabs, ServerPull(t)
  PROVE  Ordered'
<1>1. PICK page \in PullPages(store, engine[t].lastPulledAt, engine[t].cursor, now) :
        engine' = [engine EXCEPT
          ![t].page = page,
          ![t].base = IF engine[t].lastPulledAt = 0 THEN store ELSE @]
  BY DEF ServerPull
<1>2. PICK S : page.rows = Only(store, S)
  BY DEF PullPages
<1>3. \A r \in Transactions : Settled(page.rows[r])
  BY <1>2 DEF Only, Records, Settled, Ordered, ServerSettled
<1>4. /\ engine'[t].phase = engine[t].phase /\ engine'[t].began = engine[t].began
      /\ engine'[t].page = page
      /\ \A u \in Tabs \ {t} : engine'[u] = engine[u]
  BY <1>1, EngineFields DEF Typed, TypeOK, Engine
<1>5. UNCHANGED <<edits, db, requests, operations, store>>
  BY DEF ServerPull
<1>6. RequestsStay /\ FreshOrSettled /\ edits' \in Nat /\ edits' >= edits
  BY <1>5 DEF RequestsStay, FreshOrSettled, Typed, TypeOK
<1>7. Covered(t)'
  <2>1. engine[t].phase = "pulling"
    BY DEF ServerPull
  <2> QED
    BY <1>4, <1>5, <2>1, OrderOfRow DEF Covered, Collected
<1>8. InOrder(t)'
  BY <1>3, <1>4, <1>5, <1>7 DEF InOrder, Ordered, PageSettled, Settled, ServerPull
<1>9. \A u \in Tabs \ {t} : InOrder(u)'
  BY <1>4, <1>6, OthersInOrder
<1> QED
  BY <1>5, <1>6, <1>8, <1>9, ServerStaysSettled DEF Ordered

-----------------------------------------------------------------------------
LEMMA InitOrdered == Init => Ordered
<1> SUFFICES ASSUME Init PROVE Ordered
  OBVIOUS
<1>1. ServerSettled
  BY DEF Init, ServerSettled, Settled, Empty, Records
<1>2. \A t \in Tabs : InOrder(t)
  BY DEF Init, Idle, InOrder, PageSettled, Covered, Collected
<1> QED
  BY <1>1, <1>2 DEF Ordered

LEMMA NextOrdered == Typed /\ Ordered /\ [Next]_vars => Ordered'
<1> SUFFICES ASSUME Typed, Ordered, [Next]_vars PROVE Ordered'
  OBVIOUS
<1>1. CASE Tick \/ UNCHANGED vars
  BY <1>1 DEF Tick, vars, Ordered, ServerSettled, Settled, InOrder, PageSettled, Covered,
              Outstanding
<1>2. ASSUME NEW t \in Tabs, UserStep(t) PROVE Ordered'
  BY <1>2, UserKeepsOrder
<1>3. ASSUME NEW t \in Tabs, EngineAction(t) PROVE Ordered'
  BY <1>3, EngineActionKeepsOrder
<1>4. CASE ServerStep
  BY <1>4, PushStepKeepsOrder, ServerPullKeepsOrder DEF ServerStep
<1> QED
  BY <1>1, <1>2, <1>3, <1>4 DEF Next

\* While an engine pulls, what is still pending on its disk is newer than the
\* snapshot its cycle pushed, with any number of tabs on that disk (runOnce).
THEOREM PushComesBeforePull == Spec => []PushBeforePull
<1>1. Typed /\ Ordered => PushBeforePull
  <2> SUFFICES ASSUME Typed, Ordered, NEW t \in Tabs, NEW r \in Transactions,
                      engine[t].phase = "pulling", IsPending(db[DeviceOf[t]], r)
               PROVE  db[DeviceOf[t]][r].rev > engine[t].began
    BY DEF PushBeforePull
  <2>1. db[DeviceOf[t]][r] \in Row /\ engine[t].began \in Nat
    BY EngineFields DEF IsPending, Table, Records, Engine
  <2>2. ~(db[DeviceOf[t]][r].rev <= engine[t].began)
    BY OrderOfRow DEF Collected
  <2> QED
    BY <2>1, <2>2 DEF Row
<1> QED
  BY <1>1, InitTyped, NextTyped, InitOrdered, NextOrdered, PTL DEF Spec

-----------------------------------------------------------------------------
(* Pushes that wait for each other.  Every push goes through its rows in    *)
(* the order of its loops, and waits for a push that has passed the row it  *)
(* wants to write; round a circle of such waits the rows would rise for     *)
(* ever in any order that all of them followed.                             *)

\* The rows a push has got to; those it has passed do not come after the one it is at, and
\* none of those that are left comes before them.
Seen(push) == push.passed \cup ({push.row} \ {0})

InLoop(push, rows) ==
  /\ Seen(push) \subseteq Ids(rows)
  /\ push.row \notin push.passed
  /\ push.row # 0 => \A q \in push.passed : ~Before(rows, push.row, q)
  /\ \A r \in Ids(rows) \ Seen(push), q \in Seen(push) : ~Before(rows, r, q)

InLoops ==
  \A k \in Keys :
    IF serving[k].state = "open" THEN InLoop(serving[k], requests[k].rows)
                                 ELSE serving[k].passed = {}

LEMMA NoRecordZero == 0 \notin Records
  BY IdsAssumption DEF Records, IdsAssumption

LEMMA InitInLoops == Init => InLoops
  BY DEF Init, NotServed, InLoops

LEMMA ReachRowInLoop ==
  ASSUME Typed, InLoops, NEW k \in Keys, NEW r \in Records, ReachRow(k, r)
  PROVE  InLoop(Reached(k, r), requests[k].rows)
<1> DEFINE rows == requests[k].rows
           push == serving[k]
           next == Reached(k, r)
<1>1. /\ r \in Left(k) /\ \A q \in Left(k) : ~Before(rows, q, r)
      /\ InLoop(push, rows)
  BY DEF ReachRow, InLoops
<1>2. next.row = r /\ next.passed = Seen(push)
  BY ReachedType DEF Seen
<1>3. r # 0 /\ \A q \in Ids(rows) : q # 0
  BY NoRecordZero DEF Ids
<1>4. Left(k) = Ids(rows) \ Seen(push)
  BY <1>3 DEF Left, Seen
<1> HIDE DEF rows, push, next
<1>5. Seen(next) = Seen(push) \cup {r}
  BY <1>2, <1>3 DEF Seen
<1> QED
  BY <1>1, <1>2, <1>4, <1>5 DEF InLoop, rows, next

LEMMA NextInLoops == Typed /\ InLoops /\ [Next]_vars => InLoops'
<1> SUFFICES ASSUME Typed, InLoops, [Next]_vars PROVE InLoops'
  OBVIOUS
<1>1. \A k \in Keys : serving[k].state = "open" => requests'[k] = requests[k]
  BY NextRequestsStay DEF RequestsStay, Typed, Served
<1>2. ASSUME NEW k \in Keys, PushStep(k)
      PROVE  InLoops'
  <2>1. requests' = requests /\ \A j \in Keys \ {k} : serving'[j] = serving[j]
    BY <1>2, PushStepFrame
  <2>2. IF serving'[k].state = "open" THEN InLoop(serving'[k], requests[k].rows)
                                      ELSE serving'[k].passed = {}
    <3>1. CASE serving'[k].passed = {} /\ serving'[k].row = 0
      BY <3>1 DEF InLoop, Seen
    <3>2. ASSUME NEW r \in Records, ReachRow(k, r)
          PROVE  serving'[k].state = "open" /\ InLoop(serving'[k], requests[k].rows)
      <4>1. serving[k].state = "open" /\ serving' = [serving EXCEPT ![k] = Reached(k, r)]
        BY <3>2 DEF ReachRow, Serve, Reached
      <4>2. serving'[k] = Reached(k, r)
        BY <4>1 DEF Typed, TypeOK
      <4>3. Reached(k, r).state = "open"
        BY <4>1, ReachedType
      <4> QED
        BY <3>2, <4>2, <4>3, ReachRowInLoop
    <3>3. CASE BeginPush(k) \/ CommitPush(k) \/ RollBack(k)
      <4>1. PICK push : Serve(k, push) /\ push.passed = {} /\ push.row = 0
        <5>1. CASE BeginPush(k)
          <6> DEFINE begun == [NotServed EXCEPT !.state = "open",
                                                !.skew = now - requests[k].client_time]
          <6>1. Serve(k, begun)
            BY <5>1 DEF BeginPush
          <6>2. begun.passed = {} /\ begun.row = 0
            BY DEF NotServed
          <6> HIDE DEF begun
          <6> QED
            BY <6>1, <6>2
        <5>2. CASE CommitPush(k) \/ RollBack(k)
          BY <5>2 DEF CommitPush, RollBack, NotServed
        <5> QED
          BY <3>3, <5>1, <5>2
      <4>2. serving'[k].passed = {} /\ serving'[k].row = 0
        BY <4>1 DEF Serve, Typed, TypeOK
      <4> QED
        BY <3>1, <4>2
    <3> QED
      BY <1>2, <3>2, <3>3 DEF PushStep
  <2> QED
    BY <2>1, <2>2 DEF InLoops
<1>3. CASE \A k \in Keys : ~PushStep(k)
  <2>1. serving' = serving
    BY <1>3, OthersLeaveServer
  <2> QED
    BY <1>1, <2>1 DEF InLoops
<1> QED
  BY <1>2, <1>3

LEMMA WaitsRise ==
  ASSUME Typed, InLoops, NEW S \in SUBSET Keys, Circle(S),
         NEW order \in [Records -> 1..Cardinality(Records)], ListedAlike(S, order),
         NEW k \in S
  PROVE  \E j \in S : order[serving[k].row] < order[serving[j].row]
<1>1. PICK j \in S, i \in S : WaitsFor(k, j) /\ WaitsFor(j, i)
  BY DEF Circle
<1> DEFINE r == serving[k].row
           q == serving[j].row
           rows == requests[j].rows
<1>2. r \in serving[j].passed /\ q \in serving[i].passed
  BY <1>1 DEF WaitsFor, Locks
<1>3. serving[j].passed \subseteq Records /\ serving[i].passed \subseteq Records
  BY DEF Typed, TypeOK, Serving
<1>4. r # 0 /\ q # 0
  BY <1>2, <1>3, NoRecordZero
<1>5. InLoop(serving[j], rows)
  BY <1>2 DEF InLoops
<1>6. r \in Ids(rows) /\ q \in Ids(rows) /\ r # q /\ ~Before(rows, q, r)
  BY <1>2, <1>4, <1>5 DEF InLoop, Seen
<1>7. \/ order[r] < order[q] /\ Before(rows, r, q)
      \/ order[q] < order[r] /\ Before(rows, q, r)
  BY <1>6 DEF ListedAlike
<1> QED
  BY <1>6, <1>7

\* Pushes whose rows are all listed by one order never wait for each other in a circle
\* (SyncService.push takes them as they were sent).
THEOREM DeadlocksTakeTwoOrders == Spec => []DeadlockTakesTwoOrders
<1>1. Typed /\ InLoops => DeadlockTakesTwoOrders
  <2> SUFFICES ASSUME Typed, InLoops, NEW S \in SUBSET Keys, S # {}, Circle(S),
                      NEW order \in [Records -> 1..Cardinality(Records)],
                      ListedAlike(S, order)
               PROVE  FALSE
    BY DEF DeadlockTakesTwoOrders
  <2> DEFINE rank(k)  == order[serving[k].row]
             above(k) == {j \in S : rank(k) < rank(j)}
             all      == {above(k) : k \in S}
  <2>1. IsFiniteSet(Keys)
    BY FS_Interval, BoundsAssumption DEF Keys, BoundsAssumption
  <2>2. \A k \in S : rank(k) \in Int
    <3> SUFFICES ASSUME NEW k \in S
                 PROVE  order[serving[k].row] \in Int
      OBVIOUS
    <3>1. PICK j \in S : WaitsFor(k, j)
      BY DEF Circle
    <3>2. serving[k].row \in Records
      BY <3>1 DEF WaitsFor, Locks, Typed, TypeOK, Serving
    <3> QED
      BY <3>2
  <2>3. all \subseteq FiniteSubsetsOf(Keys)
    <3>1. \A k \in S : above(k) \in SUBSET Keys
      OBVIOUS
    <3> QED
      BY <2>1, <3>1, FS_FiniteSubsetsOfFinite
  <2>4. all # {}
    OBVIOUS
  <2>5. \E x \in all : \A y \in all : <<y, x>> \notin StrictSubsetOrdering(Keys)
    <3> HIDE DEF all
    <3> QED
      BY <2>3, <2>4, WFMin, FS_StrictSubsetOrderingWellFounded
  <2>6. PICK k \in S : \A j \in S : <<above(j), above(k)>> \notin StrictSubsetOrdering(Keys)
    BY <2>5
  <2>7. PICK j \in S : rank(k) < rank(j)
    BY WaitsRise
  <2> HIDE DEF rank
  <2>8. above(j) \subseteq above(k)
    BY <2>2, <2>7
  <2>9. j \in above(k) /\ j \notin above(j)
    BY <2>2, <2>7
  <2>10. <<above(j), above(k)>> \in StrictSubsetOrdering(Keys)
    <3>1. above(j) \in SUBSET Keys /\ above(k) \in SUBSET Keys
      OBVIOUS
    <3> HIDE DEF above
    <3> QED
      BY <2>8, <2>9, <3>1 DEF StrictSubsetOrdering
  <2> QED
    BY <2>6, <2>10
<1> QED
  BY <1>1, InitTyped, NextTyped, InitInLoops, NextInLoops, PTL DEF Spec
=============================================================================
