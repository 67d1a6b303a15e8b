------------------------------ MODULE MCSync ------------------------------
(***************************************************************************)
(* Instances of Sync for TLC: who runs where, whose clock is ahead, which  *)
(* permutations leave the model unchanged, and an initial state in which   *)
(* the account is already in use.                                          *)
(***************************************************************************)
EXTENDS SyncProperties, TLC

FirstDevice == CHOOSE d \in Devices : TRUE

\* Every tab on one device; a tab for each device.
OneDevice  == [t \in Tabs |-> FirstDevice]
TwoDevices == CHOOSE f \in [Tabs -> Devices] : \A s, t \in Tabs : f[s] = f[t] => s = t

\* Tabs of one device are alike; so are devices, each with its tab.
TabSymmetry == Permutations(Tabs)
Mirror == {f \in Permutations(Tabs \cup Devices) :
             \A t \in Tabs : f[t] \in Tabs /\ DeviceOf[f[t]] = f[DeviceOf[t]]}

\* Clocks that agree, and a clock ahead by no more than MAX_CLOCK_SKEW_MS.
NoSkew    == [d \in Devices |-> 0]
SmallSkew == [d \in Devices |-> IF d = FirstDevice THEN 1 ELSE 0]

NoCategory    == [r \in Transactions |-> Null]
FirstCategory == [r \in Transactions |-> CHOOSE c \in Categories : TRUE]

(***************************************************************************)
(* The account already holds every record: FirstDevice created them in     *)
(* user actions 1, 2, ..., pushed them in one batch under key 1, wrote the *)
(* answers down and was closed; the other devices are new.  A category is  *)
(* never answered, so it is still pending on the device.                   *)
(***************************************************************************)
Created(r) ==
  [rev |-> r, amount_minor |-> CHOOSE a \in Amounts : TRUE,
   updated_at |-> StartTime, deleted |-> FALSE, version |-> 0, sync_status |-> "pending"]

OnServer(r) == Materialise(Created(r), IF r \in Transactions THEN 1 ELSE 0)

OnDisk(r) == IF r \in Transactions THEN OnServer(r) ELSE Created(r)

StockedInit ==
  /\ now = StartTime /\ edits = Cardinality(Records) /\ faults = 0
  /\ db = [d \in Devices |->
             IF d = FirstDevice THEN [r \in Records |-> OnDisk(r)] ELSE Empty]
  /\ shown = [t \in Tabs |-> db[DeviceOf[t]]]
  /\ removing = [t \in Tabs |-> Null]
  /\ refresh = [t \in Tabs |-> FALSE]
  /\ engine = [t \in Tabs |-> Idle(0, FALSE)]
  /\ requests = [k \in Keys |->
       IF k = 1 THEN [device_id |-> FirstDevice, client_time |-> StartTime,
                      rows |-> [r \in Records |-> Created(r)]]
       ELSE Null]
  /\ operations = [k \in Keys |->
       IF k = 1 THEN Answers(Empty, requests[1].rows, 0) ELSE Null]
  /\ store = [r \in Records |-> OnServer(r)]
  /\ serving = [k \in Keys |-> NotServed]
  /\ contested = {} /\ ahead = {}

StockedSpec == StockedInit /\ [][Next]_vars

(***************************************************************************)
(* The clock may move and nothing fails, or the clock stands still and the *)
(* bound on faults is there to be used up: two instances in one run.       *)
(***************************************************************************)
SplitInit ==
  \E time \in {StartTime, MaxTime} :
    /\ now = time /\ edits = 0
    /\ faults = IF time = MaxTime THEN 0 ELSE MaxFaults
    /\ db = [d \in Devices |-> Empty]
    /\ shown = [t \in Tabs |-> Empty]
    /\ removing = [t \in Tabs |-> Null]
    /\ refresh = [t \in Tabs |-> FALSE]
    /\ engine = [t \in Tabs |-> Idle(0, FALSE)]
    /\ requests = [k \in Keys |-> Null]
    /\ operations = [k \in Keys |-> Null]
    /\ store = Empty
    /\ serving = [k \in Keys |-> NotServed]
    /\ contested = {} /\ ahead = {}

SplitSpec == SplitInit /\ [][Next]_vars

(***************************************************************************)
(* The account is stocked, every device has pulled it, and has edited all  *)
(* of its rows since, one at a time, in the order of their ids or against  *)
(* it.  No user action and no fault is left.                               *)
(***************************************************************************)
CrossedInit ==
  \E upwards \in [Devices -> BOOLEAN] :
    LET size  == Cardinality(Records)
        turn(d, r) == Cardinality({q \in Records : IF upwards[d] THEN q < r ELSE q > r})
        edited(d, r) ==
          [OnDisk(r) EXCEPT !.rev = (IF d = FirstDevice THEN 1 ELSE 2) * size + r,
                            !.updated_at = @ + turn(d, r), !.sync_status = "pending"]
    IN  /\ now = MaxTime /\ faults = MaxFaults
        /\ edits = (Cardinality(Devices) + 1) * size
        /\ db = [d \in Devices |-> [r \in Records |-> edited(d, r)]]
        /\ shown = [t \in Tabs |-> db[DeviceOf[t]]]
        /\ removing = [t \in Tabs |-> Null]
        /\ refresh = [t \in Tabs |-> FALSE]
        /\ engine = [t \in Tabs |-> Idle(StartTime, TRUE)]
        /\ requests = [k \in Keys |->
             IF k = 1 THEN [device_id |-> FirstDevice, client_time |-> StartTime,
                            rows |-> [r \in Records |-> Created(r)]]
             ELSE Null]
        /\ operations = [k \in Keys |->
             IF k = 1 THEN Answers(Empty, requests[1].rows, 0) ELSE Null]
        /\ store = [r \in Records |-> OnServer(r)]
        /\ serving = [k \in Keys |-> NotServed]
        /\ contested = {} /\ ahead = {}

BusySpec == (StockedInit \/ CrossedInit) /\ [][Next]_vars
=============================================================================
