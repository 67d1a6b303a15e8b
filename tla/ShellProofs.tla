---------------------------- MODULE ShellProofs ----------------------------
(***************************************************************************)
(* The shell of the client, for any accounts, engines, loads and faults:   *)
(* accounts stay apart on one device, no step loses what only one side     *)
(* has, and setup is offered once; and the client as a whole, whose parts  *)
(* keep their properties however they interleave.                          *)
(*                                                                         *)
(* ShellInv has three parts.  What every state satisfies: whom the         *)
(* function under way, the page and the device are about.  What holds      *)
(* until an engine is stopped in the middle of a cycle, Apart: one engine, *)
(* on the page of one account, and the rows of that account alone.  What   *)
(* holds while every request is answered: the page is Served, by a token   *)
(* of its own account, and its settings are Restored from the server's.    *)
(***************************************************************************)
EXTENDS ClientProofs

-----------------------------------------------------------------------------
(* The invariant. *)

\* The accounts that the function under way and the page are about.
Placed ==
  /\ flow.pc \in {"guard", "claim", "settings", "banks"} => flow.who \in Accounts
  /\ flow.pc \in {"guard", "claim", "settings"} =>
       page.token = flow.who /\ cookie \in {NoOne, flow.who}
  /\ flow.pc \in {"settings", "banks"} => device.account = flow.who
  /\ flow.pc \in {"restore", "guard", "claim", "settings"} => ~ page.signedIn
  /\ page.signedIn => device.account \in Accounts
  /\ flow.pc = "wiping" => flow.who \in Accounts /\ server[flow.who].is = "erased"
  /\ cookie # NoOne => server[cookie].is = "live"

\* A page that has just been loaded runs and knows nothing.
FreshLoad ==
  flow.pc = "restore" => /\ page.token = NoOne /\ ~ page.asking /\ page.engine = 0
                         /\ \A s \in Slots : engines[s] = NoEngine
                         /\ \A save \in saves : save.to # NoOne

\* What is not sent yet is of the account the device is of; the settings in memory are those
\* of the device, when it has any.
OwnUnsent ==
  /\ \A r \in Rows : disk[r] = "unsent" => r.by = device.account
  /\ flow.pc = "claim" /\ Stranger =>
       Unsent = {} /\ device.settings = Unset
  /\ device.account = NoOne => device.settings = Unset
  /\ device.settings # Unset => page.settings = device.settings

\* After a sign-out nothing signs in again by itself, while every request is answered.
StaysOut ==
  tally.faults = 0 /\ wantsOut /\ flow.pc # "leaving" =>
    /\ cookie = NoOne /\ ~ page.signedIn /\ flow.pc \in {"restore", "open", "idle"}

\* The page of a running engine, or of one that asks, is of one account.
OneAccount ==
  page.engine # 0 \/ page.asking =>
    /\ page.signedIn
    /\ page.token \in {NoOne, device.account} /\ cookie \in {NoOne, device.account}

\* Rows on disk and on the screen are of the account of the device; before the boot is over
\* there may be sample rows.
RowsAreOwn ==
  /\ \A r \in OnDisk : \/ r.by = device.account
                       \/ ~ page.authChecked /\ r.by = "demo" /\ disk[r] = "synced"
  /\ \A r \in page.rows : r.by = device.account \/ (~ page.authChecked /\ r.by = "demo")
  /\ flow.pc = "claim" /\ Stranger => OnDisk = {}

\* What was pulled is on disk, and what is on disk is on the screen.
PulledIsShown ==
  /\ flow.pc \in {"restore", "guard", "claim", "settings"} => page.pulledFor = NoOne
  /\ page.pulledFor # NoOne =>
       /\ page.pulledFor = device.account
       /\ page.rows = OnDisk /\ server[page.pulledFor].rows \subseteq OnDisk

Apart == OneEngineRuns /\ OneAccount /\ RowsAreOwn /\ RowsStayHome /\ PulledIsShown

\* While every request is answered, the page has the token of its account and its engines
\* never have to ask.
Served ==
  /\ flow.pc \in {"guard", "claim", "settings"} => page.fresh /\ server[flow.who].is = "live"
  /\ page.asking => flow.pc = "wiping"
  /\ flow.pc = "wiping" => page.token = NoOne /\ cookie = NoOne
  /\ page.signedIn /\ flow.pc # "wiping" =>
       page.token = device.account /\ page.fresh /\ server[page.token].is = "live"
  /\ ~ page.signedIn /\ flow.pc # "wiping" =>
       page.engine = 0 /\ \A s \in Slots : engines[s] = NoEngine
  /\ \A save \in saves : save.to = NoOne => flow.pc = "wiping"

\* The server holds the account's own settings and no other's, or will.
Held(a) == server[a].settings = {a} \/ \E save \in saves : save.to = a /\ save.value = {a}

\* Then the device, if it has settings, and the page have these.
Restored ==
  flow.pc # "wiping" /\ device.account # NoOne /\ Held(device.account) =>
    /\ device.settings \in {Unset, {device.account}}
    /\ page.signedIn => page.settings = {device.account}

ShellInv ==
  /\ ShellTypeOK /\ Placed /\ FreshLoad /\ OwnUnsent /\ StaysOut
  /\ ~ ghost => Apart
  /\ tally.faults = 0 => Served
  /\ tally.faults = 0 /\ ~ late => Restored

-----------------------------------------------------------------------------
(* Types. *)

Pages == [token : Accounts \cup {NoOne}, fresh : BOOLEAN, settings : Settings,
          mirrored : Settings \cup {Unset}, rows : SUBSET Rows, ready : BOOLEAN,
          signedIn : BOOLEAN, authChecked : BOOLEAN, onboarded : BOOLEAN,
          syncPrimed : BOOLEAN, pulledFor : Accounts \cup {NoOne},
          engine : Slots \cup {0}, asking : BOOLEAN]

Devices == [account : Accounts \cup {NoOne}, settings : Settings \cup {Unset},
            onboarded : BOOLEAN]

Flows == [pc : {"restore", "open", "guard", "claim", "settings", "banks", "idle",
                "leaving", "wiping"},
          who : Accounts \cup {NoOne}, isNew : BOOLEAN]

Account == [is : {"new", "live", "erased"}, rows : SUBSET Rows,
            settings : Settings \cup {Unset}]

Tallies == [loads : 0..MaxLoads, faults : 0..MaxShellFaults, changes : 0..MaxChanges]

SavesTyped(set) == \A s \in set : s.to \in Accounts \cup {NoOne} /\ s.value \in Settings

\* The parts of the type invariant.
LEMMA TypesOf ==
  ShellTypeOK <=>
    /\ cookie \in Accounts \cup {NoOne} /\ device \in Devices
    /\ disk \in [Rows -> {"none", "unsent", "synced"}] /\ page \in Pages /\ flow \in Flows
    /\ engines \in [Slots -> Engine] /\ server \in [Accounts -> Account]
    /\ SavesTyped(saves) /\ tally \in Tallies
    /\ ghost \in BOOLEAN /\ late \in BOOLEAN /\ wantsOut \in BOOLEAN
  BY DEF ShellTypeOK, Devices, Pages, Flows, Account, SavesTyped, Tallies

\* The same of the next state.
LEMMA TypesNext ==
  ASSUME cookie' \in Accounts \cup {NoOne}, device' \in Devices,
         disk' \in [Rows -> {"none", "unsent", "synced"}], page' \in Pages, flow' \in Flows,
         engines' \in [Slots -> Engine], server' \in [Accounts -> Account],
         SavesTyped(saves'), tally' \in Tallies,
         ghost' \in BOOLEAN, late' \in BOOLEAN, wantsOut' \in BOOLEAN
  PROVE  ShellTypeOK'
  BY DEF ShellTypeOK, Devices, Pages, Flows, Account, SavesTyped, Tallies

\* One more fault, or one more change, leaves the tally typed.
LEMMA CountingUp ==
  ASSUME tally \in Tallies
  PROVE  /\ Fault => tally' \in Tallies /\ tally'.faults # 0
         /\ Change => tally' \in Tallies /\ tally'.faults = tally.faults
<1>1. /\ tally.faults \in Nat /\ tally.changes \in Nat
      /\ tally.faults + 1 # 0
  BY ShellAssumption DEF Tallies
<1>2. ASSUME Fault PROVE tally' \in Tallies /\ tally'.faults # 0
  <2>1. tally.faults + 1 \in 0..MaxShellFaults
    BY <1>1, <1>2, ShellAssumption DEF Fault
  <2>2. tally' = [tally EXCEPT !.faults = tally.faults + 1]
    BY <1>2 DEF Fault
  <2> QED
    BY <1>1, <2>1, <2>2 DEF Tallies
<1>3. ASSUME Change PROVE tally' \in Tallies /\ tally'.faults = tally.faults
  <2>1. tally.changes + 1 \in 0..MaxChanges
    BY <1>1, <1>3, ShellAssumption DEF Change
  <2>2. tally' = [tally EXCEPT !.changes = tally.changes + 1]
    BY <1>3 DEF Change
  <2> QED
    BY <1>1, <2>1, <2>2 DEF Tallies
<1> QED
  BY <1>2, <1>3

\* Settings, an account put into them, and none at all are different things.
LEMMA SettingsAreAccounts ==
  /\ Unset \notin Settings /\ {} \in Settings
  /\ \A v \in Settings, a \in Accounts : v \cup {a} \in Settings
  /\ \A a \in Accounts : {a} \in Settings /\ {a} # Unset /\ a # NoOne /\ a # "demo"
  BY ShellAssumption DEF Settings, Unset

-----------------------------------------------------------------------------
(* Steps that change no session. *)

\* What such a step cannot disturb.
LEMMA SameSession ==
  ASSUME ShellInv,
         UNCHANGED <<cookie, flow, engines, ghost, wantsOut>>,
         UNCHANGED <<page.token, page.signedIn, page.asking, page.engine>>,
         UNCHANGED device.account,
         \A a \in Accounts : server'[a].is = server[a].is /\ server'[a].rows = server[a].rows,
         flow.pc = "restore" => saves' \subseteq saves,
         tally'.faults = 0 => tally.faults = 0
  PROVE  /\ Placed' /\ FreshLoad' /\ StaysOut'
         /\ ~ ghost' => OneEngineRuns' /\ OneAccount' /\ RowsStayHome'
<1>1. cookie \in Accounts \cup {NoOne} /\ flow \in Flows
  BY TypesOf DEF ShellInv
<1>2. Placed'
  BY <1>1 DEF ShellInv, Placed
<1>3. FreshLoad'
  BY DEF ShellInv, FreshLoad
<1>4. StaysOut'
  BY DEF ShellInv, StaysOut
<1>5. ASSUME ~ ghost' PROVE OneEngineRuns' /\ OneAccount' /\ RowsStayHome'
  BY <1>5 DEF ShellInv, Apart, OneEngineRuns, OneAccount, RowsStayHome, Busy
<1> QED
  BY <1>2, <1>3, <1>4, <1>5

\* In the app, and while it is set up, the account of the device is signed in and its boot
\* is over.
LEMMA InTheApp ==
  ASSUME ShellInv, Screen \in {"app", "onboarding"}
  PROVE  /\ page.signedIn /\ page.authChecked /\ device.account \in Accounts
         /\ flow.pc \notin {"restore", "guard", "claim", "settings"}
<1>1. page.signedIn /\ page.authChecked
  BY DEF Screen
<1> QED
  BY <1>1 DEF ShellInv, Placed

\* A row is entered: it is on disk and on the screen.
LEMMA EnterRow ==
  ASSUME ShellInv, NEW row \in Rows, row.by = device.account,
         device.account \in Accounts,
         flow.pc \notin {"restore", "guard", "claim", "settings"},
         disk' = [disk EXCEPT ![row] = "unsent"],
         page'.rows = page.rows \cup {row},
         UNCHANGED <<page.authChecked, page.pulledFor, device.account, server>>,
         flow'.pc \notin {"restore", "guard", "claim", "settings"}
  PROVE  /\ disk' \in [Rows -> {"none", "unsent", "synced"}]
         /\ \A r \in Rows : disk'[r] = "unsent" => r.by = device'.account
         /\ ~ ghost => RowsAreOwn' /\ PulledIsShown'
<1>1. disk \in [Rows -> {"none", "unsent", "synced"}]
  BY TypesOf DEF ShellInv
<1>2. /\ disk' \in [Rows -> {"none", "unsent", "synced"}]
      /\ \A r \in Rows : disk'[r] = IF r = row THEN "unsent" ELSE disk[r]
      /\ OnDisk' = OnDisk \cup {row}
  BY <1>1 DEF OnDisk
<1>3. \A r \in Rows : disk'[r] = "unsent" => r.by = device'.account
  BY <1>2 DEF ShellInv, OwnUnsent
<1>4. ASSUME ~ ghost PROVE RowsAreOwn' /\ PulledIsShown'
  <2>1. RowsAreOwn /\ PulledIsShown
    BY <1>4 DEF ShellInv, Apart
  <2>2. \A r \in OnDisk' : r \in Rows /\ (r = row \/ (r \in OnDisk /\ disk'[r] = disk[r]))
    <3> SUFFICES ASSUME NEW r \in OnDisk', r # row PROVE r \in OnDisk /\ disk'[r] = disk[r]
      BY DEF OnDisk
    <3> QED
      BY <1>2 DEF OnDisk
  <2>3. RowsAreOwn'
    BY <2>1, <2>2 DEF RowsAreOwn
  <2>4. PulledIsShown'
    BY <1>2, <2>1 DEF PulledIsShown
  <2> QED
    BY <2>3, <2>4
<1> QED
  BY <1>2, <1>3, <1>4

\* A bank is entered.
LEMMA WriteRowStep == ASSUME ShellInv, WriteRow PROVE ShellInv'
<1> DEFINE row == [by |-> device.account, kind |-> "bank"]
           p == [page EXCEPT !.rows = @ \cup {row}]
<1>1. /\ InApp /\ Change /\ disk' = [disk EXCEPT ![row] = "unsent"] /\ page' = p
      /\ UNCHANGED <<cookie, device, flow, engines, server, saves, ghost, late, wantsOut>>
  BY DEF WriteRow
<1>2. /\ page.signedIn /\ page.authChecked /\ device.account \in Accounts
      /\ flow.pc \notin {"restore", "guard", "claim", "settings"}
  BY <1>1, InTheApp DEF InApp
<1>3. page \in Pages /\ tally \in Tallies /\ row \in Rows
  BY <1>2, TypesOf DEF ShellInv, Rows
<1>4. /\ p \in Pages /\ p.rows = page.rows \cup {row}
      /\ p.token = page.token /\ p.signedIn = page.signedIn /\ p.asking = page.asking
      /\ p.engine = page.engine /\ p.authChecked = page.authChecked
      /\ p.pulledFor = page.pulledFor /\ p.fresh = page.fresh /\ p.settings = page.settings
  BY <1>3 DEF Pages
<1>5. tally' \in Tallies /\ tally'.faults = tally.faults
  BY <1>1, <1>3, CountingUp
<1> HIDE DEF p
<1>6. /\ disk' \in [Rows -> {"none", "unsent", "synced"}]
      /\ \A r \in Rows : disk'[r] = "unsent" => r.by = device'.account
      /\ ~ ghost => RowsAreOwn' /\ PulledIsShown'
  BY <1>1, <1>2, <1>3, <1>4, EnterRow
<1>7. /\ Placed' /\ FreshLoad' /\ StaysOut'
      /\ ~ ghost' => OneEngineRuns' /\ OneAccount' /\ RowsStayHome'
  BY <1>1, <1>4, <1>5, SameSession
<1>8. ShellTypeOK'
  BY <1>1, <1>4, <1>5, <1>6, TypesOf, TypesNext DEF ShellInv
<1>9. OwnUnsent'
  BY <1>1, <1>2, <1>4, <1>6 DEF ShellInv, OwnUnsent
<1>10. tally'.faults = 0 => Served'
  BY <1>1, <1>4, <1>5 DEF ShellInv, Served
<1>11. tally'.faults = 0 /\ ~ late' => Restored'
  BY <1>1, <1>4, <1>5 DEF ShellInv, Restored, Held
<1> QED
  BY <1>1, <1>6, <1>7, <1>8, <1>9, <1>10, <1>11 DEF ShellInv, Apart

\* Settings are changed, on the device and in memory alike.
LEMMA ChangeSettings ==
  ASSUME ShellInv, page.signedIn, device.account \in Accounts,
         UNCHANGED <<flow, device.account, page.signedIn, server, saves, late>>,
         tally'.faults = tally.faults,
         page'.settings = page.settings \cup {device.account},
         device'.settings = page.settings \cup {device.account}
  PROVE  tally'.faults = 0 /\ ~ late' => Restored'
<1> SUFFICES ASSUME tally.faults = 0, ~ late PROVE Restored'
  OBVIOUS
<1>1. Restored
  BY DEF ShellInv
<1>2. CASE flow.pc # "wiping" /\ Held(device.account)
  <2>1. page.settings = {device.account}
    BY <1>1, <1>2, SettingsAreAccounts DEF Restored
  <2>2. page'.settings = {device.account} /\ device'.settings = {device.account}
    BY <2>1
  <2> QED
    BY <2>2 DEF Restored
<1>3. CASE ~ (flow.pc # "wiping" /\ Held(device.account))
  BY <1>3 DEF Restored, Held
<1> QED
  BY <1>2, <1>3

\* The settings are edited.
LEMMA EditSettingsStep == ASSUME ShellInv, EditSettings PROVE ShellInv'
<1> DEFINE mine == page.settings \cup {device.account}
           p == [page EXCEPT !.settings = mine]
           d == [device EXCEPT !.settings = mine]
<1>1. /\ InApp /\ Change /\ page' = p /\ device' = d
      /\ UNCHANGED <<cookie, disk, flow, engines, server, saves, ghost, late, wantsOut>>
  BY DEF EditSettings
<1>2. /\ page.signedIn /\ page.authChecked /\ device.account \in Accounts
      /\ flow.pc \notin {"restore", "guard", "claim", "settings"}
  BY <1>1, InTheApp DEF InApp
<1>3. page \in Pages /\ tally \in Tallies /\ device \in Devices /\ page.settings \in Settings
  BY TypesOf DEF ShellInv, Pages
<1>4. mine \in Settings /\ mine # Unset
  BY <1>2, <1>3, SettingsAreAccounts
<1> HIDE DEF mine
<1>5. /\ p \in Pages /\ p.settings = mine /\ p.rows = page.rows
      /\ p.token = page.token /\ p.signedIn = page.signedIn /\ p.asking = page.asking
      /\ p.engine = page.engine /\ p.authChecked = page.authChecked
      /\ p.pulledFor = page.pulledFor /\ p.fresh = page.fresh
      /\ d \in Devices /\ d.settings = mine /\ d.account = device.account
  BY <1>3, <1>4 DEF Pages, Devices
<1>6. tally' \in Tallies /\ tally'.faults = tally.faults
  BY <1>1, <1>3, CountingUp
<1> HIDE DEF p, d
<1>7. /\ Placed' /\ FreshLoad' /\ StaysOut'
      /\ ~ ghost' => OneEngineRuns' /\ OneAccount' /\ RowsStayHome'
  BY <1>1, <1>5, <1>6, SameSession
<1>8. ShellTypeOK'
  BY <1>1, <1>5, <1>6, TypesOf, TypesNext DEF ShellInv
<1>9. OwnUnsent'
  BY <1>1, <1>2, <1>5, SettingsAreAccounts DEF ShellInv, OwnUnsent
<1>10. tally'.faults = 0 => Served'
  BY <1>1, <1>5, <1>6 DEF ShellInv, Served
<1>11. tally'.faults = 0 /\ ~ late' => Restored'
  BY <1>1, <1>2, <1>5, <1>6, ChangeSettings DEF mine
<1>12. ~ ghost => RowsAreOwn' /\ PulledIsShown'
  BY <1>1, <1>2, <1>5 DEF ShellInv, Apart, RowsAreOwn, PulledIsShown, OnDisk, Stranger
<1> QED
  BY <1>1, <1>7, <1>8, <1>9, <1>10, <1>11, <1>12 DEF ShellInv, Apart

\* The answers of the set-up are stored.
LEMMA ApplyOnboardingStep == ASSUME ShellInv, ApplyOnboarding PROVE ShellInv'
<1> DEFINE row == [by |-> device.account, kind |-> "category"]
           mine == page.settings \cup {device.account}
           p == [page EXCEPT !.settings = mine, !.rows = @ \cup {row}, !.onboarded = TRUE]
           d == [device EXCEPT !.settings = mine, !.onboarded = TRUE]
<1>1. /\ Screen = "onboarding" /\ Change /\ page' = p /\ device' = d
      /\ disk' = [disk EXCEPT ![row] = "unsent"]
      /\ UNCHANGED <<cookie, flow, engines, server, saves, ghost, late, wantsOut>>
  BY DEF ApplyOnboarding
<1>2. /\ page.signedIn /\ page.authChecked /\ device.account \in Accounts
      /\ flow.pc \notin {"restore", "guard", "claim", "settings"}
  BY <1>1, InTheApp
<1>3. /\ page \in Pages /\ tally \in Tallies /\ device \in Devices /\ page.settings \in Settings
      /\ row \in Rows
  BY <1>2, TypesOf DEF ShellInv, Pages, Rows
<1>4. mine \in Settings /\ mine # Unset
  BY <1>2, <1>3, SettingsAreAccounts
<1> HIDE DEF mine
<1>5. /\ p \in Pages /\ p.settings = mine /\ p.rows = page.rows \cup {row}
      /\ p.token = page.token /\ p.signedIn = page.signedIn /\ p.asking = page.asking
      /\ p.engine = page.engine /\ p.authChecked = page.authChecked
      /\ p.pulledFor = page.pulledFor /\ p.fresh = page.fresh
      /\ d \in Devices /\ d.settings = mine /\ d.account = device.account
  BY <1>3, <1>4 DEF Pages, Devices
<1>6. tally' \in Tallies /\ tally'.faults = tally.faults
  BY <1>1, <1>3, CountingUp
<1> HIDE DEF p, d
<1>7. /\ Placed' /\ FreshLoad' /\ StaysOut'
      /\ ~ ghost' => OneEngineRuns' /\ OneAccount' /\ RowsStayHome'
  BY <1>1, <1>5, <1>6, SameSession
<1>8. /\ disk' \in [Rows -> {"none", "unsent", "synced"}]
      /\ \A r \in Rows : disk'[r] = "unsent" => r.by = device'.account
      /\ ~ ghost => RowsAreOwn' /\ PulledIsShown'
  BY <1>1, <1>2, <1>3, <1>5, EnterRow
<1>9. ShellTypeOK'
  BY <1>1, <1>5, <1>6, <1>8, TypesOf, TypesNext DEF ShellInv
<1>10. OwnUnsent'
  BY <1>1, <1>2, <1>5, <1>8, SettingsAreAccounts DEF OwnUnsent
<1>11. tally'.faults = 0 => Served'
  BY <1>1, <1>5, <1>6 DEF ShellInv, Served
<1>12. tally'.faults = 0 /\ ~ late' => Restored'
  BY <1>1, <1>2, <1>5, <1>6, ChangeSettings DEF mine
<1> QED
  BY <1>1, <1>7, <1>8, <1>9, <1>10, <1>11, <1>12 DEF ShellInv, Apart

\* The account counts as set up.
LEMMA MarkOnboardedStep == ASSUME ShellInv, MarkOnboarded PROVE ShellInv'
<1> DEFINE p == [page EXCEPT !.onboarded = TRUE]
           d == [device EXCEPT !.onboarded = TRUE]
<1>1. /\ page' = p /\ device' = d
      /\ UNCHANGED <<cookie, disk, flow, engines, server, saves, tally, ghost, late, wantsOut>>
  BY DEF MarkOnboarded
<1>2. page \in Pages /\ tally \in Tallies /\ device \in Devices
  BY TypesOf DEF ShellInv
<1>3. /\ p \in Pages /\ p.settings = page.settings /\ p.rows = page.rows
      /\ p.token = page.token /\ p.signedIn = page.signedIn /\ p.asking = page.asking
      /\ p.engine = page.engine /\ p.authChecked = page.authChecked
      /\ p.pulledFor = page.pulledFor /\ p.fresh = page.fresh
      /\ d \in Devices /\ d.settings = device.settings /\ d.account = device.account
  BY <1>2 DEF Pages, Devices
<1> HIDE DEF p, d
<1>4. /\ Placed' /\ FreshLoad' /\ StaysOut'
      /\ ~ ghost' => OneEngineRuns' /\ OneAccount' /\ RowsStayHome'
  BY <1>1, <1>3, SameSession
<1>5. ShellTypeOK'
  BY <1>1, <1>3, TypesOf, TypesNext DEF ShellInv
<1>6. OwnUnsent'
  BY <1>1, <1>3 DEF ShellInv, OwnUnsent, Stranger, Unsent
<1>7. tally'.faults = 0 => Served'
  BY <1>1, <1>3 DEF ShellInv, Served
<1>8. tally'.faults = 0 /\ ~ late' => Restored'
  BY <1>1, <1>3 DEF ShellInv, Restored, Held
<1>9. ~ ghost => RowsAreOwn' /\ PulledIsShown'
  BY <1>1, <1>3 DEF ShellInv, Apart, RowsAreOwn, PulledIsShown, OnDisk, Stranger
<1> QED
  BY <1>1, <1>4, <1>5, <1>6, <1>7, <1>8, <1>9 DEF ShellInv, Apart

\* The settings in memory are sent.
LEMMA MirrorSettingsStep == ASSUME ShellInv, MirrorSettings PROVE ShellInv'
<1> DEFINE p == [page EXCEPT !.mirrored = page.settings]
           new == [to |-> IF page.fresh THEN page.token ELSE NoOne, value |-> page.settings]
<1>1. /\ page' = p /\ saves' = saves \cup {new} /\ page.signedIn
      /\ UNCHANGED <<cookie, device, disk, flow, engines, server, tally, ghost, late, wantsOut>>
  BY DEF MirrorSettings
<1>2. page \in Pages /\ tally \in Tallies /\ page.settings \in Settings
  BY TypesOf DEF ShellInv, Pages
<1>3. /\ p \in Pages /\ p.settings = page.settings /\ p.rows = page.rows
      /\ p.token = page.token /\ p.signedIn = page.signedIn /\ p.asking = page.asking
      /\ p.engine = page.engine /\ p.authChecked = page.authChecked
      /\ p.pulledFor = page.pulledFor /\ p.fresh = page.fresh
      /\ new.to \in Accounts \cup {NoOne} /\ new.value = page.settings
      /\ new.to # NoOne => page.fresh /\ new.to = page.token
      /\ page.fresh => new.to = page.token
  BY <1>2 DEF Pages
<1> HIDE DEF p, new
<1>4. flow.pc # "restore" /\ device.account \in Accounts
  BY <1>1 DEF ShellInv, Placed
<1>5. /\ Placed' /\ FreshLoad' /\ StaysOut'
      /\ ~ ghost' => OneEngineRuns' /\ OneAccount' /\ RowsStayHome'
  BY <1>1, <1>3, <1>4, SameSession
<1>6. ShellTypeOK'
  <2>1. SavesTyped(saves')
    BY <1>1, <1>2, <1>3, TypesOf DEF ShellInv, SavesTyped
  <2> QED
    BY <1>1, <1>3, <2>1, TypesOf, TypesNext DEF ShellInv
<1>7. OwnUnsent'
  BY <1>1, <1>3 DEF ShellInv, OwnUnsent, Stranger, Unsent
<1>8. tally'.faults = 0 => Served'
  <2> SUFFICES ASSUME tally.faults = 0 PROVE Served'
    BY <1>1
  <2>1. flow.pc # "wiping" => new.to # NoOne
    BY <1>1, <1>3, <1>4, SettingsAreAccounts DEF ShellInv, Served
  <2> QED
    BY <1>1, <1>3, <2>1 DEF ShellInv, Served
<1>9. tally'.faults = 0 /\ ~ late' => Restored'
  <2> SUFFICES ASSUME tally.faults = 0, ~ late, flow.pc # "wiping", Held(device.account)'
               PROVE  Restored'
    BY <1>1 DEF Restored, Held
  <2>1. Restored
    BY <1>1 DEF ShellInv
  <2>2. CASE Held(device.account)
    BY <1>1, <1>3, <2>1, <2>2 DEF Restored
  <2>3. CASE ~ Held(device.account)
    <3>1. page.settings = {device.account}
      BY <1>1, <1>3, <2>3 DEF Held
    <3>2. device.settings # Unset => page.settings = device.settings
      BY DEF ShellInv, OwnUnsent
    <3> QED
      BY <1>1, <1>3, <3>1, <3>2 DEF Restored
  <2> QED
    BY <2>2, <2>3
<1>10. ~ ghost => RowsAreOwn' /\ PulledIsShown'
  BY <1>1, <1>3 DEF ShellInv, Apart, RowsAreOwn, PulledIsShown, OnDisk, Stranger
<1> QED
  BY <1>1, <1>5, <1>6, <1>7, <1>8, <1>9, <1>10 DEF ShellInv, Apart

\* The token of the page is replaced by the cookie's, or is not.
LEMMA AskedAnew ==
  ASSUME ShellInv, cookie \in Accounts,
         NEW p \in Pages, p = [page EXCEPT !.token = cookie, !.fresh = TRUE]
  PROVE  /\ p.settings = page.settings /\ p.rows = page.rows
         /\ p.token = cookie /\ p.signedIn = page.signedIn /\ p.asking = page.asking
         /\ p.engine = page.engine /\ p.authChecked = page.authChecked
         /\ p.pulledFor = page.pulledFor /\ p.fresh
<1>1. page \in Pages
  BY TypesOf DEF ShellInv
<1> QED
  BY <1>1 DEF Pages

\* What is left when the page takes the token of its cookie, in a session or on a page that
\* waits for a save.
LEMMA TokenOfCookie ==
  ASSUME ShellInv, cookie \in Accounts, flow.pc # "restore", page' \in Pages,
         page' = [page EXCEPT !.token = cookie, !.fresh = TRUE],
         UNCHANGED <<cookie, flow, engines, device, disk, ghost, wantsOut>>,
         \A a \in Accounts : server'[a].is = server[a].is /\ server'[a].rows = server[a].rows,
         tally'.faults = tally.faults
  PROVE  /\ Placed' /\ FreshLoad' /\ StaysOut' /\ OwnUnsent'
         /\ ~ ghost' => Apart'
<1>1. /\ page'.settings = page.settings /\ page'.rows = page.rows
      /\ page'.token = cookie /\ page'.signedIn = page.signedIn /\ page'.asking = page.asking
      /\ page'.engine = page.engine /\ page'.authChecked = page.authChecked
      /\ page'.pulledFor = page.pulledFor /\ page'.fresh
  BY AskedAnew
<1>2. cookie \in Accounts \cup {NoOne} /\ flow \in Flows /\ cookie # NoOne
  BY TypesOf, SettingsAreAccounts DEF ShellInv
<1>3. Placed'
  BY <1>1, <1>2 DEF ShellInv, Placed
<1>4. FreshLoad' /\ StaysOut'
  BY <1>1 DEF ShellInv, FreshLoad, StaysOut
<1>5. OwnUnsent'
  BY <1>1 DEF ShellInv, OwnUnsent, Stranger, Unsent
<1>6. ASSUME ~ ghost' PROVE Apart'
  <2>1. Apart
    BY <1>6 DEF ShellInv
  <2>2. OneEngineRuns' /\ OneAccount' /\ RowsStayHome'
    BY <1>1, <1>2, <2>1 DEF Apart, OneEngineRuns, OneAccount, RowsStayHome, Busy
  <2>3. RowsAreOwn'
    BY <1>1, <2>1 DEF Apart, RowsAreOwn, OnDisk, Stranger
  <2>4. page.pulledFor \in Accounts \cup {NoOne}
    BY TypesOf DEF ShellInv, Pages
  <2>5. PulledIsShown'
    BY <1>1, <2>1, <2>4 DEF Apart, PulledIsShown, OnDisk
  <2> QED
    BY <2>2, <2>3, <2>5 DEF Apart
<1> QED
  BY <1>3, <1>4, <1>5, <1>6

\* The page becomes visible and asks the cookie.
LEMMA ResumeStep == ASSUME ShellInv, Resume PROVE ShellInv'
<1>1. /\ page.signedIn /\ cookie # NoOne /\ ~ page.fresh
      /\ page' = [page EXCEPT !.token = cookie, !.fresh = TRUE]
      /\ UNCHANGED <<cookie, device, disk, flow, engines, server, saves, tally, ghost, late, wantsOut>>
  BY DEF Resume
<1>2. page \in Pages /\ cookie \in Accounts
  BY <1>1, TypesOf DEF ShellInv
<1>3. page' \in Pages /\ flow.pc # "restore"
  BY <1>1, <1>2 DEF Pages, ShellInv, Placed
<1>4. /\ Placed' /\ FreshLoad' /\ StaysOut' /\ OwnUnsent'
      /\ ~ ghost' => Apart'
  BY <1>1, <1>2, <1>3, TokenOfCookie
<1>5. ShellTypeOK'
  BY <1>1, <1>3, TypesOf, TypesNext DEF ShellInv
<1>6. tally.faults # 0
  BY <1>1 DEF ShellInv, Served
<1> QED
  BY <1>1, <1>4, <1>5, <1>6 DEF ShellInv

\* A save arrives.
LEMMA SaveArrivesStep ==
  ASSUME ShellInv, NEW save \in saves, SaveArrives(save) PROVE ShellInv'
<1> DEFINE to == IF save.to = NoOne THEN cookie ELSE save.to
<1>1. /\ saves' = saves \ {save}
      /\ server' = IF to # NoOne /\ server[to].is = "live"
                   THEN [server EXCEPT ![to].settings = save.value] ELSE server
      /\ page' = IF save.to = NoOne /\ cookie # NoOne
                 THEN [page EXCEPT !.token = cookie, !.fresh = TRUE] ELSE page
      /\ UNCHANGED <<cookie, device, disk, flow, engines, tally, ghost, late, wantsOut>>
  BY DEF SaveArrives
<1>2. /\ page \in Pages /\ cookie \in Accounts \cup {NoOne} /\ SavesTyped(saves)
      /\ server \in [Accounts -> Account] /\ device \in Devices
  BY TypesOf DEF ShellInv
<1>3. to \in Accounts \cup {NoOne} /\ save.value \in Settings
  BY <1>2 DEF SavesTyped
<1>4. /\ server' \in [Accounts -> Account]
      /\ \A a \in Accounts : /\ server'[a].is = server[a].is /\ server'[a].rows = server[a].rows
                             /\ \/ server'[a].settings = server[a].settings
                                \/ a = to /\ server'[a].settings = save.value
  <2>1. CASE to # NoOne /\ server[to].is = "live"
    <3> DEFINE acc == [server[to] EXCEPT !.settings = save.value]
    <3>1. /\ acc \in Account /\ acc.is = server[to].is /\ acc.rows = server[to].rows
          /\ acc.settings = save.value
      BY <1>2, <1>3, <2>1 DEF Account
    <3>2. server' = [server EXCEPT ![to] = acc]
      BY <1>1, <2>1
    <3> HIDE DEF acc, to
    <3> QED
      BY <1>2, <1>3, <2>1, <3>1, <3>2
  <2>2. CASE ~ (to # NoOne /\ server[to].is = "live")
    BY <1>1, <1>2, <2>2
  <2> QED
    BY <2>1, <2>2
<1>5. page' \in Pages
  BY <1>1, <1>2 DEF Pages
<1>6. /\ Placed' /\ FreshLoad' /\ StaysOut' /\ OwnUnsent'
      /\ ~ ghost' => Apart'
  <2>1. CASE save.to = NoOne /\ cookie # NoOne
    <3>1. flow.pc # "restore" /\ page' = [page EXCEPT !.token = cookie, !.fresh = TRUE]
      BY <1>1, <2>1 DEF ShellInv, FreshLoad
    <3> QED
      BY <1>1, <1>2, <1>4, <1>5, <2>1, <3>1, TokenOfCookie
  <2>2. CASE ~ (save.to = NoOne /\ cookie # NoOne)
    <3>1. page' = page
      BY <1>1, <2>2
    <3>2. /\ Placed' /\ FreshLoad' /\ StaysOut'
          /\ ~ ghost' => OneEngineRuns' /\ OneAccount' /\ RowsStayHome'
      BY <1>1, <1>4, <3>1, SameSession
    <3>3. OwnUnsent'
      BY <1>1, <3>1 DEF ShellInv, OwnUnsent, Stranger, Unsent
    <3>4. page.pulledFor \in Accounts \cup {NoOne}
      BY <1>2 DEF Pages
    <3>5. ~ ghost => RowsAreOwn' /\ PulledIsShown'
      BY <1>1, <1>4, <3>1, <3>4 DEF ShellInv, Apart, RowsAreOwn, PulledIsShown, OnDisk, Stranger
    <3> QED
      BY <1>1, <3>2, <3>3, <3>5 DEF Apart
  <2> QED
    BY <2>1, <2>2
<1>7. ShellTypeOK'
  <2>1. SavesTyped(saves')
    BY <1>1, <1>2 DEF SavesTyped
  <2> QED
    BY <1>1, <1>4, <1>5, <2>1, TypesOf, TypesNext DEF ShellInv
<1>8. tally.faults = 0 => page' = page
  BY <1>1 DEF ShellInv, Served
<1>9. tally'.faults = 0 => Served'
  <2>1. flow \in Flows
    BY TypesOf DEF ShellInv
  <2> SUFFICES ASSUME tally.faults = 0 PROVE Served'
    BY <1>1
  <2>2. Served /\ page' = page
    BY <1>8 DEF ShellInv
  <2>3. \A a \in Accounts : server'[a].is = server[a].is
    BY <1>4
  <2>4. flow.pc \in {"guard", "claim", "settings"} => flow.who \in Accounts
    BY DEF ShellInv, Placed
  <2>5. page.signedIn => device.account \in Accounts
    BY DEF ShellInv, Placed
  <2> HIDE DEF to
  <2> QED
    BY <1>1, <2>2, <2>3, <2>4, <2>5 DEF Served
<1>10. tally'.faults = 0 /\ ~ late' => Restored'
  <2> SUFFICES ASSUME tally.faults = 0, ~ late, flow.pc # "wiping", device.account # NoOne,
                      Held(device.account)'
               PROVE  Restored'
    BY <1>1 DEF Restored, Held
  <2>1. Restored /\ page' = page
    BY <1>1, <1>8 DEF ShellInv
  <2>2. save.to # NoOne
    BY DEF ShellInv, Served
  <2>3. device.account \in Accounts
    BY <1>2 DEF Devices
  <2>4. Held(device.account)
    BY <1>1, <1>4, <2>2, <2>3 DEF Held
  <2> QED
    BY <1>1, <2>1, <2>4 DEF Restored
<1> QED
  BY <1>1, <1>6, <1>7, <1>9, <1>10 DEF ShellInv

\* A save is lost, or the access token expires.
LEMMA FaultSteps ==
  ASSUME ShellInv, ExpireToken \/ \E save \in saves : SaveLost(save)
  PROVE  ShellInv'
<1> DEFINE p == [page EXCEPT !.fresh = FALSE]
<1>1. /\ Fault /\ (page' = page \/ page' = p)
      /\ saves' \subseteq saves
      /\ UNCHANGED <<cookie, device, disk, flow, engines, server, ghost, late, wantsOut>>
  BY DEF ExpireToken, SaveLost
<1>2. page \in Pages /\ tally \in Tallies
  BY TypesOf DEF ShellInv
<1>3. /\ p \in Pages /\ p.settings = page.settings /\ p.rows = page.rows
      /\ p.token = page.token /\ p.signedIn = page.signedIn /\ p.asking = page.asking
      /\ p.engine = page.engine /\ p.authChecked = page.authChecked
      /\ p.pulledFor = page.pulledFor
  BY <1>2 DEF Pages
<1> HIDE DEF p
<1>4. /\ page' \in Pages /\ page'.settings = page.settings /\ page'.rows = page.rows
      /\ page'.token = page.token /\ page'.signedIn = page.signedIn
      /\ page'.asking = page.asking /\ page'.engine = page.engine
      /\ page'.authChecked = page.authChecked /\ page'.pulledFor = page.pulledFor
  <2>1. CASE page' = page
    BY <1>2, <2>1
  <2>2. CASE page' = p
    BY <1>3, <2>2
  <2> QED
    BY <1>1, <2>1, <2>2
<1>5. tally' \in Tallies /\ tally'.faults # 0
  BY <1>1, <1>2, CountingUp
<1>6. /\ Placed' /\ FreshLoad' /\ StaysOut'
      /\ ~ ghost' => OneEngineRuns' /\ OneAccount' /\ RowsStayHome'
  BY <1>1, <1>4, <1>5, SameSession
<1>7. ShellTypeOK'
  <2>1. SavesTyped(saves')
    BY <1>1, TypesOf DEF ShellInv, SavesTyped
  <2> QED
    BY <1>1, <1>4, <1>5, <2>1, TypesOf, TypesNext DEF ShellInv
<1>8. OwnUnsent'
  BY <1>1, <1>4 DEF ShellInv, OwnUnsent, Stranger, Unsent
<1>9. ~ ghost => RowsAreOwn' /\ PulledIsShown'
  BY <1>1, <1>4 DEF ShellInv, Apart, RowsAreOwn, PulledIsShown, OnDisk, Stranger
<1> QED
  BY <1>1, <1>5, <1>6, <1>7, <1>8, <1>9 DEF ShellInv, Apart

\* The session ends on the server.
LEMMA SessionEndsStep == ASSUME ShellInv, SessionEnds PROVE ShellInv'
<1>1. /\ Fault /\ cookie' = NoOne
      /\ UNCHANGED <<device, disk, page, flow, engines, server, saves, ghost, late, wantsOut>>
  BY DEF SessionEnds
<1>2. tally' \in Tallies /\ tally'.faults # 0
  BY <1>1, CountingUp, TypesOf DEF ShellInv
<1>3. ShellTypeOK'
  BY <1>1, <1>2, TypesOf, TypesNext DEF ShellInv
<1>4. Placed' /\ FreshLoad' /\ StaysOut' /\ OwnUnsent'
  BY <1>1, <1>2 DEF ShellInv, Placed, FreshLoad, StaysOut, OwnUnsent, Stranger, Unsent
<1>5. ~ ghost' => Apart'
  BY <1>1 DEF ShellInv, Apart, OneEngineRuns, OneAccount, RowsAreOwn, RowsStayHome,
              PulledIsShown, OnDisk, Stranger, Busy
<1> QED
  BY <1>2, <1>3, <1>4, <1>5 DEF ShellInv

\* The cookie cannot be asked.
LEMMA AskUnreachableStep == ASSUME ShellInv, AskUnreachable PROVE ShellInv'
<1> DEFINE p == [page EXCEPT !.asking = FALSE]
<1>1. /\ Fault /\ page' = p
      /\ UNCHANGED <<cookie, device, disk, flow, engines, server, saves, ghost, late, wantsOut>>
  BY DEF AskUnreachable
<1>2. page \in Pages /\ tally \in Tallies
  BY TypesOf DEF ShellInv
<1>3. /\ p \in Pages /\ p.settings = page.settings /\ p.rows = page.rows
      /\ p.token = page.token /\ p.signedIn = page.signedIn /\ ~ p.asking
      /\ p.engine = page.engine /\ p.authChecked = page.authChecked
      /\ p.pulledFor = page.pulledFor
  BY <1>2 DEF Pages
<1> HIDE DEF p
<1>4. tally' \in Tallies /\ tally'.faults # 0
  BY <1>1, <1>2, CountingUp
<1>5. ShellTypeOK'
  BY <1>1, <1>3, <1>4, TypesOf, TypesNext DEF ShellInv
<1>6. Placed' /\ FreshLoad' /\ StaysOut' /\ OwnUnsent'
  BY <1>1, <1>3, <1>4 DEF ShellInv, Placed, FreshLoad, StaysOut, OwnUnsent, Stranger, Unsent
<1>7. ~ ghost' => Apart'
  BY <1>1, <1>3 DEF ShellInv, Apart, OneEngineRuns, OneAccount, RowsAreOwn, RowsStayHome,
                    PulledIsShown, OnDisk, Stranger, Busy
<1> QED
  BY <1>4, <1>5, <1>6, <1>7 DEF ShellInv

-----------------------------------------------------------------------------
(* Engines. *)

\* Stopping an engine that is in no cycle leaves nothing that runs or will.
LEMMA StoppingEngine ==
  ASSUME ShellInv
  PROVE  /\ Stopped \in [Slots -> Engine]
         /\ ~ (ghost \/ (page.engine # 0 /\ Busy(page.engine))) =>
              \A s \in Slots : Stopped[s].pc \notin {"push", "pull"} /\ Stopped[s].timer # "set"
         /\ (\A s \in Slots : engines[s] = NoEngine) /\ page.engine = 0 => Stopped = engines
<1>1. engines \in [Slots -> Engine] /\ page.engine \in Slots \cup {0} /\ 0 \notin Slots
  BY TypesOf, ShellAssumption DEF ShellInv, Pages
<1>2. CASE page.engine = 0
  <2>1. Stopped = engines
    BY <1>2 DEF Stopped
  <2>2. ~ ghost => \A s \in Slots : ~ Busy(s) /\ engines[s].timer # "set"
    BY <1>1, <1>2 DEF ShellInv, Apart, OneEngineRuns
  <2> QED
    BY <1>1, <2>1, <2>2 DEF Busy
<1>3. CASE page.engine # 0
  <2> DEFINE e == engines[page.engine]
             f == [e EXCEPT !.timer = IF @ = "set" THEN "none" ELSE @]
  <2>1. e \in Engine /\ page.engine \in Slots
    BY <1>1, <1>3
  <2>2. f \in Engine /\ f.pc = e.pc /\ f.timer # "set"
    BY <2>1 DEF Engine
  <2>3. Stopped = [engines EXCEPT ![page.engine] = f]
    BY <1>1, <1>3 DEF Stopped
  <2>4. ~ ghost => \A s \in Slots : Busy(s) \/ engines[s].timer = "set" => s = page.engine
    BY DEF ShellInv, Apart, OneEngineRuns
  <2> HIDE DEF f
  <2>5. /\ Stopped \in [Slots -> Engine]
        /\ \A s \in Slots : Stopped[s] = IF s = page.engine THEN f ELSE engines[s]
    BY <1>1, <2>1, <2>2, <2>3
  <2> QED
    BY <1>1, <1>3, <2>1, <2>2, <2>4, <2>5 DEF Busy
<1> QED
  BY <1>2, <1>3

\* The user signs out.
LEMMA SignOutStep == ASSUME ShellInv, SignOut PROVE ShellInv'
<1> DEFINE p == [page EXCEPT !.engine = 0]
           f == [flow EXCEPT !.pc = "leaving"]
<1>1. /\ InApp /\ page' = p /\ flow' = f /\ engines' = Stopped
      /\ ghost' = (ghost \/ (page.engine # 0 /\ Busy(page.engine))) /\ wantsOut' = TRUE
      /\ UNCHANGED <<cookie, device, disk, server, saves, tally, late>>
  BY DEF SignOut, Rest, GhostAfterStop
<1>2. /\ page.signedIn /\ page.authChecked /\ device.account \in Accounts
      /\ flow.pc \notin {"restore", "guard", "claim", "settings"}
      /\ flow.pc \in {"idle", "banks"}
  BY <1>1, InTheApp DEF InApp
<1>3. page \in Pages /\ flow \in Flows
  BY TypesOf DEF ShellInv
<1>4. /\ p \in Pages /\ p.settings = page.settings /\ p.rows = page.rows
      /\ p.token = page.token /\ p.signedIn = page.signedIn /\ p.asking = page.asking
      /\ p.engine = 0 /\ p.authChecked = page.authChecked
      /\ p.pulledFor = page.pulledFor /\ p.fresh = page.fresh
      /\ f \in Flows /\ f.pc = "leaving" /\ f.who = flow.who
  BY <1>3 DEF Pages, Flows
<1> HIDE DEF p, f
<1>5. /\ engines' \in [Slots -> Engine]
      /\ ~ ghost' => \A s \in Slots : ~ Busy(s)' /\ engines'[s].timer # "set"
  BY <1>1, StoppingEngine DEF Busy
<1>6. ShellTypeOK'
  <2>1. ghost' \in BOOLEAN
    BY <1>1
  <2> QED
    BY <1>1, <1>4, <1>5, <2>1, TypesOf, TypesNext DEF ShellInv
<1>7. Placed' /\ FreshLoad' /\ StaysOut' /\ OwnUnsent'
  BY <1>1, <1>2, <1>4 DEF ShellInv, Placed, FreshLoad, StaysOut, OwnUnsent
<1>8. ASSUME ~ ghost' PROVE Apart'
  <2>1. Apart /\ ~ ghost
    BY <1>1, <1>8 DEF ShellInv
  <2>2. OneEngineRuns' /\ OneAccount' /\ RowsStayHome'
    BY <1>1, <1>4, <1>5, <1>8, <2>1 DEF Apart, OneEngineRuns, OneAccount, RowsStayHome
  <2>3. RowsAreOwn' /\ PulledIsShown'
    BY <1>1, <1>2, <1>4, <2>1 DEF Apart, RowsAreOwn, PulledIsShown, OnDisk
  <2> QED
    BY <2>2, <2>3 DEF Apart
<1>9. tally'.faults = 0 => Served'
  BY <1>1, <1>2, <1>4 DEF ShellInv, Served
<1>10. tally'.faults = 0 /\ ~ late' => Restored'
  BY <1>1, <1>2, <1>4 DEF ShellInv, Restored, Held
<1> QED
  BY <1>6, <1>7, <1>8, <1>9, <1>10 DEF ShellInv

\* The account is erased, and the page knows of it or not.
LEMMA DeleteAccountStep == ASSUME ShellInv, DeleteAccount PROVE ShellInv'
<1> DEFINE a == page.token
           gone == [is |-> "erased", rows |-> {}, settings |-> Unset]
<1>1. /\ InApp /\ a # NoOne /\ server' = [server EXCEPT ![a] = gone] /\ cookie' = NoOne
      /\ UNCHANGED <<device, disk, engines, saves, ghost, late, wantsOut>>
      /\ \/ /\ flow' = [flow EXCEPT !.pc = "wiping", !.who = a]
            /\ page' = [page EXCEPT !.token = NoOne] /\ tally' = tally
         \/ Fault /\ flow' = flow /\ page' = page
  BY DEF DeleteAccount, Accepted
<1>2. /\ page.signedIn /\ page.authChecked /\ device.account \in Accounts
      /\ flow.pc \notin {"restore", "guard", "claim", "settings"}
      /\ flow.pc \in {"idle", "banks"}
  BY <1>1, InTheApp DEF InApp
<1>3. /\ page \in Pages /\ flow \in Flows /\ tally \in Tallies /\ server \in [Accounts -> Account]
      /\ gone \in Account /\ a \in Accounts
  <2>1. page \in Pages /\ flow \in Flows /\ tally \in Tallies /\ server \in [Accounts -> Account]
    BY TypesOf DEF ShellInv
  <2> QED
    BY <1>1, <2>1 DEF Pages, Account
<1>4. /\ server' \in [Accounts -> Account] /\ server'[a] = gone
      /\ \A b \in Accounts : b # a => server'[b] = server[b]
  BY <1>1, <1>3
<1>5. \/ /\ flow'.pc = "wiping" /\ flow'.who = a /\ page'.token = NoOne /\ tally' = tally
      \/ flow' = flow /\ page'.token = a /\ tally'.faults # 0 /\ tally' \in Tallies
  <2>1. Fault => tally'.faults # 0 /\ tally' \in Tallies
    BY <1>3, CountingUp
  <2>2. [flow EXCEPT !.pc = "wiping", !.who = a].pc = "wiping"
        /\ [flow EXCEPT !.pc = "wiping", !.who = a].who = a
        /\ [page EXCEPT !.token = NoOne].token = NoOne
    BY <1>3 DEF Flows, Pages
  <2> QED
    BY <1>1, <2>1, <2>2
<1>6. /\ page' \in Pages /\ page'.settings = page.settings /\ page'.rows = page.rows
      /\ page'.signedIn = page.signedIn /\ page'.asking = page.asking
      /\ page'.engine = page.engine /\ page'.authChecked = page.authChecked
      /\ page'.pulledFor = page.pulledFor /\ page'.fresh = page.fresh
      /\ flow' \in Flows
  BY <1>1, <1>3 DEF Pages, Flows
<1> HIDE DEF a
<1>7. ShellTypeOK'
  BY <1>1, <1>3, <1>4, <1>5, <1>6, TypesOf, TypesNext DEF ShellInv
<1>8. Placed' /\ FreshLoad' /\ StaysOut'
  <2>1. StaysOut'
    BY <1>1, <1>2, <1>5, <1>6 DEF ShellInv, StaysOut
  <2>2. FreshLoad'
    BY <1>2, <1>5 DEF FreshLoad
  <2>3. Placed'
    BY <1>1, <1>2, <1>3, <1>4, <1>5, <1>6 DEF ShellInv, Placed
  <2> QED
    BY <2>1, <2>2, <2>3
<1>9. OwnUnsent'
  BY <1>1, <1>2, <1>5, <1>6 DEF ShellInv, OwnUnsent
<1>10. ASSUME ~ ghost' PROVE Apart'
  <2>1. Apart
    BY <1>1, <1>10 DEF ShellInv
  <2>2. OneEngineRuns' /\ RowsStayHome'
    BY <1>1, <1>4, <1>6, <2>1 DEF Apart, OneEngineRuns, RowsStayHome, Busy
  <2>3. OneAccount'
    <3>1. page'.token \in {NoOne, page.token}
      BY <1>5 DEF a
    <3> QED
      BY <1>1, <1>6, <2>1, <3>1 DEF Apart, OneAccount
  <2>4. RowsAreOwn'
    BY <1>1, <1>2, <1>5, <1>6, <2>1 DEF Apart, RowsAreOwn, OnDisk
  <2>5. PulledIsShown'
    <3>1. page.pulledFor \in Accounts \cup {NoOne}
      BY <1>3 DEF Pages
    <3> QED
      BY <1>1, <1>2, <1>4, <1>5, <1>6, <2>1, <3>1 DEF Apart, PulledIsShown, OnDisk
  <2> QED
    BY <2>2, <2>3, <2>4, <2>5 DEF Apart
<1>11. tally'.faults = 0 => Served'
  <2> SUFFICES ASSUME tally'.faults = 0 PROVE Served'
    OBVIOUS
  <2>1. Served /\ flow'.pc = "wiping" /\ page'.token = NoOne
    BY <1>5 DEF ShellInv
  <2> QED
    BY <1>1, <2>1 DEF Served
<1>12. tally'.faults = 0 => Restored'
  BY <1>5 DEF Restored
<1> QED
  BY <1>7, <1>8, <1>9, <1>10, <1>11, <1>12 DEF ShellInv

\* The page after it has shown what is on disk.
LEMMA Hydrating ==
  ASSUME NEW p \in Pages
  PROVE  /\ Hydrated(p) \in Pages /\ Hydrated(p).rows = OnDisk'
         /\ Hydrated(p).token = p.token /\ Hydrated(p).fresh = p.fresh
         /\ Hydrated(p).settings = p.settings /\ Hydrated(p).signedIn = p.signedIn
         /\ Hydrated(p).asking = p.asking /\ Hydrated(p).engine = p.engine
         /\ Hydrated(p).authChecked = p.authChecked /\ Hydrated(p).pulledFor = p.pulledFor
  BY DEF Hydrated, Pages, OnDisk

\* The page at the end of a cycle.
LEMMA Priming ==
  ASSUME NEW p \in Pages, NEW s \in Slots
  PROVE  LET q == Primed(s, p)
         IN  /\ q \in Pages /\ (q.rows = p.rows \/ q.rows = OnDisk')
             /\ engines[s].first => q.rows = OnDisk'
             /\ q.token = p.token /\ q.fresh = p.fresh /\ q.settings = p.settings
             /\ q.signedIn = p.signedIn /\ q.asking = p.asking /\ q.engine = p.engine
             /\ q.authChecked = p.authChecked /\ q.pulledFor = p.pulledFor
<1>1. CASE ~ engines[s].first
  BY <1>1 DEF Primed
<1>2. CASE engines[s].first
  <2> DEFINE h == Hydrated(p)
             t == [h EXCEPT !.syncPrimed = TRUE]
  <2>1. /\ h \in Pages /\ h.rows = OnDisk'
        /\ h.token = p.token /\ h.fresh = p.fresh /\ h.settings = p.settings
        /\ h.signedIn = p.signedIn /\ h.asking = p.asking /\ h.engine = p.engine
        /\ h.authChecked = p.authChecked /\ h.pulledFor = p.pulledFor
    BY Hydrating
  <2> HIDE DEF h
  <2>2. /\ t \in Pages /\ t.rows = h.rows
        /\ t.token = h.token /\ t.fresh = h.fresh /\ t.settings = h.settings
        /\ t.signedIn = h.signedIn /\ t.asking = h.asking /\ t.engine = h.engine
        /\ t.authChecked = h.authChecked /\ t.pulledFor = h.pulledFor
    BY <2>1 DEF Pages
  <2>3. Primed(s, p) = t
    BY <1>2 DEF Primed, h
  <2> HIDE DEF t
  <2> QED
    BY <2>1, <2>2, <2>3
<1> QED
  BY <1>1, <1>2

\* An engine that takes a step.
Acting(s) == Busy(s) \/ engines[s].timer = "set" \/ s = page.engine

\* What an engine is in a cycle and after it.
LEMMA CycleTypes ==
  ASSUME engines \in [Slots -> Engine], NEW s \in Slots
  PROVE  /\ \A e \in Pushing(s) : e \in Engine /\ e.first = engines[s].first
         /\ Pushing(s) # {} => Acting(s)
         /\ engines[s].pc = "pull" => Acting(s)
         /\ \A e \in Engine : /\ Ended(e) \in Engine /\ Ended(e).pc = "idle"
                              /\ [e EXCEPT !.pc = "pull"] \in Engine
<1>1. engines[s] \in Engine
  OBVIOUS
<1>2. \A e \in Engine : /\ Ended(e) \in Engine /\ Ended(e).pc = "idle"
                        /\ [e EXCEPT !.pc = "pull"] \in Engine
  BY DEF Ended, Engine
<1> DEFINE woken == [engines[s] EXCEPT !.pc = "push"]
           fired == [woken EXCEPT !.timer = "fired"]
<1>3. /\ woken \in Engine /\ fired \in Engine /\ woken.first = engines[s].first
      /\ fired.first = engines[s].first
  BY <1>1 DEF Engine
<1>4. CASE engines[s].pc = "push"
  <2>1. Pushing(s) = {engines[s]}
    BY <1>4 DEF Pushing
  <2> QED
    BY <1>1, <1>2, <1>4, <2>1 DEF Acting, Busy
<1>5. CASE engines[s].pc = "idle"
  <2>1. Pushing(s) = {e \in {woken, fired} :
                        IF e = woken THEN s = page.engine ELSE engines[s].timer = "set"}
    BY <1>5 DEF Pushing
  <2> HIDE DEF woken, fired
  <2> QED
    BY <1>2, <1>3, <1>5, <2>1 DEF Acting
<1>6. CASE engines[s].pc \notin {"push", "idle"}
  <2>1. Pushing(s) = {}
    BY <1>6 DEF Pushing
  <2> QED
    BY <1>2, <2>1 DEF Acting, Busy
<1> QED
  BY <1>4, <1>5, <1>6

\* Who may act: not a page that has just been loaded, and, while no engine was stopped in its
\* cycle, only the engine of a page that is of one account.
LEMMA ActingEngine ==
  ASSUME ShellInv, NEW s \in Slots, Acting(s)
  PROVE  /\ flow.pc # "restore"
         /\ ~ ghost => /\ s = page.engine /\ page.engine # 0 /\ page.signedIn
                       /\ device.account \in Accounts
                       /\ flow.pc \notin {"restore", "guard", "claim", "settings"}
                       /\ page.token \in {NoOne, device.account}
                       /\ cookie \in {NoOne, device.account}
         /\ tally.faults = 0 => page.signedIn \/ flow.pc = "wiping"
<1>1. engines[s] = NoEngine => ~ Busy(s) /\ engines[s].timer # "set"
  BY DEF NoEngine, Busy
<1>2. s # 0
  BY ShellAssumption
<1>3. flow.pc # "restore"
  BY <1>1, <1>2 DEF ShellInv, FreshLoad, Acting
<1>4. ASSUME ~ ghost
      PROVE  /\ s = page.engine /\ page.engine # 0 /\ page.signedIn
             /\ device.account \in Accounts
             /\ flow.pc \notin {"restore", "guard", "claim", "settings"}
             /\ page.token \in {NoOne, device.account} /\ cookie \in {NoOne, device.account}
  <2>1. s = page.engine
    BY <1>4 DEF ShellInv, Apart, OneEngineRuns, Acting
  <2> QED
    BY <1>2, <1>4, <2>1 DEF ShellInv, Apart, OneAccount, Placed
<1>5. tally.faults = 0 => page.signedIn \/ flow.pc = "wiping"
  BY <1>1, <1>2 DEF ShellInv, Served, Acting
<1> QED
  BY <1>3, <1>4, <1>5

\* What the step of an engine cannot disturb, but for the rows.
LEMMA CycleKeepsSession ==
  ASSUME ShellInv, NEW s \in Slots, Acting(s), NEW e \in Engine,
         engines' = [engines EXCEPT ![s] = e],
         page' \in Pages,
         UNCHANGED <<page.token, page.fresh, page.settings, page.signedIn, page.engine,
                     page.authChecked>>,
         page'.asking = page.asking \/ (page'.asking /\ ~ Accepted),
         UNCHANGED <<cookie, device, flow, saves, ghost, late, wantsOut>>,
         \A a \in Accounts : /\ server'[a].is = server[a].is
                             /\ server'[a].settings = server[a].settings,
         tally'.faults = 0 => tally.faults = 0
  PROVE  /\ engines' \in [Slots -> Engine]
         /\ Placed' /\ FreshLoad' /\ StaysOut'
         /\ ~ ghost' => OneEngineRuns' /\ OneAccount'
         /\ tally'.faults = 0 => Served'
         /\ tally'.faults = 0 /\ ~ late' => Restored'
<1>1. /\ engines \in [Slots -> Engine] /\ cookie \in Accounts \cup {NoOne}
      /\ device.account \in Accounts \cup {NoOne} /\ page.token \in Accounts \cup {NoOne}
  BY TypesOf DEF ShellInv, Devices, Pages
<1>2. /\ engines' \in [Slots -> Engine]
      /\ \A t \in Slots : t # s => engines'[t] = engines[t]
  BY <1>1
<1>3. Placed'
  BY <1>1 DEF ShellInv, Placed
<1>4. FreshLoad' /\ StaysOut'
  BY ActingEngine DEF ShellInv, FreshLoad, StaysOut
<1>5. ASSUME ~ ghost' PROVE OneEngineRuns' /\ OneAccount'
  <2>1. Apart /\ s = page.engine /\ page.engine # 0
    BY <1>5, ActingEngine DEF ShellInv
  <2>2. OneEngineRuns'
    BY <1>2, <2>1 DEF Apart, OneEngineRuns, Busy
  <2>3. OneAccount'
    BY <2>1 DEF Apart, OneAccount
  <2> QED
    BY <2>2, <2>3
<1>6. ASSUME tally'.faults = 0 PROVE Served'
  <2>1. Served /\ (page.signedIn \/ flow.pc = "wiping")
    BY <1>6, ActingEngine DEF ShellInv
  <2>2. page.signedIn /\ flow.pc # "wiping" => Accepted
    BY <1>1, <2>1, SettingsAreAccounts DEF Served, Accepted, ShellInv, Placed
  <2>3. page'.asking => flow.pc = "wiping"
    BY <2>1, <2>2 DEF Served
  <2>4. flow.pc \in {"guard", "claim", "settings"} => FALSE
    BY <2>1 DEF ShellInv, Placed
  <2>5. page.signedIn /\ flow.pc # "wiping" => page.token \in Accounts
    BY <2>1 DEF Served, ShellInv, Placed
  <2> QED
    BY <2>1, <2>3, <2>4, <2>5 DEF Served
<1>7. tally'.faults = 0 /\ ~ late' => Restored'
  BY <1>1 DEF ShellInv, Restored, Held
<1> QED
  BY <1>2, <1>3, <1>4, <1>5, <1>6, <1>7

\* A cycle that writes no row down shows what was on disk already.
LEMMA RowsShownAgain ==
  ASSUME ShellInv, ~ ghost, UNCHANGED <<disk, server, flow, device, page.authChecked>>,
         page'.rows \in {page.rows, OnDisk'}, page'.pulledFor = page.pulledFor
  PROVE  RowsAreOwn' /\ RowsStayHome' /\ PulledIsShown'
<1>1. Apart /\ OnDisk' = OnDisk
  BY DEF ShellInv, Apart, OnDisk
<1>2. \A r \in page'.rows : r \in page.rows \/ r \in OnDisk
  BY <1>1
<1>3. RowsAreOwn'
  BY <1>1, <1>2 DEF Apart, RowsAreOwn, Stranger
<1>4. RowsStayHome' /\ PulledIsShown'
  BY <1>1 DEF Apart, RowsStayHome, PulledIsShown
<1> QED
  BY <1>3, <1>4

\* The pending rows are sent.
LEMMA PushRowsStep == ASSUME ShellInv, NEW s \in Slots, PushRows(s) PROVE ShellInv'
<1>1. /\ UNCHANGED <<cookie, device, page, flow, saves, tally, ghost, late, wantsOut>>
      /\ \/ Unsent = {} /\ server' = server /\ disk' = disk
         \/ /\ Accepted
            /\ server' = [server EXCEPT ![page.token].rows = @ \cup Unsent]
            /\ disk' = [r \in Rows |-> IF r \in Unsent THEN "synced" ELSE disk[r]]
  BY DEF PushRows
<1>2. PICK e \in Pushing(s) : engines' = [engines EXCEPT ![s] = [e EXCEPT !.pc = "pull"]]
  BY DEF PushRows
<1>3. /\ engines \in [Slots -> Engine] /\ page \in Pages /\ server \in [Accounts -> Account]
      /\ disk \in [Rows -> {"none", "unsent", "synced"}]
      /\ page.token \in Accounts \cup {NoOne} /\ page.pulledFor \in Accounts \cup {NoOne}
  BY TypesOf DEF ShellInv, Pages
<1>4. e \in Engine /\ [e EXCEPT !.pc = "pull"] \in Engine /\ Acting(s)
  BY <1>2, <1>3, CycleTypes
<1>5. /\ server' \in [Accounts -> Account]
      /\ \A a \in Accounts : /\ server'[a].is = server[a].is
                             /\ server'[a].settings = server[a].settings
                             /\ \/ server'[a].rows = server[a].rows
                                \/ a = page.token /\ server'[a].rows = server[a].rows \cup Unsent
  <2>1. CASE server' = server
    BY <1>3, <2>1
  <2>2. CASE /\ Accepted
             /\ server' = [server EXCEPT ![page.token].rows = @ \cup Unsent]
    <3> DEFINE acc == [server[page.token] EXCEPT !.rows = @ \cup Unsent]
    <3>1. page.token \in Accounts
      BY <1>3, <2>2 DEF Accepted
    <3>2. /\ acc \in Account /\ acc.is = server[page.token].is
          /\ acc.settings = server[page.token].settings
          /\ acc.rows = server[page.token].rows \cup Unsent
      BY <1>3, <3>1 DEF Account, Unsent
    <3>3. server' = [server EXCEPT ![page.token] = acc]
      BY <2>2
    <3> HIDE DEF acc
    <3> QED
      BY <1>3, <3>1, <3>2, <3>3
  <2> QED
    BY <1>1, <2>1, <2>2
<1>6. /\ disk' \in [Rows -> {"none", "unsent", "synced"}]
      /\ \A r \in Rows : disk'[r] # "unsent" \/ disk'[r] = disk[r]
      /\ \A r \in Rows : disk'[r] = disk[r] \/ (disk[r] = "unsent" /\ disk'[r] = "synced")
  BY <1>1, <1>3 DEF Unsent
<1>7. OnDisk' = OnDisk /\ Unsent' \subseteq Unsent
  BY <1>6 DEF OnDisk, Unsent
<1>8. /\ engines' \in [Slots -> Engine]
      /\ Placed' /\ FreshLoad' /\ StaysOut'
      /\ ~ ghost' => OneEngineRuns' /\ OneAccount'
      /\ tally'.faults = 0 => Served'
      /\ tally'.faults = 0 /\ ~ late' => Restored'
  BY <1>1, <1>2, <1>3, <1>4, <1>5, CycleKeepsSession
<1>9. ShellTypeOK'
  BY <1>1, <1>5, <1>6, <1>8, TypesOf, TypesNext DEF ShellInv
<1>10. OwnUnsent'
  BY <1>1, <1>6, <1>7 DEF ShellInv, OwnUnsent, Stranger
<1>11. ASSUME ~ ghost PROVE RowsAreOwn' /\ RowsStayHome' /\ PulledIsShown'
  <2>1. Apart /\ page.token \in {NoOne, device.account}
    BY <1>4, <1>11, ActingEngine DEF ShellInv
  <2>2. RowsAreOwn'
    BY <1>1, <1>6, <1>7, <2>1 DEF Apart, RowsAreOwn, Stranger, OnDisk
  <2>3. \A r \in Unsent : r \in OnDisk /\ r.by = device.account
    BY DEF ShellInv, OwnUnsent, Unsent, OnDisk
  <2>4. RowsStayHome'
    <3> SUFFICES ASSUME NEW a \in Accounts, NEW r \in server'[a].rows PROVE r.by = a
      BY DEF RowsStayHome
    <3>1. CASE r \in server[a].rows
      BY <2>1, <3>1, <1>1, <1>11 DEF Apart, RowsStayHome
    <3>2. CASE r \notin server[a].rows
      <4>1. a = page.token /\ r \in Unsent
        BY <1>5, <3>2
      <4>2. a # NoOne
        BY ShellAssumption
      <4> QED
        BY <2>1, <2>3, <4>1, <4>2
    <3> QED
      BY <3>1, <3>2
  <2>5. PulledIsShown'
    BY <1>1, <1>3, <1>5, <1>7, <2>1, <2>3 DEF Apart, PulledIsShown
  <2> QED
    BY <2>2, <2>4, <2>5
<1> QED
  BY <1>1, <1>8, <1>9, <1>10, <1>11 DEF ShellInv, Apart

\* The server's rows are written down.
LEMMA PullRowsStep == ASSUME ShellInv, NEW s \in Slots, PullRows(s) PROVE ShellInv'
<1> DEFINE rows == server[page.token].rows
           told == IF rows = {} THEN page ELSE Hydrated(page)
           q == Primed(s, told)
           p == [q EXCEPT !.pulledFor = IF engines[s].first THEN page.token ELSE @]
           e == Ended(engines[s])
<1>1. /\ engines[s].pc = "pull" /\ Accepted
      /\ disk' = [r \in Rows |-> IF r \in rows THEN "synced" ELSE disk[r]]
      /\ page' = p
      /\ UNCHANGED <<cookie, device, flow, server, saves, tally, ghost, late, wantsOut>>
  BY DEF PullRows
<1>2. engines' = [engines EXCEPT ![s] = e]
  BY DEF PullRows
<1>3. /\ engines \in [Slots -> Engine] /\ page \in Pages /\ server \in [Accounts -> Account]
      /\ disk \in [Rows -> {"none", "unsent", "synced"}]
      /\ page.token \in Accounts /\ page.pulledFor \in Accounts \cup {NoOne}
  BY <1>1, TypesOf DEF ShellInv, Pages, Accepted
<1>4. e \in Engine /\ Acting(s) /\ rows \subseteq Rows
  BY <1>1, <1>3, CycleTypes DEF Account
<1>5. /\ told \in Pages /\ (told.rows = OnDisk' \/ (rows = {} /\ told.rows = page.rows))
      /\ told.token = page.token /\ told.fresh = page.fresh /\ told.settings = page.settings
      /\ told.signedIn = page.signedIn /\ told.asking = page.asking
      /\ told.engine = page.engine /\ told.authChecked = page.authChecked
      /\ told.pulledFor = page.pulledFor
  <2>1. CASE rows = {}
    BY <1>3, <2>1
  <2>2. CASE rows # {}
    <3>1. told = Hydrated(page)
      BY <2>2
    <3> QED
      BY <1>3, <3>1, Hydrating
  <2> QED
    BY <2>1, <2>2
<1> HIDE DEF told
<1>6. /\ q \in Pages /\ (q.rows = told.rows \/ q.rows = OnDisk')
      /\ engines[s].first => q.rows = OnDisk'
      /\ q.token = told.token /\ q.fresh = told.fresh /\ q.settings = told.settings
      /\ q.signedIn = told.signedIn /\ q.asking = told.asking /\ q.engine = told.engine
      /\ q.authChecked = told.authChecked /\ q.pulledFor = told.pulledFor
  BY <1>5, Priming
<1> HIDE DEF q
<1>7. /\ p \in Pages /\ p.rows = q.rows
      /\ p.token = q.token /\ p.fresh = q.fresh /\ p.settings = q.settings
      /\ p.signedIn = q.signedIn /\ p.asking = q.asking /\ p.engine = q.engine
      /\ p.authChecked = q.authChecked
      /\ p.pulledFor = IF engines[s].first THEN page.token ELSE q.pulledFor
  BY <1>3, <1>6 DEF Pages
<1> HIDE DEF p, e, rows
<1>8. /\ page' \in Pages
      /\ page'.token = page.token /\ page'.fresh = page.fresh /\ page'.settings = page.settings
      /\ page'.signedIn = page.signedIn /\ page'.asking = page.asking
      /\ page'.engine = page.engine /\ page'.authChecked = page.authChecked
      /\ page'.pulledFor = IF engines[s].first THEN page.token ELSE page.pulledFor
      /\ page'.rows = OnDisk' \/ (rows = {} /\ page'.rows = page.rows)
      /\ engines[s].first => page'.rows = OnDisk'
  BY <1>1, <1>5, <1>6, <1>7
<1>9. /\ disk' \in [Rows -> {"none", "unsent", "synced"}]
      /\ \A r \in Rows : disk'[r] = IF r \in rows THEN "synced" ELSE disk[r]
  BY <1>1, <1>3
<1>10. OnDisk' = OnDisk \cup rows /\ Unsent' \subseteq Unsent
  BY <1>4, <1>9 DEF OnDisk, Unsent
<1>11. /\ engines' \in [Slots -> Engine]
       /\ Placed' /\ FreshLoad' /\ StaysOut'
       /\ ~ ghost' => OneEngineRuns' /\ OneAccount'
       /\ tally'.faults = 0 => Served'
       /\ tally'.faults = 0 /\ ~ late' => Restored'
  BY <1>1, <1>2, <1>3, <1>4, <1>8, CycleKeepsSession
<1>12. ShellTypeOK'
  BY <1>1, <1>8, <1>9, <1>11, TypesOf, TypesNext DEF ShellInv
<1>13. OwnUnsent'
  <2>1. \A r \in Rows : disk'[r] = "unsent" => disk[r] = "unsent"
    BY <1>9
  <2> QED
    BY <1>1, <1>8, <1>10, <2>1 DEF ShellInv, OwnUnsent, Stranger
<1>14. ASSUME ~ ghost PROVE RowsAreOwn' /\ RowsStayHome' /\ PulledIsShown'
  <2>1. /\ Apart /\ page.token = device.account
        /\ flow.pc \notin {"restore", "guard", "claim", "settings"}
    <3>1. page.token # NoOne
      BY <1>3, ShellAssumption
    <3>2. /\ page.token \in {NoOne, device.account}
          /\ flow.pc \notin {"restore", "guard", "claim", "settings"}
      BY <1>4, <1>14, ActingEngine
    <3>3. Apart
      BY <1>14 DEF ShellInv
    <3> QED
      BY <3>1, <3>2, <3>3
  <2>2. \A r \in rows : r.by = device.account
    <3>1. RowsStayHome
      BY <2>1 DEF Apart
    <3>2. \A r \in server[page.token].rows : r.by = page.token
      BY <1>3, <1>14, <3>1 DEF RowsStayHome
    <3> QED
      BY <2>1, <3>2 DEF rows
  <2>3. \A r \in OnDisk' : \/ r.by = device.account
                           \/ ~ page.authChecked /\ r.by = "demo" /\ disk'[r] = "synced"
    BY <1>9, <1>10, <2>1, <2>2 DEF Apart, RowsAreOwn, OnDisk
  <2>4. RowsAreOwn'
    BY <1>1, <1>8, <2>1, <2>3 DEF Apart, RowsAreOwn, Stranger
  <2>5. RowsStayHome'
    BY <1>1, <2>1 DEF Apart, RowsStayHome
  <2>6. PulledIsShown'
    <3>1. CASE engines[s].first
      BY <1>1, <1>8, <1>10, <2>1, <3>1 DEF PulledIsShown, rows
    <3>2. CASE ~ engines[s].first
      BY <1>1, <1>8, <1>10, <2>1, <3>2 DEF Apart, PulledIsShown
    <3> QED
      BY <3>1, <3>2
  <2> QED
    BY <2>4, <2>5, <2>6
<1> QED
  BY <1>1, <1>11, <1>12, <1>13, <1>14 DEF ShellInv, Apart

\* A cycle fails: the server cannot be reached, or does not know the token.
LEMMA FailedCycles ==
  ASSUME ShellInv, NEW s \in Slots, AuthLost(s) \/ CycleFails(s) PROVE ShellInv'
<1> DEFINE q == Primed(s, page)
<1>1. /\ engines \in [Slots -> Engine] /\ page \in Pages /\ tally \in Tallies
      /\ \A e \in Engine : Ended(e) \in Engine
  BY TypesOf, CycleTypes DEF ShellInv
<1>2. /\ q \in Pages /\ q.rows \in {page.rows, OnDisk'}
      /\ q.token = page.token /\ q.fresh = page.fresh /\ q.settings = page.settings
      /\ q.signedIn = page.signedIn /\ q.asking = page.asking /\ q.engine = page.engine
      /\ q.authChecked = page.authChecked /\ q.pulledFor = page.pulledFor
  BY <1>1, Priming
<1> HIDE DEF q
<1>3. /\ UNCHANGED <<cookie, device, flow, server, saves, ghost, late, wantsOut, disk>>
      /\ \E e \in Engine : Acting(s) /\ engines' = [engines EXCEPT ![s] = e]
      /\ page' \in Pages /\ page'.rows \in {page.rows, OnDisk'}
      /\ page'.token = page.token /\ page'.fresh = page.fresh /\ page'.settings = page.settings
      /\ page'.signedIn = page.signedIn /\ page'.engine = page.engine
      /\ page'.authChecked = page.authChecked /\ page'.pulledFor = page.pulledFor
      /\ page'.asking = page.asking \/ (page'.asking /\ ~ Accepted)
      /\ tally' \in Tallies /\ (tally'.faults = 0 => tally.faults = 0)
  <2>1. CASE AuthLost(s)
    <3> DEFINE t == [q EXCEPT !.asking = TRUE]
    <3>1. /\ UNCHANGED <<cookie, device, flow, server, saves, ghost, late, wantsOut, disk, tally>>
          /\ ~ Accepted /\ page' = t
      BY <2>1 DEF AuthLost, q
    <3>2. \E e \in Engine : Acting(s) /\ engines' = [engines EXCEPT ![s] = e]
      <4>1. CASE engines[s].pc = "pull"
        <5>1. engines' = [engines EXCEPT ![s] = Ended(engines[s])]
          BY <2>1, <4>1 DEF AuthLost
        <5> QED
          BY <1>1, <4>1, <5>1, CycleTypes
      <4>2. CASE engines[s].pc # "pull"
        <5>1. PICK e \in Pushing(s) : engines' = [engines EXCEPT ![s] = Ended(e)]
          BY <2>1, <4>2 DEF AuthLost
        <5> QED
          BY <1>1, <5>1, CycleTypes
      <4> QED
        BY <4>1, <4>2
    <3>3. /\ t \in Pages /\ t.rows = q.rows
          /\ t.token = q.token /\ t.fresh = q.fresh /\ t.settings = q.settings
          /\ t.signedIn = q.signedIn /\ t.asking /\ t.engine = q.engine
          /\ t.authChecked = q.authChecked /\ t.pulledFor = q.pulledFor
      BY <1>2 DEF Pages
    <3> HIDE DEF t
    <3> QED
      BY <1>1, <1>2, <3>1, <3>2, <3>3
  <2>2. CASE CycleFails(s)
    <3>1. /\ UNCHANGED <<cookie, device, flow, server, saves, ghost, late, wantsOut, disk>>
          /\ Busy(s) /\ Fault /\ page' = q
          /\ engines' = [engines EXCEPT ![s] = Ended(engines[s])]
      BY <2>2 DEF CycleFails, q
    <3>2. tally' \in Tallies /\ tally'.faults # 0
      BY <1>1, <3>1, CountingUp
    <3> QED
      BY <1>1, <1>2, <3>1, <3>2 DEF Acting
  <2> QED
    BY <2>1, <2>2
<1>4. PICK e \in Engine : Acting(s) /\ engines' = [engines EXCEPT ![s] = e]
  BY <1>3
<1>5. /\ engines' \in [Slots -> Engine]
      /\ Placed' /\ FreshLoad' /\ StaysOut'
      /\ ~ ghost' => OneEngineRuns' /\ OneAccount'
      /\ tally'.faults = 0 => Served'
      /\ tally'.faults = 0 /\ ~ late' => Restored'
  BY <1>3, <1>4, CycleKeepsSession
<1>6. ShellTypeOK'
  BY <1>3, <1>5, TypesOf, TypesNext DEF ShellInv
<1>7. OwnUnsent'
  BY <1>3 DEF ShellInv, OwnUnsent, Stranger, Unsent
<1>8. ~ ghost => RowsAreOwn' /\ RowsStayHome' /\ PulledIsShown'
  BY <1>3, RowsShownAgain
<1> QED
  BY <1>3, <1>5, <1>6, <1>7, <1>8 DEF ShellInv, Apart

\* What the start of an engine leaves: without a token there is none.
LEMMA Starting ==
  ASSUME NEW p \in Pages, NEW es \in [Slots -> Engine], StartSync(p, es)
  PROVE  /\ page' \in Pages /\ engines' \in [Slots -> Engine]
         /\ page'.token = p.token /\ page'.fresh = p.fresh /\ page'.settings = p.settings
         /\ page'.rows = p.rows /\ page'.signedIn = p.signedIn /\ page'.asking = p.asking
         /\ page'.authChecked = p.authChecked /\ page'.pulledFor = p.pulledFor
         /\ p.token = NoOne => engines' = es /\ page'.engine = p.engine
         /\ p.token # NoOne =>
              /\ page'.engine \in Slots
              /\ \A s \in Slots : s # page'.engine => engines'[s] = es[s]
<1>1. CASE p.token = NoOne
  <2>1. page' = [p EXCEPT !.syncPrimed = TRUE] /\ engines' = es
    BY <1>1 DEF StartSync
  <2> QED
    BY <1>1, <2>1 DEF Pages
<1>2. CASE p.token # NoOne
  <2> DEFINE e == [pc |-> "push", timer |-> "set", first |-> TRUE]
  <2>1. PICK s \in Slots : /\ page' = [p EXCEPT !.engine = s]
                           /\ engines' = [es EXCEPT ![s] = e]
    BY <1>2 DEF StartSync
  <2>2. e \in Engine
    BY DEF Engine
  <2>3. /\ page' \in Pages /\ page'.engine = s
        /\ page'.token = p.token /\ page'.fresh = p.fresh /\ page'.settings = p.settings
        /\ page'.rows = p.rows /\ page'.signedIn = p.signedIn /\ page'.asking = p.asking
        /\ page'.authChecked = p.authChecked /\ page'.pulledFor = p.pulledFor
    BY <2>1 DEF Pages
  <2> HIDE DEF e
  <2> QED
    BY <1>2, <2>1, <2>2, <2>3
<1> QED
  BY <1>1, <1>2

\* The cookie has been asked for a token.
LEMMA AskAnsweredStep == ASSUME ShellInv, AskAnswered PROVE ShellInv'
<1> DEFINE again == [page EXCEPT !.asking = FALSE, !.token = cookie, !.fresh = TRUE, !.engine = 0]
           out == [page EXCEPT !.asking = FALSE, !.signedIn = FALSE, !.engine = 0,
                               !.mirrored = Unset]
<1>1. /\ page.asking
      /\ ghost' = (ghost \/ (page.engine # 0 /\ Busy(page.engine)))
      /\ UNCHANGED <<cookie, device, disk, flow, server, saves, tally, late, wantsOut>>
      /\ IF cookie # NoOne THEN StartSync(again, Stopped) ELSE page' = out /\ engines' = Stopped
  BY DEF AskAnswered, GhostAfterStop
<1>2. /\ page \in Pages /\ cookie \in Accounts \cup {NoOne} /\ flow \in Flows
      /\ page.pulledFor \in Accounts \cup {NoOne}
  BY TypesOf DEF ShellInv, Pages
<1>3. /\ Stopped \in [Slots -> Engine]
      /\ ~ ghost' =>
           \A s \in Slots : Stopped[s].pc \notin {"push", "pull"} /\ Stopped[s].timer # "set"
  BY <1>1, StoppingEngine
<1>4. /\ again \in Pages /\ ~ again.asking /\ again.token = cookie /\ again.fresh
      /\ again.engine = 0 /\ again.settings = page.settings /\ again.rows = page.rows
      /\ again.signedIn = page.signedIn /\ again.authChecked = page.authChecked
      /\ again.pulledFor = page.pulledFor
  BY <1>2 DEF Pages
<1>5. /\ out \in Pages /\ ~ out.asking /\ out.token = page.token /\ ~ out.signedIn
      /\ out.engine = 0 /\ out.settings = page.settings /\ out.rows = page.rows
      /\ out.authChecked = page.authChecked /\ out.pulledFor = page.pulledFor
  BY <1>2 DEF Pages
<1> HIDE DEF again, out
<1>6. /\ page' \in Pages /\ engines' \in [Slots -> Engine]
      /\ ~ page'.asking /\ page'.settings = page.settings /\ page'.rows = page.rows
      /\ page'.authChecked = page.authChecked /\ page'.pulledFor = page.pulledFor
      /\ \/ /\ cookie # NoOne /\ page'.token = cookie /\ page'.signedIn = page.signedIn
            /\ \A s \in Slots : s # page'.engine => engines'[s] = Stopped[s]
         \/ /\ cookie = NoOne /\ page'.token = page.token /\ ~ page'.signedIn
            /\ page'.engine = 0 /\ engines' = Stopped
  <2>1. CASE cookie # NoOne
    BY <1>1, <1>3, <1>4, <2>1, Starting
  <2>2. CASE cookie = NoOne
    BY <1>1, <1>3, <1>5, <2>2
  <2> QED
    BY <2>1, <2>2
<1>7. flow.pc # "restore" /\ (tally.faults = 0 => flow.pc = "wiping" /\ cookie = NoOne)
  BY <1>1 DEF ShellInv, FreshLoad, Served
<1>8. ShellTypeOK'
  <2>1. ghost' \in BOOLEAN
    BY <1>1
  <2> QED
    BY <1>1, <1>6, <2>1, TypesOf, TypesNext DEF ShellInv
<1>9. Placed' /\ FreshLoad' /\ StaysOut'
  <2>1. Placed'
    BY <1>1, <1>2, <1>6 DEF ShellInv, Placed
  <2> QED
    BY <1>1, <1>7, <2>1 DEF ShellInv, FreshLoad, StaysOut
<1>10. OwnUnsent'
  BY <1>1, <1>6 DEF ShellInv, OwnUnsent, Stranger, Unsent
<1>11. ASSUME ~ ghost' PROVE Apart'
  <2>1. Apart /\ ~ ghost
    BY <1>1, <1>11 DEF ShellInv
  <2>2. OneEngineRuns'
    BY <1>3, <1>6, <1>11 DEF OneEngineRuns, Busy
  <2>3. OneAccount'
    BY <1>1, <1>6, <2>1 DEF Apart, OneAccount
  <2>4. RowsAreOwn' /\ RowsStayHome' /\ PulledIsShown'
    BY <1>1, <1>6, <2>1 DEF Apart, RowsAreOwn, RowsStayHome, PulledIsShown, OnDisk, Stranger
  <2> QED
    BY <2>2, <2>3, <2>4 DEF Apart
<1>12. tally'.faults = 0 => Served'
  <2> SUFFICES ASSUME tally.faults = 0 PROVE Served'
    BY <1>1
  <2>1. Served /\ page'.token = page.token
    BY <1>6, <1>7 DEF ShellInv
  <2> QED
    BY <1>1, <1>6, <1>7, <2>1 DEF Served
<1>13. tally'.faults = 0 => Restored'
  BY <1>1, <1>7 DEF Restored
<1> QED
  BY <1>8, <1>9, <1>10, <1>11, <1>12, <1>13 DEF ShellInv

-----------------------------------------------------------------------------
(* Boot and sign-in. *)

\* The page is loaded: on the same data, or on none.
LEMMA Loading ==
  ASSUME ShellInv, NEW n \in {0, 1}, Load(n), device' \in Devices,
         disk' \in [Rows -> {"none", "unsent", "synced"}],
         \/ UNCHANGED <<device, disk>> /\ flow.pc # "wiping"
         \/ /\ device'.account = NoOne /\ device'.settings = Unset
            /\ \A r \in Rows : disk'[r] = "none",
         cookie' \in {cookie, NoOne}, tally'.faults = 0 => cookie' = NoOne,
         UNCHANGED <<server, late, wantsOut>>,
         ghost' \in BOOLEAN, ~ ghost' => ~ ghost
  PROVE  ShellInv'
<1>1. /\ page' = LoadedPage(device') /\ flow' = [Idle EXCEPT !.pc = "restore"]
      /\ engines' = [s \in Slots |-> NoEngine] /\ saves' = {s \in saves : s.to # NoOne}
      /\ tally' = [tally EXCEPT !.loads = @ + 1, !.faults = @ + n]
      /\ tally.loads < MaxLoads /\ tally'.faults <= MaxShellFaults
  BY DEF Load
<1>2. page' \in Pages
  <2>1. {} \in Settings
    BY SettingsAreAccounts
  <2> QED
    BY <1>1, <2>1 DEF LoadedPage, Pages, Devices
<1>3. /\ page'.token = NoOne /\ page'.rows = {} /\ ~ page'.signedIn /\ ~ page'.authChecked
      /\ page'.pulledFor = NoOne /\ page'.engine = 0 /\ ~ page'.asking
      /\ device'.settings # Unset => page'.settings = device'.settings
  BY <1>1 DEF LoadedPage
<1>4. flow' \in Flows /\ flow'.pc = "restore"
  BY <1>1 DEF Flows, Idle
<1>5. engines' \in [Slots -> Engine] /\ \A s \in Slots : engines'[s] = NoEngine
  BY <1>1 DEF Engine, NoEngine
<1>6. saves' \subseteq saves /\ \A save \in saves' : save.to # NoOne
  BY <1>1
<1>7. tally' \in Tallies /\ tally'.faults = tally.faults + n
  <2>1. tally \in Tallies
    BY TypesOf DEF ShellInv
  <2>2. tally.faults + n \in Nat /\ tally.loads + 1 \in 0..MaxLoads
    BY <1>1, <2>1, ShellAssumption DEF Tallies
  <2>3. tally'.faults = tally.faults + n
    BY <1>1, <2>1 DEF Tallies
  <2>4. tally.faults + n \in 0..MaxShellFaults
    BY <1>1, <2>2, <2>3, ShellAssumption
  <2> QED
    BY <1>1, <2>1, <2>2, <2>3, <2>4 DEF Tallies
<1>8. tally'.faults = 0 => tally.faults = 0
  <2>1. tally.faults \in Nat
    BY TypesOf DEF ShellInv, Tallies
  <2> QED
    BY <1>7, <2>1
<1>9. cookie \in Accounts \cup {NoOne} /\ server \in [Accounts -> Account] /\ SavesTyped(saves)
      /\ late \in BOOLEAN /\ wantsOut \in BOOLEAN
  BY TypesOf DEF ShellInv
<1>10. ShellTypeOK'
  <2>1. SavesTyped(saves')
    BY <1>6, <1>9 DEF SavesTyped
  <2>2. cookie' \in Accounts \cup {NoOne}
    BY <1>9
  <2> QED
    BY <1>2, <1>4, <1>5, <1>7, <1>9, <2>1, <2>2, TypesNext
<1>11. Placed' /\ FreshLoad' /\ StaysOut'
  BY <1>3, <1>4, <1>5, <1>6 DEF ShellInv, Placed, FreshLoad, StaysOut
<1>12. OwnUnsent'
  BY <1>3, <1>4 DEF ShellInv, OwnUnsent
<1>13. ASSUME ~ ghost' PROVE Apart'
  <2>1. Apart
    BY <1>13 DEF ShellInv
  <2>2. OneEngineRuns' /\ OneAccount' /\ PulledIsShown'
    BY <1>3, <1>5 DEF OneEngineRuns, OneAccount, PulledIsShown, Busy, NoEngine
  <2>3. RowsAreOwn'
    <3>1. \A r \in OnDisk' : r \in OnDisk /\ UNCHANGED <<device, disk>>
      BY DEF OnDisk
    <3>2. \A r \in OnDisk : \/ r.by = device.account
                            \/ r.by = "demo" /\ disk[r] = "synced"
      BY <2>1 DEF Apart, RowsAreOwn
    <3> QED
      BY <1>3, <1>4, <3>1, <3>2 DEF RowsAreOwn
  <2>4. RowsStayHome'
    BY <1>13, <2>1 DEF Apart, RowsStayHome
  <2> QED
    BY <2>2, <2>3, <2>4 DEF Apart
<1>14. tally'.faults = 0 => Served'
  BY <1>3, <1>4, <1>5, <1>6 DEF Served
<1>15. tally'.faults = 0 /\ ~ late' => Restored'
  BY <1>3, <1>6, <1>8 DEF ShellInv, Restored, Held
<1> QED
  BY <1>10, <1>11, <1>12, <1>13, <1>14, <1>15 DEF ShellInv

\* The page is reloaded, after a sign-out or at any time.
LEMMA ReloadSteps ==
  ASSUME ShellInv, Reload \/ LoggedOut \/ LogoutLost PROVE ShellInv'
<1>1. /\ device' = device /\ disk' = disk /\ flow.pc # "wiping"
      /\ UNCHANGED <<server, ghost, late, wantsOut>>
      /\ \/ Load(1) /\ cookie' = cookie
         \/ Load(0) /\ cookie' = NoOne
  BY DEF Reload, LoggedOut, LogoutLost
<1>2. /\ device \in Devices /\ disk \in [Rows -> {"none", "unsent", "synced"}]
      /\ ghost \in BOOLEAN /\ tally \in Tallies
  BY TypesOf DEF ShellInv
<1>3. CASE Load(1) /\ cookie' = cookie
  <2>1. tally'.faults # 0
    <3>1. tally.faults \in Nat
      BY <1>2 DEF Tallies
    <3>2. tally' = [tally EXCEPT !.loads = @ + 1, !.faults = @ + 1]
      BY <1>3 DEF Load
    <3>3. tally'.faults = tally.faults + 1
      BY <1>2, <3>2 DEF Tallies
    <3> QED
      BY <3>1, <3>3
  <2> QED
    BY <1>1, <1>2, <1>3, <2>1, Loading
<1>4. CASE Load(0) /\ cookie' = NoOne
  BY <1>1, <1>2, <1>4, Loading
<1> QED
  BY <1>1, <1>3, <1>4

\* The device is wiped after its account was deleted.
LEMMA WipeStep == ASSUME ShellInv, Wipe PROVE ShellInv'
<1>1. /\ flow.pc = "wiping" /\ disk' = [r \in Rows |-> "none"]
      /\ device' = [account |-> NoOne, settings |-> Unset, onboarded |-> FALSE]
      /\ ghost' = (ghost \/ (page.engine # 0 /\ Busy(page.engine)))
      /\ Load(0) /\ UNCHANGED <<cookie, server, late, wantsOut>>
  BY DEF Wipe, GhostAfterStop
<1>2. device' \in Devices /\ device'.account = NoOne /\ device'.settings = Unset
  BY <1>1 DEF Devices
<1>3. /\ disk' \in [Rows -> {"none", "unsent", "synced"}]
      /\ \A r \in Rows : disk'[r] = "none"
  BY <1>1
<1>4. tally'.faults = 0 => cookie' = NoOne
  <2>1. tally' = [tally EXCEPT !.loads = @ + 1, !.faults = @ + 0] /\ tally \in Tallies
    BY <1>1, TypesOf DEF Load, ShellInv
  <2>2. tally'.faults = tally.faults + 0 /\ tally.faults \in Nat
    BY <2>1 DEF Tallies
  <2>3. tally'.faults = tally.faults
    BY <2>2
  <2> QED
    BY <1>1, <2>3 DEF ShellInv, Served
<1>5. ghost' \in BOOLEAN /\ (~ ghost' => ~ ghost)
  BY <1>1
<1> QED
  BY <1>1, <1>2, <1>3, <1>4, <1>5, Loading

\* The cookie is traded for a token.
LEMMA RestoreAnsweredStep == ASSUME ShellInv, RestoreAnswered PROVE ShellInv'
<1> DEFINE p == [page EXCEPT !.token = cookie, !.fresh = TRUE]
           named == [flow EXCEPT !.pc = "guard", !.who = cookie]
           unnamed == [flow EXCEPT !.pc = "open"]
<1>1. /\ flow.pc = "restore"
      /\ UNCHANGED <<cookie, device, disk, engines, server, saves, tally, ghost, late, wantsOut>>
      /\ IF cookie # NoOne THEN page' = p /\ flow' = named ELSE page' = page /\ flow' = unnamed
  BY DEF RestoreAnswered, Rest
<1>2. page \in Pages /\ flow \in Flows /\ cookie \in Accounts \cup {NoOne}
  BY TypesOf DEF ShellInv
<1>3. /\ p \in Pages /\ p.token = cookie /\ p.fresh /\ p.settings = page.settings
      /\ p.rows = page.rows /\ p.signedIn = page.signedIn /\ p.asking = page.asking
      /\ p.engine = page.engine /\ p.authChecked = page.authChecked
      /\ p.pulledFor = page.pulledFor
      /\ named \in Flows /\ named.pc = "guard" /\ named.who = cookie
      /\ unnamed \in Flows /\ unnamed.pc = "open"
  BY <1>2 DEF Pages, Flows
<1> HIDE DEF p, named, unnamed
<1>4. /\ page' \in Pages /\ flow' \in Flows /\ page'.settings = page.settings
      /\ page'.rows = page.rows /\ ~ page'.signedIn /\ ~ page'.asking /\ page'.engine = 0
      /\ page'.authChecked = page.authChecked /\ (~ ghost => page'.pulledFor = NoOne)
      /\ \/ /\ cookie \in Accounts /\ page'.token = cookie /\ page'.fresh
            /\ flow'.pc = "guard" /\ flow'.who = cookie
         \/ cookie = NoOne /\ flow'.pc = "open"
  <2>1. /\ ~ page.signedIn /\ ~ page.asking /\ page.engine = 0
        /\ ~ ghost => page.pulledFor = NoOne
    BY <1>1 DEF ShellInv, Placed, FreshLoad, Apart, PulledIsShown
  <2> QED
    BY <1>1, <1>2, <1>3, <2>1
<1>5. ShellTypeOK'
  BY <1>1, <1>4, TypesOf, TypesNext DEF ShellInv
<1>6. Placed' /\ FreshLoad' /\ StaysOut'
  <2>1. Placed'
    BY <1>1, <1>4 DEF ShellInv, Placed
  <2>2. cookie \in Accounts => cookie # NoOne
    BY ShellAssumption
  <2> QED
    BY <1>1, <1>4, <2>1, <2>2 DEF ShellInv, FreshLoad, StaysOut
<1>7. OwnUnsent'
  BY <1>1, <1>4 DEF ShellInv, OwnUnsent
<1>8. ASSUME ~ ghost' PROVE Apart'
  <2>1. Apart
    BY <1>1, <1>8 DEF ShellInv
  <2>2. OneEngineRuns' /\ OneAccount' /\ RowsStayHome' /\ PulledIsShown'
    <3>1. OneEngineRuns'
      <4>1. page.engine = 0
        BY <1>1 DEF ShellInv, FreshLoad
      <4> QED
        BY <1>1, <1>4, <2>1, <4>1 DEF Apart, OneEngineRuns, Busy
    <3> QED
      BY <1>1, <1>4, <1>8, <2>1, <3>1 DEF Apart, OneAccount, RowsStayHome, PulledIsShown
  <2>3. RowsAreOwn'
    BY <1>1, <1>4, <2>1 DEF Apart, RowsAreOwn, OnDisk
  <2> QED
    BY <2>2, <2>3 DEF Apart
<1>9. tally'.faults = 0 => Served'
  <2> SUFFICES ASSUME tally.faults = 0 PROVE Served'
    BY <1>1
  <2>1. /\ page.engine = 0 /\ \A s \in Slots : engines[s] = NoEngine
        /\ \A save \in saves : save.to # NoOne
    BY <1>1 DEF ShellInv, FreshLoad
  <2>2. CASE cookie \in Accounts /\ flow'.pc = "guard"
    <3>1. server[cookie].is = "live" /\ page'.fresh /\ flow'.who = cookie
      BY <1>4, <2>2, ShellAssumption DEF ShellInv, Placed
    <3> QED
      BY <1>1, <1>4, <2>1, <2>2, <3>1 DEF Served
  <2>3. CASE flow'.pc = "open"
    BY <1>1, <1>4, <2>1, <2>3 DEF Served
  <2> QED
    BY <1>4, <2>2, <2>3
<1>10. tally'.faults = 0 /\ ~ late' => Restored'
  BY <1>1, <1>4 DEF ShellInv, Restored, Held
<1> QED
  BY <1>5, <1>6, <1>7, <1>8, <1>9, <1>10 DEF ShellInv

\* The server cannot be reached at the boot.
LEMMA RestoreUnreachableStep == ASSUME ShellInv, RestoreUnreachable PROVE ShellInv'
<1> DEFINE p == [page EXCEPT !.signedIn = TRUE]
           f == [flow EXCEPT !.pc = "open"]
<1>1. /\ flow.pc = "restore" /\ Fault /\ flow' = f
      /\ UNCHANGED <<cookie, device, disk, server, saves, ghost, late, wantsOut>>
      /\ IF device.account # NoOne THEN StartSync(p, engines)
         ELSE page' = page /\ engines' = engines
  BY DEF RestoreUnreachable, Rest
<1>2. /\ page \in Pages /\ flow \in Flows /\ tally \in Tallies /\ engines \in [Slots -> Engine]
      /\ device.account \in Accounts \cup {NoOne}
  BY TypesOf DEF ShellInv, Devices
<1>3. /\ page.token = NoOne /\ ~ page.asking /\ page.engine = 0 /\ ~ page.signedIn
      /\ ~ ghost => page.pulledFor = NoOne
  BY <1>1 DEF ShellInv, FreshLoad, Placed, Apart, PulledIsShown
<1>4. /\ p \in Pages /\ p.token = NoOne /\ p.settings = page.settings
      /\ p.rows = page.rows /\ p.asking = page.asking
      /\ p.engine = page.engine /\ p.authChecked = page.authChecked
      /\ p.pulledFor = page.pulledFor /\ f \in Flows /\ f.pc = "open" /\ f.who = flow.who
  BY <1>2, <1>3 DEF Pages, Flows
<1> HIDE DEF p, f
<1>5. /\ page' \in Pages /\ engines' = engines /\ page'.token = NoOne
      /\ page'.settings = page.settings /\ page'.rows = page.rows /\ ~ page'.asking
      /\ page'.engine = 0 /\ page'.authChecked = page.authChecked
      /\ page'.pulledFor = page.pulledFor
      /\ page'.signedIn => device.account # NoOne
  <2>1. CASE device.account # NoOne
    BY <1>1, <1>2, <1>3, <1>4, <2>1, Starting
  <2>2. CASE device.account = NoOne
    BY <1>1, <1>2, <1>3, <2>2
  <2> QED
    BY <2>1, <2>2
<1>6. tally' \in Tallies /\ tally'.faults # 0
  BY <1>1, <1>2, CountingUp
<1>7. ShellTypeOK'
  BY <1>1, <1>2, <1>4, <1>5, <1>6, TypesOf, TypesNext DEF ShellInv
<1>8. Placed' /\ FreshLoad' /\ StaysOut' /\ OwnUnsent'
  <2>1. Placed'
    BY <1>1, <1>2, <1>4, <1>5 DEF ShellInv, Placed
  <2>2. OwnUnsent'
    BY <1>1, <1>4, <1>5 DEF ShellInv, OwnUnsent
  <2> QED
    BY <1>1, <1>4, <1>6, <2>1, <2>2 DEF FreshLoad, StaysOut
<1>9. ASSUME ~ ghost' PROVE Apart'
  <2>1. Apart /\ page.pulledFor = NoOne
    BY <1>1, <1>3, <1>9 DEF ShellInv
  <2>2. OneEngineRuns' /\ OneAccount' /\ RowsStayHome' /\ PulledIsShown'
    BY <1>1, <1>3, <1>5, <2>1 DEF Apart, OneEngineRuns, OneAccount, RowsStayHome,
                                   PulledIsShown, Busy
  <2>3. RowsAreOwn'
    BY <1>1, <1>4, <1>5, <2>1 DEF Apart, RowsAreOwn, OnDisk
  <2> QED
    BY <2>2, <2>3 DEF Apart
<1> QED
  BY <1>6, <1>7, <1>8, <1>9 DEF ShellInv

\* A code is verified.
LEMMA SignInStep == ASSUME ShellInv, NEW a \in Accounts, SignIn(a) PROVE ShellInv'
<1> DEFINE p == [page EXCEPT !.token = a, !.fresh = TRUE, !.pulledFor = NoOne]
           f == [pc |-> "guard", who |-> a, isNew |-> server[a].is = "new"]
           acc == [server[a] EXCEPT !.is = "live"]
<1>1. /\ ~ page.signedIn /\ flow.pc = "idle" /\ cookie' = a
      /\ server' = [server EXCEPT ![a] = acc] /\ page' = p /\ flow' = f /\ wantsOut' = FALSE
      /\ UNCHANGED <<device, disk, engines, saves, tally, ghost, late>>
  BY DEF SignIn
<1>2. page \in Pages /\ server \in [Accounts -> Account] /\ a # NoOne
  BY TypesOf, ShellAssumption DEF ShellInv
<1>3. /\ p \in Pages /\ p.token = a /\ p.fresh /\ p.settings = page.settings
      /\ p.rows = page.rows /\ p.signedIn = page.signedIn /\ p.asking = page.asking
      /\ p.engine = page.engine /\ p.authChecked = page.authChecked
      /\ p.pulledFor = NoOne
      /\ f \in Flows /\ f.pc = "guard" /\ f.who = a
      /\ acc \in Account /\ acc.is = "live" /\ acc.rows = server[a].rows
      /\ acc.settings = server[a].settings
  BY <1>2 DEF Pages, Flows, Account
<1> HIDE DEF p, f, acc
<1>4. /\ server' \in [Accounts -> Account] /\ server'[a].is = "live"
      /\ \A b \in Accounts : /\ server'[b].rows = server[b].rows
                             /\ server'[b].settings = server[b].settings
                             /\ b # a => server'[b].is = server[b].is
  BY <1>1, <1>2, <1>3
<1>5. ShellTypeOK'
  BY <1>1, <1>3, <1>4, TypesOf, TypesNext DEF ShellInv
<1>6. Placed' /\ FreshLoad' /\ StaysOut' /\ OwnUnsent'
  <2>1. Placed'
    BY <1>1, <1>3, <1>4 DEF ShellInv, Placed
  <2>2. OwnUnsent'
    BY <1>1, <1>3 DEF ShellInv, OwnUnsent
  <2> QED
    BY <1>1, <1>3, <2>1, <2>2 DEF FreshLoad, StaysOut
<1>7. ASSUME ~ ghost' PROVE Apart'
  <2>1. Apart /\ page.engine = 0 /\ ~ page.asking
    BY <1>1, <1>7 DEF ShellInv, Apart, OneAccount
  <2>2. OneEngineRuns' /\ OneAccount' /\ RowsStayHome' /\ PulledIsShown'
    BY <1>1, <1>3, <1>4, <2>1 DEF Apart, OneEngineRuns, OneAccount, RowsStayHome,
                                   PulledIsShown, Busy
  <2>3. RowsAreOwn'
    BY <1>1, <1>3, <2>1 DEF Apart, RowsAreOwn, OnDisk
  <2> QED
    BY <2>2, <2>3 DEF Apart
<1>8. tally'.faults = 0 => Served'
  BY <1>1, <1>2, <1>3, <1>4 DEF ShellInv, Served
<1>9. tally'.faults = 0 /\ ~ late' => Restored'
  <2>1. device.account \in Accounts \cup {NoOne}
    BY TypesOf DEF ShellInv, Devices
  <2> QED
    BY <1>1, <1>3, <1>4, <2>1 DEF ShellInv, Restored, Held
<1> QED
  BY <1>5, <1>6, <1>7, <1>8, <1>9 DEF ShellInv

\* The device is cleared of another account's data.
LEMMA GuardStep == ASSUME ShellInv, Guard PROVE ShellInv'
<1> DEFINE bare == [device EXCEPT !.settings = Unset, !.onboarded = FALSE]
           f == [flow EXCEPT !.pc = "claim"]
<1>1. /\ flow.pc = "guard" /\ flow' = f
      /\ UNCHANGED <<cookie, page, engines, server, saves, tally, ghost, late, wantsOut>>
      /\ IF Stranger THEN disk' = [r \in Rows |-> "none"] /\ device' = bare
         ELSE disk' = disk /\ device' = device
  BY DEF Guard, Rest
<1>2. /\ device \in Devices /\ flow \in Flows /\ disk \in [Rows -> {"none", "unsent", "synced"}]
  BY TypesOf DEF ShellInv
<1>3. /\ bare \in Devices /\ bare.account = device.account /\ bare.settings = Unset
      /\ f \in Flows /\ f.pc = "claim" /\ f.who = flow.who
  BY <1>2 DEF Devices, Flows
<1> HIDE DEF bare, f
<1>4. /\ device' \in Devices /\ device'.account = device.account
      /\ disk' \in [Rows -> {"none", "unsent", "synced"}]
      /\ \/ /\ Stranger /\ device'.settings = Unset /\ \A r \in Rows : disk'[r] = "none"
         \/ ~ Stranger /\ device' = device /\ disk' = disk
      /\ Stranger' = Stranger
  BY <1>1, <1>2, <1>3 DEF Stranger
<1>5. ShellTypeOK'
  BY <1>1, <1>3, <1>4, TypesOf, TypesNext DEF ShellInv
<1>6. Placed' /\ FreshLoad' /\ StaysOut'
  BY <1>1, <1>3, <1>4 DEF ShellInv, Placed, FreshLoad, StaysOut
<1>7. OwnUnsent'
  <2>1. \A r \in Rows : disk'[r] = "unsent" => r.by = device'.account
    BY <1>4 DEF ShellInv, OwnUnsent
  <2>2. Stranger' => Unsent' = {}
    BY <1>4 DEF Unsent
  <2> QED
    BY <1>1, <1>4, <2>1, <2>2 DEF ShellInv, OwnUnsent
<1>8. ASSUME ~ ghost' PROVE Apart'
  <2>1. Apart
    BY <1>1, <1>8 DEF ShellInv
  <2>2. OneEngineRuns' /\ OneAccount' /\ RowsStayHome' /\ PulledIsShown'
    BY <1>1, <1>3, <1>4, <2>1 DEF Apart, OneEngineRuns, OneAccount, RowsStayHome,
                                   PulledIsShown, Busy
  <2>3. Stranger => OnDisk' = {}
    BY <1>4 DEF OnDisk
  <2>4. \A r \in OnDisk' : \/ r.by = device.account
                           \/ ~ page.authChecked /\ r.by = "demo" /\ disk'[r] = "synced"
    BY <1>4, <2>1, <2>3 DEF Apart, RowsAreOwn, OnDisk
  <2>5. RowsAreOwn'
    BY <1>1, <1>4, <2>1, <2>3, <2>4 DEF Apart, RowsAreOwn
  <2> QED
    BY <2>2, <2>5 DEF Apart
<1>9. tally'.faults = 0 => Served'
  BY <1>1, <1>3, <1>4 DEF ShellInv, Served
<1>10. tally'.faults = 0 /\ ~ late' => Restored'
  BY <1>1, <1>3, <1>4 DEF ShellInv, Restored, Held
<1> QED
  BY <1>5, <1>6, <1>7, <1>8, <1>9, <1>10 DEF ShellInv

\* The device is of the account from now on.
LEMMA ClaimStep == ASSUME ShellInv, Claim PROVE ShellInv'
<1> DEFINE h == Hydrated(page)
           d == [device EXCEPT !.account = flow.who]
           f == [flow EXCEPT !.pc = "settings"]
<1>1. /\ flow.pc = "claim" /\ disk' = disk /\ device' = d /\ flow' = f
      /\ page' = (IF Stranger THEN h ELSE page)
      /\ UNCHANGED <<cookie, engines, server, saves, tally, ghost, late, wantsOut>>
  BY DEF Claim, Rest
<1>2. /\ page \in Pages /\ device \in Devices /\ flow \in Flows
      /\ flow.who \in Accounts /\ flow.who # NoOne
  BY <1>1, TypesOf, ShellAssumption DEF ShellInv, Placed
<1>3. /\ h \in Pages /\ h.rows = OnDisk' /\ h.token = page.token /\ h.fresh = page.fresh
      /\ h.settings = page.settings /\ h.signedIn = page.signedIn
      /\ h.asking = page.asking /\ h.engine = page.engine
      /\ h.authChecked = page.authChecked /\ h.pulledFor = page.pulledFor
  BY <1>2, Hydrating
<1>4. /\ d \in Devices /\ d.account = flow.who /\ d.settings = device.settings
      /\ f \in Flows /\ f.pc = "settings" /\ f.who = flow.who
  BY <1>2 DEF Devices, Flows
<1> HIDE DEF h, d, f
<1>5. /\ page' \in Pages /\ page'.token = page.token /\ page'.fresh = page.fresh
      /\ page'.settings = page.settings /\ page'.signedIn = page.signedIn
      /\ page'.asking = page.asking /\ page'.engine = page.engine
      /\ page'.authChecked = page.authChecked /\ page'.pulledFor = page.pulledFor
      /\ \/ Stranger /\ page'.rows = OnDisk'
         \/ ~ Stranger /\ page'.rows = page.rows
  <2>1. CASE Stranger
    BY <1>1, <1>3, <2>1
  <2>2. CASE ~ Stranger
    BY <1>1, <1>2, <2>2
  <2> QED
    BY <2>1, <2>2
<1>6. ~ Stranger => device.account \in {NoOne, flow.who}
  BY DEF Stranger
<1>7. \A r \in Rows : r.by # NoOne
  BY ShellAssumption DEF Rows
<1>8. ShellTypeOK'
  BY <1>1, <1>4, <1>5, TypesOf, TypesNext DEF ShellInv
<1>9. Placed' /\ FreshLoad' /\ StaysOut'
  BY <1>1, <1>2, <1>4, <1>5 DEF ShellInv, Placed, FreshLoad, StaysOut
<1>10. OwnUnsent'
  <2>1. \A r \in Rows : disk[r] = "unsent" => r.by = flow.who
    BY <1>1, <1>6, <1>7 DEF ShellInv, OwnUnsent, Unsent
  <2> QED
    BY <1>1, <1>2, <1>4, <1>5, <2>1 DEF ShellInv, OwnUnsent
<1>11. ASSUME ~ ghost' PROVE Apart'
  <2>1. Apart
    BY <1>1, <1>11 DEF ShellInv
  <2>2. OneEngineRuns' /\ RowsStayHome' /\ PulledIsShown'
    BY <1>1, <1>4, <1>5, <2>1 DEF Apart, OneEngineRuns, RowsStayHome, PulledIsShown, Busy
  <2>3. OneAccount'
    <3>1. ~ page.signedIn
      BY <1>1 DEF ShellInv, Placed
    <3> QED
      BY <1>5, <2>1, <3>1 DEF Apart, OneAccount
  <2>4. OnDisk' = OnDisk /\ (Stranger => OnDisk = {})
    BY <1>1, <2>1 DEF Apart, RowsAreOwn, OnDisk
  <2>5. page.rows \subseteq Rows /\ OnDisk \subseteq Rows
    BY <1>2 DEF Pages, OnDisk
  <2>6. \A r \in OnDisk : \/ r.by = flow.who
                          \/ ~ page.authChecked /\ r.by = "demo" /\ disk[r] = "synced"
    BY <1>6, <1>7, <2>1, <2>4, <2>5 DEF Apart, RowsAreOwn
  <2>7. \A r \in page'.rows : r.by = flow.who \/ (~ page.authChecked /\ r.by = "demo")
    BY <1>5, <1>6, <1>7, <2>1, <2>4, <2>5 DEF Apart, RowsAreOwn
  <2>8. RowsAreOwn'
    BY <1>1, <1>4, <1>5, <2>4, <2>6, <2>7 DEF RowsAreOwn
  <2> QED
    BY <2>2, <2>3, <2>8 DEF Apart
<1>12. tally'.faults = 0 => Served'
  BY <1>1, <1>4, <1>5 DEF ShellInv, Served, Placed
<1>13. tally'.faults = 0 /\ ~ late' => Restored'
  <2> SUFFICES ASSUME tally.faults = 0, ~ late, Held(flow.who)
               PROVE  device.settings \in {Unset, {flow.who}}
    BY <1>1, <1>4, <1>5 DEF Restored, Held, ShellInv, Placed
  <2>1. CASE Stranger \/ device.account = NoOne
    BY <1>1, <2>1 DEF ShellInv, OwnUnsent
  <2>2. CASE device.account = flow.who
    BY <1>1, <1>2, <2>2 DEF ShellInv, Restored
  <2> QED
    BY <1>6, <2>1, <2>2
<1> QED
  BY <1>8, <1>9, <1>10, <1>11, <1>12, <1>13 DEF ShellInv

\* The account is let in: with the settings it has, or the server's if it has none.
LEMMA Admitting ==
  ASSUME ShellInv, flow.pc = "settings", NEW p \in Pages, NEW d \in Devices, Admit(p, d),
         d.account = device.account,
         p.token = page.token, p.fresh = page.fresh, p.rows = page.rows,
         p.asking = page.asking, p.engine = page.engine,
         p.authChecked = page.authChecked, p.pulledFor = page.pulledFor,
         d.settings # Unset => p.settings = d.settings,
         UNCHANGED <<cookie, disk, server, saves, ghost, wantsOut>>,
         tally' \in Tallies,
         tally'.faults = 0 =>
           /\ tally.faults = 0
           /\ device.settings # Unset =>
                p.settings = page.settings /\ d.settings = device.settings
           /\ device.settings = Unset /\ server[flow.who].settings # Unset =>
                /\ p.settings = server[flow.who].settings
                /\ d.settings = server[flow.who].settings
  PROVE  ShellInv'
<1> DEFINE q == [p EXCEPT !.signedIn = TRUE, !.onboarded = @ /\ ~ flow.isNew]
           e == [d EXCEPT !.onboarded = @ /\ ~ flow.isNew]
           f == [flow EXCEPT !.pc = IF page.authChecked THEN "banks" ELSE "open"]
<1>1. /\ StartSync(q, engines) /\ device' = e /\ flow' = f
      /\ late' = (late \/ (device.settings = Unset /\ \E save \in saves : save.to = flow.who))
  BY DEF Admit, Rest
<1>2. /\ page \in Pages /\ flow \in Flows /\ engines \in [Slots -> Engine]
      /\ flow.who \in Accounts /\ flow.who # NoOne
      /\ device.account = flow.who /\ page.token = flow.who /\ cookie \in {NoOne, flow.who}
      /\ ~ page.signedIn
  BY TypesOf, ShellAssumption DEF ShellInv, Placed
<1>3. /\ q \in Pages /\ q.signedIn /\ q.token = p.token /\ q.fresh = p.fresh
      /\ q.settings = p.settings /\ q.rows = p.rows /\ q.asking = p.asking
      /\ q.engine = p.engine /\ q.authChecked = p.authChecked /\ q.pulledFor = p.pulledFor
  BY <1>2 DEF Pages, Flows
<1>4. /\ e \in Devices /\ e.account = d.account /\ e.settings = d.settings
  BY <1>2 DEF Devices, Flows
<1>5. f \in Flows /\ f.pc \in {"banks", "open"} /\ f.who = flow.who
  BY <1>2 DEF Flows
<1> HIDE DEF q, e, f
<1>6. /\ page' \in Pages /\ engines' \in [Slots -> Engine]
      /\ page'.token = flow.who /\ page'.fresh = page.fresh /\ page'.settings = p.settings
      /\ page'.rows = page.rows /\ page'.signedIn /\ page'.asking = page.asking
      /\ page'.authChecked = page.authChecked /\ page'.pulledFor = page.pulledFor
      /\ \A s \in Slots : s # page'.engine => engines'[s] = engines[s]
  BY <1>1, <1>2, <1>3, Starting
<1>7. ShellTypeOK'
  <2>1. late' \in BOOLEAN
    BY <1>1, TypesOf DEF ShellInv
  <2> QED
    BY <1>1, <1>4, <1>5, <1>6, <2>1, TypesOf, TypesNext DEF ShellInv
<1>8. Placed' /\ FreshLoad' /\ StaysOut'
  <2>1. Placed'
    BY <1>1, <1>2, <1>4, <1>5, <1>6 DEF ShellInv, Placed
  <2>2. StaysOut'
    BY DEF ShellInv, StaysOut
  <2> QED
    BY <1>1, <1>5, <2>1, <2>2 DEF FreshLoad
<1>9. OwnUnsent'
  BY <1>1, <1>2, <1>4, <1>5, <1>6 DEF ShellInv, OwnUnsent
<1>10. ASSUME ~ ghost' PROVE Apart'
  <2>1. Apart /\ page.engine = 0
    BY <1>2, <1>10 DEF ShellInv, Apart, OneAccount
  <2>2. \A s \in Slots : ~ Busy(s) /\ engines[s].timer # "set"
    BY <1>10, <2>1, ShellAssumption DEF Apart, OneEngineRuns
  <2>3. OneEngineRuns'
    BY <1>6, <2>2 DEF OneEngineRuns, Busy
  <2>4. OneAccount' /\ RowsStayHome'
    BY <1>1, <1>2, <1>4, <1>6, <2>1 DEF Apart, OneAccount, RowsStayHome
  <2>5. RowsAreOwn' /\ PulledIsShown'
    BY <1>1, <1>2, <1>4, <1>5, <1>6, <2>1 DEF Apart, RowsAreOwn, PulledIsShown, OnDisk
  <2> QED
    BY <2>1, <2>3, <2>4, <2>5 DEF Apart
<1>11. tally'.faults = 0 => Served'
  <2> SUFFICES ASSUME tally'.faults = 0 PROVE Served'
    OBVIOUS
  <2>1. Served
    BY DEF ShellInv
  <2> QED
    BY <1>1, <1>2, <1>4, <1>5, <1>6, <2>1 DEF Served
<1>12. tally'.faults = 0 /\ ~ late' => Restored'
  <2> SUFFICES ASSUME tally'.faults = 0, ~ late', Held(flow.who)
               PROVE  d.settings = {flow.who} /\ p.settings = {flow.who}
    BY <1>1, <1>2, <1>4, <1>5, <1>6 DEF Restored, Held
  <2>1. Restored
    BY <1>1 DEF ShellInv
  <2>2. CASE device.settings # Unset
    <3>1. device.settings = {flow.who} /\ page.settings = device.settings
      BY <1>2, <2>1, <2>2 DEF Restored, ShellInv, OwnUnsent
    <3> QED
      BY <2>2, <3>1
  <2>3. CASE device.settings = Unset
    <3>1. server[flow.who].settings = {flow.who}
      BY <1>1, <2>3 DEF Held
    <3>2. {flow.who} # Unset
      BY <1>2 DEF Unset
    <3> QED
      BY <2>3, <3>1, <3>2
  <2> QED
    BY <2>2, <2>3
<1> QED
  BY <1>7, <1>8, <1>9, <1>10, <1>11, <1>12 DEF ShellInv

\* The server's settings have come, or have not.
LEMMA FetchSteps ==
  ASSUME ShellInv, FetchSettings \/ FetchFails PROVE ShellInv'
<1> DEFINE remote == server[page.token].settings
           p == [page EXCEPT !.settings = remote]
           d == [device EXCEPT !.settings = remote]
<1>1. /\ page \in Pages /\ device \in Devices /\ tally \in Tallies
      /\ server \in [Accounts -> Account]
  BY TypesOf DEF ShellInv
<1>2. CASE FetchSettings
  <2>1. /\ flow.pc = "settings" /\ UNCHANGED <<cookie, disk, server, saves, tally, ghost, wantsOut>>
        /\ IF remote # Unset /\ device.settings = Unset THEN Admit(p, d) ELSE Admit(page, device)
    BY <1>2 DEF FetchSettings
  <2>2. page.token = flow.who /\ flow.who \in Accounts
    BY <2>1 DEF ShellInv, Placed
  <2>3. CASE remote # Unset /\ device.settings = Unset
    <3>1. remote \in Settings
      BY <1>1, <2>2, <2>3 DEF Account
    <3>2. /\ p \in Pages /\ p.settings = remote /\ p.token = page.token /\ p.fresh = page.fresh
          /\ p.rows = page.rows /\ p.asking = page.asking /\ p.engine = page.engine
          /\ p.authChecked = page.authChecked /\ p.pulledFor = page.pulledFor
          /\ d \in Devices /\ d.account = device.account /\ d.settings = remote
      BY <1>1, <3>1 DEF Pages, Devices
    <3>3. Admit(p, d) /\ tally' = tally
      BY <2>1, <2>3
    <3> HIDE DEF p, d
    <3> QED
      BY <1>1, <2>1, <2>2, <2>3, <3>2, <3>3, Admitting
  <2>4. CASE ~ (remote # Unset /\ device.settings = Unset)
    <3>1. device.settings # Unset => page.settings = device.settings
      BY DEF ShellInv, OwnUnsent
    <3>2. Admit(page, device) /\ tally' = tally
      BY <2>1, <2>4
    <3> QED
      BY <1>1, <2>1, <2>2, <2>4, <3>1, <3>2, Admitting
  <2> QED
    BY <2>3, <2>4
<1>3. CASE FetchFails
  <2>1. /\ flow.pc = "settings" /\ Admit(page, device)
        /\ UNCHANGED <<cookie, disk, server, saves, ghost, wantsOut>>
        /\ ~ Accepted \/ tally.faults < MaxShellFaults
        /\ tally' = IF Accepted THEN [tally EXCEPT !.faults = @ + 1] ELSE tally
    BY <1>3 DEF FetchFails
  <2>2. tally.faults = 0 => Accepted
    <3>1. page.token = flow.who /\ flow.who # NoOne
      BY <2>1, ShellAssumption DEF ShellInv, Placed
    <3> QED
      BY <2>1, <3>1 DEF ShellInv, Served, Accepted
  <2>3. tally' \in Tallies /\ tally'.faults # 0
    <3>1. CASE Accepted
      <4>1. Fault
        BY <2>1, <3>1 DEF Fault
      <4> QED
        BY <1>1, <4>1, CountingUp
    <3>2. CASE ~ Accepted
      BY <1>1, <2>1, <2>2, <3>2
    <3> QED
      BY <3>1, <3>2
  <2>4. device.settings # Unset => page.settings = device.settings
    BY DEF ShellInv, OwnUnsent
  <2> QED
    BY <1>1, <2>1, <2>3, <2>4, Admitting
<1> QED
  BY <1>2, <1>3

\* The bank of a new account.
LEMMA DefaultBanksStep == ASSUME ShellInv, DefaultBanks PROVE ShellInv'
<1> DEFINE bank == [by |-> flow.who, kind |-> "bank"]
           p == [page EXCEPT !.rows = @ \cup {bank}]
<1>1. /\ flow.pc = "banks" /\ flow' = Idle
      /\ \/ disk' = [disk EXCEPT ![bank] = "unsent"] /\ page' = p
         \/ disk' = disk /\ page' = page
      /\ UNCHANGED <<cookie, device, engines, server, saves, tally, ghost, late, wantsOut>>
  BY DEF DefaultBanks
<1>2. /\ page \in Pages /\ flow.who \in Accounts /\ device.account = flow.who
      /\ page.pulledFor \in Accounts \cup {NoOne}
      /\ disk \in [Rows -> {"none", "unsent", "synced"}]
  BY <1>1, TypesOf DEF ShellInv, Placed, Pages
<1>3. /\ bank \in Rows /\ bank.by = device.account
  BY <1>2 DEF Rows
<1>4. flow' \in Flows /\ flow'.pc = "idle"
  BY <1>1 DEF Flows, Idle
<1>5. /\ p \in Pages /\ p.rows = page.rows \cup {bank}
      /\ p.token = page.token /\ p.signedIn = page.signedIn /\ p.asking = page.asking
      /\ p.engine = page.engine /\ p.authChecked = page.authChecked
      /\ p.pulledFor = page.pulledFor /\ p.fresh = page.fresh /\ p.settings = page.settings
  BY <1>2, <1>3 DEF Pages
<1> HIDE DEF p, bank
<1>6. /\ page' \in Pages
      /\ page'.token = page.token /\ page'.signedIn = page.signedIn
      /\ page'.asking = page.asking /\ page'.engine = page.engine
      /\ page'.authChecked = page.authChecked /\ page'.pulledFor = page.pulledFor
      /\ page'.fresh = page.fresh /\ page'.settings = page.settings
  <2>1. CASE page' = p
    BY <1>5, <2>1
  <2>2. CASE page' = page
    BY <1>2, <2>2
  <2> QED
    BY <1>1, <2>1, <2>2
<1>7. /\ disk' \in [Rows -> {"none", "unsent", "synced"}]
      /\ \A r \in Rows : disk'[r] = "unsent" => r.by = device'.account
      /\ ~ ghost => RowsAreOwn' /\ PulledIsShown'
  <2>1. CASE disk' = [disk EXCEPT ![bank] = "unsent"] /\ page' = p
    BY <1>1, <1>2, <1>3, <1>4, <1>5, <2>1, EnterRow
  <2>2. CASE disk' = disk /\ page' = page
    BY <1>1, <1>2, <1>4, <2>2 DEF ShellInv, OwnUnsent, Apart, RowsAreOwn, PulledIsShown, OnDisk
  <2> QED
    BY <1>1, <2>1, <2>2
<1>8. ShellTypeOK'
  BY <1>1, <1>4, <1>6, <1>7, TypesOf, TypesNext DEF ShellInv
<1>9. Placed' /\ FreshLoad' /\ StaysOut'
  BY <1>1, <1>4, <1>6 DEF ShellInv, Placed, FreshLoad, StaysOut
<1>10. OwnUnsent'
  BY <1>1, <1>4, <1>6, <1>7 DEF ShellInv, OwnUnsent
<1>11. ~ ghost' => OneEngineRuns' /\ OneAccount' /\ RowsStayHome'
  BY <1>1, <1>6 DEF ShellInv, Apart, OneEngineRuns, OneAccount, RowsStayHome, Busy
<1>12. tally'.faults = 0 => Served'
  BY <1>1, <1>4, <1>6 DEF ShellInv, Served
<1>13. tally'.faults = 0 /\ ~ late' => Restored'
  BY <1>1, <1>4, <1>6 DEF ShellInv, Restored, Held
<1> QED
  BY <1>1, <1>7, <1>8, <1>9, <1>10, <1>11, <1>12, <1>13 DEF ShellInv, Apart

\* The boot is over.
LEMMA OpenStep == ASSUME ShellInv, Open PROVE ShellInv'
<1> DEFINE h == Hydrated(page)
           p == [h EXCEPT !.authChecked = TRUE]
<1>1. /\ flow.pc = "open" /\ flow' = Idle /\ page' = p
      /\ disk' = [r \in Rows |-> IF r.by = "demo" THEN "none" ELSE disk[r]]
      /\ UNCHANGED <<cookie, device, engines, server, saves, tally, ghost, late, wantsOut>>
  BY DEF Open
<1>2. /\ page \in Pages /\ disk \in [Rows -> {"none", "unsent", "synced"}]
      /\ page.pulledFor \in Accounts \cup {NoOne} /\ server \in [Accounts -> Account]
  BY TypesOf DEF ShellInv, Pages
<1>3. /\ h \in Pages /\ h.rows = OnDisk' /\ h.token = page.token /\ h.fresh = page.fresh
      /\ h.settings = page.settings /\ h.signedIn = page.signedIn
      /\ h.asking = page.asking /\ h.engine = page.engine /\ h.pulledFor = page.pulledFor
  BY <1>2, Hydrating
<1> HIDE DEF h
<1>4. /\ p \in Pages /\ p.rows = h.rows /\ p.token = h.token /\ p.fresh = h.fresh
      /\ p.settings = h.settings /\ p.signedIn = h.signedIn
      /\ p.asking = h.asking /\ p.engine = h.engine /\ p.pulledFor = h.pulledFor
      /\ p.authChecked
  BY <1>3 DEF Pages
<1> HIDE DEF p
<1>5. flow' \in Flows /\ flow'.pc = "idle"
  BY <1>1 DEF Flows, Idle
<1>6. /\ disk' \in [Rows -> {"none", "unsent", "synced"}]
      /\ \A r \in Rows : disk'[r] = IF r.by = "demo" THEN "none" ELSE disk[r]
  BY <1>1, <1>2
<1>7. ShellTypeOK'
  BY <1>1, <1>3, <1>4, <1>5, <1>6, TypesOf, TypesNext DEF ShellInv
<1>8. Placed' /\ FreshLoad' /\ StaysOut'
  BY <1>1, <1>3, <1>4, <1>5 DEF ShellInv, Placed, FreshLoad, StaysOut
<1>9. OwnUnsent'
  BY <1>1, <1>3, <1>4, <1>5, <1>6 DEF ShellInv, OwnUnsent
<1>10. ASSUME ~ ghost' PROVE Apart'
  <2>1. Apart /\ ~ ghost
    BY <1>1, <1>10 DEF ShellInv
  <2>2. OneEngineRuns' /\ OneAccount' /\ RowsStayHome'
    BY <1>1, <1>3, <1>4, <2>1 DEF Apart, OneEngineRuns, OneAccount, RowsStayHome, Busy
  <2>3. \A r \in OnDisk' : r \in OnDisk /\ r.by # "demo"
    BY <1>6 DEF OnDisk
  <2>4. RowsAreOwn'
    BY <1>1, <1>3, <1>4, <1>5, <2>1, <2>3 DEF Apart, RowsAreOwn
  <2>5. PulledIsShown'
    <3> SUFFICES ASSUME page.pulledFor # NoOne
                 PROVE  /\ page.pulledFor = device.account
                        /\ server[page.pulledFor].rows \subseteq OnDisk'
      BY <1>1, <1>3, <1>4, <1>5 DEF PulledIsShown
    <3>1. /\ page.pulledFor \in Accounts /\ page.pulledFor = device.account
          /\ server[page.pulledFor].rows \subseteq OnDisk
      BY <1>2, <2>1 DEF Apart, PulledIsShown
    <3>2. \A r \in server[page.pulledFor].rows : r.by = page.pulledFor
      BY <2>1, <3>1 DEF Apart, RowsStayHome
    <3>3. page.pulledFor # "demo"
      BY <3>1, ShellAssumption
    <3> QED
      BY <1>6, <3>1, <3>2, <3>3 DEF OnDisk
  <2> QED
    BY <2>2, <2>4, <2>5 DEF Apart
<1>11. tally'.faults = 0 => Served'
  BY <1>1, <1>3, <1>4, <1>5 DEF ShellInv, Served
<1>12. tally'.faults = 0 /\ ~ late' => Restored'
  BY <1>1, <1>3, <1>4, <1>5 DEF ShellInv, Restored, Held
<1> QED
  BY <1>7, <1>8, <1>9, <1>10, <1>11, <1>12 DEF ShellInv

-----------------------------------------------------------------------------
(* The specification. *)

LEMMA ShellStarts == ASSUME ShellInit PROVE ShellInv
<1>1. /\ cookie = NoOne /\ saves = {} /\ ghost = FALSE /\ late = FALSE /\ wantsOut = FALSE
      /\ device = [account |-> NoOne, settings |-> Unset, onboarded |-> FALSE]
      /\ page = LoadedPage(device) /\ flow = [Idle EXCEPT !.pc = "restore"]
      /\ engines = [s \in Slots |-> NoEngine]
      /\ tally = [loads |-> 0, faults |-> 0, changes |-> 0]
  BY DEF ShellInit
<1>2. PICK st \in {"none", "synced"} : disk = [r \in Rows |-> IF r.by = "demo" THEN st ELSE "none"]
  BY DEF ShellInit
<1>3. PICK elsewhere \in SUBSET Accounts :
        server = [a \in Accounts |->
                   IF a \in elsewhere
                   THEN [is |-> "live", settings |-> {a},
                         rows |-> [by : {a}, kind : {"category", "bank"}]]
                   ELSE [is |-> "new", settings |-> Unset, rows |-> {}]]
  BY DEF ShellInit
<1>4. /\ server \in [Accounts -> Account]
      /\ \A a \in Accounts : \A r \in server[a].rows : r.by = a
  <2>1. \A a \in Accounts : [is |-> "live", settings |-> {a},
                             rows |-> [by : {a}, kind : {"category", "bank"}]] \in Account
    <3> SUFFICES ASSUME NEW a \in Accounts
                 PROVE  [is |-> "live", settings |-> {a},
                         rows |-> [by : {a}, kind : {"category", "bank"}]] \in Account
      OBVIOUS
    <3>1. [by : {a}, kind : {"category", "bank"}] \subseteq Rows
      BY DEF Rows
    <3>2. {a} \in Settings
      BY DEF Settings
    <3> QED
      BY <3>1, <3>2 DEF Account
  <2>2. [is |-> "new", settings |-> Unset, rows |-> {}] \in Account
    BY DEF Account
  <2> QED
    BY <1>3, <2>1, <2>2
<1>5. page \in Pages /\ device \in Devices
  <2>1. {} \in Settings
    BY DEF Settings
  <2> QED
    BY <1>1, <2>1 DEF LoadedPage, Pages, Devices
<1>6. /\ device.account = NoOne /\ device.settings = Unset
      /\ page.token = NoOne /\ page.rows = {} /\ ~ page.signedIn /\ ~ page.authChecked
      /\ page.pulledFor = NoOne /\ page.engine = 0 /\ ~ page.asking
  BY <1>1 DEF LoadedPage
<1>7. flow \in Flows /\ flow.pc = "restore"
  BY <1>1 DEF Flows, Idle
<1>8. engines \in [Slots -> Engine] /\ \A s \in Slots : engines[s] = NoEngine
  BY <1>1 DEF Engine, NoEngine
<1>9. tally \in Tallies /\ tally.faults = 0
  BY <1>1, ShellAssumption DEF Tallies
<1>10. /\ disk \in [Rows -> {"none", "unsent", "synced"}]
       /\ \A r \in Rows : disk[r] = "none" \/ (r.by = "demo" /\ disk[r] = "synced")
  BY <1>2
<1>11. ShellTypeOK
  BY <1>1, <1>4, <1>5, <1>7, <1>8, <1>9, <1>10, TypesOf DEF SavesTyped
<1>12. Placed /\ FreshLoad /\ OwnUnsent /\ StaysOut
  BY <1>1, <1>6, <1>7, <1>8, <1>10 DEF Placed, FreshLoad, OwnUnsent, StaysOut
<1>13. Apart
  <2>1. OneEngineRuns
    BY <1>8 DEF OneEngineRuns, Busy, NoEngine
  <2>2. RowsAreOwn
    BY <1>6, <1>7, <1>10 DEF RowsAreOwn, OnDisk
  <2> QED
    BY <1>4, <1>6, <2>1, <2>2 DEF Apart, OneAccount, RowsStayHome, PulledIsShown
<1>14. Served
  BY <1>1, <1>6, <1>7, <1>8 DEF Served
<1>15. Restored
  BY <1>6 DEF Restored
<1> QED
  BY <1>11, <1>12, <1>13, <1>14, <1>15 DEF ShellInv

LEMMA ShellGoesOn == ASSUME ShellInv, [ShellNext]_shellVars PROVE ShellInv'
<1>1. CASE ShellNext
  <2>1. CASE \E s \in Slots : PushRows(s) \/ PullRows(s) \/ AuthLost(s) \/ CycleFails(s)
    BY <2>1, PushRowsStep, PullRowsStep, FailedCycles
  <2>2. CASE AskAnswered \/ AskUnreachable
    BY <2>2, AskAnsweredStep, AskUnreachableStep
  <2>3. CASE Reload \/ LoggedOut \/ LogoutLost \/ Wipe
    BY <2>3, ReloadSteps, WipeStep
  <2>4. CASE RestoreAnswered \/ RestoreUnreachable \/ \E a \in Accounts : SignIn(a)
    BY <2>4, RestoreAnsweredStep, RestoreUnreachableStep, SignInStep
  <2>5. CASE Guard \/ Claim \/ FetchSettings \/ FetchFails \/ DefaultBanks \/ Open
    BY <2>5, GuardStep, ClaimStep, FetchSteps, DefaultBanksStep, OpenStep
  <2>6. CASE WriteRow \/ EditSettings \/ ApplyOnboarding \/ MarkOnboarded \/ MirrorSettings
    BY <2>6, WriteRowStep, EditSettingsStep, ApplyOnboardingStep, MarkOnboardedStep,
       MirrorSettingsStep
  <2>7. CASE \E save \in saves : SaveArrives(save) \/ SaveLost(save)
    BY <2>7, SaveArrivesStep, FaultSteps
  <2>8. CASE Resume \/ ExpireToken \/ SessionEnds \/ SignOut \/ DeleteAccount
    BY <2>8, ResumeStep, FaultSteps, SessionEndsStep, SignOutStep, DeleteAccountStep
  <2> QED
    BY <1>1, <2>1, <2>2, <2>3, <2>4, <2>5, <2>6, <2>7, <2>8 DEF ShellNext
<1>2. CASE UNCHANGED shellVars
  <2>1. UNCHANGED <<cookie, device, disk, page, flow, engines, server, saves, tally, ghost,
                    late, wantsOut>>
    BY <1>2 DEF shellVars
  <2>2. ShellTypeOK' /\ Placed' /\ FreshLoad' /\ OwnUnsent' /\ StaysOut'
    BY <2>1 DEF ShellInv, ShellTypeOK, Placed, FreshLoad, OwnUnsent, StaysOut, Stranger, Unsent
  <2>3. ~ ghost' => Apart'
    BY <2>1 DEF ShellInv, Apart, OneEngineRuns, OneAccount, RowsAreOwn, RowsStayHome,
                PulledIsShown, OnDisk, Stranger, Busy
  <2>4. tally'.faults = 0 => Served'
    BY <2>1 DEF ShellInv, Served
  <2>5. tally'.faults = 0 /\ ~ late' => Restored'
    BY <2>1 DEF ShellInv, Restored, Held
  <2> QED
    BY <2>2, <2>3, <2>4, <2>5 DEF ShellInv
<1> QED
  BY <1>1, <1>2

LEMMA ShellInvariant == ShellSpec => []ShellInv
<1>1. ShellInit => ShellInv
  BY ShellStarts
<1>2. ShellInv /\ [ShellNext]_shellVars => ShellInv'
  BY ShellGoesOn
<1> QED
  BY <1>1, <1>2, PTL DEF ShellSpec

\* What the invariant says of accounts and of the set-up.
LEMMA InvariantSays ==
  ASSUME ShellInv
  PROVE  ShellTypeOK /\ AccountsStayApart /\ SetUpIsOnce
<1>1. SignedOutWhenCalm
  BY DEF ShellInv, StaysOut, SignedOutWhenCalm
<1>2. RowsStayHome /\ OneEngineRuns
  BY DEF ShellInv, Apart, RowsStayHome, OneEngineRuns
<1>3. ScreenIsOwn
  BY DEF ShellInv, Apart, RowsAreOwn, ScreenIsOwn, Screen
<1>4. SetUpIsOnce
  <2> SUFFICES ASSUME ~ ghost, Screen = "onboarding", page.pulledFor = device.account,
                      HasCategory(server[device.account].rows)
               PROVE  HasCategory(page.rows)
    BY DEF SetUpIsOnce
  <2>1. device.account \in Accounts
    BY InTheApp
  <2>2. page.rows = OnDisk /\ server[device.account].rows \subseteq OnDisk
    BY <2>1, ShellAssumption DEF ShellInv, Apart, PulledIsShown
  <2> QED
    BY <2>2 DEF HasCategory
<1> QED
  BY <1>1, <1>2, <1>3, <1>4 DEF ShellInv, AccountsStayApart

\* What a step takes off the disk before it was sent.
LEMMA StepKeepsUnsent ==
  ASSUME ShellInv, ShellNext, NEW r \in Rows, disk[r] = "unsent", disk'[r] = "none"
  PROVE  server[r.by].is = "erased" \/ flow.who \notin {NoOne, r.by}
<1>1. r.by = device.account /\ disk \in [Rows -> {"none", "unsent", "synced"}]
  BY TypesOf DEF ShellInv, OwnUnsent
<1>2. device.account \in Accounts \cup {NoOne}
  BY TypesOf DEF ShellInv, Devices
<1>3. Guard \/ Open \/ Wipe
  <2>1. ASSUME NEW s \in Slots, PushRows(s) \/ PullRows(s) \/ AuthLost(s) \/ CycleFails(s)
        PROVE  FALSE
    <3>1. CASE PushRows(s)
      BY <3>1, <1>1 DEF PushRows
    <3>2. CASE PullRows(s)
      BY <3>2, <1>1 DEF PullRows
    <3> QED
      BY <2>1, <3>1, <3>2 DEF AuthLost, CycleFails
  <2>2. ~ (AskAnswered \/ AskUnreachable \/ Reload \/ RestoreAnswered \/ RestoreUnreachable)
    BY DEF AskAnswered, AskUnreachable, Reload, RestoreAnswered, RestoreUnreachable
  <2>3. ~ (Claim \/ FetchSettings \/ FetchFails \/ DefaultBanks)
    BY <1>1 DEF Claim, FetchSettings, FetchFails, DefaultBanks
  <2>4. ~ (\E a \in Accounts : SignIn(a))
    BY DEF SignIn
  <2>5. ~ (WriteRow \/ EditSettings \/ ApplyOnboarding \/ MarkOnboarded \/ MirrorSettings)
    BY <1>1 DEF WriteRow, EditSettings, ApplyOnboarding, MarkOnboarded, MirrorSettings
  <2>6. ~ (\E save \in saves : SaveArrives(save) \/ SaveLost(save))
    BY DEF SaveArrives, SaveLost
  <2>7. ~ (Resume \/ ExpireToken \/ SessionEnds \/ SignOut \/ LoggedOut \/ LogoutLost
           \/ DeleteAccount)
    BY DEF Resume, ExpireToken, SessionEnds, SignOut, LoggedOut, LogoutLost, DeleteAccount
  <2> QED
    BY <2>1, <2>2, <2>3, <2>4, <2>5, <2>6, <2>7 DEF ShellNext
<1>4. CASE Guard
  <2>1. flow.pc = "guard" /\ Stranger
    BY <1>4 DEF Guard
  <2>2. flow.who \in Accounts
    BY <2>1 DEF ShellInv, Placed
  <2> QED
    BY <1>1, <2>1, <2>2, ShellAssumption DEF Stranger
<1>5. CASE Open
  <2>1. r.by = "demo"
    BY <1>1, <1>5 DEF Open
  <2> QED
    BY <1>1, <1>2, <2>1, ShellAssumption
<1>6. CASE Wipe
  <2>1. flow.who \in Accounts /\ server[flow.who].is = "erased"
    BY <1>6 DEF Wipe, ShellInv, Placed
  <2> QED
    BY <2>1, ShellAssumption
<1> QED
  BY <1>3, <1>4, <1>5, <1>6

\* What a step sends while every request is answered.
LEMMA StepRestoresFirst ==
  ASSUME ShellInv, ShellNext, tally'.faults = 0, ~ late', NEW save \in saves' \ saves,
         save.to # NoOne, server[save.to].settings = {save.to}
  PROVE  save.value = {save.to}
<1>1. MirrorSettings
  <2>1. ~ (\E s \in Slots : PushRows(s) \/ PullRows(s) \/ AuthLost(s) \/ CycleFails(s))
    BY DEF PushRows, PullRows, AuthLost, CycleFails
  <2>2. ~ (AskAnswered \/ AskUnreachable \/ RestoreAnswered \/ RestoreUnreachable)
    BY DEF AskAnswered, AskUnreachable, RestoreAnswered, RestoreUnreachable
  <2>3. ~ (Guard \/ Claim \/ FetchSettings \/ FetchFails \/ DefaultBanks \/ Open)
    BY DEF Guard, Claim, FetchSettings, FetchFails, DefaultBanks, Open
  <2>4. ~ (\E a \in Accounts : SignIn(a))
    BY DEF SignIn
  <2>5. ~ (WriteRow \/ EditSettings \/ ApplyOnboarding \/ MarkOnboarded)
    BY DEF WriteRow, EditSettings, ApplyOnboarding, MarkOnboarded
  <2>6. ~ (\E old \in saves : SaveArrives(old) \/ SaveLost(old))
    BY DEF SaveArrives, SaveLost
  <2>7. ~ (Resume \/ ExpireToken \/ SessionEnds \/ SignOut \/ DeleteAccount)
    BY DEF Resume, ExpireToken, SessionEnds, SignOut, DeleteAccount
  <2>8. ~ (Reload \/ LoggedOut \/ LogoutLost \/ Wipe)
    BY DEF Reload, LoggedOut, LogoutLost, Wipe, Load
  <2> QED
    BY <2>1, <2>2, <2>3, <2>4, <2>5, <2>6, <2>7, <2>8 DEF ShellNext
<1>2. /\ page.signedIn /\ tally.faults = 0 /\ ~ late
      /\ save = [to |-> IF page.fresh THEN page.token ELSE NoOne, value |-> page.settings]
  BY <1>1 DEF MirrorSettings
<1>3. save.to = page.token /\ save.value = page.settings
  BY <1>2
<1>4. page.token = device.account /\ flow.pc # "wiping"
  BY <1>2, <1>3 DEF ShellInv, Served
<1>5. page.settings = {device.account}
  BY <1>2, <1>3, <1>4 DEF ShellInv, Restored, Held
<1> QED
  BY <1>3, <1>4, <1>5

LEMMA StepLosesNothing ==
  ShellInv /\ [ShellNext]_shellVars => [UnsentRowsAreKept /\ RestoreBeforeMirror]_shellVars
<1> SUFFICES ASSUME ShellInv, ShellNext PROVE UnsentRowsAreKept /\ RestoreBeforeMirror
  OBVIOUS
<1>1. UnsentRowsAreKept
  BY StepKeepsUnsent DEF UnsentRowsAreKept
<1>2. RestoreBeforeMirror
  BY StepRestoresFirst DEF RestoreBeforeMirror
<1> QED
  BY <1>1, <1>2

\* The shell keeps its types.
THEOREM ShellKeepsItsTypes == ShellSpec => []ShellTypeOK
<1>1. ShellInv => ShellTypeOK
  BY InvariantSays
<1> QED
  BY <1>1, ShellInvariant, PTL

\* Accounts stay apart on one device: no row is pushed or shown under another account, one
\* engine runs, and a user who signed out stays so while requests are answered.
THEOREM AccountsAreKeptApart == ShellSpec => []AccountsStayApart
<1>1. ShellInv => AccountsStayApart
  BY InvariantSays
<1> QED
  BY <1>1, ShellInvariant, PTL

\* No step of the shell loses unsent rows, or overwrites settings that were not restored.
THEOREM ShellLosesNothing == ShellSpec => NothingIsLost
<1>1. ShellInv /\ [ShellNext]_shellVars => [UnsentRowsAreKept /\ RestoreBeforeMirror]_shellVars
  BY StepLosesNothing
<1> QED
  BY <1>1, ShellInvariant, PTL DEF ShellSpec, NothingIsLost

-----------------------------------------------------------------------------
(* The client.  Its parts share no variable, and a behaviour of MCApp moves *)
(* one of them and leaves the others; here they may all move.               *)

ClientInterleaved ==
  ShellSpec /\ PaydaysSpec /\ SetupSpec /\ SignInSpec /\ EntriesSpec /\ Spec

\* A step of a scene is a step of its part and a stutter of the others.
LEMMA AppSteps ==
  ASSUME [AppNext]_appVars
  PROVE  /\ [ShellNext]_shellVars /\ [PaydaysNext]_paydayVars /\ [SetupNext]_setupVars
         /\ [SignInNext]_signInVars /\ [EntriesNext]_entryVars /\ [Next]_vars
<1>1. CASE UNCHANGED appVars
  BY <1>1 DEF appVars
<1>2. CASE AppNext
  BY <1>2 DEF AppNext
<1> QED
  BY <1>1, <1>2

\* What the runs of the client check is among its interleavings: no part of the page moves
\* the state of another that their properties are about (App.tsx:250-275, 416-450).
THEOREM AppScenesInterleave == AppSpec => ClientInterleaved
<1>1. AppInit => ShellInit /\ PaydaysInit /\ SetupInit /\ SignInInit /\ EntriesInit /\ Init
  BY DEF AppInit
<1>2. [AppNext]_appVars =>
        /\ [ShellNext]_shellVars /\ [PaydaysNext]_paydayVars /\ [SetupNext]_setupVars
        /\ [SignInNext]_signInVars /\ [EntriesNext]_entryVars /\ [Next]_vars
  BY AppSteps
<1> QED
  BY <1>1, <1>2, PTL
  DEF AppSpec, ClientInterleaved, ShellSpec, PaydaysSpec, SetupSpec, SignInSpec, EntriesSpec,
      Spec

\* Setup shows what is stored, is told of all of it, ends whole, and is offered once
\* (App.tsx:250-275, 396, 419).
THEOREM SetUpStaysOnceAndWhole == ClientInterleaved => []SetUpOnceAndWhole
<1>1. ShellInv => SetUpIsOnce
  BY InvariantSays
<1>2. (ShownIsStored /\ ScreenCatchesUp /\ SetupIsWhole) /\ SetUpIsOnce => SetUpOnceAndWhole
  BY DEF SetUpOnceAndWhole
<1> QED
  BY <1>1, <1>2, ShellInvariant, SetupIsTold, PTL DEF ClientInterleaved

\* Every part of the page has values of its type, in every interleaving of the parts.
THEOREM ClientKeepsItsTypes == ClientInterleaved => []AppTypeOK
<1>1. RoomToClimb => TypeOK
  BY DEF RoomToClimb
<1>2. ShellTypeOK /\ PaydaysTypeOK /\ SetupTypeOK /\ SignInTypeOK /\ EntriesTypeOK /\ TypeOK
        => AppTypeOK
  BY DEF AppTypeOK
<1> QED
  BY <1>1, <1>2, ShellKeepsItsTypes, PaydaysKeepTheirTypes, SetupKeepsItsTypes,
     SignInKeepsItsTypes, EntriesKeepTheirTypes, ClimbInvariant, PTL DEF ClientInterleaved

\* What the run of the client checks, all at once: of the shell, the wages, the forms and the
\* ids.
THEOREM ClientKeepsItsPromises ==
  AppSpec => /\ []AppTypeOK /\ []AccountsStayApart /\ []SetUpOnceAndWhole
             /\ []PaydaysArePaid /\ []EntriesAreMeant
             /\ NothingIsLost /\ SignInIsOrderly /\ OrderKeptInBurst
<1> QED
  BY AppScenesInterleave, ClientKeepsItsTypes, AccountsAreKeptApart, SetUpStaysOnceAndWhole,
     PaydaysStayPaid, EntriesStayMeant, ShellLosesNothing, SignInStaysOrderly, IdsInOrder, PTL
  DEF ClientInterleaved

=============================================================================
