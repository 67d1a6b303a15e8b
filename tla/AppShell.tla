------------------------------ MODULE AppShell ------------------------------
(***************************************************************************)
(* The shell of the client (app/App.tsx): which account the open page      *)
(* serves, what it keeps when the account changes, and what it shows.      *)
(*                                                                         *)
(*  - The browser keeps the session cookie, the local storage (the account *)
(*    last seen, its settings, whether setup was done) and the database.   *)
(*  - The page keeps an access token, a copy of the settings and rows, the *)
(*    flags its screen is chosen by, and a reference to one sync engine.   *)
(*    An engine the page has dropped may still be running.                 *)
(*  - The boot, a sign-in, a sign-out and the deletion of the account are  *)
(*    async functions: each action is one stretch between two awaits.      *)
(*                                                                         *)
(* A row is known by the account it was entered for and its kind, settings *)
(* by the accounts that had a hand in them.  The rows' own protocol is     *)
(* modelled in Sync; here a push and a pull are one step each.             *)
(***************************************************************************)
EXTENDS Naturals, FiniteSets

CONSTANTS
  Accounts, NoOne,
  Slots,            \* bound: engines alive at once
  MaxLoads,         \* bound: loads of the page
  MaxShellFaults,   \* bound: requests unanswered, tokens expired, sessions ended, pages closed
  MaxChanges,       \* bound: rows and settings entered by the user
  MaxSaves          \* bound: saves of the settings under way at once

ASSUME ShellAssumption ==
  /\ NoOne \notin Accounts /\ "demo" \notin Accounts \cup {NoOne}
  /\ 0 \notin Slots
  /\ MaxLoads \in Nat /\ MaxShellFaults \in Nat /\ MaxChanges \in Nat
  /\ MaxSaves \in Nat

VARIABLES
  cookie,     \* the account whose session the server accepts from the browser
  device,     \* the local storage
  disk,       \* the local database: what is on it of each row
  page,       \* the memory of the open page
  flow,       \* the async function under way: boot, sign-in, sign-out, deletion
  engines,    \* the sync engines of the page
  server,     \* per account: whether it exists, its rows and its settings
  saves,      \* the settings under way to the server
  tally,      \* loads, faults and changes so far
  ghost,      \* history: an engine was stopped in the middle of its cycle
  late,       \* history: a device without settings let an account in while a save to it was
              \* still under way
  wantsOut    \* history: the user has signed out and not signed in again

shellVars == <<cookie, device, disk, page, flow, engines, server, saves, tally,
               ghost, late, wantsOut>>

Rows == [by : Accounts \cup {"demo"}, kind : {"category", "bank"}]

\* {} are the default settings; a missing entry is Unset.
Settings == SUBSET Accounts
Unset == {NoOne}

\* A timer that has fired is set again when its cycle ends.
Engine == [pc : {"off", "idle", "push", "pull"}, timer : {"none", "set", "fired"},
           first : BOOLEAN]

NoEngine == [pc |-> "off", timer |-> "none", first |-> FALSE]

Idle == [pc |-> "idle", who |-> NoOne, isNew |-> FALSE]

\* Types: what the browser keeps, the page, its engines and each account.
ShellTypeOK ==
  /\ cookie \in Accounts \cup {NoOne}
  /\ device \in [account : Accounts \cup {NoOne}, settings : Settings \cup {Unset},
                 onboarded : BOOLEAN]
  /\ disk \in [Rows -> {"none", "unsent", "synced"}]
  /\ page \in [token : Accounts \cup {NoOne}, fresh : BOOLEAN, settings : Settings,
               mirrored : Settings \cup {Unset}, rows : SUBSET Rows, ready : BOOLEAN,
               signedIn : BOOLEAN, authChecked : BOOLEAN, onboarded : BOOLEAN,
               syncPrimed : BOOLEAN, pulledFor : Accounts \cup {NoOne},
               engine : Slots \cup {0}, asking : BOOLEAN]
  /\ flow \in [pc : {"restore", "open", "guard", "claim", "settings", "banks", "idle",
                     "leaving", "wiping"},
               who : Accounts \cup {NoOne}, isNew : BOOLEAN]
  /\ engines \in [Slots -> Engine]
  /\ server \in [Accounts -> [is : {"new", "live", "erased"}, rows : SUBSET Rows,
                              settings : Settings \cup {Unset}]]
  /\ \A s \in saves : s.to \in Accounts \cup {NoOne} /\ s.value \in Settings
  /\ tally \in [loads : 0..MaxLoads, faults : 0..MaxShellFaults, changes : 0..MaxChanges]
  /\ ghost \in BOOLEAN /\ late \in BOOLEAN /\ wantsOut \in BOOLEAN

OnDisk == {r \in Rows : disk[r] # "none"}

HasCategory(rows) == \E r \in rows : r.kind = "category"

\* Variant: missing settings are not replaced by the defaults.
LoadedPageRaw(d) ==
  [token |-> NoOne, fresh |-> FALSE, settings |-> d.settings,
   mirrored |-> Unset, rows |-> {}, ready |-> FALSE, signedIn |-> FALSE,
   authChecked |-> FALSE, onboarded |-> d.onboarded, syncPrimed |-> FALSE,
   pulledFor |-> NoOne, engine |-> 0, asking |-> FALSE]

\* A page as the script leaves it: the settings are read from the local storage
\* once, when the store is created.
LoadedPage(d) ==
  [token |-> NoOne, fresh |-> FALSE,
   settings |-> IF d.settings = Unset THEN {} ELSE d.settings,
   mirrored |-> Unset, rows |-> {}, ready |-> FALSE, signedIn |-> FALSE,
   authChecked |-> FALSE, onboarded |-> d.onboarded, syncPrimed |-> FALSE,
   pulledFor |-> NoOne, engine |-> 0, asking |-> FALSE]

\* A device without an account, perhaps with the sample rows of an older
\* version, and accounts that are new or were set up elsewhere.
ShellInit ==
  /\ cookie = NoOne
  /\ device = [account |-> NoOne, settings |-> Unset, onboarded |-> FALSE]
  /\ disk \in {[r \in Rows |-> IF r.by = "demo" THEN s ELSE "none"] : s \in {"none", "synced"}}
  /\ page = LoadedPage(device)
  /\ flow = [Idle EXCEPT !.pc = "restore"]
  /\ engines = [s \in Slots |-> NoEngine]
  /\ server \in {[a \in Accounts |->
                   IF a \in elsewhere
                   THEN [is |-> "live", settings |-> {a},
                         rows |-> [by : {a}, kind : {"category", "bank"}]]
                   ELSE [is |-> "new", settings |-> Unset, rows |-> {}]] :
                  elsewhere \in SUBSET Accounts}
  /\ saves = {}
  /\ tally = [loads |-> 0, faults |-> 0, changes |-> 0]
  /\ ghost = FALSE /\ late = FALSE /\ wantsOut = FALSE

Fault  == tally.faults < MaxShellFaults /\ tally' = [tally EXCEPT !.faults = @ + 1]
Change == tally.changes < MaxChanges /\ tally' = [tally EXCEPT !.changes = @ + 1]

\* The page as hydrate leaves it, with the rows that are on disk in the next state.
Hydrated(p) == [p EXCEPT !.rows = {r \in Rows : disk'[r] # "none"}, !.ready = TRUE]

\* The token is accepted: it has not expired and its account exists.
Accepted == page.token # NoOne /\ page.fresh /\ server[page.token].is = "live"

-----------------------------------------------------------------------------
(* Engines. *)

Busy(s) == engines[s].pc \in {"push", "pull"}

\* Variant: the reference is dropped, the timer left.
StoppedNot == engines

\* engine?.stop(): clearTimeout, which does nothing to a timer that has fired
\* or to a cycle in flight.
Stopped ==
  IF page.engine = 0 THEN engines
  ELSE [engines EXCEPT ![page.engine].timer = IF @ = "set" THEN "none" ELSE @]

\* History of a stop: the engine was in a cycle.
GhostAfterStop == ghost \/ (page.engine # 0 /\ Busy(page.engine))

\* An engine nothing runs and nothing refers to.
FreeSlot(s, p, es) == es[s].pc \in {"off", "idle"} /\ es[s].timer = "none" /\ s # p.engine

\* startSync: p is the page, es the engines before it.  Without a token there is
\* no engine, and the page counts as primed.
StartSync(p, es) ==
  IF p.token = NoOne
  THEN page' = [p EXCEPT !.syncPrimed = TRUE] /\ engines' = es
  ELSE \E s \in Slots :
         /\ FreeSlot(s, p, es)
         /\ page' = [p EXCEPT !.engine = s]
         /\ engines' = [es EXCEPT ![s] = [pc |-> "push", timer |-> "set", first |-> TRUE]]

\* An engine in a cycle that is about to push: one under way, one the timer has
\* started, or one of the engine the page refers to, which has been woken.
Pushing(s) ==
  LET woken == [engines[s] EXCEPT !.pc = "push"]
  IN CASE engines[s].pc = "push" -> {engines[s]}
       [] engines[s].pc = "idle" ->
            {e \in {woken, [woken EXCEPT !.timer = "fired"]} :
               IF e = woken THEN s = page.engine ELSE engines[s].timer = "set"}
       [] OTHER -> {}

Ended(e) == [e EXCEPT !.pc = "idle", !.first = FALSE, !.timer = IF @ = "fired" THEN "set" ELSE @]

\* The end of a first cycle, whatever came of it: hydrate, then primed.
Primed(s, p) == IF engines[s].first THEN [Hydrated(p) EXCEPT !.syncPrimed = TRUE] ELSE p

Unsent == {r \in Rows : disk[r] = "unsent"}

\* The pending rows, under the token of the moment.  With none, no request.
PushRows(s) ==
  /\ \E e \in Pushing(s) : engines' = [engines EXCEPT ![s] = [e EXCEPT !.pc = "pull"]]
  /\ IF Unsent = {} THEN UNCHANGED <<server, disk>>
     ELSE /\ Accepted
          /\ server' = [server EXCEPT ![page.token].rows = @ \cup Unsent]
          /\ disk' = [r \in Rows |-> IF r \in Unsent THEN "synced" ELSE disk[r]]
  /\ UNCHANGED <<cookie, device, page, flow, saves, tally, ghost, late, wantsOut>>

\* Variant: the transport drops the categories of the answer.
PullRowsDropped(s) ==
  /\ engines[s].pc = "pull" /\ Accepted
  /\ LET rows == {r \in server[page.token].rows : r.kind = "bank"}
         told == IF rows = {} THEN page ELSE Hydrated(page)
     IN /\ disk' = [r \in Rows |-> IF r \in rows THEN "synced" ELSE disk[r]]
        /\ page' = [Primed(s, told) EXCEPT
                      !.pulledFor = IF engines[s].first THEN page.token ELSE @]
  /\ engines' = [engines EXCEPT ![s] = Ended(@)]
  /\ UNCHANGED <<cookie, device, flow, server, saves, tally, ghost, late, wantsOut>>

\* The server's rows are put on disk, the screen is told, the cycle ends.
PullRows(s) ==
  /\ engines[s].pc = "pull" /\ Accepted
  /\ LET rows == server[page.token].rows
         told == IF rows = {} THEN page ELSE Hydrated(page)
     IN /\ disk' = [r \in Rows |-> IF r \in rows THEN "synced" ELSE disk[r]]
        /\ page' = [Primed(s, told) EXCEPT
                      !.pulledFor = IF engines[s].first THEN page.token ELSE @]
  /\ engines' = [engines EXCEPT ![s] = Ended(@)]
  /\ UNCHANGED <<cookie, device, flow, server, saves, tally, ghost, late, wantsOut>>

\* A request is answered 401.  The transport holds no refresh token on the web,
\* so it calls onAuthLost, and the cycle fails.
AuthLost(s) ==
  /\ ~Accepted
  /\ \E e \in IF engines[s].pc = "pull" THEN {engines[s]}
              ELSE IF Unsent # {} THEN Pushing(s) ELSE {} :
       engines' = [engines EXCEPT ![s] = Ended(e)]
  /\ UNCHANGED disk
  /\ page' = [Primed(s, page) EXCEPT !.asking = TRUE]
  /\ UNCHANGED <<cookie, device, flow, server, saves, tally, ghost, late, wantsOut>>

\* The server cannot be reached: the cycle ends and the first one still primes.
CycleFails(s) ==
  /\ Busy(s) /\ Fault
  /\ UNCHANGED disk
  /\ page' = Primed(s, page)
  /\ engines' = [engines EXCEPT ![s] = Ended(@)]
  /\ UNCHANGED <<cookie, device, flow, server, saves, ghost, late, wantsOut>>

\* onAuthLost has asked the cookie.  It is good: a new engine under a new token.
\* It is not: the page is signed out where it stands.
AskAnswered ==
  /\ page.asking
  /\ IF cookie # NoOne
     THEN StartSync([page EXCEPT !.asking = FALSE, !.token = cookie, !.fresh = TRUE,
                                 !.engine = 0], Stopped)
     ELSE /\ page' = [page EXCEPT !.asking = FALSE, !.signedIn = FALSE, !.engine = 0,
                                  !.mirrored = Unset]
          /\ engines' = Stopped
  /\ ghost' = GhostAfterStop
  /\ UNCHANGED <<cookie, device, disk, flow, server, saves, tally, late, wantsOut>>

\* The network is down, which is no reason to sign anyone out.
AskUnreachable ==
  /\ page.asking /\ Fault
  /\ page' = [page EXCEPT !.asking = FALSE]
  /\ UNCHANGED <<cookie, device, disk, flow, engines, server, saves, ghost, late, wantsOut>>

-----------------------------------------------------------------------------
(* Boot and sign-in. *)

Rest(f) == flow' = [flow EXCEPT !.pc = f]

\* The page is loaded or reloaded.  The engines die with the page; a save that
\* carries a token may still arrive.  faults is what the load costs.
Load(faults) ==
  /\ tally.loads < MaxLoads /\ tally' = [tally EXCEPT !.loads = @ + 1, !.faults = @ + faults]
  /\ tally'.faults <= MaxShellFaults
  /\ page' = LoadedPage(device')
  /\ flow' = [Idle EXCEPT !.pc = "restore"]
  /\ engines' = [s \in Slots |-> NoEngine]
  /\ saves' = {s \in saves : s.to # NoOne}

Reload ==
  /\ flow.pc \notin {"leaving", "wiping"}
  /\ UNCHANGED device /\ Load(1)
  /\ UNCHANGED <<cookie, disk, server, ghost, late, wantsOut>>

\* The cookie is traded for an access token: the account is known.
RestoreAnswered ==
  /\ flow.pc = "restore"
  /\ IF cookie # NoOne
     THEN /\ page' = [page EXCEPT !.token = cookie, !.fresh = TRUE]
          /\ flow' = [flow EXCEPT !.pc = "guard", !.who = cookie]
     ELSE UNCHANGED page /\ Rest("open")
  /\ UNCHANGED <<cookie, device, disk, engines, server, saves, tally, ghost, late, wantsOut>>

\* The server cannot be reached: a device that has signed in before stays in.
RestoreUnreachable ==
  /\ flow.pc = "restore" /\ Fault
  /\ IF device.account # NoOne
     THEN StartSync([page EXCEPT !.signedIn = TRUE], engines)
     ELSE UNCHANGED <<page, engines>>
  /\ Rest("open")
  /\ UNCHANGED <<cookie, device, disk, server, saves, ghost, late, wantsOut>>

\* A code is verified on the sign-in screen; the first time makes the account.
SignIn(a) ==
  /\ page.authChecked /\ ~page.signedIn /\ flow.pc = "idle" /\ server[a].is # "erased"
  /\ cookie' = a
  /\ server' = [server EXCEPT ![a].is = "live"]
  /\ page' = [page EXCEPT !.token = a, !.fresh = TRUE, !.pulledFor = NoOne]
  /\ flow' = [pc |-> "guard", who |-> a, isNew |-> server[a].is = "new"]
  /\ wantsOut' = FALSE
  /\ UNCHANGED <<device, disk, engines, saves, tally, ghost, late>>

\* Variant: the account of the token is not compared.
StrangerNever == FALSE


Stranger == device.account # NoOne /\ device.account # flow.who

\* guardAccount: the device is cleared when it holds another account's data.
\* The store in memory keeps the settings it was created with.
Guard ==
  /\ flow.pc = "guard"
  /\ IF Stranger
     THEN /\ disk' = [r \in Rows |-> "none"]
          /\ device' = [device EXCEPT !.settings = Unset, !.onboarded = FALSE]
     ELSE UNCHANGED <<disk, device>>
  /\ Rest("claim")
  /\ UNCHANGED <<cookie, page, engines, server, saves, tally, ghost, late, wantsOut>>

\* Variant: the screen is not refreshed after the database was cleared.
ClaimUnshown ==
  /\ flow.pc = "claim"
  /\ device' = [device EXCEPT !.account = flow.who]
  /\ Rest("settings")
  /\ UNCHANGED <<cookie, disk, page, engines, server, saves, tally, ghost, late, wantsOut>>


Claim ==
  /\ flow.pc = "claim"
  /\ UNCHANGED disk
  /\ page' = IF Stranger THEN Hydrated(page) ELSE page
  /\ device' = [device EXCEPT !.account = flow.who]
  /\ Rest("settings")
  /\ UNCHANGED <<cookie, engines, server, saves, tally, ghost, late, wantsOut>>

\* The account is let in.  At the sign-in a new account is always set up.
Admit(p, d) ==
  LET fromForm == page.authChecked
  IN /\ StartSync([p EXCEPT !.signedIn = TRUE, !.onboarded = @ /\ ~flow.isNew], engines)
     /\ device' = [d EXCEPT !.onboarded = @ /\ ~flow.isNew]
     /\ late' = (late \/ (device.settings = Unset /\ \E save \in saves : save.to = flow.who))
     /\ Rest(IF fromForm THEN "banks" ELSE "open")

\* Variant: a fetched copy is adopted only by a device that has its own.
FetchSettingsSwapped ==
  /\ flow.pc = "settings" /\ Accepted
  /\ LET remote == server[page.token].settings
     IN IF remote # Unset /\ device.settings # Unset
        THEN Admit([page EXCEPT !.settings = remote], [device EXCEPT !.settings = remote])
        ELSE Admit(page, device)
  /\ UNCHANGED <<cookie, disk, server, saves, tally, ghost, wantsOut>>

\* The server's settings have come; a device without any of its own adopts them.
FetchSettings ==
  /\ flow.pc = "settings" /\ Accepted
  /\ LET remote == server[page.token].settings
     IN IF remote # Unset /\ device.settings = Unset
        THEN Admit([page EXCEPT !.settings = remote], [device EXCEPT !.settings = remote])
        ELSE Admit(page, device)
  /\ UNCHANGED <<cookie, disk, server, saves, tally, ghost, wantsOut>>

\* They have not: best effort.
FetchFails ==
  /\ flow.pc = "settings" /\ (~Accepted \/ tally.faults < MaxShellFaults)
  /\ tally' = IF Accepted THEN [tally EXCEPT !.faults = @ + 1] ELSE tally
  /\ Admit(page, device)
  /\ UNCHANGED <<cookie, disk, server, saves, ghost, wantsOut>>

\* ensureDefaultBanks, at the sign-in of a new account.
DefaultBanks ==
  /\ flow.pc = "banks"
  /\ LET bank == [by |-> flow.who, kind |-> "bank"]
     IN IF flow.isNew /\ \A r \in OnDisk : r.kind # "bank"
        THEN /\ disk' = [disk EXCEPT ![bank] = "unsent"]
             /\ page' = [page EXCEPT !.rows = @ \cup {bank}]
        ELSE UNCHANGED <<disk, page>>
  /\ flow' = Idle
  /\ UNCHANGED <<cookie, device, engines, server, saves, tally, ghost, late, wantsOut>>

\* The end of the boot: sample rows are purged, the database is shown.
Open ==
  /\ flow.pc = "open"
  /\ disk' = [r \in Rows |-> IF r.by = "demo" THEN "none" ELSE disk[r]]
  /\ page' = [Hydrated(page) EXCEPT !.authChecked = TRUE]
  /\ flow' = Idle
  /\ UNCHANGED <<cookie, device, engines, server, saves, tally, ghost, late, wantsOut>>

-----------------------------------------------------------------------------
(* In the app. *)

Screen == IF ~page.authChecked THEN "splash"
          ELSE IF ~page.signedIn THEN "sign-in"
          ELSE IF ~page.syncPrimed /\ ~page.onboarded THEN "splash"
          ELSE IF page.ready /\ ~page.onboarded THEN "onboarding" ELSE "app"

InApp == Screen = "app" /\ flow.pc \in {"idle", "banks"}

\* A bank is entered: disk, then screen.  The categories come with the setup.
WriteRow ==
  /\ InApp /\ Change
  /\ LET row == [by |-> device.account, kind |-> "bank"]
     IN /\ disk' = [disk EXCEPT ![row] = "unsent"]
        /\ page' = [page EXCEPT !.rows = @ \cup {row}]
  /\ UNCHANGED <<cookie, device, flow, engines, server, saves, ghost, late, wantsOut>>

\* setSettings writes the whole of them to the local storage.
EditSettings ==
  /\ InApp /\ Change
  /\ page' = [page EXCEPT !.settings = @ \cup {device.account}]
  /\ device' = [device EXCEPT !.settings = page.settings \cup {device.account}]
  /\ UNCHANGED <<cookie, disk, flow, engines, server, saves, ghost, late, wantsOut>>

\* applyOnboarding: settings, categories, and the account counts as set up.
ApplyOnboarding ==
  /\ Screen = "onboarding" /\ Change
  /\ LET row == [by |-> device.account, kind |-> "category"]
         mine == page.settings \cup {device.account}
     IN /\ disk' = [disk EXCEPT ![row] = "unsent"]
        /\ page' = [page EXCEPT !.settings = mine, !.rows = @ \cup {row}, !.onboarded = TRUE]
        /\ device' = [device EXCEPT !.settings = mine, !.onboarded = TRUE]
  /\ UNCHANGED <<cookie, flow, engines, server, saves, ghost, late, wantsOut>>

\* Setup is skipped; or the account has categories already, and the effect
\* on them marks it as set up.
MarkOnboarded ==
  /\ ~page.onboarded
  /\ Screen = "onboarding" \/ (page.ready /\ HasCategory(page.rows))
  /\ page' = [page EXCEPT !.onboarded = TRUE]
  /\ device' = [device EXCEPT !.onboarded = TRUE]
  /\ UNCHANGED <<cookie, disk, flow, engines, server, saves, tally, ghost, late, wantsOut>>

\* The effect that mirrors the settings whenever they change while signed in.
\* An expired token is found out by the answer, and the cookie asked instead.
MirrorSettings ==
  /\ page.signedIn /\ page.ready /\ page.mirrored # page.settings
  /\ Cardinality(saves) < MaxSaves
  /\ page' = [page EXCEPT !.mirrored = page.settings]
  /\ saves' = saves \cup {[to |-> IF page.fresh THEN page.token ELSE NoOne,
                            value |-> page.settings]}
  /\ UNCHANGED <<cookie, device, disk, flow, engines, server, tally, ghost, late, wantsOut>>

\* Saves arrive in any order.
SaveArrives(save) ==
  LET to == IF save.to = NoOne THEN cookie ELSE save.to
  IN /\ saves' = saves \ {save}
     /\ server' = IF to # NoOne /\ server[to].is = "live"
                  THEN [server EXCEPT ![to].settings = save.value] ELSE server
     /\ page' = IF save.to = NoOne /\ cookie # NoOne
                THEN [page EXCEPT !.token = cookie, !.fresh = TRUE] ELSE page
     /\ UNCHANGED <<cookie, device, disk, flow, engines, tally, ghost, late, wantsOut>>

SaveLost(save) ==
  /\ Fault
  /\ saves' = saves \ {save}
  /\ UNCHANGED <<cookie, device, disk, page, flow, engines, server, ghost, late, wantsOut>>

\* The page becomes visible and asks the cookie; the wake is PushRows.
Resume ==
  /\ page.signedIn /\ cookie # NoOne /\ ~page.fresh
  /\ page' = [page EXCEPT !.token = cookie, !.fresh = TRUE]
  /\ UNCHANGED <<cookie, device, disk, flow, engines, server, saves, tally, ghost, late, wantsOut>>

ExpireToken ==
  /\ page.token # NoOne /\ page.fresh /\ Fault
  /\ page' = [page EXCEPT !.fresh = FALSE]
  /\ UNCHANGED <<cookie, device, disk, flow, engines, server, saves, ghost, late, wantsOut>>

\* The session is revoked by the server, or it has run out.
SessionEnds ==
  /\ cookie # NoOne /\ Fault
  /\ cookie' = NoOne
  /\ UNCHANGED <<device, disk, page, flow, engines, server, saves, ghost, late, wantsOut>>

-----------------------------------------------------------------------------
(* Sign-out and the deletion of the account. *)

SignOut ==
  /\ InApp
  /\ page' = [page EXCEPT !.engine = 0] /\ engines' = Stopped
  /\ ghost' = GhostAfterStop
  /\ Rest("leaving") /\ wantsOut' = TRUE
  /\ UNCHANGED <<cookie, device, disk, server, saves, tally, late>>

\* Variant: signing out wipes the database, as it once did.
LoggedOutWiped ==
  /\ flow.pc = "leaving"
  /\ cookie' = NoOne /\ disk' = [r \in Rows |-> "none"]
  /\ UNCHANGED <<device, server, ghost, late, wantsOut>>
  /\ Load(0)

\* Variant: the page is reloaded without telling the server.
LoggedOutHere ==
  /\ flow.pc = "leaving"
  /\ UNCHANGED <<cookie, device, disk, server, ghost, late, wantsOut>>
  /\ Load(0)

\* Whatever the network does, the page is reloaded; nothing is wiped.
LoggedOut ==
  /\ flow.pc = "leaving"
  /\ cookie' = NoOne
  /\ UNCHANGED <<device, disk, server, ghost, late, wantsOut>>
  /\ Load(0)

LogoutLost ==
  /\ flow.pc = "leaving"
  /\ UNCHANGED <<cookie, device, disk, server, ghost, late, wantsOut>>
  /\ Load(1)

\* The server first.  When its answer is lost the page goes on as before.
DeleteAccount ==
  /\ InApp /\ Accepted
  /\ server' = [server EXCEPT ![page.token] =
                  [is |-> "erased", rows |-> {}, settings |-> Unset]]
  /\ cookie' = NoOne
  /\ \/ /\ flow' = [flow EXCEPT !.pc = "wiping", !.who = page.token]
        /\ page' = [page EXCEPT !.token = NoOne] /\ UNCHANGED tally
     \/ Fault /\ UNCHANGED <<flow, page>>
  /\ UNCHANGED <<device, disk, engines, saves, ghost, late, wantsOut>>

Wipe ==
  /\ flow.pc = "wiping"
  /\ disk' = [r \in Rows |-> "none"]
  /\ device' = [account |-> NoOne, settings |-> Unset, onboarded |-> FALSE]
  /\ ghost' = GhostAfterStop
  /\ Load(0)
  /\ UNCHANGED <<cookie, server, late, wantsOut>>

ShellNext ==
  \/ \E s \in Slots : PushRows(s) \/ PullRows(s) \/ AuthLost(s)
                        \/ CycleFails(s)
  \/ AskAnswered \/ AskUnreachable
  \/ Reload \/ RestoreAnswered \/ RestoreUnreachable
  \/ Guard \/ Claim \/ FetchSettings \/ FetchFails \/ DefaultBanks \/ Open
  \/ \E a \in Accounts : SignIn(a)
  \/ WriteRow \/ EditSettings \/ ApplyOnboarding \/ MarkOnboarded \/ MirrorSettings
  \/ \E save \in saves : SaveArrives(save) \/ SaveLost(save)
  \/ Resume \/ ExpireToken \/ SessionEnds
  \/ SignOut \/ LoggedOut \/ LogoutLost \/ DeleteAccount \/ Wipe

ShellSpec == ShellInit /\ [][ShellNext]_shellVars

-----------------------------------------------------------------------------
(* Properties. *)

\* No row of one account is pushed under another, and no sample row under any:
\* guardAccount clears the device before the sync starts.  Excepted are the
\* pages on which an engine was stopped in the middle of its cycle.
RowsStayHome == ~ghost => \A a \in Accounts : \A r \in server[a].rows : r.by = a

\* The screens behind the sign-in show the rows of the account that is signed
\* in, with the same exception.
ScreenIsOwn ==
  ~ghost /\ Screen \in {"app", "onboarding"} => \A r \in page.rows : r.by = device.account

\* Once the first pull since an account signed in has been shown, setup is offered
\* to it only while it has no category, or until the effect on its categories has
\* run.
SetUpIsOnce ==
  ~ghost /\ Screen = "onboarding" /\ page.pulledFor = device.account =>
    HasCategory(page.rows) \/ ~HasCategory(server[device.account].rows)

\* While every request is answered, a user who signed out stays signed out.
SignedOutWhenCalm ==
  tally.faults = 0 /\ wantsOut /\ page.authChecked => ~page.signedIn \/ flow.pc = "leaving"

\* Unless one was stopped in the middle of its cycle, the engine the page refers
\* to is the only one that runs or will run.
OneEngineRuns ==
  ~ghost => \A s \in Slots : Busy(s) \/ engines[s].timer = "set" => s = page.engine

\* Accounts stay apart on one device, whoever signs in and out and whatever engine is still
\* running: on the server, on the screen, and in the engines of the page.
AccountsStayApart == RowsStayHome /\ ScreenIsOwn /\ OneEngineRuns /\ SignedOutWhenCalm

\* A row the server does not hold yet leaves the device only when its account is
\* erased, somebody else signs in, or somebody else's account is erased from the
\* page: signing out, losing the session and reloading at any point keep it.
UnsentRowsAreKept ==
  \A r \in Rows : (disk[r] = "unsent" /\ disk'[r] = "none") =>
    \/ server[r.by].is = "erased"
    \/ flow.who \notin {NoOne, r.by}

\* While every request is answered and nothing expires, the mirror never sends
\* the defaults, or another account's settings, to an account whose settings the
\* server holds: the restore comes first.  Excepted are the devices that let an
\* account in while a save to it was under way, for the restore cannot know of it.
RestoreBeforeMirror ==
  tally'.faults = 0 /\ ~ late' => \A save \in saves' \ saves :
    save.to # NoOne /\ server[save.to].settings = {save.to} => save.value = {save.to}

\* No step loses what only this device has, rows not yet sent, or overwrites what only the
\* server has, settings not yet restored.
NothingIsLost == [][UnsentRowsAreKept /\ RestoreBeforeMirror]_shellVars

\* Violated.  App.tsx:309-311: "a different account on a shared phone (wipe, or
\* they would see the previous person's spending)".  The settings in memory are
\* not cleared, and the mirror sends them to the new account.
SettingsStayHome ==
  \A a \in Accounts : server[a].settings \in {Unset, {}, {a}}

\* Violated.  App.tsx:286-288: "the user asked to be signed out, so a dropped
\* connection must not leave them looking signed in".
SignedOutStaysOut ==
  wantsOut /\ page.authChecked => ~page.signedIn \/ flow.pc = "leaving"
=============================================================================
