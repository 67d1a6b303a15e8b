# SpendWise, in TLA+

SpendWise is an offline-first budgeting app. Every device keeps its own copy of
the account in IndexedDB, the screen reads a second copy in memory, and a sync
engine exchanges rows with a server over PostgreSQL. This directory holds a
model of that protocol, of the server's requests around it, of the client that
starts and stops it, of the forms that feed it and of the budget that is
computed from it; the TLC configurations that check them; and proofs, for every
value of the bounds, of what the protocol, the server, the client and the budget
promise.

Run from this directory:

    tlc -workers 2 -config SyncTwoDevices.cfg MCSync     # a run
    tlapm SyncDeliveryProofs.tla                         # a proof module

## 1. Inventory

| Component | State it keeps | Operations | What makes it correct | Modelled in |
|---|---|---|---|---|
| Sync engine (`core/sync/engine.ts`) | `running`, timer, `attempt`, `lastPulledAt`; in a cycle: what `pending()` has read, the batch in flight, the page cursor | `runOnce` = probe, push in batches, mark, pull; `wake`, `start`, `stop` | nothing unsent is overwritten or marked sent; push before pull; cycles end; one engine | `Sync`, `AppShell` |
| Local database (`core/db/dexie.ts`) | three tables of rows | `put`, `bulkPut`, `softDelete`, `pending`, `markSynced`, `markFailed`, `clear` | no write is lost; tombstones stay; what is sent is whole | `SyncRecords`, `Sync`, `AppShell` |
| In-memory store (`core/store.ts`) | the rows shown, settings | create, edit, remove (disk, then screen), `hydrate` | never ahead of the server; shows what is stored | `Sync`, `Setup`, `Entries` |
| Sync server (`sync.service.ts`, `sync.repo.pg.ts`) | transactions, categories, banks, settings, `sync_operations` | `push`, `pull` | a key counts once; tombstones win; pages miss nothing; pushes get past each other | `SyncRecords`, `Sync`, `PushTx`, abstractly `VersionedStore` |
| Id generator (`uuid.ts`) | `lastMs`, `counter` | `uuidv7` | ids sort as issued | `UuidClock` |
| Sessions (`token.service.ts`, session stores, `auth/client.ts`, `auth.controller.ts`) | refresh-token families, cookies | issue, rotate, revoke, restore, delete the account | one live token a family; reuse revokes, and only that | `Sessions` |
| One-time codes (`otp.service.ts`) | challenges, counters | send, verify | limits hold; a code works once | `OtpCodes` |
| Identities (`identity.service.ts`, migrations 003 and 005) | users, linked providers | resolve, link, unlink, erase | an identity opens one account; the last one stays | `Identities` |
| App shell (`App.tsx`, `settings.remote.ts`) | account of the device, engine, settings, flags | boot, sign-in, `guardAccount`, sign-out, resume, mirror, restore | one account at a time on a device; nothing unsent is dropped | `AppShell` |
| Payday effect (`App.tsx`, `payday.ts`) | runs under way | credit missing wages | every payday once | `Paydays`, `Ledgers` |
| Onboarding (`Onboarding.tsx`, `applyOnboarding`) | answers, flag | steps, finish | whole, and once | `Setup` |
| Sign-in screen (`AuthScreen.tsx`, `google.ts`) | stage, consent, busy, challenge | send, verify, Google | consent first; one request; latest challenge | `SignInForm` |
| Entry sheets (`AddSheet.tsx`, `PutAsideSheet.tsx`) | drafts | open, type, save | saved as meant, once | `Entries` |
| Category editor (`Editors.tsx`, its `onSave`) | a form | show, save | what is edited is what is budgeted | `CategoryForm` |
| Budget engine (`features/budget`) | none | cycles, pots, flows, cash, summary | agree with their reference definitions | `Cycles`, `Pots`, `Ledgers`, `Budget`, `Household` |
| Insights (`features/insights`, `report.ts`, `outlook.ts`) | none | report, month, verdict | add up; agree with each other | `Insights` |
| Currency (`currency.ts`) | none | parse, round, convert | exact; reads back | `Money` |
| Other screens, design system, legal, audit, health, wiring, schema | none of interest | | | not modelled (section 7) |

How they interact. A user action writes the local database, then the screen, and
wakes the engine. Once a cycle the engine reads what is pending (`pending`: the
categories, the banks, the transactions, with an `await` after each), posts it in batches,
writes each answer to the database, pulls pages into the database, and calls
back to reload the screen. Two tabs share the database and nothing else. The
shell decides which account the page serves, and with it which engine runs, what
the database may keep and where the settings are sent. The server handles each
request in one database transaction (`withUser` in `db.ts`), at READ COMMITTED: a push
looks up its key, then reads and writes row by row, keeps what it has written locked, and
sees between two statements what others have committed.
Every `await`, on either side, is a place where the user, another tab, another
request or a lost connection comes in.

What is hard here: rows change between the queries of `pending`, the answer and the pull;
`markSynced` and `softDelete` read and write in two IndexedDB transactions; answers
get lost after the commit and are retried under a new key; timestamps come from
several clocks; categories are pushed without an answer; pushes of two
devices, or one given up and its retry, overlap statement by statement, lose one of two
changes or deadlock; effects of the page run again while their previous run
awaits; accounts change on one device with requests of the old one under way.
`PROJECT.json` lists each hazard at its line, with the properties that look at
it, or the reason why none does.

## 2. Modules

| Module | What it is |
|---|---|
| `SyncRecords` | the data of the protocol and the pure functions on it: `pending`, batches, conflict rule, merge, upserts, pages |
| `Sync` | the system: user, tabs, engines, network, server; one action for each step between two awaits |
| `SyncProperties` | what holds of it, what the repository says and the code does not keep, and fairness |
| `VersionedStore` | the abstract specification of the server's transactions: one step `Answer(k, S, O)` a batch, accepted for the records S, over unread changes of those of O |
| `MCSync` | instances of `Sync` for TLC: placement of tabs, clocks, symmetry, an account in use |
| `SyncSafetyProofs` | theorems about `Sync`: types; what the server does and the order of a cycle |
| `SyncDeliveryProofs` | theorems about `Sync`: that what was sent, named or pulled arrives |
| `Sessions`, `PushTx`, `OtpCodes`, `Identities` | the server's requests, one action for each store call or SQL statement |
| `MCServer` | their instance |
| `SessionsProofs` | theorems about `Sessions` |
| `ServerProofs` | theorems about `PushTx`, `OtpCodes` and `Identities`, and about the server as a whole: its components, interleaved |
| `Cycles`, `Pots`, `Ledgers`, `Budget`, `Insights` | the budget engine and the reports as operators, each module extending the one before |
| `Household` | a household over some days, with the budget that the app shows of it |
| `CategoryForm`, `Money` | the category editor (over `Budget`); amounts typed, rounded, shown, converted |
| `MCBudget` | the instance of the last three |
| `BudgetProofs` | theorems about the cycles, the paydays, the pots' past and the category editor |
| `LedgersProofs` | theorems about sums (the cash, the flows, the reports, the verdict), and on them the types of the budget, its commitments and its headline |
| `AppShell` | accounts, engines, settings and flags of the page |
| `Paydays`, `Setup`, `SignInForm`, `Entries` | the payday effect, onboarding, the sign-in screen, the entry sheets |
| `UuidClock` | the id generator |
| `MCApp` | the instance of the last three rows |
| `ClientProofs` | theorems about `SignInForm`, `Entries`, `Setup`, `Paydays` and `UuidClock` |
| `ShellProofs` | theorems about `AppShell`, and about the client as a whole |

`MCServer`, `MCBudget` and `MCApp` each check several components that share no
state their properties need. A behaviour plays one of them, named by the
variable `scene`, and leaves the others as they begin, so the states of a run are
the sum, not the product, of those of its components.

### How `Sync` corresponds to the code

| Variable | Code |
|---|---|
| `db[d]` | the IndexedDB tables of a device |
| `shown[t]` | `transactions`, `categories`, `banks` of the Zustand store of a tab |
| `removing[t]` | the row `softDelete` has read and not yet written |
| `refresh[t]` | a pending `hydrate`: after a pull that wrote, and after the first cycle of an engine (`onPulled`, `startSync`) |
| `engine[t]` | a `SyncEngine`: its phase (`banks` and `transactions` are a `pending()` that reads that table next), what is left to send (`todo`), the key in flight, answers not yet written down (`acks`), the row a mark has read (`held`), `lastPulledAt`, the cursor, the page received, the page count. `began` and `base` are history and steer nothing |
| `requests`, `operations` | pushes sent under each idempotency key; the table `sync_operations` |
| `serving[k]` | the database transaction that serves request k: the clock offset it measured, the row its loop is at, the rows it has passed, what it read of each (`seen`) |
| `store` | the server's transactions, categories and banks, as committed |
| `now`, `edits`, `faults` | the server's clock; the count of user actions, which names contents; the count of faults |
| `contested`, `ahead` | history, and steer nothing: the transactions that a push wrote over a change committed after it had read the row; those that were sent off before the category they name |

A row has an amount, a timestamp, a tombstone flag, a version, a status and
`rev`, the number of the user action that wrote it. `rev` stands for every other
field the user types; it is what lets a property say that content is unsent or
stored. Transactions and categories have numbers for ids, because the keyset
order compares ids. Banks are merged and pulled as categories are, and are those of
`Categories` that lie in a table of their own, read second and pushed last (`Banks`).

Abstractions to know of:

- A push is `BeginPush` (the look-up of the key, the clock), one `ReachRow` for each row of the
  batch (the write of the row before, the SELECT of this one), and `CommitPush` or `RollBack`.
  The SELECT takes no lock; a write waits while another push has the row locked
  (`WaitsFor`), and locks it until its push ends. Nobody can tell a write under lock from one at
  the commit, except those who wait, so `store` changes at the commit: transactions by what was
  read of them (`seen`), categories and banks by the row that is there, which is what `ON CONFLICT
  ... WHERE` looks at again after a wait. Pushes that wait in a circle are rolled
  back one by one (`Deadlocked`), and so is one that finds the id it is about to insert
  taken (`KeyTaken`). A push that is rolled back answers with an error, and the cycle ends.
- A page of a pull is one step. Its queries for categories and banks come after the one for transactions and may
  see what was committed in between; the model lets them see the same,
  and takes `server_time` in the same step.
- A record has one row here. That a push which moves `occurred_at` may leave two, and that one key is
  delivered twice at the same time, is in `PushTx`.
- `ReceivePage` writes categories, banks and transactions of a page together; the
  code writes three tables one after the other.
- `Create` and `Edit` write disk and screen together; `Setup` and `Entries` split them.
- A lost, late or repeated request needs no state of its own: a request stays in
  `requests`, `BeginPush` may take it at any time or never, a second delivery
  finds the key answered and changes nothing, one that was rolled back may be taken again, and `Fail` ends a cycle whether or
  not the server has acted. The time-out and the refresh on a 401 in the transport are such failures or repetitions.
- `NoKeyLeft` exists only because pushes are bounded: the push fails as if the network were gone.
- The currency conversion in `materialise` writes `base_minor` and `fx_rate`,
  which no property looks at.
- `contested` and `ahead` are provisos. What the protocol promises of a transaction (an exact
  version, no device ahead of the server, a tombstone that stays, the accepted content
  stored) ends where a push writes over a change it has not read, and nowhere else: the
  properties say so of that record, and go on to promise the rest. That it does
  end there is `ServerAcceptedDeletionStays` (section 5). In the same way, a transaction can be on the
  server without its category only if it is in `ahead` (`CategoryGoesFirst`, section 6).
- `Restart` is a closed tab, a lost process, or `startSync` with a new engine. A
  second tab also stands for the old engine that `startSync` leaves running when
  a cycle was in flight.

### How the server modules correspond to the code

| Module | State and code | An action is |
|---|---|---|
| `PushTx` | `table`, `latest`, `opsTable`: committed rows of one record of the batch by date (the primary key is `(local_id, occurred_at)`), the stamp of one last-write-wins row (a category, a bank, the settings), the answers kept under keys. `tx`: what each transaction has read and written | one SQL statement of `SyncService.push`. It sees what is committed when it starts; a write waits for the transaction that has written the row, an insert of a key for the one that has inserted it. The loop over many rows, its locks and the deadlocks they lead to are in `Sync` |
| `Sessions` | `sessions`: the table; `cookies`, `access`: what each client holds; `calls`: requests between two store calls | one call of the session store: look-up, compare and set, revocation of a family, mint; and sending, delivering, losing |
| `OtpCodes` | `challenges`, `sent`: the Redis store; `senders`, `verifiers`: requests with the copy of the challenge they hold | one call of the store |
| `Identities` | `users`, `identities`: the tables; `signIns`: requests and what they have read | one statement of `auth_register_identity`, `link`, `unlink`, `app_delete_account`. The unique indexes on (provider, subject) and (user, provider) refuse, as they do in PostgreSQL |

A handler that crashes, a request or an answer that is lost is one action (`Lose`,
`Abort`), bounded by `MaxCallFaults`.

### How the client modules correspond to the code

| Module | State and code |
|---|---|
| `AppShell` | `cookie`, `device` (local storage), `disk`: what survives the page. `page`: the token, the settings in memory, the flags its screen is chosen by, the engine it refers to. `flow`: the async function under way, `boot`, `onSignedIn` with `guardAccount`, `signOut` or the deletion, stopped at an await. `engines`: every engine alive, also those the page has dropped. `saves`: settings under way. A row is its account and kind, settings are the set of accounts that had a hand in them |
| `Paydays` | `known`: incomes in memory; `loops`: the runs of the effect, a set of records, each with the number of transactions it ran for, the paydays still to credit, and the row being written |
| `Setup` | `form`: the step and the answers; `taps`: the rows each Finish still has to write; `stored`, `shown`, `reads`: disk, screen, and what a hydrate has read |
| `SignInForm` | `screen`: the state of the component; `requests`; `google`: its button, chooser and fallback; `outcome`: sign-ins reported |
| `Entries` | `sheet`, `aside`: the two sheets and their drafts; `saving`: saves that await the database; `entries`: the transactions |
| `CategoryForm` | `row`: a category; `edited`: the day of the app's `now` |
| `Household` | `today`, and `now`, the day the app was opened; `set`, `cats`, `txs`; `budget`: the memoised `buildBudget` |
| `Money` | `figure`, `point`: the digits typed |
| `UuidClock` | `clock`: `Date.now`; `lastMs`, `counter`; the ids issued |

In the budget modules a date is a whole number of days, with no first and no last, and
the calendar repeats after a number of months of given lengths, as the real one does after
4800. Money is an integer of minor units, as in the code. The engine's
functions are operators over the same inputs, replaying cycle by cycle with
recursive functions. Categories, pots and flows are taken by their position in the list
that the code filters. `Recomputed` is the memo of `App.tsx`, recomputed
when the settings, the categories, the transactions or `now` change.

History variables (`ghost`, `late`, `calm`, `overlapped`, `raced`, `barged`, `meant`, and
so on) steer nothing. Most of them let a property exclude exactly the case that
breaks it: `~ overlapped` says that no two transactions have been open at once,
`calm` that a client lost no answer and sent no two requests at once. Where a
document promises the thing without that exclusion, the promise is stated as it
stands and TLC refutes it (section 6).

## 3. Runs

The bounds are small, and chosen so that the case each run is about happens:
`PROJECT.json` gives for every property a plausible bug that the run catches.

Runs that pass:

| Run | Instance | Shows |
|---|---|---|
| `SyncTwoDevices` | 2 devices with agreeing clocks, 2 edits, 3 pushes that may overlap, and either a moving clock or 1 fault | types; a version counts the batches accepted for it, through overlaps, rollbacks, lost answers and restarts; no device is ahead of the server; the newest accepted change is what is stored; the server implements `VersionedStore`; each up to the transactions that a push has written over unseen |
| `SyncTwoTabs` | 2 tabs on one disk, an account in use, 3 edits, 3 pushes | when a cycle pulls, every older pending transaction has been answered; only an edit that had read the row before a deletion was committed undoes it |
| `SyncCategories` | a transaction, the category it names and a bank, batches of 1, rows written between the queries of `pending`, 1 fault, so that an older batch may arrive late | a transaction without its category was sent off first, and the category is still to come; a synced category is on the server |
| `SyncPaging` | 2 transactions, 2 devices, one of them new, pages of 1; or both having edited both rows, in the same order or in opposite ones, batches of 2 | a full pull misses nothing; pushes that list their rows alike do not deadlock |
| `SyncLiveness` | 1 tab, 1 fault | cycles end; pending rows are answered |
| `Server` | 2 clients and 2 requests over 3 tokens and 2 successive accounts, 1 fault; 3 pushes of 2 keys; 2 senders and 2 verifiers, limits of 1 and 2, 2 attempts; 3 identities of 2 providers, 2 users, 2 requests | what any schedule keeps: lineages do not fork, dead ones stay dead, a calm client stays signed in, deleted accounts leave nothing, the newest stamp wins, limits are passed by fewer than the requests in flight. And what requests one at a time keep: versions count, keys apply once, amounts are not guessed, codes are used once, a sign-in answers the account it will open, the last way in stays |
| `Budget` | months of 4 and 5 days, cycles of 2 and 3 days and of a month, 3 plans with a flow, bills old and new, a goal, savings; 6 days, 1 entry at a time, the app left open for a day at most; the editor on every shape of row on 3 days; figures of 4 digits, 0, 2 and 3 decimals, 3 rates | cycles tile; bills are ready, goals are met; the headline is backed, and a promise; cash and carry-over are conserved; the past stays; wages are credited once; reports add up; the editor and the budget agree; rounding, reading back and converting |
| `App` | 2 accounts on one device, 1 reload, 1 fault, 1 change; 3 missing paydays and an income of another kind; a category and a bill, 2 taps, 1 arrival, 1 reload; 2 codes, 2 requests; 2 saves, 1 hydrate; a counter of 5 | rows and screens stay with their account, nothing unsent is lost, settings are restored before they are mirrored, one engine, set-up once and whole; every payday is paid; consent first; what is saved is what was meant; ids sort |

Each component states its properties one by one, with the lines they are about. The
three runs of several components check them as the conjunctions that say what they are
for, and `PROJECT.json` has a mutant for nearly every conjunct:

| Run | Property | Conjuncts |
|---|---|---|
| `Server` | `DeletedAccountLeavesNothing` | `NoSessionOfDeletedAccount`, `ErasedStaysErased` |
| | `SerialPushes` | `SerialPushesCount`, `SerialKeyAppliedOnce`, `SerialAmountsNotGuessed` |
| | `CodesAreLimited` | `SerialCodeSingleUse`, `OvershootBounded` |
| | `SerialIdentities` | `AnswersItsAccount`, `LeavesAWayIn` |
| `Budget` | `CommitmentsAreMet` | `BillIsReady`, `GoalIsMet`, `SoonestFirst`, `DatesAreFixed` |
| | `HeadlineIsHonest` | `HeadlineIsBacked`, `PromiseIsKept`, `OverMeansOverspent`, `VerdictsAgree` |
| | `LedgersAddUp` | `CashIsConserved`, `FlowsCarry`, `ReportAddsUp` |
| | `FormKeepsItsMeaning` | `EditorAgreesWithBudget`, `UntouchedFormKeeps`, `DueOnTheDayChosen` |
| | `AmountsKeepTheirValue` | `ToMinorIsNearest`, `ShownReadsBack`, `ConvertsBack` |
| `App` | `AccountsStayApart` | `RowsStayHome`, `ScreenIsOwn`, `OneEngineRuns`, `SignedOutWhenCalm` |
| | `NothingIsLost` | `UnsentRowsAreKept`, `RestoreBeforeMirror`, of every step |
| | `PaydaysArePaid` | `EveryPaydayIsPaid`, `DoublingIsBounded` |
| | `SetUpOnceAndWhole` | `ShownIsStored`, `ScreenCatchesUp`, `SetupIsWhole`, `SetUpIsOnce` |
| | `SignInIsOrderly` | `ConsentWasTicked`, `OneRequest`, `ChallengeNeverGoesBack`, of every step |
| | `EntriesAreMeant` | `SavedAsMeant`, `UntouchedEditKeeps`, `PutAsideOnce` |

Two ticks of the clock give older, equal and newer timestamps. Three pushes are two that
overlap and one more that finds what they left, a retry or a later edit. `SyncTwoDevices` is two instances
in one run (`SplitInit`): a clock that may move and no fault, or a clock that stands and a fault.
Both at once is more states than a run of some minutes can visit; the proofs have no such split. `SyncTwoTabs` and
`SyncPaging` start from a state in which the account holds every record, pushed by
the first device (`StockedInit`); it is reached by creating them, one full cycle up
to the answers, and a restart, and saves those steps. `SyncPaging` has a second kind of initial state
(`CrossedInit`): both devices have pulled the account and edited every row, each in its own order, and nothing has been
sent since. Each of the opposite orders occurs, and with them the deadlock: without the proviso on the order
`DeadlockTakesTwoOrders` fails there, and its mutant, in which the rows are not taken
in the order of the batch, makes it fail with it. Months of 4 and 5 days hold
two or three short cycles and a clamped day, as months of 28 to 31 hold weeks and
the 31st; the ready date is 1 day before the due date instead of 3, and two
installments stand for the code's four (`MAX_INSTALLMENTS`). Three missing paydays are the fewest with which the
third is recorded four times.

Symmetry: devices with their tabs are interchangeable where nothing tells them apart
(`Mirror`, `TabSymmetry`), and so are clients, requests and accounts. `SyncLiveness`
uses none.

Deadlock is checked in the runs of `Sync`: `Offline` (the timer fires and the probe
fails) is always possible to an idle engine, so the model never stops. `Server`,
`Budget` and `App` say `CHECK_DEADLOCK FALSE`, since a bounded scene really ends: the last
day, all tokens minted, all pushes served. In `Sync` pushes can deadlock on their rows, as in the code; PostgreSQL
then rolls one back (`RollBack`). When that can happen at all is `DeadlockTakesTwoOrders`, an invariant and a theorem.

### Fairness

`FairSpec` assumes weak fairness of what each engine does next when nothing goes
wrong (`Progress`), of the server's handling of a request (that a request is taken up for the first time, that an
open push goes on to its next row and to its commit, that a deadlocked one is rolled back), and of the
steps that are only waiting for IndexedDB. The code justifies them: `schedule` re-arms the
timer in `finally` after every cycle, a request that is not lost is answered, PostgreSQL looks for deadlocks, and
promises of IndexedDB settle. A push that failed is answered with an error, which ends the cycle (`ReceiveError`); nothing makes
its delivery happen again. `Progress` includes `Wake`, so the probe succeeds now and
then; `Fail` is not fair, and `MaxFaults` bounds it. Nothing is assumed of the
user or of the clock. `PendingIsAnswered` excuses only the bound on pushes.

In the client modules the question of what happens in the end is asked without
fairness, of the states in which nothing is under way: `EveryPaydayIsPaid`,
`ScreenCatchesUp`, `SetupIsWhole`.

## 4. Proofs

All theorems hold for every value of the constants that meets the assumptions of the modules: any
sets of devices, tabs, records and amounts, any page and batch size, any clocks; any sets of
clients, requests, people and providers, any number of tokens, codes, pushes and faults; any
accounts, engines, loads, saves and changes on a device; any categories, amounts, taps and openings
of a form; any calendar, plans, days and entries of a household. The assumptions that are not mere bounds:

- the requests in flight at once are finitely many (the sets of calls, pushes, senders, limits
  and subjects), and so are the transactions where pages of them are pulled;
- neither "nobody" nor the owner of the sample rows is an account, and a form can be opened once;
- the clock starts after the epoch; `Null` is none of the rows, requests, answers, cursors and pages;
- the months played are fewer than `MaxSteps`, the bound on the steps of a due date (800 in `pots.ts:202`);
- settings and categories are what the database accepts
  (`008_cycles_and_pots.sql`, with days of the month up to 31 as in `sync.controller.ts:34`); an unset
  field is no number, and no two categories have one id.

| Theorem (module) | States |
|---|---|
| `TypeCorrectness` (`SyncSafetyProofs`) | `Spec => []TypeOK` |
| `TombstonesAreFinal` | `Spec => TombstoneFinal` |
| `StoreRefinement` | `Spec => ServerIsVersionedStore` |
| `DevicesKnowNoFutureVersion` | `Spec => []KnownVersions` |
| `VersionsCountAcceptedBatches` | `Spec => []VersionCountsAccepted` |
| `DeadlocksTakeTwoOrders` | `Spec => []DeadlockTakesTwoOrders` |
| `PushComesBeforePull` | `Spec => []PushBeforePull` |
| `SyncedCategoriesAreStored` (`SyncDeliveryProofs`) | `Spec => []SyncedCategoryIsStored` |
| `CategoriesArriveFirst` | `Spec => []NoDanglingReference` |
| `FullPullsAreComplete` | `OneTabEach`: `Spec /\ [][GuardNotHit]_vars => FullPullMissesNothing` |
| `AcceptedChangesAreStored` | `OneTabEach`, `ClocksAgree`: `Spec => []AcceptedIsStored` |
| `LineagesNeverFork` (`SessionsProofs`) | `SessionsSpec => []OneLivePerFamily` |
| `DeadLineagesStayDead` | `SessionsSpec => DeadStaysDead` |
| `CalmClientsStaySignedIn` | `SessionsSpec => []CookieWorksWhenCalm` |
| `SessionsGoWithTheirAccount`, `SessionsKeepTheirTypes` | `SessionsSpec => []NoSessionOfDeletedAccount`, `[]SessionsTypeOK` |
| `NewestStampStays` (`ServerProofs`) | `PushTxSpec => []NewestStampWins` |
| `SerialPushesAreExact` | `PushTxSpec => []SerialPushes` |
| `PushTablesKeepTheirTypes` | `PushTxSpec => []PushTxTypeOK` |
| `NoIdentityMoves` | `IdentitiesSpec => IdentityNeverMoves` |
| `SignInsServedAlone` | `IdentitiesSpec => SerialIdentities` |
| `ErasedAccountsStayErased`, `IdentitiesKeepTheirTypes` | `IdentitiesSpec => []ErasedStaysErased`, `[]IdentitiesTypeOK` |
| `CodesStayLimited` | `OtpSpec => []CodesAreLimited` |
| `ScenesInterleave` | `ServerSpec => ServerInterleaved` |
| `DeletionIsWhole`, `ServerKeepsItsTypes` | `ServerInterleaved => []DeletedAccountLeavesNothing`, `[]ServerTypeOK` |
| `SignInStaysOrderly`, `SignInKeepsItsTypes` (`ClientProofs`) | `SignInSpec => SignInIsOrderly`, `[]SignInTypeOK` |
| `EntriesStayMeant`, `EntriesKeepTheirTypes` | `EntriesSpec => []EntriesAreMeant`, `[]EntriesTypeOK` |
| `PaydaysStayPaid`, `PaydaysKeepTheirTypes` | `PaydaysSpec => []PaydaysArePaid`, `[]PaydaysTypeOK` |
| `SetupIsTold`, `SetupKeepsItsTypes` | `SetupSpec => [](ShownIsStored /\ ScreenCatchesUp /\ SetupIsWhole)`, `[]SetupTypeOK` |
| `IdsInOrder` | `UuidClock`: `Spec => OrderKeptInBurst` |
| `AccountsAreKeptApart` (`ShellProofs`) | `ShellSpec => []AccountsStayApart` |
| `ShellLosesNothing` | `ShellSpec => NothingIsLost` |
| `ShellKeepsItsTypes` | `ShellSpec => []ShellTypeOK` |
| `AppScenesInterleave` | `AppSpec => ClientInterleaved` |
| `SetUpStaysOnceAndWhole`, `ClientKeepsItsTypes` | `ClientInterleaved => []SetUpOnceAndWhole`, `[]AppTypeOK` |
| `ClientKeepsItsPromises` | `AppSpec =>` all properties of the run `App` |
| `PlayedHousehold`, `PlayedForm` (`BudgetProofs`) | `BudgetSpec => HouseholdSpec`, `FormSpec` |
| `CyclesTileTheCalendar` | `BudgetSpec => []CyclesTile` |
| `WagesAreCreditedOnce` | `BudgetSpec => WageCreditedOnce` |
| `PotsKeepTheirPast` | `BudgetSpec => PastIsFixed` |
| `FormsKeepTheirMeaning` | `BudgetSpec => []FormKeepsItsMeaning` |
| `LedgersKeepAddingUp` (`LedgersProofs`) | `BudgetSpec => []LedgersAddUp` |
| `VerdictsKeepAgreeing` | `BudgetSpec => []VerdictsAgree` |
| `BudgetsKeepTheirTypes` | `BudgetSpec => []BudgetTypeOK` |
| `CommitmentsStayMet` | `BudgetSpec => []CommitmentsAreMet` |
| `HeadlinesStayHonest` | `BudgetSpec => []HeadlineIsHonest` |

Hypotheses of the last two theorems about `Sync`, each of them what the promise really takes: `OneTabEach`, no two tabs share a disk;
`GuardNotHit`, no pull is cut short by the guard of its loop (`engine.ts:201`); `ClocksAgree`, no
device is ahead of the server. A run fixes them by its instance; they are not needed for the other theorems. No theorem assumes that pushes do not
overlap, or that `pending()` is one read: what becomes false then is in the properties, record by record, as `contested` and `ahead`.

`ServerInterleaved` and `ClientInterleaved` are the conjunctions of the specifications of the
components: every component may move at any time, while a behaviour of `MCServer` or `MCApp` moves
one, the scene. The two interleaving theorems say that the runs check a part of what the
conjunctions allow; the others then hold of all of it.

The arguments for the protocol.

- *Types.* `TypeOK` is not inductive: `ReceiveAnswers` reads `operations[key]`, so
  the key has to be one, and `FinishMark` reads the answer to the row it holds, which has to be there. `Typed` adds
  `Underway`: a pushing engine has a key, and a held row has an answer; and `Served`: a push that is open
  is of a request, and has no answer yet.
- *Tombstones.* Only `CommitPush` changes `store`. A push decides on the row it has read. If that is the row that is
  stored, then whatever `Verdict` and `Merge` say, what is stored over a deleted one is deleted: a refused row is kept, and a merge with a
  live incoming row keeps the tombstone. If it is not, the transaction is in `Overwrites(k)`.
- *Refinement.* `Init` maps to `Init`. `CommitPush(k)` maps to `Answer(k, S, O)`, S being the
  transactions accepted from the batch and O those of them that were overwritten; every other step is a stutter, so all
  the reading and waiting of a push happens, seen from the store, at its commit. The lemma needed is that
  `PutTransaction` and `AnswerTo` agree on when the version moves.
- *Known versions.* A version reaches a row from an answer or a page, and travels on with rows
  that were read and are written back later. `NotAhead` says of the disk, the screen, a removal under way, a row that an open push
  has read, a stored or received answer, a held row and a page that their versions are at most the server's, which never
  decreases for a transaction outside `contested`; leaving one of them out breaks the induction.
- *Counting.* A commit that accepts r adds k to `AcceptedKeys(r)` and stores one more than the version that the push has read
  (`Counted`: which is at most the number of batches accepted so far). Equality needs that it read what is stored; the
  inequality holds of contested transactions too. The cardinality lemmas of the library do the rest.
- *Deadlock.* `InLoops`: an open push goes through its batch in the order it is listed in, so what it has passed comes before
  the row it is at. A push waits for a row that another has passed. If all of a circle list their rows by one order, the
  row that a push waits for comes before the row that its holder waits for, and so on up the order without end; but the circle is finite.
- *Order.* `PushBeforePull` speaks of a pulling engine only; what makes it true happens earlier. `Ordered`
  follows a row that was pending when `pending()` read the transactions through the cycle: it is in what is left of that
  snapshot, in the batch under way, or among the answers not yet written down. It also needs that an answer names every
  transaction of its batch, and that rows from the server are synced. Steps of other tabs keep it because whatever
  is written to the disk is either newer than every snapshot or not pending (`FreshOrSettled`).
- *Categories.* `CategoriesConfirmed` follows a category that counts as synced back to where the word
  came from: a page, which holds copies of the store, and the stamp of a stored category only grows. No answer, and
  nothing a tab does, says it.
- *Categories first.* `OnItsDisk`, `CategoryFirst`: wherever a transaction is (a disk, a
  snapshot, a request, a page), its category is at the same place, or on the server, or is in the request whose answer the
  engine awaits, or the transaction is in `ahead`. `Traced` says that a row anywhere is of a record some disk has, with its
  category. `CategoriesAnswered`: a request that was answered has stored its categories. `CategoriesWait`: no category is ever marked
  as refused, so one that the server has not is pending on the disk it is on.
- *Full pulls.* `PullsComplete`: of what the server held at the start and has not changed since, a pulling engine has
  on its disk all that sorts before its cursor. Unchanged rows keep their place in the keyset order, and the next page
  starts right after the cursor, so none is skipped. Outside `contested` a row that was changed does not come back as it was; `Stamped` says that stamps are dates that have
  been, `InTheirHands` and `AnswersMatch` that no late mark undoes a pulled row. The next row after a cursor is a least
  element of a set, which the library's well-founded minimum gives.
- *Accepted is stored.* The server checks the version before it compares times. `Winning` says of every
  unsynced row on its way (disk, screen, snapshot, held row, request) that, if it carries the server's version, a
  merge takes it: it is no older, and it is deleted if the server's row is. So an accepted row is never merged away, unless
  the row it is merged with is no longer the one stored: the transaction is contested then.
- *Ids.* `RoomToClimb`: since the wall clock last passed `lastMs`, at most `burst` ids have moved the
  counter from a start below `StartSize`, so it cannot have wrapped before `Size - StartSize + 1` of them.

The arguments for the server.

- *Lineages.* `OneLivePerFamily` is not inductive: a request revokes by the token it presented and mints
  in the family it read earlier. `Lineage` adds that a request about to swap still knows the family of its token
  unless the row is gone (`KnowsFamily`), and that families are numbers of tokens already minted, so that a
  sign-in starts a new one (`Numbered`). Most steps are `Quiet`: they bring no token to life and start no
  renewal, which keeps both properties. The two that are not are the compare-and-set that wins, which
  has just revoked the only live token of the family, and the mint, which only the one renewal of
  that family does.
- *Calm clients.* What a client may count on depends on where its one request is: in the jar, at the
  door, swapped and not yet minted, minted and not yet delivered. `Standing` says it for each place. That no
  other request spoils it is `HoldersApart`: a token that a calm client `Holds`, in its jar or in its request, is of a
  family no other client holds anything of, so no revocation by another client meets it.
- *Types of sessions.* The number of tokens minted stays in its bound because the guard at the door
  counts the requests that still owe one (`Owing`), not only the tokens that exist.
- *Accounts.* A session's owner is the current account because the deletion takes the rows and the foreign
  key stops a mint that is late. An identity's row is written by `Register` and `Link` alone, and both keep
  the account it has; a new one is not erased because the insert would fail.
- *Deletion.* `DeletedAccountLeavesNothing` relates two components; `DeletionIsWhole` puts their theorems
  together over `ServerInterleaved`.
- *Serial sign-ins.* While no two requests overlap, the one that is under way has read what is
  committed (`OneAtATime`, `UpToDate`); so the account it answers is the one its identity opens, and an unlink that
  counted two identities leaves one.
- *Pushes.* `PushInv`: a transaction's view of the row it writes is the committed one, or newer by its own
  write, since writers of one row wait for each other; so a stamp it leaves is at least its own
  whatever the order. `SerialInv` adds, while no two overlap: the version counts the changes applied, a
  key's answer belongs to its one effect, and a version that was written over is never current again.
- *Limits.* `SendsInv` counts, for each limit, the senders that are past its check (`Past`) and have not
  counted themselves yet: codes and such senders together exceed the limit by fewer than there are
  requests in flight. `CodesInv` follows the copies of a challenge that verifiers hold.

The arguments for the client.

- *Sign-in.* `OneAtOnce`: unless one barged in, the request under way shows as busy and is about no older code
  than the screen's; `Untouched`: before the box is ticked, nothing has happened at all.
- *Entries.* Every save under way `Writes` what its draft meant when it was tapped, which neither sheet changes
  afterwards. Money is put aside once for an opening because the first tap closes the sheet before the
  database is awaited: what is under way, written or still `Spare` is `Counted` against the openings.
- *Setup.* `Behind`: what is on disk and not on the screen is being read, or a hydrate that will read it is owed;
  `Pending`: what was asked for is on disk or among the rows a tap still has to write (`OnItsWay`). An ended set-up has
  neither.
- *Accounts apart.* None of the conjuncts of `AccountsStayApart` is inductive. `Apart` adds: a page
  with an engine, or one that asks its cookie, is signed in, and its token and its cookie are of the device's account
  or of nobody (`OneAccount`); rows on disk and on the screen are the device's, and a device that has just been
  cleared for a stranger holds none (`RowsAreOwn`). A pull is of one account then, and so is a push. `ghost` is
  where all of it ends: an engine stopped in its cycle pushes under whatever token comes next.
- *Nothing lost.* Rows leave the disk in `guardAccount`, in the wipe and with the sample rows. `OwnUnsent` says
  whose the unsent ones are: the account's that the device is of, never the sample's.
- *Restore first.* While every request is answered, `Served`: the page that is signed in has a fresh token of
  the device's account, so its mirror writes to that account and no cycle has to ask. `Restored`: when
  the server holds the account's own settings, or a save that carries them is under way, the device
  has none or the same, and a page that is signed in shows the same. The restore makes it true, an edit and the mirror keep it, the
  guard clears the device before it is another's.
- *Set-up once.* `PulledIsShown`: after the first pull of a session the screen is the disk, and the
  disk has every row the server has of the account.
- *Paydays.* `PaydaysInv`: a payday that no income is dated to is on the list of some run, which reaches
  it; and the runs that can still credit the c-th payday, with the wages written for it, at most double with each
  payday before it. For that it matters that a run credits its list in order: what a run has passed it
  never comes back to.

The arguments for the budget.

- *Recursion.* The budget replays cycle by cycle with recursive functions on intervals of numbers. That such a
  function has the values its definition says is shown for each by the least number up to which it had not
  (the library's well-founded minimum, applied to a set of numbers); the same argument then serves for what the values
  are. So what needs induction over numbers is proved; what needs it over sequences of any shape is not.
- *Cycles.* `Fits` says of two cycles that one ends where the next begins. `CyclesBetween` is then a walk of payday
  to payday: the cycles to a later day are those to an earlier one and more, each fitting the next, also where the
  payday is a day that a month lacks.
- *The past.* Two ledgers over walks of which one begins with the other agree on it: a row depends on its cycle, on
  what was spent in it and on the row before (`PastIsFixed`).
- *Wages.* A missing payday is the end of a cycle without income; the wage is dated there, and that day is the
  first of its cycle only.
- *The editor.* `FormInv`: what is saved is what is shown, and what is shown of what was saved is the same again, by
  cases on the shape of the row.
- *Sums.* The sums of the budget are folds over finite sets, of which the module first shows that an element
  may be taken out, that disjoint sets add and that a sum by groups is the sum. The days of a chain of
  fitting cycles are the days from its first to its last (`Chained`), so a figure carried from cycle to cycle
  (`CashIsConserved`, `FlowsCarry`) is a sum over all of them. A report sums the same transactions by day, by
  category and by month.
- *Verdict.* The words and the figures round the same expected spending, once by comparing and once by
  dividing; a lemma on the rounding says that they cannot disagree.

- *Due dates.* A due date is found by stepping from its anchor, forward while it is before the day, then back while the
  step before is not. A walk that comes to a date where the step stays is there to the end (`WalkedStays`). From a day that every month
  has, `MaxSteps` steps lead to that day of the first month in which it is not past (`DueInMonth`), whichever month the walk
  was begun in; so the day the app was opened on moves no such date (`DatesAreFixed`).
- *Types of the budget.* `EntriesInv` adds to what the household holds that every entry is of a category there is or was.
  The balance of a pot is then a number: each row of its ledger is the row before, what it was asked for, and
  what was put aside and spent.
- *Commitments.* What a pot asks for is what is missing, divided by the cycles left and rounded up: with one cycle left
  that is all of it, so the last payday before the ready date closes the gap whatever was rounded before. No
  sum of quotients is needed. `SoonestFirst` is the loop of `withBacking`: when a pot gets less than its balance, nothing is left.
- *Headline.* The backing of the pots adds up to the smaller of what they hold and the cash. The promise compares the
  budget of today with that of tomorrow in which the figure was spent, part by part: same cycle, same pots, the
  flow less by the figure, one day fewer.

What the proofs found out. These attempts failed for a good reason, and the model or the property is
what it is because of them:

- Unsent rows of A can be wiped although A neither signed out nor was deleted: B signs in on A's device, the page is
  reloaded before `guardAccount` has run, the network is down, so the page opens for A
  (`App.tsx:137`) with B's cookie; it takes a token by that cookie, and the account it then deletes is B's, the
  device it then wipes is A's. `UnsentRowsAreKept` allows for it, and `flow.who` says whose account was erased.
- A save that was under way when its account signed in again is not in the answer of the fetch. The
  device then mirrors the defaults after the save has arrived. Two saves and a reload are enough for it,
  which the bounds of the run do not have; `late` marks these devices.
- `syncPrimed` is set once in a page (`App.tsx:396`, `699`): when the same account signs in a second
  time on it, setup is offered before the first pull has been shown again. `SetUpIsOnce` therefore counts pulls from the last sign-in.

- `AcceptedIsStored` is false of two tabs on one device, also when all clocks agree (section 6): the
  pull of one tab writes a live row over the tombstone that the other is pushing.
- `FullPullMissesNothing` is not preserved with two tabs on a device, where a late mark of one tab may write a row the other
  has pulled over, nor by a pull that the guard of the loop ends.
- With pushes statement by statement, five properties are false as they read for a push in one step: the exact version, the versions
  devices know, the tombstone, the accepted content and the refinement. The proofs say where it ends: the inequality of
  `VersionCountsAccepted` survives, and the rest fails of a transaction only from the commit on that overwrites it.
- With `pending()` in three reads a category may be left behind also of an account that fits into one batch.
- A wage may be written twice for every run that overlaps, but the bound on doublings needs no bound on the incomes or on the
  length of the lists, only that each list is worked off in order.
- `PastIsFixed`, said of pots found again by what they are, is false of a row without an anchor whose day some month lacks: its
  anchor is taken from the month the app is opened in, so the pot itself changes. The property speaks
  of a pot over two days now; `DatesAreFixed` and `BillKeepsItsDay` (section 6) say what becomes of the dates.
- Where the code filters a list, the model first filtered a sequence by a recursive operator of the library, which the
  prover cannot expand. It takes positions of the list instead, in the same order.

Only model-checked, and why.

- Liveness (`CycleEnds`, `PendingIsAnswered`): out of the prover's reach.
- `AmountsKeepTheirValue`: digits, powers of ten and rates, all nonlinear.
- The properties that TLC refutes, and with them that the deadlock, the contested write and the transaction sent
  ahead do occur.

Where proofs could go next: an abstract session family with the refinement from `Sessions`; a version of `VersionedStore`
that keeps the contents, for what becomes of a contested transaction.

## 5. Where the code and its documents disagree

Each is a run with a counterexample; `PROJECT.json` quotes the lines.

| Run | What happens |
|---|---|
| `SyncPullKeepsUnsentEdits` | an edit after `pending()` has read is overwritten by the pull of the same cycle |
| `ServerAcceptedDeletionStays` | of two pushes that overlap, the edit has read the row before the deletion was committed and writes it back live; both are accepted |
| `AppSettingsStayHome` | the settings of one person are sent to the account of the next one on the same device |
| `AppWagePaidOnce` | two or more missing paydays: the run of the effect that a new wage starts pays the later ones too |

## 6. Further disagreements

They are stated in the same way, most with a cfg of its own, and are not among the
listed runs; TLC refutes each of them.

| Cfg (module) | What happens |
|---|---|
| `SyncUnsentIsPending` (`MCSync`) | an edit while its batch is in flight is marked synced and never sent: `engine.ts:169` against `adapter.ts:31`, "Everything awaiting upload, oldest first." |
| `SyncDeletionStays` (`MCSync`) | a deletion between the read and the write of `markSynced` is undone: `dexie.ts:102` against ARCHITECTURE.md:577, "A resurrected transaction the user already deleted is far more alarming than a lost edit." |
| `SyncRefusedMeansChangedElsewhere` (`MCSync`) | the only device is refused, since the retry has a new key and an old version: `engine.ts:158` against `engine.ts:156-157`, "A retry after the server committed but before the 200 arrived is recognised as a replay" |
| `SyncPullDeliversTombstones` (`MCSync`) | a tombstone older than another device's last pull never reaches it: `sync.repo.pg.ts:187` against `dexie.ts:67-68` |
| `SyncAmountConflictIsAsked` (`MCSync`) | a refused amount is overwritten in the same cycle, nobody being asked: `engine.ts:199` against ARCHITECTURE.md:579, "Flag sync_status='conflict', surface both values, let the user choose." |
| `SyncCategoryTombstoneFinal` (`MCSync`) | a later edit brings a deleted category back: `sync.repo.pg.ts:228` against `sync.ts:264`, "a tombstone beats a concurrent edit, whichever is newer." |
| `SyncCategories` with the invariant `CategoryGoesFirst` | a category and its transaction are created between the first and the third query of `pending`, and the transaction alone is sent; with batches that hold all of it (`BatchSize = 3`) too. With batches of one, the sort by time can also put a batch boundary between the two: `dexie.ts:89-96` against `dexie.ts:84-85`, "a transaction referencing a brand-new category must not reach the server before the category does" |
| `SyncTwoTabs` with `MaxTime = 2` and `AcceptedIsStored` | with two tabs, one pulls the live row over the tombstone the other is pushing, the row gets the tombstone's version, and an edit of it is answered as accepted and dropped: `engine.ts:199` against `sync.service.ts:62-63` |
| `SyncTwoDevices` with `SkewOf <- SmallSkew` | within the skew threshold, a later edit on the slower clock is answered as accepted and dropped, which `AcceptedIsStored` shows: `sync.service.ts:66` and `:150` against `:62-63`, "correct every timestamp in it, so LWW compares like with like" |
| `AppIdsStayMonotonic` (`MCApp`) | while the clock is behind, the counter wraps within the millisecond: `uuid.ts:52` against `:49-50`, "so IDs stay monotonic" |
| `AppIdsStayMonotonic` with `SignInAloneSpec` and `ConsentStands` (`MCApp`) | Google's answer signs in after the box was unticked: `AuthScreen.tsx:111` against `:65-68`, "the sign-in buttons just do not fire" |
| `AppIdsStayMonotonic` with `ShellAloneSpec` and the invariant `SignedOutStaysOut` (`MCApp`) | the log-out is lost, the page reloads with the cookie still good and is signed in again: `App.tsx:286-288`, "a dropped connection must not leave them looking signed in" |
| `AppTransferKeepsItsSign` (`MCApp`) | an edited transfer out of a pot becomes one into it: `App.tsx:780` against `store.ts:231-235`, "a TRANSFER keeps whatever sign it was given" |
| `ServerSignInIsKept` (`MCServer`) | two first sign-ins at once: one is answered with a user that the identity does not open: migrations/003:92-108 |
| `ServerLastWayIn` (`MCServer`) | two unlinks of different providers at once leave none: `identity.service.ts:110` against `:102-107`, "Refuse to remove someone's last way in." |
| `BudgetCashFollowsSpending` (`MCBudget`) | left open overnight, the app leaves out what is spent today: `App.tsx:490` |
| `BudgetBillKeepsItsMonth` (`MCBudget`) | saving a yearly bill unchanged in another month moves its due date there: `App.tsx:863` |
| the same with `EditDays = {7, 12, 16}` and the invariant `BillKeepsItsDay` | a bill on a day that a month lacks stays on the shorter month's last day ever after, since `nextDueOn` steps from the clamped date: `pots.ts:201` against `pots.test.ts:19`, "Stepping twice from 31 Jan must reach 31 March, not 28 March." |

Without a cfg, since the models speak of currencies with two decimals where an entry is shown again:
`AddSheet.tsx:67` fills the edit box with the amount divided by 100, whatever the currency, and line 84 parses it with
the exponent of the base currency, against `currency.ts:4-13`, which lists currencies with 0 and 3. An entry in one of
those would change by the edit alone. `Entries.DraftOf` and the refill in `Money.ShownReadsBack` say two decimals;
onboarding offers no other base currency, so no account the app sets up is affected.

What `SignInIsOrderly` says of consent is the weaker half: the box was ticked once (`ConsentWasTicked`). That it still
is, is `ConsentStands`, above. `ServerLastWayIn` is about a function that no route calls yet (`identity.service.ts:110`): it says
what two unlinks would do.

## 7. Not modelled

- Screens that only show what the budget and the insights compute, the design system, the
  tour, static legal text: rendering, with no state that a property could be about.
- The audit log (append only) and the health probe.
- Wiring, configuration, request validation, row-level security, and migrations other than
  the keys, unique indexes and SQL functions the requests meet.
- Cryptography: the signatures of access tokens, the verification of a provider's token, hashes
  of refresh tokens and codes. A token or a code is what it stands for.
- Lengths of time: back-off, time-outs, windows and expiry happen at any moment.
- Time of day and time zones: the budget computes with local calendar days, and so does the model. The day
  difference of a report (`report.ts:92`) is exact days, also across a change to summer time.
- Small things left out of what is modelled: the cap of 600 cycles a replay (`cycle.ts:155`); the errors of `toMinor` for
  amounts beyond the safe integers (`currency.ts:88`, `:95`), out of reach of the sheet's seven digits; the awaits between
  clearing the tables, the settings and the account key when a device is wiped (`App.tsx:316-336`, `902-914`), which `AppShell.Wipe` merges.
- Two devices crediting the same payday, an interrupted pull and a pull longer than the guard of
  100 pages have no property: see their hazards.

## 8. Plan

Done: the sync protocol, its pushes and the reads of `pending` statement by statement; the server's other requests in the
same way; sessions, codes and identities; the shell with its accounts, engines and settings; paydays; the forms; the budget
engine, the insights and the currency.

Proved: the protocol's safety and delivery with any pushes overlapping, the server's requests one by one and interleaved, the
client's parts alone and interleaved, and of the budget everything the run `Budget` checks but the amounts (section 4).

Left: what section 4 names as next.
