# A verification project for the canteen server

This directory models the core of the canteen management server (Django, PostgreSQL, Redis, Stripe)
in TLA+ and checks it with TLC. What matters most about its money, its sessions, its second factor, its
accounts and its weekly list is proved with TLAPS, for instances of every size. Source paths below are
relative to `src/apps/`.

## 1. The system

| Part | State it keeps | Operations | Hard about it | What makes it correct |
|---|---|---|---|---|
| Wallet (`wallets/services.py`, `wallets/models.py`) | `balance` (current_balance, on_hold), `transaction` | deposit, place_hold, capture, refund, cancel | row locks, check-then-write, statuses as the only protection against a second capture or refund | balances, holds, orders and ledger agree; no overdraft; a ledger that is an audit trail |
| Orders (`orders/serializers.py`, `orders/views.py`) | `order`, `order_item` | place, list, cancel, capture, refund | stock, funds and the menu's start are checked outside the transaction that writes; prices are read three times | nobody overdraws; no more is sold than there is; what is charged was the price |
| Order administration (`orders/admin.py`) | - | edit status, user, menu of an order | a form is saved long after it was read | an edit does not break the ledger |
| Card top-up (`wallets/services.py` StripeService, `webhooks/`) | Stripe's sessions, `transaction`, `webhook_event` | checkout, webhook | events come twice, late, in parallel; workers die between statements | who paid is credited, once |
| Sessions (`authentication/session_service.py`, `authentication/views.py`, `authentication/admin.py`) | Redis `session:<jti>`, `user:<id>:sessions`; blacklisted tokens; cookies | sign in, refresh, list, revoke, revoke others, logout; the admin's session page | every Redis command is on its own, nothing is atomic | a usable session can be seen and revoked; an exchanged or revoked one is gone |
| MFA (`authentication/services.py:72-251`) | Redis tickets, attempts, pending secrets; `MFABackupCode` | setup, confirm, verify, regenerate, disable | codes are replaced in two statements, tickets are read and deleted apart | a backup code works once; guesses per ticket are bounded |
| Accounts (`users/models.py`, `authentication/views.py`) | `user`, groups, `balance` by signal | register, verify e-mail, change and reset password, Microsoft sign-in, admin edit | full-row saves of stale rows, groups set in several transactions | the role group follows role and verification |
| Weekly menus (`menus/views.py`, `menus/paginators.py`) | `menu` | list by week, follow the links | the current week is counted in UTC, the menus' dates in local time; the week turns between two pages | an upcoming menu is on one page, and the links lead to it |
| Menu administration (`menus/admin.py`, `menus/models.py`) | `menu`, `menu_item`, `item` | edit times, stock, prices | edits while orders are placed | - |
| Role groups (`common/permissions.py`, `common/apps.py`, `scripts/entrypoint.sh`) | `auth_group`, `auth_permission` | set at every start of the container | the groups are set before the later apps have their permissions; a migration fails and the server starts all the same | a role has what its list says |
| Permissions of the views (`common/`), settings | - | pure checks | - | - |

The parts meet in the database. A view validates with a serializer, the serializer calls a service,
the service is one transaction (`@transaction.atomic`; `ATOMIC_REQUESTS` is not set, so what a view
does around the service is not in it). Orders call the wallet when they are placed, captured,
refunded or cancelled; the webhook writes the ledger and the balance itself; the signal
`wallets/signals.py:8` gives each new user a balance. Sessions, MFA tickets and Microsoft states are
in Redis, shared by all workers.

`PROJECT.json` lists every part with its status, the hazards at their lines, and, for every
definition that models code, the lines it stands for.

## 2. The modules

| Module | Models |
|---|---|
| `Amounts` | sums of money over a finite set of rows (`aggregate(Sum(...))`), used everywhere |
| `Wallet` | the wallet service on its tables, one action per database transaction, with the order admin page and the clock |
| `Escrow` | the abstract promise: money is free, reserved or spent, and an order moves its amount between these |
| `WalletRefinement` | the mapping under which `Wallet` implements `Escrow` |
| `WalletRequests` | the same services at the level of row locks: several workers, READ COMMITTED, crash, rollback, stale admin forms; implements `Wallet` |
| `TopUp` | checkout, Stripe, webhook deliveries and the webhook handler, one step per statement |
| `OrderPlacement` | the serializers' checks, one by one and without locks, then `create()`, while staff edits stock and prices |
| `Sessions` | one user's sessions: Redis commands, blacklist, cookies, several requests at once, the admin's session page |
| `Mfa` | one user's second factor: Redis keys, backup codes, tickets, several requests at once |
| `Accounts` | one account: its row, role groups and balance row, under every request that saves it and the user admin page |
| `WeeklyMenus` | which page of weeks a menu is on, and a reader who follows the links while the clock and the menus move |
| `RoleGroups` | what `migrate` gives the role groups at every start, over failed starts, releases and edits by hand |
| `AmountsTheorems`, `WalletTheorems` (of `Wallet` and `WalletRequests`), `OrderPlacementTheorems`, `TopUpTheorems`, `SessionsTheorems`, `MfaTheorems`, `AccountsTheorems` (of `Accounts` and `RoleGroups`), `WeeklyMenusTheorems` | proofs |
| `MC*` | instances for TLC |

### Wallet

State: `orders` (status, user, menu, total_amount of each row), `current_balance` and `on_hold` per
user, `transactions` (the ledger in created_at order) and `closed` (menus whose cancellation
deadline is over). A transaction belongs to a balance in the code and to the balance's user here:
the two are one to one. Amounts are natural numbers of cents; `_quantize` does nothing to them.
Actions: `Deposit`, `PlaceOrder` (`OrderCreateSerializer.create` with `place_hold` in it: one
transaction), `CaptureHeld` and `CapturePending` (the two branches of capture), `Refund`, `Cancel`,
`CreateCheckout` and `CompleteTopUp` (the two transactions of a top-up), `AdminSetStatus`,
`AdminReassign`, `DeadlinePasses`. Guards are the functions' checks; a refusal changes nothing and
is no action. `Credit` has the guard of the column: an UPDATE beyond numeric(10,2) is refused. The
fallback of capture (a PAYMENT where no pending HOLD is found) is a disjunct of `Settle`.

What the admin page is used for is a parameter. `AdminEdits` is the set of status changes made by
hand; `KitchenEdits` (a meal is started, handed over, or either is undone) is what the kitchen needs,
since no service moves an order to PREPARING or COMPLETED. `Reassignable` is the set of statuses in
which the user of an order is changed by hand. With both as large as they can be
(`MCWalletAdmin`), what survives is what is proved without a hypothesis on them: the ledger explains the
balances and is not rewritten.

`Escrow` forgets the user and the amount of an order that is neither reserved nor spent (`Return`,
`Release`, `PayBack`), so that an order whose money is back may change its user.

### WalletRequests

A request takes its rows in the order of its service function (`Program`), reads each row as it gets
the lock, decides, writes and commits (`Commit`), or is refused, or dies; locks end with it. The
`Commit` step performs the very action bodies of `Wallet`, on what the request has read. An admin
form is opened in one step and saved in another, and writes the status it was opened with.
`ServicesAreAtomic` is the specification of `Wallet` with any status edit allowed: the requests'
interleavings add no behaviour to the one-step services. Deadlines are not part of that mapping: a
cancellation that read the clock in time may commit a moment after the deadline, and no row says so.

### TopUp

A checkout creates the session at Stripe, then the pending DEPOSIT, then returns the secret without
which nobody can pay; it may die between any two. The customer completes the checkout (`Complete`), paid
or, with a delayed payment method, not paid yet; `Session.create` does not restrict the methods. Stripe may
post the event of a complete session at any time and again at any time (`Deliver`), to several workers; the
handler does not look at `payment_status`, and neither does `HandleSession`. A worker runs `handle_event` statement by
statement: reading the event, PROCESSING, the credit (one transaction, `HandleSession`), COMPLETED, or
FAILED and 500. The credit has the guard of the column (`Fits`, as `Wallet!Credit` has it): beyond
numeric(10,2) the UPDATE is refused, the transaction rolls back and the event is FAILED, on every delivery
until there is room. The balance is not the top-ups' alone: `SpendOrDeposit` stands for the other operations
of `Wallet`, which may take it to any value, and `spent` is the history of what they took, net. The locks
inside the credit are those of `WalletRequests`.

### OrderPlacement

A worker checks the lines one at a time against what remains (`CheckLine`), then menu and funds
(`CheckMenuAndFunds`), then prices and inserts the lines (`InsertLines`), then holds the funds and
commits. The funds are checked again in `place_hold` (`Create`/`RollBack`); the stock and the menu's
start are not. `items` is a row of `menu_item` together with the `base_price` of its item;
`EditMenuItem` and `EditItem` are saves of the two admin pages. A line is made of the override_price
read when it was checked and the base_price read when it is inserted, while `validate()` sums up both
as they are in between. An override_price of 0 is none (`UnitPrice`), as `or` in the code has it. The
orders' later life is here only what it does to stock and funds: `Cancel`, `Refund`, `Advance`.
History, in the request: `offered`, the prices in force while it was served, and `edited`, the columns
that changed; in the order: `belated`, whether it was inserted after the menu had started.

### Sessions

One user (keys of different users are apart), several browsers, several requests at once. Each Redis
command and each statement on the blacklist is a step. The session page of the administration lists
(`AdminList`) and revokes what it listed some time before (`AdminRevoke`). `revoked` is a history
variable: the sessions some request has set about to revoke. `ended` is another: the sign-ins that are over,
since a revocation deleted their session; a token drawn in exchange for one that is over, or for one whose
session the rotation had not read yet when it was deleted, belongs to the same sign-in. A session's key and its token live seven
days from about the same moment, so `Lapse` ends both; the index lives from its last addition. Requests
that die and sessions that lapse are counted by `faults`.

### Mfa

State: `secret` (one variable for mfa_enabled, mfa_type and mfa_secret, which setup and disabling always
write together), `pending` (`mfa:setup:<user>`), `codes` and `used` (the rows of `MFABackupCode`),
`tickets` and `attempts` (the two keys of a ticket). Each Redis command and each statement is a step;
the transaction that looks for a backup code is one step, since it holds the rows it reads. A request
that verifies goes `BeginVerify`, `LoadUser`, `CountAttempt`, `UseBackupCode` or `CheckTotp`,
`ClearTicket`, `ClearAttempts`, `SignIn`, in the order of `verify_mfa`. A TOTP code is known by the secret
it was made from and never goes stale, which only gives a user more to type. A ticket's counter starts
to live after the ticket and may outlive it. `wrong`, `signins` and `crossed` are history variables.
What a sign-in does to the sessions is `Sessions!SignIn`.

### Accounts

State: `row` (the columns that some request writes), `groups` (the role groups), `balance`. A request
reads the row when it begins and works on a copy, as Django does; `User.save()` is `Compare` (its own
query for role and verification), `Write` (all columns, or `update_fields`), and, when the two differ,
`RemoveGroups` and `AddGroup`, each a transaction. `Insert` and `CreateBalance` (the signal) are
transactions of a registration; `get_or_create` in Microsoft sign-in puts the same into one
(`CreateAtomic`). The admin page is one form at a time, opened, posted (`AdminPost` reads the row and
puts the form's fields into it) and saved in one transaction that ends with the groups the form
selects. An administrator edits role, verification and the box of mfa_enabled, up to `MaxFormEdits` of them in
one form (the run: one; the theorems: any number), and the secret is not on the page. `staff` stands for the two roles of employees. History: `meant` is the row as each save meant it, `stale` the
worst write from an outdated copy so far, or a form that switches MFA on (`"switch"`), which is what the
properties are conditional on.
`PicksGroups` says whether administrators select the group that goes with the role they set.
One password besides the empty one is enough: it tells a password that was set from one that was lost.

### WeeklyMenus

Time is in hours since a Monday 00:00 UTC. `StartOfWeek` and `EndOfWeek` are the paginator's Monday and
Sunday, counted from the UTC date; `OnPage` is its filter on the local dates of a menu's times (the
settings' TIME_ZONE is ahead of UTC by `UtcOffset`); `Upcoming` is the view's filter. A reader opens the
current week, steps back or follows the link to the next week; each page is computed anew, the clock
moves, and staff saves and deletes menus in between. `walk` is the history of the pages since the last
first page. The paginator lets a request name any offset; `Start` stands for those the answers link to.

### RoleGroups

`InstalledApps` is the order of the settings (Django's own apps as one). `migrate` ends by telling each
app that it is done: `CreatePermissions` is Django's own answer to it, `CreateGroup` and
`SetGroup` the one of `apps.common`, two transactions per role. `"users"` stands for users and webhooks, the two apps after
wallets. A permission stands for the codenames of an app that the same roles have. `MigrateFails` lets
the server start, since the script does not stop at a failure. `release` is the code in the container;
`NewPermissions` and `NewLists` are what the next one declares. `ungrouped` are the roles whose users
found no group when they registered. `granted` is what each group has, and `NoGroup` before it is
created. History: `fresh`, the permissions this start added after the
groups were set; `edited`, the groups edited by hand since they were last set.

## 3. What TLC checks

All twelve runs have bounds under which TLC finishes in minutes. Deadlock is not checked because the
bounds stop the system: the tables fill (`MaxTransactions`), tokens run out (`Jtis`), orders end.

| Run | Instance | What it shows |
|---|---|---|
| `MCWallet` | 2 users, 2 orders of 0, 1 or 2, 4 rows of ledger, balances up to 3, kitchen edits, cancelled orders change user | `HoldsBacked`, `Solvent`, `LedgerMatchesOrders`; the wallet implements the escrow (`ImplementsEscrow`) |
| `MCWalletAdmin` | 2 users, 2 orders of 1, 4 rows of ledger, any edit of an order's status and user | what no edit breaks: `Reconciled`, `LedgerAppendOnly`, `BalanceExplained`; the capture of a pending order happens |
| `MCWalletRequests` | 2 workers, admin forms, 1 user, 2 orders of 1, 4 rows, fairness | reads under locks stay true (`ReadsAreCurrent`), the requests together are the one-step services (`ServicesAreAtomic`), nothing but a stale form takes a settled order back (`OnlyStaleFormsReopen`), every request ends (`RequestsFinish`: no deadlock, no starvation) |
| `MCTopUp` | 2 sessions of 1 and 2, a balance of up to 2, 2 workers, 3 faults, fairness | `CreditedOnce`, `PayableIsRecorded`, `AnsweredMeansCredited`, and `PaidIsCredited`: who paid gets the money, or the balance is again and again too full for it |
| `MCOrderPlacement` | 2 workers, 1 user, 1 item of one piece, 3 orders of one line, 2 edits | `NeverOverdrawn`, `FundsAccounted`, the bound on overselling that does hold (`OversoldAtMost`), what is charged (`SoldAtOfferedPrice`), orders after the start (`BelatedAtMost`) |
| `MCSessions` | 1 browser and the session page, 2 requests, 3 tokens, 1 fault | `UsableIsListed`, `ExchangedIsGone`, `RevokedIsGone` |
| `MCMfa` | 2 requests, 1 ticket, 2 secrets, 3 sets of one code, 2 attempts, 1 fault | `CodeSignsInOnce`, `AttemptsBounded`; verifications of one ticket at the same time may all sign in, but no more (`SignInsBounded`); regenerations at the same time leave at most a set each (`SetsBounded`); `EnabledHasCodes` |
| `MCAccounts` | 2 requests, or 1 and a form with 1 edit, 1 fault | `RowAsMeant`, `GroupFollowsRow`, `Provisioned`, `MfaHasSecret` |
| `MCWeeklyMenus` | 2 menus at 6 times, 8 hours around the midnights that turn the week, 1 edit | `OnOnePage`, `UpcomingIsOnPage`, and for a reader who follows the links `ShownOnce` and `NoneMissed` |
| `MCRoleGroups` | 4 starts of 2 releases, 2 faults, 1 edit by hand | `NothingExtra`, `OnlyFreshIsMissing`, `EveryoneHasGroup` |

Why these bounds are enough to be interesting: with balances up to 3, deposits of 2 and top-ups of 1, a
user can pay for one order of 2 but not for two, can have money for both, and can hit the largest
balance, so that a refund or a deposit is refused. Four rows hold a deposit, an order that is paid and
refunded, and a second order or a top-up. Two orders of one user are needed, and enough, for one order
to use the other's hold. A balance of
up to 2 has room for either top-up and never for both, so each may be refused and credited later. Two workers are
needed, and enough, for every race of two requests over one row; a third would wait for the same rows. The item that is placed is free at first, later
costs 2 or 3, and there is money for 2: three free orders oversell a stock of one that may drop to none, and
once the price is 2 no user can pay for two orders in flight. Three tokens let two requests exchange the same one. Three sets of codes are a confirmation and two
regenerations; `MaxAttempts` of 2 is reached, and exceeded by one request while another is under way. The six times
of a menu are the first hours of a local Monday, a Sunday, a whole week, a night between two weeks, a day
two weeks ahead and times in the wrong order. Four starts are a first one, a second, one that fails and one
that repairs it, with the next release at any of them. The
mutants in `PROJECT.json` show that each property can fail within its run's bounds. Symmetry is used
where the constants are interchangeable model values and no liveness is checked.

Fairness. `RFairness`: a worker that can go on does, and a request waiting for a row gets it once it is
free again and again, because PostgreSQL queues waiters for a row lock. `TopUp!Fairness`: a live
webhook worker goes on; Stripe posts an event again until it gets a 200 (the handler's 500 asks for
it, `webhooks/views.py:37`), and with the faults bounded some delivery finds a free worker. Stripe's
retries end after some days, which the model has no clock for: `PaidIsCredited` is about deliveries that go
on. Nothing is assumed of customers, staff or browsers; nobody has to make room on a full balance.

### Disagreements found

Each of these runs checks one statement of the repository and TLC finds a behaviour that breaks it.

| Run | Statement | What the code does |
|---|---|---|
| `MCNeverOversold` | `orders/serializers.py:40` "Only {remaining} pcs. available" | two requests that check the last piece at the same time both get it (so do two lines of one order) |
| `MCSessionsCurrent` | `authentication/session_service.py:128` "Revoke all sessions except the current one." | a refresh of the same browser in between gives it a new session, which is revoked |

What the models show besides; the named operators are in the modules and become runs by putting them
into a configuration.

- `WalletRequests!PaidOnce` (`wallets/services.py:156`: a capture without a pending HOLD "shouldn't happen
  in normal flow"): an admin form opened on a confirmed order and saved after its capture takes it back
  to confirmed; the next capture debits the user again, out of another order's hold.
- `Accounts!OnlyDisableSwitchesOff` (`authentication/services.py:139`: "Persist encrypted secret on user and
  enable MFA"): a password change, e-mail verification or password reset that read the row before saves
  all columns after it, and MFA is off again.
- `RoleGroups!AdminHasAll` (`common/permissions.py:9`: "At the moment the Admin has all the permissions"):
  after the first start, and after every release that adds permissions, the admin lacks those of the apps
  that `migrate` tells after `apps.common`, until the next start.
- `WeeklyMenus!ZeroIsCurrentWeek` (`menus/views.py:65`: "0 for current week"): in the first hours of a local
  Monday it is still Sunday in UTC, and offset 0 is the week that has just ended.
- The webhook credits a completed checkout whether or not it is paid (`webhooks/handlers.py:95`): with a
  delayed payment method, the money is on the balance before the payment arrives, also if it never does.
  `CreditedOnce` says complete and cannot say paid.
- A top-up that does not fit the column fails every delivery until somebody spends. Without
  `~Fits(s)` in it, `PaidIsCredited` is violated.
- A rotation that has read the old session when a revocation, or a logout, deletes it carries the sign-in on
  under its new token (`authentication/session_service.py:58-73`), although that one was to be revoked
  (`:86`). The same goes for a session page that shows a token which was rotated since: revoking it finds no
  key. `RevokedIsGone` is about every other rotation.
- The box of mfa_enabled on the user admin page (`users/admin.py:19`) switches MFA on without a secret; and a
  form that was opened before MFA was switched off does so unasked. `MfaHasSecret` says that nothing else does.
- A line may be sold at a price that never was: the old override_price with the new base_price, or the
  other way round. `SoldAtOfferedPrice` says when: both columns edited while the request is served.
- A capture of a PENDING order takes the money and leaves its hold (`wallets/services.py:137`). An order
  with a hold is PENDING only when put back by hand; with that edit in `AdminEdits` TLC violates
  `HoldsBacked`.
- A cancellation reads the clock under the order's lock (`wallets/services.py:227`) and may commit a
  moment after the deadline. No row records it, and nothing depends on it.
- The menu shows (`OrderPlacement!RemainingQuantity`, `menus/serializers.py:28`) more pieces than remain once
  an order is being prepared: it counts two statuses, the check five.
- Two tabs that refresh with the same token may both be answered 200, one of them with a token that has
  no session (`authentication/session_service.py:58`). Two concurrent regenerations leave two valid sets of
  backup codes, and a ticket can sign in as often as requests use it at once.
- The groups selected on the user admin page override `assign_group_by_role`: with `PicksGroups` FALSE, an
  administrator who changes a role and not the groups, TLC violates `GroupFollowsRow`; and `Provisioned`, since
  a form opened between the removal of the groups and the addition of one shows none and saves none.
  `save(update_fields=...)` of an outdated copy sets the groups of the copy, so `GroupFollowsRow` needs
  copies that are up to date where `RowAsMeant` does not.

## 4. What is proved

Each theorem holds for every value of the constants under the named assumptions of its module: any sets
of users, menus and workers, any amounts, any length of the ledger, any number of faults. Where a set has
to be finite (orders, requests, sessions at Stripe), the module assumes it. A further hypothesis is
part of the theorem and says what people must not do by hand; TLC has the counterexample without it.

### Wallet (`WalletTheorems`)

- `TypeCorrect`: `TypeOK` is inductive. That holds are never negative rests on the comparison of
  `on_hold` with the amount in capture and cancel.
- `LedgerExplainsBalance` (`Reconciled`), whatever the admin page does. The invariant is
  `LedgerInv == TypeOK /\ HoldsPriced /\ Reconciled`: a HOLD is for the total of its order
  (`HoldsPriced`), so the PAYMENT it turns into is what capture takes. Every action either leaves the
  completed rows and the balances alone, or completes one row and moves one balance by its amount; the
  facts per case are lemmas on how appending or changing a row changes the set of completed rows.
- `StepsAreExplained` (`BalanceExplained`) from the same invariant.
- `LedgerIsAuditTrail` (`LedgerAppendOnly`), whatever the admin page does, from `TypeOK` and
  `OnlyHoldsCancelled`: a DEPOSIT is never cancelled, so the webhook, which looks only for "completed",
  does not complete a settled row.
- `LedgerTellsOrders` (`LedgerMatchesOrders`) if only the kitchen's edits are made by hand
  (`KitchenOnly`). `TypeOK /\ LedgerMatchesOrders` is inductive. The rows of an order are a function of its
  status (`Shape`), and each action adds or settles the one row by which two shapes differ.
- `HoldsAreCovered` (`Solvent`) if no edit puts an order back to pending (`NoReopening`). The strengthening
  is that then no order is ever PENDING (`NonePending`): it is the branch of capture for PENDING orders
  that takes money which is on hold.
- `HoldsMatchOrders` (`HoldsBacked`) if, moreover, edits keep an order on the same side of "waits for
  capture" and the user of an order that waits (`HoldNeutral`).
- `WalletImplementsEscrow` (`ImplementsEscrow`) under `KitchenOnly`: the wallet implements the escrow, with
  `TypeOK /\ NonePending /\ DepositsAllowed`. Every action is mapped to one action of `Escrow` or to a
  stutter. What has been paid in is a sum over the ledger (`Paid`), so a mapped step needs the lemma that the
  row it writes moves that sum by the amount and no other user's.

### Row locks (`WalletTheorems`, second half)

- `NoStaleRead` (`ReadsAreCurrent`): the invariant `RequestsInv` says which rows each request must hold
  at its place in the program (`About`), that no two requests hold the same row (`Apart`), and that what a
  request read of a row it holds is what the row still says (`Current`). A commit writes only rows it
  holds, so it cannot make another one's read stale; an admin form waits for the lock of its order.
- `RequestsImplementServices` (`ServicesAreAtomic`): from `ReadsAreCurrent`, a commit is the one-step
  service on the tables as they are at that moment; everything else a request does is a stutter.
- `SettledForGood` (`OnlyStaleFormsReopen`) if nobody chooses in the form to take a settled order back
  (`EditsKeepSettled`): the only step that does is the save of a form that shows another status than the row has.
- What the services keep one after the other, every interleaving keeps. Under `RequestsInv` a step of the
  requests is a service, a save, or changes no table (`RequestSteps`), so the proofs about `Wallet` are split:
  a lemma on the services (`Services`, with `LateCancel` for a cancellation that commits after its deadline)
  serves both specifications, and each adds its own edits (`Edit` there, `Saved` here).
  - `RequestsReconciled` (`Reconciled`), `RequestsAreExplained` (`BalanceExplained`) and
    `RequestsKeepAuditTrail` (`LedgerAppendOnly`), whatever outdated forms are saved
    (`RequestsLedgerInv`). No update of a balance is lost between two requests.
  - `RequestsAreCovered` (`Solvent`) under `NoReopening`: no form shows PENDING either (`NothingPending`).
  - `RequestsKeepHoldsBacked` (`HoldsBacked`), `RequestsMatchLedger` (`LedgerMatchesOrders`),
    `RequestsPayOnce` (`PaidOnce`) and `RequestsImplementEscrow` (`ImplementsEscrow`) without the admin page
    (`~AdminForms`), from `ServicesInv`. The page is what they need to do without: an outdated form breaks
    each of them (`PaidOnce`, section 3), even where the page is used for the kitchen's edits only. As all
    of them are of `Wallet`, no run checks them again on `WalletRequests`; they hold on the instance of
    `MCWalletRequests` with `AdminForms` as the theorems have it.

### Placement of orders (`OrderPlacementTheorems`)

All rest on `WellFormed`, which is inductive: the types, that a request has an override_price for each
line it has checked and a unit price for each line it has inserted (`RequestsInOrder`), and that active
orders have a user (`OrdersOwned`).

- `FundsAreNeverOverdrawn` and `FundsAreAccounted` need no more than the two properties together
  (`FundsMatch`), since an order takes its total from the funds in the step that inserts it.
- `PricesWereOffered` needs what holds of each line before it is sold (`Prices`): the price in force is
  among those offered, and the override_price read with the line is either still the item's or was edited
  since.
- `LateOrdersAreBounded` needs a count that does not grow (`LateOrdersMatch`): orders placed after the start
  and requests that have passed the check.
- `OversellingIsBounded` (`OversoldAtMost`; there is a worker and an order may have a line). The property
  is not inductive, since it says nothing of the lines already checked. `StockBounded` does: what active
  orders reserve of an item and what the lines in flight were told they can have (`Promised`) is at most a
  stock the item can have had and all lines in flight but one (`Excess`). A check that succeeds re-establishes it from
  what the check compared; every other step moves pieces from one sum to the other, or lets them go.

### Top-up (`TopUpTheorems`)

`TopUpsAreCreditedOnce`, `PayableSessionsHaveRows` and `AnswersMeanCredit`: for any number of sessions,
webhook workers, deliveries and faults. The inductive `IInv` says how far a top-up has come at all
of its places at once (`InStep`: a session without a secret has no credit to lose, the row is there before
the secret, an event is COMPLETED only over a completed deposit), that a worker only ever works on a
complete session and has a completed deposit once it is past the credit (`OnComplete`), and that the balance
and what was spent of it are the sum of the completed deposits (`BalanceMatches`). That a second worker finds the deposit completed is what makes the credit happen
once; the status of the event is not needed for it.

### Sessions (`SessionsTheorems`)

- `UsableSessionsAreListed` (`UsableIsListed`): `SessionsInv` says of each request, at each of its commands,
  which keys and index entries there must be (`AllInPlace`), that a jti that was drawn and is not yet
  stored is known to nothing and to no other request (`FreshIsUnknown`), and the property itself
  (`AllListed`). The second part is what two requests at the same session need of each other.
- `ExchangedSessionsAreGone` (`ExchangedIsGone`) and `RevokedSessionsAreGone` (`RevokedIsGone`): the keys
  that are left behind while no request is at them (`Left`, `Spared`) are no more than `faults`. Each
  command removes a key from such a set or leaves it alone; only a request that dies adds one, and it adds
  no more than the one it was at. For the second one a request must be at a revoked session until its key is deleted.
  `RevokedIsGone` also needs `EndedInOrder`: no refresh is about to store a token of a sign-in that is over, and
  one that has its session to read yet will not find it. A token that is drawn for one that is over is fresh,
  and a fresh one is nobody else's (`FreshIsUnknown`).

### Multi-factor authentication (`MfaTheorems`)

- `BackupCodesSignInOnce`, `GuessesAreBounded`, `TicketSignInsAreBounded` and `StoredSetsAreBounded`:
  for any number of requests, tickets and codes, and any limit. A code that is stored and unused has let nobody
  in, and one that let somebody in let in one request (`CodeInOrder`; a set that was deleted never comes back).
  While a ticket can be used, its counter covers the codes refused and those being looked at
  (`TicketInOrder`): it is raised before the code is looked at and deleted after the ticket. The sets stored and
  the requests about to store one are together no more than the requests (`SetsInOrder`). TOTP secrets,
  tickets and backup codes are assumed not to be mistaken for one another (`TypedAssumption`): a backup
  code has eight characters, a TOTP code six, a ticket 43.
- `EnabledUsersHaveCodes` (`EnabledHasCodes`): with `EnabledInOrder`. As long as confirmations and
  disablings did not cross, no request of the one kind runs beside the other, so that the deletion of a
  disabling finds MFA off, and whoever deletes codes while it is on is about to store some.

### Accounts (`AccountsTheorems`)

The invariant of all four is `AccountsInv`: the types and, for each request at each of its steps, what its copy
is to the row (`AllInPlace`). A copy nobody has outdated agrees with the row in every column that is saved
and not changed, so the save changes what it means to; a copy that was outdated is marked as such in the
step that writes the row, and is a harm when it is saved (`NoteStale`).

- `ChangesAreKept` (`RowAsMeant`) and `MfaKeepsItsSecret` (`MfaHasSecret`), whatever administrators select;
  the latter until a form switches MFA on, with outdated full-row saves and other forms included.
  A request with `update_fields` saves what it changes and loses nothing, also when outdated.
- `GroupsFollowRows` (`GroupFollowsRow`) if administrators select the group that goes with the role
  (`PageSelectsGroup`). `GroupsInOrder` adds that as long as the group is not the row's, some request is on
  its way to set it, and that one about to add the group finds no other: the comparison of `save()` with the
  row sees every change that an up-to-date copy makes.
- `UsersAreProvisioned` (`Provisioned`), under the same hypothesis, from `Coming`: who removed the groups, or
  inserted the row, is still at it.

### Role groups (`AccountsTheorems`, second half)

`NothingExtraHolds`, `OnlyFreshIsMissingHolds` and `EveryoneHasGroupHolds` (with `RoleGroupsType`): for any
permissions and lists of a next release, and any number of starts, failures and edits. The apps, the roles and
their order are those of the code. The inductive `RoleGroupsInv` says how far a start has come:

- `Migrated`: which apps' permissions have their rows at each app of `migrate`, and that nothing is `fresh`
  while the groups are being set, from the second role on: no row is added between two roles;
- `GroupsSet`: a group this start has set (`IsSet`) exists and, unless edited since, has no more than its list
  and lacks of it only what is fresh or has no row yet (`AsListed`);
- `NobodyLeftOut`: without a failure nobody has registered without a group. A group is created whether or not
  one of its permissions exists, and the server starts after `migrate`.

At the end of a start every app's rows are there, and a list names only what the release or an earlier one
declares (`ListedIsDeclared`, from `ReleaseAssumption`), so what is missing is fresh.

### Weekly menus (`WeeklyMenusTheorems`)

- `TypeCorrect`, `PagesShareNone` and `UpcomingFound`: for any clock, any time zone ahead of UTC
  and any menus, the pages share no menu and an upcoming menu within one local week is on a page the links
  lead to. Both are facts about every state of the right type. The argument is arithmetic:
  `MondayBounds`, and that Mondays that differ do so by a week at least.
- `MenusShownOnce` (`ShownOnce`) and `MenusNotMissed` (`NoneMissed`): a reader who follows the links. The
  inductive `WalkInv` adds that the walk's last week is behind or at the page shown (`InStep`), and that
  what was shown is over by the end of the last week walked through (`ShownIsBehind`): a later page
  begins after it.

### Sums (`AmountsTheorems`)

A sum is usually a recursive fold, and facts about it need induction over data, which the provers here
cannot do. `Amounts!Total` is instead the cardinality of a finite set of coins, so that `TotalAdd`,
`TotalRemove`, `TotalCong`, `TotalAtLeast`, `TotalRewrite`, `TotalUnion`, `TotalOfFewer`, `TotalWithin` and
`TotalRenamed` follow from the library's theorems on finite sets.

### Model-checked only

Liveness under fairness (`PaidIsCredited`, `RequestsFinish`), with ENABLED, is out of the provers' reach, as
is induction over data. Every invariant and every action property of the runs that pass has a theorem.

## 5. What is not modelled, and why

- Balance and transaction admin pages (`wallets/admin.py`): with the permission any value may be
  written, so no invariant could hold.
- `Balance.objects.get_or_create` in the wallet's views and services: the signal creates the row right after
  the user (`Accounts!CreateBalance`), so it finds one. Only a sign-in with a deposit or a look at the balance
  between the two could create it first; the column is unique, and the registration would fail.
- Of the order admin page: a change of menu or reservation time, and adding or deleting orders. Of
  the menu admin pages: categories, names, display order, and adding items.
- Formatting and bounds of requests (serializer fields), permissions of the views (`common/drf_permissions.py`,
  `common/mixins.py`), the webhook's signature check: pure functions of one request. The models start
  where a request was let in.
- Order numbers: a unique column; a clash fails the request as a whole.
- Of accounts: users added or deleted by hand, names, is_active, is_superuser. Of Microsoft sign-in: the
  exchange with Microsoft, and the state key, which is stored and never enforced. `utils.py`'s e-mail
  codes (`generate_email_otp`) are called by no view.
- Soft delete (`common/models.py`): no view or service calls it.
- Settings, URLs and generated migrations. The models depend on these settings: ATOMIC_REQUESTS is not
  set, refresh tokens rotate and are blacklisted, TIME_ZONE is ahead of UTC, the order of INSTALLED_APPS.

## 6. Plan

`OrderPlacement` with a menu's times edited, and its deadline composed with `Wallet`; `Mfa` composed with
`Accounts`, so that a lost row meets a sign-in.
