# Kabakaba back end: models, checks and proofs

Kabakaba is the server of a campus-canteen application: students buy tickets
with mobile money, order plates from canteens, and canteens withdraw what they
sold. It is a NestJS program over one PostgreSQL database (Prisma), run as
several short-lived instances, so every concurrency control it has is a
transaction, a row lock or a conditional write. This directory holds TLA+
modules of the parts where that matters, the TLC configurations that check them
on small instances, and theorems about them checked by TLAPS.

Paths below are relative to the repository.

## 1. Inventory

| Component | State | Operations | What makes it correct | Module |
|---|---|---|---|---|
| Orders (`modules/orders`) | Order, history, reserved components, ledger rows, wallets, balances, stock, ruptures | create, advance, cancel (student, canteen), flag unclaimed | one settlement per order, number unique while open, stock and tickets conserved, history is a legal path | `Orders` |
| Scheduled orders (`modules/scheduled-orders`, `internal-cron`) | ScheduledOrder | programme, cancel, cron pass | at most one order per row, a settled row is final, every due row is settled | `ScheduledOrders` |
| Payments (`modules/payments`), referrals | Payment, PaymentWebhookEvent, Transaction, Referral, wallet | intent, initiate, webhook, poll | credited once, never against FedaPay's decision, bonus on the first recharge only | `Payments` |
| Withdrawals (`modules/vendors`) | Withdrawal, WithdrawalProof, Transaction, balance | request, process, upload proof, confirm, fail, cancel | debited once, refunded at most once, paid only with a proof | `Withdrawals` |
| Prices of recharges and withdrawals | none | quotes, fees | quotes agree, each fee has one payer, more asked never sends less | `RechargePricing`, `WithdrawalFees` |
| Row locks | rows locked by transactions | every transaction of money and stock, programming, reports | no circle of waiting but the known ones | `RowLocks` |
| Catalog of a canteen (`modules/components`, `modules/menus`) | ComponentCategory, Component, Menu, MenuLine | create, edit, delete, replace the lines; take components for an order | nothing keeps what is deleted, a menu has the lines of its last save, an order takes only what is alive | `Catalog` |
| Stock (`adjustStock`) | Component.quantity, ComponentRupture | restock, empty | a rupture per emptying | `Orders` |
| Canteens (`modules/vendors`), numbers (`modules/users`) | User.phone, Vendor, VendorCampus | create, suspend, replace campuses; find by number, register, sign in | found by one's number, campuses of the last update | `Canteens` |
| One-time codes (`modules/auth`) | OtpCode, Referral | send, resend, answer, claim, find the sponsor, register | one code lets one call through, tries bounded by the limit and the calls in flight, sponsors make a forest | `OneTimeCodes` |
| PIN, sessions, suspensions (`modules/auth`, `users`) | User, RefreshToken, SuspensionEvent | sign in, fail, lock, set a PIN, refresh, log out, suspend, lift, expire | locks come, a suspension closes sessions and agrees with its history | `Accounts` |
| Back office sign-in (`modules/web-auth`) | WebUser, WebAuthChallenge, backup codes | first login, second factor, password reset | a token serves once, no step is skipped | `WebAccounts` |
| Deletion vote (`web-users.service.ts`) | WebUser, WebUserDeletionRequest, approvals | provision, activate, request, vote, cancel, expire | only a majority deletes | `DeletionVote` |
| Reports, reviews | Report, Review | create, treat, reopen, rate | one report at a time, a date on the resolved ones | `Feedback` |
| Devices and push | Device | register, sign off, push, purge | an installation rings for its owner, and falls silent only when FCM refuses it or a late write hits it | `Devices` |
| Reminders | a date per user | daily pass by batches | every third day, neither earlier nor later | `Reminders` |
| Rate limits | RateLimitBucket, the clock of each instance | count, block, clean | a limit per window | `RateLimits` |
| Figures (`analytics`, `getSales`, `getStats`, `admin`) | none | queries | screens agree, charts add up, past revenue is final | `Reporting` |
| Takeaway options, campuses, partner applications, SMS, media, HTTP layer | single rows | create, edit | | |

Interactions: orders, scheduled orders, payments and withdrawals share the
wallet and balance columns and the `Transaction` table; the cron pass calls the
order core inside its own transaction; restocking writes the rows orders write;
figures read what orders, payments and withdrawals wrote; codes lead to a PIN,
a PIN to sessions, and a suspension ends them; reports hang on orders.
Notifications are sent after commits and read nothing back.

What is hard. PostgreSQL runs at READ COMMITTED, so what a method reads before
its transaction may have changed when it writes; each write is safe only as far
as its own `WHERE` clause says, and around accounts most writes are by id alone,
after a bcrypt comparison or a call to FCM or FedaPay. Cron passes overlap,
FedaPay repeats and reorders webhooks, processes die between two steps, row
locks are asked for in different orders. `PROJECT.json` lists each place as a
hazard, at its line, with the properties aimed at it.

## 2. How the models are built

A request is a slot that goes through the atomic steps the database sees: an
unlocked **read**, where early returns are taken, and a **commit**, in which each
conditional write re-evaluates its condition on the rows as they then are. What
the code keeps in local variables in between is the slot's record. Any other
request may step in between. A transaction that holds a row lock across
statements (`SELECT ... FOR UPDATE`) has a step for the lock, and the lock is a
variable. A lost claim (`updateMany` with count 0) is an action of its own.
Rows are records, tables functions from ids, a missing row a constant such as
`NoOrder`, `NoRow` or `Nobody`. A slot may be left at any moment: its process
died, or its transaction was undone.

Formats and texts are left out: no modelled state depends on them. Constraints
of the schema that the code does not rely on (CHECKs) are not put into the
models, so that what they would catch shows as a violation of a property; the
unique indexes that it does rely on (an approval per voter, a phone, a link to a
campus) are part of the insertion that may fail.

Where a guarantee has an exception that the code accepts, a **history variable**
tells the exception, so that the property says precisely when the guarantee
holds: `stray`, `slipped`, `crossed`, `refused`, `renewed`, `veiled`,
`reopened`, the `late` and the `joined` of a call. No action reads one to decide
anything else.

| Module | Models | Abstract specification |
|---|---|---|
| `Orders` | `orders.service.ts`, `unclaimed-orders.service.ts`, `order-number.ts`, `adjustStock`, opening of a canteen | `Escrow`: tickets of an order held, then released or returned |
| `ScheduledOrders` (EXTENDS `Orders`) | `scheduled-orders.service.ts` and the cron that drives it | `Orders` itself |
| `Payments` | `payments.service.ts` with FedaPay and its webhooks as environment | `Credits`: a payment is pending, then credited or dropped, once |
| `Withdrawals` | `withdrawals.service.ts` | |
| `RowLocks` | the order in which those transactions lock rows | |
| `RechargePricing`, `WithdrawalFees` | the two pricing files, as pure operators | |
| `Catalog` | `components.service.ts`, `menus.service.ts`, `order-articles.ts`, `plate-rules.ts`, what `orders.service.ts` reads and deducts of them | |
| `Reporting` | `analytics.service.ts`, `orders-stats.ts`, `stats-range.ts`, `getSales`, `getStats`, `getSupervisionStats`, as pure operators over tables that move | |
| `OneTimeCodes` | `auth.service.ts`, activation in `vendor-auth.service.ts`, codes of `web-auth.service.ts` | |
| `Accounts` | `student-auth.service.ts`, `vendor-auth.service.ts`, `suspensions.service.ts`, `jwt.strategy.ts`, `changePassword` | |
| `Canteens` | `findByPhone`, `canonicalizePhone`, `vendors.service.ts` | |
| `WebAccounts` | `web-auth.service.ts` | |
| `DeletionVote` | `web-users.service.ts` | |
| `Feedback` | `reports.service.ts`, `reviews.service.ts` | |
| `Devices` | `devices.service.ts`, `fcm.service.ts`, `notifyUser` | |
| `Reminders` | `scheduling-reminders.service.ts` and its constants | |
| `RateLimits` | `distributed-throttler.storage.ts` | |
| `Sums` | what a column of numbers adds up to, used by the money and stock of the modules above | |
| `MC*` | instances for TLC | |
| `*Proofs` | theorems | |

### Orders

`ReadForCreate` is everything `createWithinTransaction` reads before line 288;
`LockCanteen` takes the canteen's row and chooses the number; the commit writes
stock, wallet, order, history and ledger, or one of the refusals undoes all of
it. `update` and `cancel` are a read (`ReadForUpdate`, `ReadForCancel`) and a
commit or a lost claim. `Abort` is a request whose process dies or whose
transaction times out: PostgreSQL rolls back and frees the lock. The reads
before the lock are one atomic read, although they are several statements: they
are re-checked under the lock where the code re-checks them, and nothing else
depends on them. A commit is one step because its conditional writes keep the
row locks they take until the end.

### Scheduled orders

A cron pass is a slot `p` of `Requests`: its creation is the order core's own
`LockCanteen` and commit, with BUSY canteens accepted, so that `ImplementsOrders`
can state that the composition behaves as `Orders` does. A pass reads its batch,
claims a row (locking it), creates, or rolls back and then records the failure
in a second write. `Kill`, `TechnicalError` and `LeavePending` are a killed
process, an error that is not a refusal, and a database out of reach; `MaxFaults`
bounds them. `studentLock` is the `User ... FOR UPDATE` of programming, for
which debits and refunds wait. A student who programmes at a canteen while an
order of theirs is created there closes a circle of waiting (the scheduled row's
foreign key wants the canteen, the creation wants the wallet): `BreakDeadlock`
is PostgreSQL's choice of a victim.

### Payments

`Approve` and `Refuse` are FedaPay's decision, final once taken. From then on
webhooks for the event may be delivered any number of times and, per
`payments.service.ts:162`, until one is answered. A caller (webhook or polling
of `findOne`) reads, then settles by the claim `status = PENDING`. Left out:
the event table's unique key, redundant with the claim; a webhook for an
"expired" transaction, which the code does not handle, so that only polling marks
it FAILED; a webhook for an unknown payment, which is answered and dropped. Were
FedaPay to accept a payment it once refused, a late "declined" could mark it
FAILED first: finality is an assumption of the model.

### Withdrawals

`failOrCancel`, `confirm` and `uploadProof` decide on a status read beforehand.
`failOrCancel` then writes with no condition on the status, which is what a
violation of section 4 is about. `RefundsBounded` says what that may cost under
any overlap: each call in flight may settle a withdrawal once, and a retry that
comes after them cannot. Notifications and the audit row, written
after the commit, are left out.

### Row locks

A transaction is the sequence of row locks it asks for, in the three of
PostgreSQL's modes that occur: `FOR UPDATE`, `FOR NO KEY UPDATE`, and the `FOR
KEY SHARE` of foreign keys (`"UPDATE"`, `"NO_KEY_UPDATE"`, `"KEY_SHARE"`). It
waits while another holds a conflicting one. Accounts that refer others are
older than them, so that the referral bonus locks no circle of accounts.
`NoDeadlock`, the promise of a comment in the code, says that no set of
transactions waits for itself, and fails (section 4). `OnlyKnownCircles` says
who can be to blame: a canteen that empties a shelf, a student who programmes an
order, and the closing of a withdrawal against its confirmation. Nothing else,
whatever its rows, ever closes a circle. PostgreSQL undoes one of the
transactions, which every module has as a call that ends without a write.

### Prices and figures

Integers throughout. `RechargePricing` steps through every amount;
`WithdrawalFees` works in centimes and steps from amounts around each boundary
of the tables, because `CreateWithdrawalDto` accepts fractions. What a canteen
is debited is not monotone at 10 000 FCFA (9 999 costs 10 149, 10 000 costs
10 000): the tiers are meant so. The network fee is computed on the requested
sum, as `withdrawal-fees.ts` documents.

`Reporting` has the tables as `Orders`, `Payments` and `Withdrawals` let them,
with their dates only, and each figure is an operator on them. Time is counted
in half days, so that a range may begin in the middle of a day. What a kind of
recharge brings and costs, and the fee that a withdrawal leaves to the platform,
are constants of the module, as the tickets of an order are: the figures add them
up, `RechargePricing` and `WithdrawalFees` say what they are.

A range is resolved in two ways. `getOrdersSummary` and `getSales` take whole UTC
days (`UtcRange`; `resolveUtcRange`, `stats-range.ts:37-58`); the other figures
of the analytics go from any hour to the end of a day (`RangeFrom`; their own
`resolveRange`, `analytics.service.ts:35`, which ignores `to` when `from` is
absent). Asked with the same hours, they do not show the same orders:
`RankingsAgree` says that what differs is exactly the orders of the first day
before that hour. The ranking of canteens is cut at its limit
(`analytics.service.ts:240`): it lists no canteen that has fewer orders than one
it leaves out, and adds up to the total when nothing is cut. A withdrawal of a
canteen with two campuses is counted under both; the properties are about
totals.

### Catalog

A check (is the component in a menu, are the lines of a menu alive) and its
write are two steps, and nothing is locked. The lines of a menu are replaced by
a deletion, which has a snapshot, and an insertion: a second update that waits
for the first does not delete what the first inserted.

A creation of an order is beside the edits: `ReadForOrder` composes it from what
is alive, with nothing locked; `Deduct` takes its components one after the other,
each under the condition of its `WHERE` clause, and keeps their rows until
`InsertOrder` or `UndoOrder`. Its stock and money are in `Orders`.

### Codes, accounts, canteens

`OneTimeCodes`: a number may have two open codes when two calls find none; a
resend writes the counter it read (`auth.service.ts:68`). The limit of tries is
read before bcrypt compares and the try is counted after it, so that overlapping
answers may be compared beyond the limit: `TriesBounded` gives the exact bound,
and `LetInWithinTries` says that none of them opens anything. The sponsor is
looked up in one step (`FindSponsor`) and the account inserted in another
(`Register`). Expiry is an action of the environment. `Accounts` is one account,
the rows of which no call locks; the lock of a PIN and the end of a suspension
come with time. Refresh tokens are never rotated, so that a session is one row.
`Canteens` has a number in several written forms: canonical, with its last eight
digits together, or with blanks between them; `findByPhone` looks for the first,
then for the second. The replacement of campuses is that of the lines of a menu.

### Back office

`WebAccounts` is one account and its tokens, each a row that a conditional write
consumes; a flow may be started many times. A backup code is found, then spent
by an unconditional write, and the token consumed after that: each is a step of
its own. `DeletionVote` counts the electorate anew at each vote, writes the
verdict by id, and lets every request overlap with every other one. Members are
provisioned and become active at any moment, and are deleted, so that the
electorate grows and shrinks between a count and the verdict it decides.

### Feedback, devices, reminders, limits

A report is created under the lock of its order, so in one step; treating it is
a read and a write. `Devices` reads rows by owner or by token and writes by
token; FCM, external, refuses the tokens of installations that are gone, and for
an `invalid-argument` those of installations that are not (`refused`): both are
deleted.
`Reminders` has a pass a day at one of several hours; time is relative, as the
hours between what is written down and the present pass. `RateLimits` has calls
that may be slow between any two statements, on instances whose clocks are off
the database's by up to `MaxSkew`.

## 3. Runs

Bounds are constants of the cfg. Two or three slots are enough for every race
the code has: each guard compares a slot's reading with one other writer, and
the third slot makes a queue on a lock.

| Run | Instance | What it shows |
|---|---|---|
| `orders_core` | 2 orders, 2 requests, 2 components, 2 hand moves | tickets and stock conserved under stock moves and closings, `Escrow` implemented |
| `orders_queue` | 3 orders, 3 requests, 2 numbers for 3 orders | numbers unique and exhausted, one settlement with stale readings |
| `scheduled_core` | 2 rows, 2 passes, 2 HTTP slots, 1 fault, cap 1 (5 in the code) | at most one order per row, told only of failures, cap held, `Orders` implemented |
| `scheduled_live` | 2 rows, 1 pass at a time, batch 1, 1 fault, fair | a due row does not stay pending; every request is answered |
| `payments` | 2 payments, 2 students of whom one referred the other, 3 callers, fair | credited once, bonus once, `Credits` implemented, a paid recharge is credited |
| `withdrawals_any` | 2 withdrawals, 2 callers | balance accounted, no more settlements than calls in flight |
| `shop` | every recharge up to 10 600; withdrawals by half a franc for 500 FCFA from 5 FCFA below each boundary; 3 transactions of every kind over 2 canteens, 3 components, 2 students, 2 orders, a withdrawal; 2 components, a category, a menu, 2 editors, a creation of an order; 3 days, 2 orders, one recharge, withdrawal and review | quotes agree, fees add up, no circle of waiting but the known ones, a catalog whole but for overlaps, orders inserted with what is alive, figures that agree |
| `accounts` | 2 calls at a time in each part, 2 rows of each table (5 tokens of the web sign-in), 3 members of the Supervision, 3 students to remind in batches of 1 up to 2, clocks 1 tick off | the fifteen properties of codes, PINs, sessions, web sign-in, votes, reports, devices, reminders, numbers, campuses and limits |
| `withdrawals_refund`, `locks_empty`, `vote_late`, `vote_twice` | | violations, section 4 |

`MCShop` and `MCAccounts` put parts side by side that share no state: each is
walked from its own initial states while the others stay in one of theirs, and
`part` says which one moves; `Parts` names those that a run of `MCAccounts`
walks. The parts' state spaces add up instead of multiplying, and no behaviour
of a part is lost. Five bounds are stated there as named definitions:
`FiguresBound` (orders, or payments with withdrawals and reviews: no figure
needs both), `CatalogBound` (calls overlap while there are only categories or
only menus; an order is created beside one call at most, and only where there
are no categories), `ReminderBound` and `CanteensBound` (one student away, one
canteen moved at a time), `VoteBound` (one request at a time ends by its 48 hours,
and nobody else calls while the deletion of an administrator, which no vote
decides, is asked for).

Small constants stand for the real ones where only their order matters:
`MaxAttempts` and `MaxFailures` 2 (5), `Limit` and `MaxSkew` 1, one backup code
(10). The
interval of three days and the tolerance of six hours are the real ones, with
passes at the third or the ninth hour after a given one. Day ranges are short,
but cross a week and a month.

In `scheduled_core` the canteen makes no hand moves (`MaxMoves = 0`): the
order core's `Orderable` is read once per creation, so a closing only decides
whether the creation starts, which `orders_core` explores; shortages come from
the HTTP orders.

Every module with tables states its type invariant. Where a proof rests on one it is
part of the inductive invariant; the runs spend their time on the other
properties.

Deadlock is not checked in the runs where requests may simply stop coming
(`CHECK_DEADLOCK FALSE`); where a circle of waiting is the question it is a
property (`NoDeadlock`, `OnlyKnownCircles`).

Fairness. `scheduled_live`: strong fairness of each request's and each pass's
continuation, since PostgreSQL grants a row lock in the order it was asked for;
weak fairness of `BecomeDue` (time passes), `StartPass` (the workflow calls the
cron endpoint again and again) and `BreakDeadlock` (the deadlock detector).
`payments`: strong fairness of delivery and processing of a webhook, from the
redelivery that `payments.service.ts:162` relies on, and weak fairness of storing
a payment whose transaction was opened. Students and canteens owe nothing.
Around accounts the code promises nothing that must eventually happen: a client
that gets no answer calls again or not. The reminder's promise is about days, so
that it is an invariant of the passes.

## 4. Findings

Each is the counterexample of a run.

1. `withdrawals_refund`: `failOrCancel` checks the status it read and then writes
   by id alone (`withdrawals.service.ts:396`), so two concurrent `fail`/`cancel`
   calls refund a withdrawal twice. The same write also closes and refunds a
   withdrawal that was confirmed after it was read, which `RefundsBounded` counts
   as a second settlement.
2. `locks_empty`: emptying a component and creating an order for it can deadlock,
   which the comment at `orders.service.ts:306-308` excludes.
3. `vote_late`: the voters are counted outside the transaction that deletes
   (`web-users.service.ts:130`, 238; 140, 251), and an account may become active
   in between, so that a member is deleted by less than the majority of the
   active members that lines 79-80 promise.
4. `vote_twice`: a verdict on a deletion is written by id; a request that one
   call cancels can be confirmed by another that read it before, and gets two
   verdicts. A deletion still had the majority of those who were
   counted (`DeletedByMajority`, proved).

Seen while modelling, without a run of their own:

- A student registers with the number as typed (`verify-otp.dto.ts:12-15`), and
  `findByPhone` misses it when there are blanks among its last eight digits,
  whatever `users.service.ts:126` says of the form.
- A proof is written on a withdrawal closed during its upload
  (`withdrawals.service.ts:274` does not repeat the check of 268).
- `CreateWithdrawalDto` accepts a fraction of a franc, which
  `withdrawals.service.ts:78` stores and `withdrawal-fees.ts:168` drops, whereas
  `schema.prisma:532-534` calls `debitedAmount` the amount plus fees.
  `DebitWithinAFranc` states what does hold.
- The update of a review writes `orderId` and `vendorId` without the checks of
  the creation (`reviews.service.ts:125`).
- A request of a suspended student ends a suspension on the date it has read
  (`jwt.strategy.ts:66`), so that it may end a newer one.
- Onboarding of a web account that was deleted meanwhile sets `isActive` again;
  a backup code is found and then used without a condition.
- Two updates of one menu, or of the campuses of one canteen, that overlap leave
  the lines of both.
- A canteen created on a number hides an older account with the same number in
  another form; a canteen that is created inactive has no date of suspension.
- Two categories may be given the reserved name of the base food; one of them,
  `findFirst`'s, counts.
- FCM's `invalid-argument` also deletes a device, as do the codes for a token
  that is gone: a phone falls silent without any overlap (`refused`).
- A call that is slower than its window, or whose instance is late, may be counted
  anew after the row of the window was cleaned (`renewed`).
- More wrong answers than the limit are compared when calls overlap
  (`auth.service.ts:143-147`), and a reset claims its code whatever its counter
  says (`web-auth.service.ts:618`).

## 5. Proofs

Checked for every value of the constants that satisfies the named assumptions.

| Module | Theorems |
|---|---|
| `OrdersProofs` | type correctness; numbers unique among open orders; settled once, numbers held exactly while open, history is a legal path, a student never cancels a started order, an unclaimed order was ready; tickets and units are conserved; `Orders` implements `Escrow`; a rupture exactly when a shelf is emptied |
| `ScheduledOrdersProofs` | rows, batches and locks of every stage; `ScheduledOrders` implements `Orders`; a row is placed at most once; told only of failures; the cap on pending rows |
| `PaymentsProofs` | type correctness, agreement with FedaPay, bonus exactly with a first recharge, events only of settled payments, wallets accounted, `Payments` implements `Credits` |
| `WithdrawalsProofs` | type correctness, paid with a proof, ledger agrees, balances accounted, settlements bounded by the calls in flight |
| `ShopProofs` | both properties of the tiers, for every amount; each fee has one payer and asking for more sends no less; only the three known circles of waiting; a catalog whole but for overlaps, orders inserted with what is alive; screens that agree, charts that add up, past revenue that is final |
| `AccountsProofs` | codes serve once, tries are bounded, nobody is let in beyond the limit, sponsors make a forest; suspension and history, locks that come, sessions that a suspension ends; accounts that stay found, campuses of the last update |
| `AccessProofs` | limit per window, whatever the clocks; an installation rings for its owner; tokens serve once, no step skipped; only a majority deletes; reports in order; reminded on the third day |
| `SumsProofs` | lemmas on sums, on counting by parts, and on finite sets, for the others |

What is assumed of the constants is what the code grants: tables are finite, ids
of two tables are never equal, the special values such as `NoOrder` are no row.
Four assumptions say more. An account is younger than the one that referred it
(`ReferrerAssumption`: the sponsor is looked up before the row is inserted,
`auth.service.ts:243`). Two passes of the reminders differ by no more than the
tolerance of their hour (`HoursAssumption`, `scheduling-reminders.constants.ts:5`).
Weeks and months have begun before the first day (`CalendarAssumption`). The
charts' bound is positive (`MAX_DAILY_BUCKETS`). Each is evaluated by a run.

The argument. *Orders*: uniqueness of numbers is not inductive; it needs
that a canteen's row is locked by the transaction whose number is chosen, that
this number is still free, and that two such transactions never hold the same
row (`NumberReservedUnderLock`). Settlement follows from counting each
ledger kind against the status, row by row: every step changes one row along
`NextStatus` or to CANCELLED under a condition re-evaluated at the commit, and
`RequestsSound` says what a slot's record may hold. *Escrow*: with that
invariant each action maps to paying, releasing, returning, or a stutter.
*Scheduled orders*: a pass knows its batch and, from the claim to the commit, a
row that it has locked and that is pending (`PassesSound`, `CallsInStep`); hence
each of its steps is one of the order core or leaves it alone. A row, its order
and what was told of it agree (`JobsInv`), as long as the creation of a pass is
the one its row asks for (`CreationsMatch`); the theorem about the core then says
that the order stays the one created. The cap needs that a student who counted
below it still holds the lock (`CapInv`).
*Payments*: the invariant relates each local row to FedaPay's decision and each
slot's reading to a decision already taken, so that a stale reading is still
true when the claim succeeds. *Withdrawals*: the row and its ledger entry agree
(`RowsSound`), and a call's reading may be out of date; the settlements of a
withdrawal and the calls that still hold it as open are together no more than the
calls there are (`SettledInv`).

*Accounts and access*: each invariant adds to its property what a call in flight
still knows of the rows it read. A code that is open was never claimed and its
counter is at least the wrong answers to it (`RowSound`), which lets nobody in
beyond the limit; the wrong answers given and those still to be counted
(`Answering`) are together at most the limit and the other calls (`TriesInv`),
because an answer is only compared while the counter is below the limit. Each
step that fails a PIN either leaves the count below the limit or a call about to
lock it, so that the calls at `"lock"` are counted as a finite set
(`AccountInv`). A token of the web sign-in is consumed by the one call that
changes its row, and what a token was issued for stays earned (`Earned`,
`ChallengeSound`). A majority is one of those whom the call counted and who are
still voters (`Staying`): votes are never withdrawn, whoever becomes a voter
after the count is in `joined`, and whoever leaves only makes the majority
larger (`BallotSound`, `KeepsCount`); the target is never among its own
approvers (`DemandSound`). A number finds one account as long as a call that
writes on it knows of nobody else or says that it was late (`NumberSound`,
`NameSound`). A window's row counts the calls it let through since it was last
deleted, which happens only after the window (`WindowSound`, `renewed`). A call
that is about to sign off or to purge an installation has read it as it is, or
knows that somebody signed in since (`PostSound`).

*Money and units*: a sum is not a fold here but the number of its units
(`Sums`: the cardinality of the pairs of a row and one of its units), so that
what a step does to it follows from facts on finite sets, without induction:
when two columns differ in one row, their sums differ by that row's difference
(`SumChange`), and rows that count for nothing do not matter (`SumSame`). Each
conservation law is then inductive next to the invariant of its component: a
commit changes one row and the wallet, balance or stock by the same amount, given
that a refund is of what the row says was taken and that its condition was
re-evaluated. *Figures*: a table is split by day, period or canteen into sets
with no member in common (`Splits`), and sums and counts follow part by part
(`SumOfFamily`, `CountOfFamily`); the only fact about the behaviour that this
needs is that a row that counts has a date that is not in the future
(`DatesKept`). A net may be negative: `TotalOfDifferences` reduces it to two
columns that are not. A past day stays as it was because a step only dates rows
of today and takes none out (`PastSalesStay`).

*Row locks*: what a transaction holds and what it still asks for are the two
halves of one script of its kind (`LocksInv`). Rows are ranked, accounts by their
order of arrival, so that whoever waits and is not one of the exceptions asks for
a row of higher rank than all it holds; a circle would have a member whose row
has the highest rank, and that one cannot be waited for (`FiniteHasMaximal`).
*Catalog*: what an editor has read still stands, or it knows that it was
overlapped (`ReadsStand`), and a menu not yet created has no lines (`NoLinesYet`);
what an order has deducted stays alive, since whoever would delete it waits
(`DeductedStaysAlive`).
*Fees*: the row is the computation of what was asked (`FeesInv`); the payer of
each fee is found tier by tier. The network's fee rises over every bracket, every
range and the boundary between them (`CashFeeRises`), and is only ever added, so
that what is sent rises with what is asked.
*Reminders*: the age of a reminder lies between the hours that the days since it
allow (`OldEnough`, `YoungEnough`), and a pass that goes on has before it, or in
its batch, all whom it must remind (`PassSound`).

Model-checked only: liveness (`EveryRequestAnswered`, `DueIsSettled`,
`PaidIsCredited`), which the proof system has no rules for here. Every invariant
and action property of the passing runs is also proved. The violations of
section 4 are counterexamples, and need no proof.

## 6. Not modelled, and what may follow

Not modelled: texts, pictures and lists; takeaway options, campuses and partner
applications, which single calls create or edit by id without looking at other
rows; delivery of SMS and push, and uploads, which keep no state here; the HTTP
layer, whose guards and validation decide who may call; the stock figures, the
student figures and the finances of a canteen in the analytics, queries of the
same shape as those in `Reporting`; the profile fields of users and canteens,
which one update overwrites.

Left for later: what two components promise together where a run only has one of
them, such as the ledger of a student across recharges and orders.
