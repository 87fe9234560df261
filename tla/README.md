# VPN_TelegramBot in TLA+

A shop that sells VPN subscriptions over Telegram: a customer bot and an admin
bot (aiogram), an admin API (FastAPI), a Celery worker, one PostgreSQL database,
payment gateways (ZarinPal, IDPay, NextPay) and VPN panels (Marzban, X-UI). All
business logic is in `src/backend/app/services`; paths below are relative to
`src/backend/app`. Four processes run these services at the same time, each
handler in a database transaction of its own, so the hard part is what their
statements do to each other.

## Inventory

| component | state | operations | interacts with |
|---|---|---|---|
| sessions (`db/session.py`) | one transaction per session, attribute changes that wait for a flush (`autoflush=False`) | `get_db`, `session_scope` | everything |
| wallet (`services/wallet.py`) | `wallets.balance`, `wallet_transactions` | `credit`, `debit`, `adjust`, `get_or_create_wallet` | orders, referrals, top-ups, admins |
| orders (`order_service`) | `orders.status` | `create_order`, `pay_with_wallet`, `settle_paid_order`, `cancel`, `expire_stale_orders` | inventory, wallet, coupons, fulfilment, referrals |
| inventory (`inventory_service`) | `configs.status`, `reserved_order_id`, `reserved_until` | `reserve`, `release`, `mark_sold`, `release_expired_reservations`, `add_config` | orders, fulfilment, the job |
| fulfilment (`fulfilment_service`) | `subscriptions` | `deliver` (manual, panel) | inventory, panels |
| payments (`payment_service`) | `payments.status`, authority | card and gateway payments, `approve`, `reject`, `verify_and_settle`, top-ups | gateways, orders, wallet |
| gateways, poller (`integrations/payments`) | state at the gateway | `request`, `verify`, `poll_pending` | payments |
| coupons, referrals | `used_count`, redemptions; referral status, rewards | `validate_for`, `redeem`; `ensure_referral`, `on_qualifying_purchase` | orders, wallet |
| bots (`bot/*`) | FSM data in Redis (`card_order_id`, `coupon`) | handlers, `SessionUserMiddleware` | all services |
| admin API (`api/v1`) | none | routes, `payment_callback` | all services |
| Celery (`workers`) | none; beat schedule, `acks_late` | housekeeping, alerts, sync, poll, broadcast | services |
| panels (`integrations/panels`) | accounts on the panel, usage | `provision`, `sync_all` | fulfilment, subscriptions |
| alerts, notifications (`alerts_service`, `notification_service`) | `notifications` (unique claim), tags and levels of subscriptions | `scan_*`, `check_low_inventory`, `notify` | Celery, Telegram |
| broadcasts (`broadcast_service`) | `broadcasts.status` | create, `dispatch` | admin bot, Celery |
| auth, roles, CLI (`auth`, `core/permissions.py`, `cli.py`) | admins, refresh tokens | login, refresh, logout, `get_current_admin`, `guards.ensure`, create-admin | API, admin bot |
| users, tickets (`user_service`, `ticket_service`) | users, referrals, tickets | `get_or_create`, `/start` with a code, `set_banned`, reply, set status | both bots, API |
| plans, settings, audit, stats | rows of their own | CRUD | API, bots |
| dashboard (`src/frontend`), deployment | none the backend relies on | | API |

What each must get right:

- wallet: a balance is the sum of its ledger, never negative, whatever overlaps.
- inventory: a config is sold to one customer; reserved stock returns to sale.
- orders, payments, fulfilment: what is paid is delivered, once, and what is
  delivered was paid and stays delivered; an error leaves no half of it behind.
- promotions: a reward and a redemption are counted once and recorded.
- top-ups: what the gateway or an admin confirmed is in the wallet, once, and in
  the end also without a callback.
- subscriptions: the panel keeps what was sold; alerts come once and in order;
  what has run out is marked and told.
- back office: an exchanged token and a dismissed admin are out; a user has one
  referrer; a customer who writes is in the staff's list; a broadcast goes out.

What is hard: plain SELECTs whose answer is old when it is used; `FOR UPDATE`
on wallets and on stock only; bot handlers that answer a `DomainError` and
return, after which the middleware *commits*; API routes and tasks that roll back
instead; gateways answered twice or late; reservations and orders that expire
while a payment is under way; jobs that write at their end what they read at
their start; panels, gateways and Telegram, which no rollback undoes; tasks
Celery delivers again; crashes between any two statements.
`PROJECT.json` lists each hazard at its line.

## Modules

| module | models |
|---|---|
| `RowStore` | PostgreSQL at READ COMMITTED, external: committed rows `db`, the rows `ws[t]` a transaction has written or locked, plain reads, writes that wait for row locks, `FOR UPDATE`, commit, rollback |
| `WalletLedger` | `services/wallet.py`, statement by statement, on `RowStore` |
| `Ledger` | what the wallet service promises, with neither rows nor locks |
| `Checkout` | orders, inventory, fulfilment, order payments, coupons, referrals, and the handlers, routes and job that run them, on `RowStore` |
| `TopUps` | wallet top-ups: charge dialogue, card and gateway payments, review, callback, the poller's batch, on `RowStore` |
| `Subscriptions` | provisioning and renewal on a panel, sync, expiry, usage and stock alerts, notifications, on `RowStore` |
| `Access` | admin accounts and roles, tokens, the checks of API and admin bot, create-admin, on `RowStore` |
| `BackOffice` | extends `Access`: first contact and referral link, bans, tickets, broadcasts |
| `RowStoreProofs`, `WalletLedgerProofs`, `TopUpsProofs`, `CheckoutProofs`, `CheckoutSalesProofs`, `BackOfficeProofs`, `BackOfficeWorkProofs`, `SubscriptionsProofs` | the theorems |
| `MCWalletLedger`, `MCCheckout`, `MCTopUps`, `MCSubscriptions`, `MCBackOffice` | values for TLC |

Operators headed "Mutant of" are deliberate bugs, one for each checked property;
no specification uses them. Substituted for the operator they name, they make
TLC find the property violated, which shows that the property depends on that
piece of the code.

### RowStore

A row is a key of the function `db`. `Write` is an INSERT or UPDATE; it can
happen when no other transaction holds one of the rows, so a statement that waits
for a lock is a disabled action. `LockRow` writes a row back unchanged. A key
contains the columns of a UNIQUE constraint (a wallet is keyed by its user, a
payment by its order), so the second INSERT of a key waits for the first
transaction and then finds the row. Tables without such a constraint
(`subscriptions`, `coupon_redemptions`, `referral_rewards`) get numbered keys.

### WalletLedger

`sess[t]` is the program counter of the wallet call transaction `t` is in.
`Find` and `Insert` are `get_or_create_wallet`, `Lock` is `_locked_wallet`,
`Apply` and `Refuse` the two ends of `credit` and `debit`. `Finish` and `Abort`
are the two exits of `session_scope`. `Duplicate` is the UNIQUE constraint firing,
`DeadlockVictim` PostgreSQL's deadlock detector.

Two facts about the libraries are taken for granted. SQLAlchemy does not refresh
an object that its identity map already holds, but nothing keeps a reference to the
`Wallet` of `get_or_create_wallet`, so the object is gone and the locking SELECT
loads the row as it is. And the flush writes the balance and the ledger entry in
one go, as nothing else awaits between them.

### Checkout

An action is one statement of a handler, the code between two awaits that reach
the database, the gateway or the panel. `sess[t]` remembers what the handler has
read: the order, the config it is about to sell or free (`config`), the ids the
job has selected (`todo`), the coupon count (`uses`), whether the payment was read
as failed (`again`), and the attribute assignments the session still has to
flush (`dirty`). A row that is read into the session and used later is used even if
it has changed meanwhile. The `pc` follows the code:

    create_order              CreateOrder, Reserve
    pay_with_wallet           PayWithWallet, then _on_paid
    pay_gateway / pay_card    RequestGateway / ShowCard, ReceiveReceipt
    approve, reject           ReviewPayment, LoadOrder, then _on_paid or cancel
    verify_and_settle         VerifyPayment, AskGateway, Declined or LoadOrder
    _on_paid                  LoadCoupon, RedeemCoupon, FindSubscription,
                              FindReservation (Reserve), SellConfig or Provision,
                              FindReferral, RewardReferrer
    cancel                    CancelOrder, ReleaseConfig
    expire_stale_orders task  FindExpired, FreeExpired, FindStale, cancel ...
    end of the transaction    FlushAtCommit, Finish, Crash, DomainError

`DomainError` is where bots and API differ: `via = "bot"` goes on to commit.
The constant `Duty` says which operations a transaction slot runs; it is how the
runs choose their actors.

Abstractions: one plan price and one coupon; the three gateways are one that may
or may not confirm a payment a second time (`Reverify`: ZarinPal answers 101,
IDPay another status); the poller is one `VerifyPayment` per transaction; time is
`age[o]` in the two steps that matter (15 and 30 minutes), and it passes only for
orders that await payment, since nothing else reads it. The locks one flush needs
are taken together; a deadlock that comes from taking them one after the other
ends in the abort of a victim, which `Crash` covers. The CHECK constraint on the
balance is left out, so that the service alone has to keep it.

### TopUps

The customer's dialogue `fsm` is one Redis record whose old buttons still work, so
its steps are actions of their own. `gw[p]` is the payment at the gateway (`open`
with an authority, `linked` once the customer has the link, `paid`, `verified`);
it is outside the database and no rollback changes it. `W` is the wallet, as the number of
ledger entries each payment has in it: `WalletLedger` shows that the balance is
their sum. The `pc`:

    charge_receipt            CreateCardTopup, ClearDialogue
    charge_gateway            CreateGatewayTopup, RequestPayment, ShowLink
    approve, reject           Review, LockWallet, Credit or Fail
    payment_callback          Callback, AskGateway, Fail or LockWallet, Credit
    poll_pending              Poll, then NextInBatch, AskGateway, ... until the
                              batch is empty; one Finish for all of them

An order payment in the batch is one action (`SettleOrder`), which either succeeds
or raises an error that is no `PaymentError` and ends the batch. `Confirms` is the
difference between the three adapters. `age[p]` is the poller's window, between
two minutes and a day; `polled[p]` counts the runs that selected the payment, so that
`Tick` does not let a day go by without the runs beat starts in it.

### Subscriptions

A job reads all active subscriptions at its start (`LoadActive`, `seen`), works on
those objects, and writes the changed columns at its end (`dirty`, `FlushColumns`):
that is how two jobs overwrite each other. `Inspect` is one subscription of a
scan, `Claim` the `INSERT ... ON CONFLICT DO NOTHING`, `Send` the message, before
the commit, which Telegram may take, take without an answer, or not take (`Outcome`).
`SetBanned` bans the owner or lets him in again at any time; a job reads that with its
rows, and writes tags and status for a banned owner, too, without a claim. `spared`
remembers which alerts committed scans passed over in that way. `Provision` to `Retire` are the calls of the panel, in the order of
`marzban.py` and `xui.py`, each of which may fail or do nothing. `UseTraffic`,
`SwitchOff` and `AtPanel` are the panel's own doing. Time is counted in units of
at least a day, traffic in the levels that alerts tell apart.

### Access and BackOffice

A handler reads its admin once (`MayEnter`, `Held`), then acts; `late` marks one
that was past the check when the operator changed the account with SQL, the only
way the code knows. `held[a]` are the refresh tokens that reached the client,
which may send any of them again; an answer may be lost after the commit. `Issue`
and `Rotate` are the two writes of a refresh. `dialogue` is the FSM of the admin bot, whose last step does not ask
`guards.ensure` again. `Contact` is the middleware and the handler's read of the
user, `InsertUser` the user and its wallet in one flush, `Refer` and
`EnsureReferral` `/start` with a code. `Changed` is what makes two ticket writers
interesting: SQLAlchemy writes an attribute only if its value differs from the one
read. `SetStatus` takes every status from the API and "closed" from the bot; `last` is who
has had the last word, which staff that sets a ticket to answered by hand has. `Publish` commits a broadcast, `Enqueue` gives it to Celery; `Dispatch` keeps the
task in `queue` until `FinishDispatch`, so a crash redelivers it.

## Runs

| run | instance | shows |
|---|---|---|
| `wallet_ledger` | 2 transactions of up to 2 calls, 2 users, amounts -1, 0, 1 | `TypeOK`, `LedgerReconciles`, refinement of `Ledger` (`ImplementsLedger`), `EveryCallEnds` |
| `checkout_serial` | 1 transaction at a time, every operation, 2 orders, 1 config | `SoldOnce`, `SoldIsDelivered`, `PaymentMatchesDelivery`, `PromotionsCounted`, `DeliveredIsFinal` |
| `checkout_races` | 2 transactions, every operation each, 1 order, 2 configs | `TypeOK`, `MoneyConserved`, `DeliveredHasSubscription`, `ReservationBacked`, `WalletOrderSettled`, `RewardRecorded` |
| `checkout_buyers` | 2 buyers, the job, 3 orders, 2 configs, 2 customers | `SoldOnce`, `MoneyConserved`, liveness `OverdueIsCleared` |
| `sold_twice` | a reviewer and the job | `SoldOnce` is violated |
| `delivered_twice` | two reviewers | `OneSubscriptionPerOrder` is violated |
| `charged_only` | one buyer | `ChargedIsFulfilled` is violated |
| `top_ups` | 2 payments, 1 transfer, 1 crash, 5 deployments: by card; ZarinPal; NextPay with an order that cannot be delivered; charging next to the poller; poller and callbacks overlapping at IDPay | `TypeOK`, `CreditedOnce`, `CreditedIsApproved`, `CreditIsBacked`, `OnePaymentPerTransfer`, liveness `PaidIsCredited` |
| `credited_twice` | the poller and a callback, at ZarinPal | `CreditedOnce` is violated |
| `subscriptions` | 2 subscriptions, 1 crash, 10 deployments | `TypeOK`, `AlertedOnce`, `ExpiredIsTold`, `ExpiredHasRunOut`, `PanelHonours`, `StepsInOrder`, liveness `ExpiryIsNoticed` |
| `back_office` | 2 admins, 3 tokens, 3 users, 1 ticket, 1 broadcast, 1 crash, 8 deployments | `TypeOK`, `ExchangedIsRevoked`, `OneSessionPerLogin`, `DismissedIsOut`, `ActsAreAllowed`, `ReferralAgrees`, `UserReplyNeedsStaff`, `SentIsReceived`, liveness `BroadcastGoesOut` |
| `reply_unanswered` | a customer and a member of staff reply at once | `UserReplyNeedsStaff` is violated |

Two transactions are enough for the races because every row lock and every stale
read involves a pair; two users are needed because a lock cycle needs two wallets
and a reward another owner; one config makes the second order compete for the
first one's stock, two let a delivery replace a lost reservation. `MaxLog`,
`MaxCalls`, `Copy`, `Order` and `age` are the bounds on what would grow.
`RedeemCoupon` stops at two redemptions of one order (`Copy`), and a referral that
would be rewarded three times cannot arise with two transactions on one order.

`TopUps`, `Subscriptions` and `BackOffice` have a constant `Setup`, the set of
deployments a run looks at; Init chooses one. A deployment says which operations
each transaction slot runs (`duty`), what there is at the start, which gateway or
panel is configured, and what the world may do. That keeps one run to the
combinations that meet: two handlers that share rows, or all handlers of a topic
one after another. Two payments are a batch in which one can spoil the other;
three tokens are a login, an exchange and a second one, overlapping or not; three
users are a customer, the referrer and another referrer; the plans of 2 and 4
days begin between two alert steps and before all. `RunsPerDay` is a lower
bound, not a cap: a payment does not leave the poller's window before that many runs
selected it. Beat makes it 288, the instance 2, one more than `MaxCrashes`, so that one
run lives to its commit. `MaxTransfers`, `MaxCrashes`,
`last`, `topups`, `tokens`, `users` and `fresh` bound what would grow.

`CHECK_DEADLOCK FALSE` is set where a run ends: when the orders, tokens or
payments of the instance are used up, time has stopped at its bound and nobody
has to do anything more. That handlers do not block each other for good is what
the liveness properties show.

**Serial and concurrent.** The properties of `checkout_serial` hold when handlers
do not overlap, including refused handlers that commit, crashes, late callbacks
and expiry. Some of them fail when handlers overlap, and the violation runs say
which and how. The properties of `checkout_races` survive every overlap of two.

**Disagreements with the documents.** (1) The job selects expired reservations
without a lock and then overwrites the rows; a config that was sold in between is
sold again, against docs/DATABASE.md. (2) `approve` and `verify_and_settle`
check the payment and `deliver` checks the subscription by plain SELECTs, so two
settlements deliver twice, against "Idempotent per order". (3) A panel that fails
after the debit leaves the customer charged without a subscription, because the
bot handler swallows the error and the middleware commits. (4) `verify_and_settle`
does not look at the payment again once it has the wallet's lock, so a callback and
the poller credit one top-up twice where the gateway confirms twice, against
"Idempotent". (5) A customer's reply that overlaps one of the staff leaves the
ticket answered with the customer's message last, against "User reply → pending".

**Observations the properties are stated around.**

- `PaidIsCredited` says in the end credited, or decided by an admin, and nothing less,
  of a top-up at ZarinPal that is paid while no handler has been told that it is not. Its
  premises leave out three ways in which paid money does not reach the wallet by the
  poller, all of which TLC finds if they are dropped. IDPay and NextPay confirm a payment
  once: when the poller dies before its commit, the next run marks the payment failed. A
  payment that the customer makes after the poller's first look, two minutes after its
  creation, has been marked failed and is not looked at again. One order that
  cannot be delivered rolls back the whole batch, at every run until it is a day old,
  and a top-up in the same batch ages out of the window with it.
- `CreditedIsApproved` has no exception for a gateway. Its premise, `OneAtAPayment`, is
  that no two handlers work on one payment at a time. Without it the property is false
  where the poller and a callback overlap at a gateway that confirms once: the one that
  is refused the confirmation then writes failed over approved. The instance has that
  overlap, so TLC also sees behaviours of which the property says nothing, and others in
  which the two handlers take different payments or take turns.
- With two approvals at once, one referred customer's two orders reward the referrer twice;
  and the job that overlaps an approval may write expired over delivered. `PromotionsCounted`
  and `DeliveredIsFinal` are checked where handlers do not overlap.
- What is paid with a link that was shown before a crash undid the row is in no
  table, and nothing finds it.
- Who is banned when a scan comes to his subscription is not told, and not later
  either: tag and status are written all the same. `ExpiredIsTold` and `StepsInOrder`
  except just those alerts (`spared`), and not the customer: whoever was not banned
  at the scan has the message. A message that Telegram does not take is not tried again,
  although its tag and its claim are there: of those the properties ask no more.
- The panel's sync sets `disabled` on an account the panel has switched off; the
  expiry and usage scans look at active subscriptions only, so such a customer never
  gets the last alert. A subscription seen late is told "7 days left" first.
- A renewal that dies after the panel's answer has extended the account for nothing;
  `PanelHonours` therefore bounds the account's expiry from below. The old renewal
  button makes two active subscriptions on one account.
- The API sets a ticket with an unread customer's message to "answered" if it is told to;
  `UserReplyNeedsStaff` counts that as the staff's last word.
- `UserReplyNeedsStaff`, `ReferralAgrees` and `OneSessionPerLogin` hold where the
  handlers of a ticket, a user or a token do not overlap;
  two refreshes of one token leave two live tokens, of which one replaces the old.
- Any user without a referrer gets one by opening a link later, so referrers
  may form a cycle.
- A broadcast that was committed and not enqueued is queued for ever. A worker
  that takes longer than Celery's visibility timeout is not modelled.
- The dashboard refreshes on 401, and the API answers a missing permission with 403.

**Fairness.** `WalletLedger`: a statement that was answered goes on (weak); a lock
that becomes free again and again is got (strong: the lock queue is first come,
first served); the deadlock detector works. `Checkout`: strong fairness of
every handler for the same reason, and of the job's commit; the job is killed
before its commit only finitely often, as beat starts it every 15 minutes. The
other modules: strong fairness of `Continue(t)`, a handler under way, and of what
the scheduler starts: `Poll` and the expiry job by beat, `Dispatch` by Celery, which
delivers a task again until it is acknowledged (`acks_late`). `TopUps` adds that two
minutes go by, but not that a day does; and a day has `RunsPerDay` runs of the poller
where it runs at all, which is beat's schedule and not fairness. Crashes are bounded, which says that a
process is not killed at every attempt. Nothing is assumed of customers, admins,
gateways or panels.

## Proofs

`WalletLedgerProofs` proves, for every set of transactions and users and every set
of integer amounts, with no bound on calls or on ledgers (`MaxLog` and `MaxCalls`
only disable `Call`):

- `BooksAreKept`: the inductive invariant `Inv`.
- `TypeCorrect`, `WalletsReconcile`: `[]TypeOK` and `[]LedgerReconciles`.
- `LedgerIsImplemented`: `Spec => L!Spec`.

`LedgerReconciles` speaks of committed rows only and is not inductive. `Inv` adds
that row locks are exclusive (`RowStoreProofs`), that every *uncommitted* row
reconciles and continues the statement of the committed one (`Pending`), and that
a session past `Lock` holds the row with the balance it has seen (`Locked`): so
`Apply` appends an entry that continues the line before it. The proof has one step
per action; `RowStoreProofs` states once what `Write`, `Commit` and `Rollback` do
to locks. The refinement follows from `Inv` on both sides of a step: `Finish`
posts, everything else stutters. Assumptions: `User` is not empty, `Amount` is a
set of integers.

`TopUpsProofs` proves, for every set of payments, transactions and deployments, and
any number of crashes and transfers:

- `TopUpsInv`: the inductive invariant `Inv`.
- `TypeCorrect`, `MoneyIsBacked`: `[]TypeOK` and `[]CreditIsBacked`.
- `NoTopUpTwice`: `Spec /\ []OneAtAPayment` implies `[]CreditedOnce`.
- `CreditStaysApproved`: `Spec` implies `CreditedIsApproved`, which is
  `[]OneAtAPayment => []CreditedStays`.
- `ReceiptsAreTransfers`: `Spec /\ []OneReceipt` implies `[]OnePaymentPerTransfer`.

`CreditIsBacked` speaks of committed rows; a transaction's own rows become committed
in one step, over rows that another has committed since. `Inv` says the same of
what every transaction *sees* (`Sound(Visible(t))`), and that it never sees less
money or fewer reviews than are committed (`Keeps`): lemma `Merge` shows that these
two survive the commit of another transaction, because row locks are exclusive.
`Knows` says what a handler may rely on at each statement: the payment it works on
exists, a new payment's row is its own until it commits (so nobody else moves it at
the gateway), and who is about to credit has the gateway's confirmation or is the
admin. There is one lemma per kind of step. Assumptions: a deployment's fields fit
together (`PaymentAssumption`).

The last three need a premise, which `CreditedIsApproved` carries itself. Handlers read a payment's status
without a lock, so two of them may credit it, which `credited_twice` shows. The premise
`OneAtAPayment` excludes just that: no two transactions have loaded or written the
same payment. With it `CreditedStays` holds at every gateway; without it,
a poller and a callback that overlap at IDPay break it. Handlers of different
payments overlap as they like, in the same wallet, and may crash; the poller works on its whole batch from the read on. What is proved is what a
lock on the payment would give. `OnceInv` says of the rows each transaction sees that what
is credited is credited once and approved (`OnceOf`), and that the payments the
transaction has not yet decided about are not approved: that is the status
its plain read returned, and nobody else works on them. `OneReceipt` says that one
receipt is handled at a time. `CardInv` counts the card payments, committed or not,
plus the one a dialogue that is still open can make: no more than transfers. A handler
clears the dialogue before it commits the row: a crash may lose a payment, and never
leaves both the payment and a dialogue that makes a second one.

`CheckoutProofs` proves, for every set of users, orders, configs and transactions,
every `Duty`, price, reward and gateway, with any number of overlapping handlers and
crashes:

- `Invariance`: the inductive invariant `Inv`.
- `TypeCorrect`, `DeliveredIsWhole`, `WalletOrderIsSettled`, `RewardIsRecorded`:
  `TypeOK`, `DeliveredHasSubscription`, `WalletOrderSettled`, `RewardRecorded`.
- `MoneyIsConserved`: `[]MoneyConserved`, with an invariant beside `Inv`.

The three properties of the second line speak of committed rows of several tables, which are written
by different statements of one transaction and over which other transactions
commit in between. `Inv` therefore says of the committed rows that they fit
together (`StoreOk`), and of the rows of each transaction that they fit together
with the committed ones *and* leave alone what must not change any more (`TxOk`): a
committed payment keeps its method, an order paid by wallet is written by nobody
but the transaction that creates it, a referral is written together with its reward. These
are what make two commits that overlap compose (`MergeOrder`, `MergeUser`): without
them a settlement that read an unpaid order could overwrite a paid one. `Aware` says
what a handler knows at each statement: which statements its operation runs, that a
buyer's order is its own, that a reviewer's order is committed and not paid by
wallet. `Fresh` says that the sequence hands out an id once. What waits for the next flush is
covered by `UnflushedOk`; there is one lemma per kind of step, and one per action.

Money: a sum over all wallets is awkward to carry through a step; the invariant says more, wallet
by wallet. `Booked`: a committed balance, and what its user's wallet orders cost,
is what was there at the start plus the user's rewards. `Moved`: a transaction's
view of a wallet is the committed one plus what it gained minus what it `Spent`, and
it holds the row's lock if either is not 0, so `Booked` survives its commit. `Charged`
counts a wallet payment from the debit on, although the payment row is flushed later.

`CheckoutSalesProofs` extends it, with an invariant of its own for each of:

- `StockIsBacked`: `[]ReservationBacked`.
- `ConfigSoldOnce`, `SoldMeansDelivered`, `DeliveryIsPaidFor`, `DeliveryIsFinal`:
  `Spec /\ []OneAtAnOrder` implies `[]SoldOnce`, `[]SoldIsDelivered`,
  `[]PaymentMatchesDelivery` and `DeliveredIsFinal`.
- `PromotionsAreCounted`: `Spec /\ []OneAtAPromotion` implies `[]PromotionsCounted`.

Stock: `ReservationBacked` is not inductive, because a handler that settles an order marks
it paid three statements (`find`, `stock`, `sell`) before it sells the config held for it.
`StockInv` says of the committed rows that a config is held only for a manual order that
awaits payment, one for each, and that none is held once there is a subscription
(`Backed`); and of every session that it sees the same of all orders but its own while it
is at these three (`Sees`). There a weaker form holds (`HeldOk`), and before
`sell` the config held is the one the session has picked. A session that wrote a
config as held creates its order as well, or is about to sell it (`Holds`), and inserts a
subscription only with its order (`Delivers`): so the commit of another session in
between cannot put a held config beside an order paid or cancelled meanwhile, because that
session would hold the lock on the order's row. TLC checked `StockInv` on three
instances before it was proved.

Sales: `SoldOnce` and its companions are no theorems of `Spec` alone: two handlers that
read one order before either commits deliver it twice (`sold_twice`,
`delivered_twice`). `OneAtAnOrder` excludes only that: no two sessions have the same
order loaded, in what they have written, or as the order that holds a config they
write or are about to free. It is what locking the order before reading it would give.
Buyers, reviews, callbacks and jobs of different orders overlap on the same stock,
wallets, coupon and referrals, and may crash; that they cannot sell one
config twice is what `FOR UPDATE SKIP LOCKED`, the status a config is taken by and the
order of the statements must ensure. In `SoldInv`, `Settled` says of the rows every transaction would leave if
it committed now that what is delivered is paid for, what is not has no subscription,
and a config is sold exactly when it is in one subscription; `Writes`, that a
transaction changes no delivered order and adds a subscription only with the config it
sold; `Knows`, that a session past its first read has an undelivered order in hand,
paid for when it delivers. A commit then keeps every other session's `Settled`, since
the two have no order and no config in common. TLC checked `SoldInv`, of
the behaviours with the premise, on the instances of `checkout_races`,
`checkout_buyers` and `checkout_serial` and one more before it was proved.

Promotions: redeem reads the coupon's counter, and on_qualifying_purchase the referral,
plainly, and writes what was read plus one, or "rewarded". `OneAtAPromotion`: no two
sessions are between such a read and their commit, of the counter or of the
same referral. It does not ask that they work on different orders. `PromoInv` says
that the committed counter is the number of committed redemptions and that a referral with a reward is
rewarded and has one (`Counted`); and of a session that it has added at most one redemption with
its count, and that what it is about to write is still true of the committed rows
(`Promoted`). TLC checked `PromoInv` with two overlapping workers before it was proved.

Assumptions of both modules: ids are natural numbers and `None` is none of them
(`IdAssumption`); `Copy` is finite; a customer is a user and an offer is a mode
and a coupon (`OfferAssumption`); the price is at least the discount; balances at
the start are natural numbers. `Copy` bounds the rows per order or user of the tables
without a unique key; a statement that would insert one more is disabled (`Room`). The
theorems hold for every finite `Copy`; what the runs' two rows cut off is said under Runs.

`BackOfficeProofs` proves, for every set of admins, tokens, users, tickets,
broadcasts and transactions, every deployment, and any number of crashes:

- `Invariance`: the inductive invariant `Inv`.
- `TypeCorrect`, `ExchangedStaysRevoked`, `DismissedAreOut`, `ActsStayAllowed`:
  `TypeOK`, `ExchangedIsRevoked`, `DismissedIsOut`, `ActsAreAllowed`.

A refresh reads a token, writes its successor, then revokes and links the old one; a
logout that read the same token may commit in between, and the other way round.
`ExchangedIsRevoked` follows from `TokenOk`: a token that is linked is revoked, and
linked to a token it was exchanged for; one that was exchanged is linked.
That survives any overlap only because no transaction takes back a link it
found (`KeepsLinks`: revoking changes one column). `Aware` ties what a handler has read of its
admin to the row as it is *now*, or to `late`, for every statement before its first
write; the operator's SQL (`Dismiss`, `Demote`) sets `late` in every session of the admin.

`BackOfficeWorkProofs` extends it, with an invariant beside `Inv` for each:

- `SentWasReceived`: `[]SentIsReceived`. `CopyOk` bounds the copies of a broadcast by the
  crashes, and by one less while it waits in the queue with no worker; `DispatchOk` bounds
  them for those the worker has still to send to, and its count by those who have
  one. A broadcast that is committed was received by nobody until it is enqueued, once
  (`EnqueueOk`); two workers never have the same one (`OneWorker`, from the row lock).
- `RepliesReachStaff`: `[]UserReplyNeedsStaff`, of the behaviours with `[]OneAtATicket`: no
  handler reads a ticket while another is between its read of it and its commit.
  Then what was read is what the database holds, and `Changed` writes what is meant.
- `ReferralsAgree`: `[]ReferralAgrees`, of the behaviours with `[]OneStart`: no two
  handlers of `/start` of one user at a time. Bans, tickets, other users' links,
  crashes and every other handler may overlap it.

- `LoginsHaveOneToken`: `[]OneSessionPerLogin`. The property speaks of refreshes that do not
  overlap: those of deployments with one slot for them (`OneRefresher`). `Root` is defined by
  recursion over the exchanges, so what is shown of it is shown of every solution
  of its equation (`Leads`), and that there is one is carried along the behaviour: a new
  token is nobody's parent, so an exchange extends a solution by one value. `Exchanges` says
  what a session has yet to commit: it revokes the tokens it writes and adds at most
  those that replace the one it has read. `Single` says that this one is, until
  then, the only live token of its login. TLC found no violation of `LoginInv` in three
  million states of five deployments.

The premises of `RepliesReachStaff` and `ReferralsAgree` say of the handlers of *one* ticket, or of *one* user, that they
come one after another; nothing in the code makes them. Without the first,
`reply_unanswered` violates the property. Without the second, a user who opens two links at
once ends up with the referrer of the second and the referral of the first:
both handlers pass the check of `referred_by_id` before either has locked the row, and
`ensure_referral` keeps the referral it finds.

Assumptions: users are finitely many (they are counted), and so are transactions in
progress (`PoolAssumption`: the pool of `db/session.py` has a size); `Null` is no user, admin
or token, and a deployment's fields fit together.

`SubscriptionsProofs` proves, for every set of subscriptions, transactions and
deployments, and any number of crashes:

- `Invariance`: the inductive invariant `Inv`.
- `TypeCorrect`, `StepsComeInOrder`, `ExpiryIsTold`: `[]TypeOK`, `[]StepsInOrder` and
  `[]ExpiredIsTold`, with no premise.
- `SubscriptionAlertsOnce`: an alert of a subscription is delivered once, and once
  more per crash at most. `AlertsOnce`: `[]AlertedOnce`, which is the same with the
  daily alert of the low stock, under `OneStock`.
- `ExpiryComesInTime`: `[]ExpiredHasRunOut`, of the behaviours with `[]Calm`.
- `PanelHonoursSales`: `[]PanelHonours`, of the behaviours in which no two purchases work on
  one account (`[]RenewalsApart`) and the panel's admin extends none that a purchase is
  working on (`[][AdminApart]_vars`); he may remove it.

A job works on rows it read at its start and overwrites the tags another job has
committed since, so that nothing can be proved from the tags that are *there*. But what
was claimed in `notifications`, or spared for a ban, is never taken back, and `Inv` is about
that: a tag or a status `expired` that is in a committed row, in a transaction's row, in a row a
job has read, or in the columns it has assigned, has its claim there or was spared
(`RowTold`), is the one the session claims in its next statement (`ColumnsTold`,
`Due`), or one it has itself passed over. `scan_expiring` takes the
first step not in the tags, so the one before it has been claimed (`Alerting`). What is
asked of the committed rows only grows (`Grow`), so that other sessions' commits do
no harm. `OnceInv` bounds the messages by the crashes while the claim is not there;
`DeliveredInv` says that, where Telegram does not fail, a committed claim has its message,
and an uncommitted one too, or the session sends it next;
`TimeInv` says that the row that is marked still has the time the job read (only a sync
moves it, which is why `Calm` is needed), and that a purchase's id is its own.

The premises: `OneStock`, that one session at a time looks at the stock: two that
overlap both tell the admins, since the day is written after the message.
`Calm`, that no sync overlaps an expiry job: TLC finds that the sync may read the
later time the panel's admin gave the account, and write it over a row just marked
expired, which then is expired and has time left. `ExpiryComesInTime` says nothing of such
behaviours; `ExpiryIsTold` does not need `Calm`.

`HonourInv` is about the time a row and its account end. Every row, committed or
not, and every time a sync has read and not yet written, ends no later than its account on
the panel (`Lasts`, `Granted`), and accounts never end earlier than they did (`Grows`): an
account ends no later than `now + duration`, and a purchase that has not yet told the
panel finds it ending no later than what it is about to give (`Extending`). That is the
step for which `RenewalsApart` and `AdminApart` are needed: whoever started first and
calls last shortens the account again. TLC finds that with two overlapping renewals, and
with a renewal and the admin; it found no violation of `HonourInv` in seven million states
of five deployments in which neither happens. Rows keep their account through every
commit (`Provided`), since an id is bought once at a time (`OwnIds`).

The assumptions are those of `SubAssumption`: a deployment's fields have their types.

Only model-checked are the liveness properties, which are out of the prover's reach. Every
invariant and every action property of a passing run is stated by a theorem.

The theorems that have a premise (`OneAtAPayment`, `OneReceipt`, `OneAtAnOrder`,
`OneAtAPromotion`, `OneAtATicket`, `OneStart`, `OneRefresher`, `OneStock`, `Calm`, `RenewalsApart`,
`AdminApart`) say nothing of behaviours without
it, in which the properties can fail; the code ensures none of these premises.

## Plan

1. `Promotions`: coupon limits with several open orders, a settlement repeated after
   a swallowed error, discount arithmetic against a reference.
2. The refinement of an abstract payment (pending, then settled or failed) by
   `TopUps` one handler at a time.

## Not modelled

Texts, keyboards and lists; CRUD routes and forms of plans, settings, coupons and
panels (single rows, no protocol between them); statistics and the audit log (reads
and appends); the dashboard (a client); deployment and schema migrations; HTTP
payloads and amounts of gateways and panels; the size of the connection pool;
`add_config` and `bulk_add`, which only add stock; set-password, which changes a
hash nothing here tells apart (and revokes no token).
