------------------------------- MODULE TopUps -------------------------------
(***************************************************************************)
(* Wallet top-ups: the charge dialogue of the customer bot, the payments of *)
(* payment_service it creates, their review by an admin, the gateway's      *)
(* callback, and the poller, which verifies a batch of payments in one      *)
(* transaction.                                                             *)
(*                                                                          *)
(* An action is one statement of a handler, as in Checkout.  The payment    *)
(* object a session has loaded is not read again: sess[t].p and             *)
(* sess[t].todo are objects whose status was pending when they were read.   *)
(***************************************************************************)
EXTENDS RowStore, Naturals, FiniteSets

CONSTANTS Payment,        \* ids 1..n
          Setup,          \* deployments: what runs, and settings (see SetupType)
          MaxTransfers,   \* bound on card transfers
          MaxCrashes,     \* bound on crashes
          RunsPerDay,     \* runs of the poller a day has at the least
          Null            \* no payment

\* duty: the operations of each transaction slot; provider:
\* settings.payment_provider; card: is there an active payment card; linked:
\* gateway payments that await the customer at the start; orders: those of them
\* that are for an order; undeliverable: those whose delivery raises an error;
\* topups: bound on new top-ups.
SetupType == [duty : [Tx -> SUBSET {"receipt", "charge", "approve", "reject", "callback", "poll"}],
              provider : {"zarinpal", "idpay", "nextpay"}, card : BOOLEAN,
              linked : SUBSET Payment, orders : SUBSET Payment,
              undeliverable : SUBSET Payment, topups : SUBSET Payment]

ASSUME PaymentAssumption ==
    /\ Setup \subseteq SetupType
    /\ \A s \in Setup : /\ s.undeliverable \subseteq s.orders /\ s.orders \subseteq s.linked
                        /\ s.linked \cap s.topups = {}
    /\ Null \notin Payment
    /\ MaxTransfers \in Nat /\ RunsPerDay \in Nat

VARIABLES setup,        \* the deployment, chosen at the start
          sess,         \* sess[t]: the handler running in transaction t
          issued,       \* payments created so far
          age,          \* age[p]: 0 new, 1 older than two minutes, 2 older than a day
          gw,           \* gw[p]: the payment at the gateway
          fsm,          \* the customer's dialogue
          transfers,    \* card transfers the customer has been asked to make
          polled,       \* polled[p]: runs of the poller that selected p, up to RunsPerDay
          crashes       \* handlers killed so far

outside == <<issued, age, gw, fsm, transfers>>
rest == <<setup, polled, crashes>>
vars == <<db, ws, setup, sess, issued, age, gw, fsm, transfers, polled, crashes>>
-----------------------------------------------------------------------------
P(p) == <<"payment", p>>

\* The wallet, as the number of ledger entries each payment has in it.
W == <<"wallet">>

Idle == [op |-> "none", pc |-> "idle", p |-> Null, todo |-> {}]

NoDialogue == [step |-> "none", amount |-> 0]

GatewayRow == [method |-> "gateway", purpose |-> "topup", status |-> "pending",
               authority |-> FALSE, reviewed |-> FALSE]
LinkedRow(p) == [GatewayRow EXCEPT !.purpose = IF p \in setup.orders THEN "order" ELSE "topup",
                                   !.authority = TRUE]
CardRow == [method |-> "card", purpose |-> "topup", status |-> "pending",
            authority |-> FALSE, reviewed |-> FALSE]

Init ==
    /\ setup \in Setup
    /\ db = Over([r \in {P(p) : p \in setup.linked} |-> LinkedRow(r[2])],
                 Is(W, [p \in Payment |-> 0]))
    /\ ws = [t \in Tx |-> NoRows]
    /\ sess = [t \in Tx |-> Idle]
    /\ issued = setup.linked
    /\ age = [p \in Payment |-> 0]
    /\ gw = [p \in Payment |-> IF p \in setup.linked THEN "linked" ELSE "none"]
    /\ fsm = NoDialogue
    /\ transfers = 0
    /\ polled = [p \in Payment |-> 0]
    /\ crashes = 0
-----------------------------------------------------------------------------
At(t, pc) == sess[t].pc = pc

Goto(t, pc) == sess' = [sess EXCEPT ![t].pc = pc]

Begin(t, op) == At(t, "idle") /\ op \in setup.duty[t]

Start(t, op, p, pc) == sess' = [sess EXCEPT ![t] = [Idle EXCEPT !.op = op, !.p = p, !.pc = pc]]

Close(t) == sess' = [sess EXCEPT ![t] = Idle]

Pay(t) == Row(t, P(sess[t].p))

\* A new status for the session's payment.
Becomes(t, status) == Is(P(sess[t].p), [Pay(t) EXCEPT !.status = status])

Finish(t) ==
    /\ At(t, "commit")
    /\ Commit(t)
    /\ Close(t)
    /\ UNCHANGED <<rest, outside>>

\* An unexpected error, a lost connection, a killed process.
Crash(t) ==
    /\ ~At(t, "idle")
    /\ crashes < MaxCrashes
    /\ crashes' = crashes + 1
    /\ Rollback(t)
    /\ Close(t)
    /\ UNCHANGED <<outside, setup, polled>>
-----------------------------------------------------------------------------
\* The dialogue.  Its buttons stay in the chat, so charge_card and
\* charge_gateway may be pressed at any step.

\* charge_start, charge_amount: no, an invalid, or a valid amount, where a method
\* of payment is enabled.
ChargeAmount ==
    /\ setup.topups \ issued # {}
    /\ \/ fsm' = [fsm EXCEPT !.step = "amount"]
       \/ fsm.step = "amount" /\ fsm' = [fsm EXCEPT !.amount = 1]
    /\ UNCHANGED <<store, rest, sess, issued, age, gw, transfers>>

\* charge_card: no active card, or it shows one and the customer transfers the
\* amount.
ChargeCard ==
    /\ setup.card
    /\ fsm' = [fsm EXCEPT !.step = "tracking"]
    /\ transfers < MaxTransfers
    /\ transfers' = transfers + 1
    /\ UNCHANGED <<store, rest, sess, issued, age, gw>>

ChargeTracking ==
    /\ fsm.step = "tracking"
    /\ fsm' = [fsm EXCEPT !.step = "receipt"]
    /\ UNCHANGED <<store, rest, sess, issued, age, gw, transfers>>

\* charge_receipt: the pending payment.  An amount of 0 is a ValidationError,
\* which leaves everything as it was.
CreateCardTopup(t, p) ==
    /\ Begin(t, "receipt")
    /\ fsm.step = "receipt" /\ fsm.amount > 0
    /\ p \in setup.topups \ issued
    /\ issued' = issued \cup {p}
    /\ Write(t, Is(P(p), CardRow))
    /\ Start(t, "receipt", p, "clear")
    /\ UNCHANGED <<rest, age, gw, fsm, transfers>>

\* Mutant of ClearDialogue: the dialogue is left open.
KeepDialogue(t) ==
    /\ At(t, "clear")
    /\ Goto(t, "commit")
    /\ UNCHANGED <<store, rest, issued, age, gw, transfers, fsm>>

\* state.clear(), before the middleware commits.
ClearDialogue(t) ==
    /\ At(t, "clear")
    /\ fsm' = NoDialogue
    /\ Goto(t, "commit")
    /\ UNCHANGED <<store, rest, issued, age, gw, transfers>>

\* create_gateway_topup up to the first flush.
CreateGatewayTopup(t, p) ==
    /\ Begin(t, "charge")
    /\ fsm.amount > 0
    /\ p \in setup.topups \ issued
    /\ issued' = issued \cup {p}
    /\ Write(t, Is(P(p), GatewayRow))
    /\ Start(t, "charge", p, "request")
    /\ UNCHANGED <<rest, age, gw, fsm, transfers>>

\* gateway.request: an authority, or a PaymentError, which the handler answers;
\* the middleware then commits a payment without an authority.
RequestPayment(t) ==
    /\ At(t, "request")
    /\ \/ gw' = [gw EXCEPT ![sess[t].p] = "open"] /\ Goto(t, "authority")
       \/ gw' = gw /\ Goto(t, "commit")
    /\ UNCHANGED <<store, rest, issued, age, fsm, transfers>>

\* The authority is stored, the dialogue closed and the link shown.
ShowLink(t) ==
    /\ At(t, "authority")
    /\ Write(t, Is(P(sess[t].p), [Pay(t) EXCEPT !.authority = TRUE]))
    /\ gw' = [gw EXCEPT ![sess[t].p] = "linked"]
    /\ fsm' = NoDialogue
    /\ Goto(t, "commit")
    /\ UNCHANGED <<rest, issued, age, transfers>>

\* The customer pays.
PayAtGateway(p) ==
    /\ gw[p] = "linked"
    /\ gw' = [gw EXCEPT ![p] = "paid"]
    /\ UNCHANGED <<store, rest, sess, issued, age, fsm, transfers>>

\* The rows poll_pending selects.
Polls(row) == row.method = "gateway" /\ row.status = "pending" /\ row.authority

\* Time passes.  Where the poller runs, it does so every five minutes: no day goes
\* by without RunsPerDay runs that select what they can.
Tick(p) ==
    /\ gw[p] # "none" /\ age[p] < 2
    /\ \/ age[p] = 0
       \/ "poll" \notin UNION {setup.duty[t] : t \in Tx}
       \/ P(p) \in DOMAIN db /\ Polls(db[P(p)]) => polled[p] >= RunsPerDay
    /\ age' = [age EXCEPT ![p] = @ + 1]
    /\ UNCHANGED <<store, rest, sess, issued, gw, fsm, transfers>>
-----------------------------------------------------------------------------
\* Mutant of Reviewable: the status is not checked.
ReviewableAgain(t, p) == Exists(t, P(p))

Reviewable(t, p) == Exists(t, P(p)) /\ Row(t, P(p)).status = "pending"

\* approve and reject of a top-up, whatever its method; Checkout has those of
\* an order payment.
Review(t, p) ==
    /\ p \notin setup.orders
    /\ Reviewable(t, p)
    /\ \/ Begin(t, "approve") /\ Start(t, "approve", p, "lock")
       \/ Begin(t, "reject") /\ Start(t, "reject", p, "fail")
    /\ UNCHANGED <<store, rest, outside>>

\* payment_callback with a good status: verify_and_settle up to the gateway.
Callback(t, p) ==
    /\ Begin(t, "callback")
    /\ Exists(t, P(p)) /\ Row(t, P(p)).authority
    /\ Row(t, P(p)).status # "approved"
    /\ Start(t, "callback", p, "ask")
    /\ UNCHANGED <<store, rest, outside>>

\* Mutant of Pollable: the poller forgets payments that were not just created.
PollableOnce(t, p) == Exists(t, P(p)) /\ age[p] = 1 /\ ~Row(t, P(p)).authority

\* What poll_pending selects.
Pollable(t, p) == Exists(t, P(p)) /\ age[p] = 1 /\ Polls(Row(t, P(p)))

Poll(t) ==
    LET batch == {p \in Payment : Pollable(t, p)}
    IN /\ Begin(t, "poll")
       /\ batch # {}
       /\ sess' = [sess EXCEPT ![t] = [Idle EXCEPT !.op = "poll", !.pc = "next", !.todo = batch]]
       /\ polled' = [p \in Payment |->
                        IF p \in batch /\ polled[p] < RunsPerDay THEN polled[p] + 1 ELSE polled[p]]
       /\ UNCHANGED <<store, setup, crashes, outside>>

\* The next payment of the batch, in no particular order; one transaction for
\* all of them.  Other handlers have only the one.
NextInBatch(t) ==
    /\ At(t, "next")
    /\ \/ sess[t].todo = {} /\ Goto(t, "commit")
       \/ \E p \in sess[t].todo :
             sess' = [sess EXCEPT ![t].p = p, ![t].pc = "ask", ![t].todo = @ \ {p}]
    /\ UNCHANGED <<store, rest, outside>>

\* Mutant of Confirms: an unpaid payment passes.
ConfirmsAnything(provider, state) == TRUE

\* The status each adapter takes for success: ZarinPal's 100 (paid now) and 101
\* (already verified), IDPay's 100, NextPay's 0.
Confirms(provider, state) ==
    \/ state = "paid"
    \/ state = "verified" /\ provider = "zarinpal"

\* gateway.verify.  Errors of the connection are Crash.
AskGateway(t) ==
    LET p == sess[t].p
    IN /\ At(t, "ask")
       /\ Goto(t, CASE ~Confirms(setup.provider, gw[p]) -> "fail"
                    [] p \in setup.orders -> "settle"
                    [] OTHER -> "lock")
       /\ gw' = [gw EXCEPT ![p] = IF @ = "paid" THEN "verified" ELSE @]
       /\ UNCHANGED <<store, rest, issued, age, fsm, transfers>>

\* The payment failed, or the admin rejected it.
Fail(t) ==
    /\ At(t, "fail")
    /\ Write(t, IF sess[t].op = "reject"
                THEN Is(P(sess[t].p), [Pay(t) EXCEPT !.status = "rejected", !.reviewed = TRUE])
                ELSE Becomes(t, "failed"))
    /\ Goto(t, "next")
    /\ UNCHANGED <<rest, outside>>

\* settle_paid_order, which Checkout details.  Its OutOfStockError is a
\* DomainError and no PaymentError, so it ends the whole batch.
SettleOrder(t) ==
    /\ At(t, "settle")
    /\ IF sess[t].p \in setup.undeliverable
       THEN Rollback(t) /\ Close(t)
       ELSE Write(t, Becomes(t, "approved")) /\ Goto(t, "next")
    /\ UNCHANGED <<rest, outside>>

\* Mutant of LockWallet: the wallet is read without a lock.
ReadWallet(t) ==
    /\ At(t, "lock")
    /\ Goto(t, "credit")
    /\ UNCHANGED <<store, rest, outside>>

\* wallet.credit: _locked_wallet, then balance, ledger entry and the payment's
\* status in one flush.
LockWallet(t) ==
    /\ At(t, "lock")
    /\ LockRow(t, W)
    /\ Goto(t, "credit")
    /\ UNCHANGED <<rest, outside>>

\* Mutant of Credit: the status of the payment is forgotten.
CreditOnly(t) ==
    /\ At(t, "credit")
    /\ Write(t, Is(W, [Row(t, W) EXCEPT ![sess[t].p] = @ + 1]))
    /\ Goto(t, "next")
    /\ UNCHANGED <<rest, outside>>

Credit(t) ==
    /\ At(t, "credit")
    /\ Write(t, Over(Is(W, [Row(t, W) EXCEPT ![sess[t].p] = @ + 1]),
                     Is(P(sess[t].p), [Pay(t) EXCEPT !.status = "approved",
                                                     !.reviewed = @ \/ sess[t].op = "approve"])))
    /\ Goto(t, "next")
    /\ UNCHANGED <<rest, outside>>

\* PostgreSQL's deadlock detector: u waits for the wallet and t, which has it,
\* for the payment u has written.
DeadlockVictim(t) ==
    /\ At(t, "credit")
    /\ \E u \in Tx \ {t} : At(u, "lock") /\ P(sess[t].p) \in DOMAIN ws[u]
    /\ Rollback(t)
    /\ Close(t)
    /\ UNCHANGED <<rest, outside>>
-----------------------------------------------------------------------------
\* A handler under way goes on.
Continue(t) ==
    \/ ClearDialogue(t)
    \/ RequestPayment(t)
    \/ ShowLink(t)
    \/ NextInBatch(t)
    \/ AskGateway(t)
    \/ Fail(t)
    \/ SettleOrder(t)
    \/ LockWallet(t)
    \/ Credit(t)
    \/ Finish(t)
    \/ DeadlockVictim(t)

Next ==
    \/ ChargeAmount
    \/ ChargeCard
    \/ ChargeTracking
    \/ \E p \in Payment : PayAtGateway(p) \/ Tick(p)
    \/ \E t \in Tx, p \in Payment :
          CreateCardTopup(t, p) \/ CreateGatewayTopup(t, p) \/ Review(t, p) \/ Callback(t, p)
    \/ \E t \in Tx : Poll(t) \/ Continue(t) \/ Crash(t)

\* The poller is started every few minutes; a handler goes on when its answer or
\* its lock is there; two minutes go by (a day need not, it is long enough for
\* the poller).  Nobody has to pay, to review or to call back.
Fairness ==
    /\ \A p \in Payment : WF_vars(age[p] = 0 /\ Tick(p))
    /\ \A t \in Tx : SF_vars(Poll(t)) /\ SF_vars(Continue(t))

Spec == Init /\ [][Next]_vars /\ Fairness
-----------------------------------------------------------------------------
PaymentRow == [method : {"card", "gateway"}, purpose : {"topup", "order"},
               status : {"pending", "approved", "rejected", "failed"},
               authority : BOOLEAN, reviewed : BOOLEAN]

\* Types; a session that credits has the wallet, as it saw it, locked.
TypeOK ==
    /\ setup \in Setup
    /\ \A f \in {db} \cup {ws[t] : t \in Tx} : \A r \in DOMAIN f :
          f[r] \in IF r = W THEN [Payment -> Nat] ELSE PaymentRow
    /\ \A t \in Tx : /\ sess[t].p \in Payment \cup {Null}
                     /\ sess[t].todo \subseteq Payment
                     /\ At(t, "credit") => W \in DOMAIN ws[t]
    /\ issued \subseteq Payment
    /\ gw \in [Payment -> {"none", "open", "linked", "paid", "verified"}]
    /\ transfers \in 0..MaxTransfers

Known == {p \in Payment : P(p) \in DOMAIN db}
Status(p) == db[P(p)].status
TopUp == {p \in Known : db[P(p)].purpose = "topup"}

\* verify_and_settle is "Idempotent" (payment_service.py): no sequence of
\* callbacks, polls, reviews and crashes credits a top-up twice.
CreditedOnce == \A p \in Payment : db[W][p] <= 1

\* The payments t has loaded and those it has written and not committed.
WorksOn(t) ==
    ({sess[t].p} \cup sess[t].todo \cup {p \in Payment : P(p) \in DOMAIN ws[t]}) \ {Null}

OneAtAPayment == \A t, u \in Tx : t # u => WorksOn(t) \cap WorksOn(u) = {}

CreditedStays == \A p \in TopUp : db[W][p] > 0 => Status(p) = "approved"

\* Where no two handlers work on one payment at a time, no later poll, callback or
\* review fails or rejects a top-up that was credited, whatever its gateway answers
\* the second time.
CreditedIsApproved == []OneAtAPayment => []CreditedStays

\* Whatever overlaps: the money of a top-up that is approved is in the wallet, and
\* money in the wallet was confirmed by the gateway or by an admin.
CreditIsBacked ==
    \A p \in TopUp :
        /\ Status(p) = "approved" => db[W][p] > 0
        /\ db[W][p] > 0 => gw[p] = "verified" \/ db[P(p)].reviewed

\* One card transfer makes one payment for the admin to approve, although the
\* dialogue is closed before the payment is committed.
OnePaymentPerTransfer ==
    Cardinality({p \in TopUp : db[P(p)].method = "card"}) <= transfers

\* The money is in the wallet, or an admin has decided.
Settled(p) == db[W][p] > 0 \/ (P(p) \in DOMAIN db /\ db[P(p)].reviewed)

\* The gateway holds the money of a top-up for less than a day, and it was paid in
\* time: no handler has been told by the gateway that it was not.
Owed(p) ==
    /\ p \in TopUp /\ gw[p] \in {"paid", "verified"} /\ age[p] < 2
    /\ \A t \in Tx : /\ Row(t, P(p)).status = "pending"
                     /\ ~(At(t, "fail") /\ sess[t].p = p)

\* "Reconcile gateway payments that lack a callback" (poller.py).  Where the gateway
\* confirms a payment again and no order of the batch is undeliverable: a top-up
\* that is paid before anybody asks for it is credited without a callback, however
\* often the poller dies between the gateway's answer and its commit.
PaidIsCredited ==
    setup.provider = "zarinpal" /\ setup.undeliverable = {}
        => \A p \in Payment : Owed(p) ~> Settled(p)
=============================================================================
