------------------------------ MODULE Checkout ------------------------------
(***************************************************************************)
(* Orders from creation to delivery: order_service, inventory_service,     *)
(* fulfilment_service, payment_service (order payments), coupon_service    *)
(* and referral_service, as the bot handlers, the API routes, the gateway  *)
(* callback and the Celery housekeeping job run them, each in a database   *)
(* transaction of its own.                                                 *)
(*                                                                         *)
(* An action is one statement of a handler: the code between two awaits    *)
(* that reach the database, the gateway or the panel.  A plain SELECT is   *)
(* remembered in the session and used later, when the row may have         *)
(* changed.  Attribute assignments wait in the session (dirty) for the     *)
(* next flush, which the handler's error path may or may not reach.        *)
(***************************************************************************)
EXTENDS RowStore, Naturals, FiniteSets

CONSTANTS User, Order, Config,  \* Order and Config are ids 1..n
          Customer,             \* bound: the users who order
          Copy,                 \* bound: ids for rows that could be doubled
          None,                 \* SQL NULL
          Offer,                \* what is ordered: <<fulfilment mode, is the coupon entered>>
          Price, Discount,      \* of the plan and of the coupon
          MaxUses, PerUserLimit,
          Referrer, Reward,     \* who invited whom; the reward in settings
          Funds,                \* the wallets at the start
          Reverify,             \* does the gateway confirm a payment again: a set of BOOLEANs
          Duty                  \* Duty[t]: the operations transaction slot t runs

ASSUME PriceAssumption == Price \in Nat /\ Discount \in 0..Price /\ Reward \in Nat
ASSUME FundsAssumption == Funds \in [User -> Nat]
ASSUME IdAssumption == Order \subseteq Nat /\ Config \subseteq Nat /\ None \notin Order \cup Config
ASSUME CopyAssumption == IsFiniteSet(Copy)
ASSUME OfferAssumption == Customer \subseteq User /\ Offer \subseteq {"manual", "panel"} \X BOOLEAN
ASSUME ReferrerAssumption == Referrer \in [User -> User \cup {None}] /\ None \notin User

VARIABLES sess,         \* sess[t]: the handler running in transaction t
          issued,       \* order ids drawn from the sequence so far
          age,          \* age[o]: 0 new, 1 reservation expired, 2 order stale
          gw,           \* gw[o]: the payment at the gateway
          fsm           \* fsm[u]: card_order_id in the customer bot's FSM data

outside == <<issued, age, gw, fsm>>
vars == <<db, ws, sess, issued, age, gw, fsm>>
-----------------------------------------------------------------------------
\* Row keys.  A payment is keyed by its order: payments.order_id is UNIQUE.
O(o) == <<"order", o>>
C(c) == <<"config", c>>
P(o) == <<"payment", o>>
W(u) == <<"wallet", u>>
R(u) == <<"referral", u>>
K == <<"coupon">>

Taken == DOMAIN db \cup UNION {DOMAIN ws[t] : t \in Tx}

\* The bound on such rows.
Room(table, x) == \E i \in Copy : <<table, x, i>> \notin Taken

\* The key of an INSERT into a table without a UNIQUE constraint on the order
\* or user x: subscriptions, coupon_redemptions, referral_rewards.
NewKey(table, x) == <<table, x, CHOOSE i \in Copy : <<table, x, i>> \notin Taken>>

\* The rows of a table for x, as f has them.
Rows(f, table, x) == {r \in {table} \X {x} \X Copy : r \in DOMAIN f}

Idle == [op |-> "none", pc |-> "idle", via |-> "bot", order |-> None, config |-> None,
         uses |-> 0, again |-> FALSE, dirty |-> "no", todo |-> {}]

Init ==
    /\ db = Over([r \in {C(c) : c \in Config} |-> [status |-> "available", order |-> None]],
            Over([r \in {W(u) : u \in User} |-> Funds[r[2]]],
            Over([r \in {R(u) : u \in {v \in User : Referrer[v] # None}} |-> "pending"],
                 Is(K, 0))))
    /\ ws = [t \in Tx |-> NoRows]
    /\ sess = [t \in Tx |-> Idle]
    /\ issued = 0
    /\ age = [o \in Order |-> 0]
    /\ gw = [o \in Order |-> "none"]
    /\ fsm = [u \in User |-> None]
-----------------------------------------------------------------------------
At(t, pc) == sess[t].pc = pc

Goto(t, pc) == sess' = [sess EXCEPT ![t].pc = pc]

\* Transaction slot t takes up an operation.
Begin(t, op) == At(t, "idle") /\ op \in Duty[t]

Mine(t) == Row(t, O(sess[t].order))

\* The attribute changes the session still has to flush.
Unflushed(t) ==
    LET o == sess[t].order
        pay(status) ==
            Is(P(o), IF Exists(t, P(o)) THEN [Row(t, P(o)) EXCEPT !.status = status]
                     ELSE [method |-> sess[t].op, status |-> status, authority |-> FALSE])
    IN CASE sess[t].dirty = "no"       -> NoRows
         [] sess[t].dirty = "approved" -> pay("approved")
         [] sess[t].dirty = "rejected" -> pay("rejected")
         [] sess[t].dirty = "settled"  ->
                Over(pay("approved"), Is(O(o), [Mine(t) EXCEPT !.status = "paid"]))

\* A flush writes f and everything the session still had to flush.
Flush(t, f) == \E rows \in {Over(f, Unflushed(t))} : Write(t, rows)

Flushed(t, pc) == sess' = [sess EXCEPT ![t].pc = pc, ![t].dirty = "no"]

Close(t) == sess' = [sess EXCEPT ![t] = Idle]

\* session.commit() flushes first.
FlushAtCommit(t) ==
    /\ At(t, "commit")
    /\ sess[t].dirty # "no"
    /\ Flush(t, NoRows)
    /\ Flushed(t, "commit")
    /\ UNCHANGED outside

Finish(t) ==
    /\ At(t, "commit")
    /\ sess[t].dirty = "no"
    /\ Commit(t)
    /\ Close(t)
    /\ UNCHANGED outside

\* An exception that is not a DomainError, a lost connection, a deadlock
\* victim, a killed process: nothing of the transaction remains.
Crash(t) ==
    /\ ~At(t, "idle")
    /\ Rollback(t)
    /\ Close(t)
    /\ UNCHANGED outside

\* A DomainError.  An API route and the Celery tasks roll back; a bot handler
\* answers the user and returns, and its middleware commits what there is.
DomainError(t) ==
    /\ At(t, "refused")
    /\ \/ /\ sess[t].via = "api"
          /\ Rollback(t)
          /\ Close(t)
       \/ /\ sess[t].via = "bot"
          /\ Goto(t, "commit")
          /\ UNCHANGED store
    /\ UNCHANGED outside
-----------------------------------------------------------------------------
\* coupon_service.validate_for: the limits are checked on plain reads.
CouponValid(t, u) ==
    /\ Row(t, K) < MaxUses
    /\ Cardinality({r \in DOMAIN Visible(t) : r[1] = "redemption" /\ Row(t, r) = u})
          < PerUserLimit

\* create_order up to its first flush, for customer u of the bot.  A renewal
\* names a subscription of the customer; it is always paid by wallet and
\* without a coupon.
CreateOrder(t, u, method, mode, coupon, renew) ==
    LET o == issued + 1
    IN /\ Begin(t, method)
       /\ o \in Order
       /\ coupon => CouponValid(t, u)
       /\ renew # None =>
             /\ method = "wallet" /\ ~coupon
             /\ Exists(t, renew)
             /\ Row(t, O(renew[2])).user = u /\ Row(t, O(renew[2])).mode = mode
       /\ Write(t, Is(O(o), [user |-> u, mode |-> mode, coupon |-> coupon, renew |-> renew,
                             status |-> IF mode = "manual" THEN "pending"
                                        ELSE "awaiting_payment"]))
       /\ issued' = o
       /\ sess' = [sess EXCEPT ![t] =
             [Idle EXCEPT !.op = method, !.order = o, !.uses = Row(t, K),
                          !.pc = IF mode = "manual" THEN "reserve" ELSE method]]
       /\ UNCHANGED <<age, gw, fsm>>

\* Mutant of Stock: the status filter is forgotten.
StockOfAnyStatus(t) == {c \in Config : Free(t, {C(c)})}

\* What reserve's FOR UPDATE SKIP LOCKED can return.
Stock(t) == {c \in Config : Row(t, C(c)).status = "available" /\ Free(t, {C(c)})}

FirstOf(S) == CHOOSE c \in S : \A d \in S : c <= d

\* inventory_service.reserve, for a new order or for one whose reservation is
\* lost when it is delivered.
Reserve(t) ==
    LET c == FirstOf(Stock(t))
        o == sess[t].order
        held == Is(C(c), [status |-> "reserved", order |-> o])
    IN /\ \/ /\ At(t, "reserve") /\ Stock(t) # {}
             /\ Flush(t, Over(held, Is(O(o), [Mine(t) EXCEPT !.status = "awaiting_payment"])))
             /\ Flushed(t, sess[t].op)
          \/ /\ At(t, "restock") /\ Stock(t) # {}
             /\ Flush(t, held)
             /\ sess' = [sess EXCEPT ![t].pc = "sell", ![t].config = c, ![t].dirty = "no"]
          \/ /\ sess[t].pc \in {"reserve", "restock"} /\ Stock(t) = {}
             /\ Goto(t, "refused")
             /\ UNCHANGED store
       /\ UNCHANGED outside

\* Mutant of FinalPrice: the discount is forgotten.
FullPrice(order) == Price

FinalPrice(order) == IF order.coupon THEN Price - Discount ELSE Price

\* Mutant of Debit: the wallet is read without FOR UPDATE.
DebitUnlocked(t, w, due) ==
    /\ ws' = [ws EXCEPT ![t] = Over(Is(w, Row(t, w) - due), ws[t])]
    /\ db' = db

\* wallet.debit: the row is locked, and written with the balance found there.
Debit(t, w, due) == Write(t, Is(w, Row(t, w) - due))

\* pay_with_wallet up to _on_paid: debit locks the wallet row and checks the
\* balance; the approved payment and the paid order wait for the next flush.
PayWithWallet(t) ==
    LET order == Mine(t)
        due == FinalPrice(order)
        w == W(order.user)
    IN /\ At(t, "wallet")
       /\ \/ /\ due = 0
             /\ Goto(t, "refused")
             /\ UNCHANGED store
          \/ /\ due > 0 /\ Row(t, w) < due
             /\ LockRow(t, w)
             /\ Goto(t, "refused")
          \/ /\ due > 0 /\ Row(t, w) >= due
             /\ Debit(t, w, due)
             /\ sess' = [sess EXCEPT ![t].dirty = "settled",
                                     ![t].pc = IF order.coupon THEN "redeem" ELSE "find"]
       /\ UNCHANGED outside

\* _create_gateway_payment: the payment is flushed, then the gateway is asked;
\* PaymentError leaves a payment without authority.
RequestGateway(t) ==
    LET o == sess[t].order
    IN /\ At(t, "gateway")
       /\ \E ok \in BOOLEAN :
             /\ Write(t, Is(P(o), [method |-> "gateway", status |-> "pending",
                                   authority |-> ok]))
             /\ Goto(t, IF ok THEN "commit" ELSE "refused")
             /\ gw' = IF ok THEN [gw EXCEPT ![o] = "open"] ELSE gw
       /\ UNCHANGED <<issued, age, fsm>>

\* pay_card: the order id goes into the FSM data before the commit.
ShowCard(t) ==
    /\ At(t, "card")
    /\ fsm' = [fsm EXCEPT ![Mine(t).user] = sess[t].order]
    /\ Goto(t, "commit")
    /\ UNCHANGED <<db, ws, issued, age, gw>>

\* card_order_receipt; state.clear() comes before the commit.  Without an order
\* or with a second payment for it the handler fails and changes nothing.
ReceiveReceipt(t, u) ==
    LET o == fsm[u]
    IN /\ Begin(t, "receipt")
       /\ o # None /\ Exists(t, O(o)) /\ ~Exists(t, P(o))
       /\ Write(t, Is(P(o), [method |-> "card", status |-> "pending", authority |-> FALSE]))
       /\ sess' = [sess EXCEPT ![t] = [Idle EXCEPT !.op = "receipt", !.pc = "commit",
                                                   !.order = o]]
       /\ fsm' = [fsm EXCEPT ![u] = None]
       /\ UNCHANGED <<issued, age, gw>>
-----------------------------------------------------------------------------
\* Mutant of Reviewable: a payment can be reviewed again.
AnyPayment(t, o) == Exists(t, P(o))

Reviewable(t, o) == Exists(t, P(o)) /\ Row(t, P(o)).status = "pending"

\* approve and reject, by the admin bot or the API, of any pending payment:
\* its status is checked on a plain read.
ReviewPayment(t, op, o, via) ==
    /\ op \in {"approve", "reject"} /\ Begin(t, op)
    /\ Reviewable(t, o)
    /\ sess' = [sess EXCEPT ![t] =
          [Idle EXCEPT !.op = op, !.pc = "order", !.via = via, !.order = o,
                       !.dirty = IF op = "approve" THEN "approved" ELSE "rejected"]]
    /\ UNCHANGED store /\ UNCHANGED outside

\* verify_and_settle, from the callback or the poller: "already settled" is
\* decided on a plain read, before the gateway is asked.
VerifyPayment(t, o) ==
    /\ Begin(t, "verify")
    /\ Exists(t, P(o)) /\ Row(t, P(o)).authority /\ Row(t, P(o)).status # "approved"
    /\ sess' = [sess EXCEPT ![t] = [Idle EXCEPT !.op = "verify", !.pc = "ask", !.via = "api",
                                                !.order = o,
                                                !.again = (Row(t, P(o)).status = "failed")]]
    /\ UNCHANGED store /\ UNCHANGED outside

\* gateway.verify.  A gateway that was paid answers success, once: ZarinPal
\* confirms a payment again, IDPay answers with another status.
AskGateway(t) ==
    LET o == sess[t].order
    IN /\ At(t, "ask")
       /\ \/ /\ gw[o] = "paid" \/ (gw[o] = "verified" /\ TRUE \in Reverify)
             /\ gw' = [gw EXCEPT ![o] = "verified"]
             /\ sess' = [sess EXCEPT ![t].pc = "order", ![t].dirty = "approved"]
          \/ /\ gw[o] = "open" \/ (gw[o] = "verified" /\ FALSE \in Reverify)
             /\ gw' = gw
             /\ Goto(t, "declined")
       /\ UNCHANGED store /\ UNCHANGED <<issued, age, fsm>>

\* The payment is marked failed, whatever its row says by now; nothing is
\* written if the session read it as failed.
Declined(t) ==
    LET o == sess[t].order
    IN /\ At(t, "declined")
       /\ IF sess[t].again THEN UNCHANGED store
          ELSE Write(t, Is(P(o), [Row(t, P(o)) EXCEPT !.status = "failed"]))
       /\ Goto(t, "commit")
       /\ UNCHANGED outside

\* db.get(Order): verify leaves a delivered order alone, approve does not look,
\* reject refuses (in cancel) a paid or delivered one.  An order that is read as
\* paid is not written again.
LoadOrder(t) ==
    LET s == sess[t]
        status == Mine(t).status
        onPaid == IF Mine(t).coupon THEN "coupon" ELSE "find"
    IN /\ At(t, "order")
       /\ \/ /\ s.op = "approve" \/ (s.op = "verify" /\ status # "delivered")
             /\ sess' = [sess EXCEPT ![t].pc = onPaid,
                                     ![t].dirty = IF status = "paid" THEN @ ELSE "settled"]
          \/ /\ s.op = "verify" /\ status = "delivered"
             /\ Goto(t, "commit")
          \/ /\ s.op = "reject" /\ status \in {"delivered", "paid"}
             /\ Goto(t, "refused")
          \/ /\ s.op = "reject" /\ status \notin {"delivered", "paid"}
             /\ sess' = [sess EXCEPT ![t].pc = "cancel", ![t].todo = {s.order}]
       /\ UNCHANGED store /\ UNCHANGED outside
-----------------------------------------------------------------------------
\* _on_paid loads the coupon (pay_with_wallet has it from create_order) ...
LoadCoupon(t) ==
    /\ At(t, "coupon")
    /\ sess' = [sess EXCEPT ![t].pc = "redeem", ![t].uses = Row(t, K)]
    /\ UNCHANGED store /\ UNCHANGED outside

\* ... and redeem writes the count it read plus one, checking no limit.
RedeemCoupon(t) ==
    /\ At(t, "redeem")
    /\ Room("redemption", sess[t].order)
    /\ Flush(t, Over(Is(K, sess[t].uses + 1),
                     Is(NewKey("redemption", sess[t].order), Mine(t).user)))
    /\ Flushed(t, "find")
    /\ UNCHANGED outside

\* deliver: one subscription of the order means it was delivered before; two
\* make scalar_one_or_none raise.
FindSubscription(t) ==
    LET n == Cardinality(Rows(Visible(t), "subscription", sess[t].order))
    IN /\ At(t, "find")
       /\ n <= 1
       /\ Goto(t, CASE n = 1 -> "reward"
                    [] n = 0 /\ Mine(t).mode = "manual" -> "stock"
                    [] n = 0 /\ Mine(t).mode = "panel"  -> "provision")
       /\ UNCHANGED store /\ UNCHANGED outside

Held(t, o) == {c \in Config : Row(t, C(c)).order = o}

\* _deliver_manual: a plain SELECT of the config reserved for the order.
FindReservation(t) ==
    LET held == Held(t, sess[t].order)
    IN /\ At(t, "stock")
       /\ \/ /\ held = {}
             /\ Goto(t, "restock")
          \/ \E c \in Config :
                /\ held = {c}
                /\ sess' = [sess EXCEPT ![t].pc = "sell", ![t].config = c]
       /\ UNCHANGED store /\ UNCHANGED outside

\* The subscription of the order is inserted, the one it renews is disabled,
\* the order is delivered.
Delivery(t, config) ==
    LET o == sess[t].order
        old == {Mine(t).renew} \ {None}
    IN Over(Is(NewKey("subscription", o), [config |-> config, active |-> TRUE]),
       Over([r \in old |-> [Row(t, r) EXCEPT !.active = FALSE]],
            Is(O(o), [Mine(t) EXCEPT !.status = "delivered"])))

\* Mutant of SellConfig: mark_sold is forgotten.
DeliverUnsold(t) ==
    /\ At(t, "sell")
    /\ Flush(t, Delivery(t, sess[t].config))
    /\ Flushed(t, "reward")
    /\ UNCHANGED outside

\* mark_sold trusts the status in the session; then the rest of deliver.
SellConfig(t) ==
    LET c == sess[t].config
    IN /\ At(t, "sell") /\ Room("subscription", sess[t].order)
       /\ Flush(t, Over(Is(C(c), [status |-> "sold", order |-> None]), Delivery(t, c)))
       /\ Flushed(t, "reward")
       /\ UNCHANGED outside

\* Mutant of Provision: the order is delivered before the panel is asked.
ProvisionLate(t) ==
    /\ At(t, "provision")
    /\ \/ /\ Flush(t, Delivery(t, None))
          /\ Flushed(t, "reward")
       \/ /\ Flush(t, Is(O(sess[t].order), [Mine(t) EXCEPT !.status = "delivered"]))
          /\ Flushed(t, "refused")
    /\ UNCHANGED outside

\* _deliver_panel: the panel creates the account or raises PanelIntegrationError.
Provision(t) ==
    /\ At(t, "provision")
    /\ \/ /\ Room("subscription", sess[t].order)
          /\ Flush(t, Delivery(t, None))
          /\ Flushed(t, "reward")
       \/ /\ Goto(t, "refused")
          /\ UNCHANGED store
    /\ UNCHANGED outside

\* Mutant of Qualifies: a referral is rewarded at every purchase.
WasReferred(t, u) == Exists(t, R(u))

\* The status of the referral is a plain read.
Qualifies(t, u) == Exists(t, R(u)) /\ Row(t, R(u)) = "pending"

\* on_qualifying_purchase up to the wallet.
FindReferral(t) ==
    /\ At(t, "reward")
    /\ Goto(t, IF Qualifies(t, Mine(t).user) THEN "credit" ELSE "commit")
    /\ UNCHANGED store /\ UNCHANGED outside

\* The referrer's wallet with the reward, and the reward's row.
Rewarding(t, u) ==
    LET w == W(Referrer[u])
    IN Over(Is(w, Row(t, w) + Reward), Is(NewKey("reward", u), Referrer[u]))

\* Mutant of Rewarded: the referral stays pending.
RewardedUnmarked(t, u) == Rewarding(t, u)

Rewarded(t, u) == Over(Is(R(u), "rewarded"), IF Reward = 0 THEN NoRows ELSE Rewarding(t, u))

\* The rest of it: the referrer's wallet is locked and credited.
RewardReferrer(t) ==
    /\ At(t, "credit") /\ Room("reward", Mine(t).user)
    /\ Flush(t, Rewarded(t, Mine(t).user))
    /\ Flushed(t, "commit")
    /\ UNCHANGED outside
-----------------------------------------------------------------------------
\* cancel: a plain SELECT of the config held for the order ...
CancelOrder(t) ==
    \E o \in sess[t].todo, c \in Config \cup {None} :
        /\ At(t, "cancel")
        /\ Held(t, o) = IF c = None THEN {} ELSE {c}
        /\ sess' = [sess EXCEPT ![t].pc = "release", ![t].order = o, ![t].config = c,
                                ![t].todo = @ \ {o}]
        /\ UNCHANGED store /\ UNCHANGED outside

\* Mutants of Freed: the order id stays in the row; the config stays reserved.
FreedWithOrder(t, c) ==
    IF c = None THEN NoRows ELSE Is(C(c), [Row(t, C(c)) EXCEPT !.status = "available"])
NothingFreed(t, c) == NoRows

\* release writes both columns, whatever the row holds by now.
Freed(t, c) == IF c = None THEN NoRows ELSE Is(C(c), [status |-> "available", order |-> None])

\* ... which is made available, and the order cancelled or, by the job, expired.
ReleaseConfig(t) ==
    LET s == sess[t]
        status == IF s.op = "expire" THEN "expired" ELSE "cancelled"
    IN /\ At(t, "release")
       /\ Flush(t, Over(Freed(t, s.config), Is(O(s.order), [Mine(t) EXCEPT !.status = status])))
       /\ Flushed(t, IF s.todo = {} THEN "commit" ELSE "cancel")
       /\ UNCHANGED outside

\* The housekeeping job: release_expired_reservations selects ...
FindExpired(t) ==
    /\ Begin(t, "expire")
    /\ sess' = [sess EXCEPT ![t] =
          [Idle EXCEPT !.op = "expire", !.pc = "free", !.via = "api",
                       !.todo = {c \in Config : /\ Row(t, C(c)).status = "reserved"
                                                /\ age[Row(t, C(c)).order] >= 1}]]
    /\ UNCHANGED store /\ UNCHANGED outside

\* ... and updates;
FreeExpired(t) ==
    /\ At(t, "free")
    /\ Write(t, [r \in {C(c) : c \in sess[t].todo} |-> [status |-> "available", order |-> None]])
    /\ Goto(t, "stale")
    /\ UNCHANGED outside

\* Mutants of Stale: every old order is taken; those never reserved are.
Old(t) == {o \in Order : Exists(t, O(o)) /\ age[o] = 2}
StalePending(t) == {o \in Old(t) : Row(t, O(o)).status = "pending"}

\* Orders created 30 minutes ago that still await payment.
Stale(t) == {o \in Order : /\ Exists(t, O(o)) /\ age[o] = 2
                           /\ Row(t, O(o)).status = "awaiting_payment"}

\* expire_stale_orders selects and cancels one order after the other.
FindStale(t) ==
    /\ At(t, "stale")
    /\ sess' = [sess EXCEPT ![t].pc = IF Stale(t) = {} THEN "commit" ELSE "cancel",
                            ![t].todo = Stale(t)]
    /\ UNCHANGED store /\ UNCHANGED outside

\* Time passes for an order: 15 minutes, then 30.  Nothing reads the age of an
\* order that does not await payment.
Tick(o) ==
    /\ O(o) \in DOMAIN db /\ db[O(o)].status = "awaiting_payment"
    /\ age[o] < 2
    /\ age' = [age EXCEPT ![o] = @ + 1]
    /\ UNCHANGED <<db, ws, sess, issued, gw, fsm>>

\* The customer pays at the gateway.
PayAtGateway(o) ==
    /\ gw[o] = "open"
    /\ gw' = [gw EXCEPT ![o] = "paid"]
    /\ UNCHANGED <<db, ws, sess, issued, age, fsm>>
-----------------------------------------------------------------------------
Buy(t) == \E u \in Customer, method \in {"wallet", "gateway", "card"}, offer \in Offer,
             renew \in ({"subscription"} \X Order \X Copy) \cup {None} :
                CreateOrder(t, u, method, offer[1], offer[2], renew)

Take(t) == \/ Buy(t)
           \/ \E u \in Customer : ReceiveReceipt(t, u)
           \/ \E op \in {"approve", "reject"}, o \in Order, via \in {"bot", "api"} :
                 ReviewPayment(t, op, o, via)
           \/ \E o \in Order : VerifyPayment(t, o)

Pay(t) == \/ Reserve(t) \/ PayWithWallet(t) \/ RequestGateway(t) \/ ShowCard(t)
          \/ AskGateway(t) \/ Declined(t) \/ LoadOrder(t)

Settle(t) == \/ LoadCoupon(t) \/ RedeemCoupon(t) \/ FindSubscription(t) \/ FindReservation(t)
             \/ SellConfig(t) \/ Provision(t) \/ FindReferral(t) \/ RewardReferrer(t)

Expire(t) == FindExpired(t) \/ FreeExpired(t) \/ FindStale(t)

End(t) == CancelOrder(t) \/ ReleaseConfig(t) \/ DomainError(t) \/ FlushAtCommit(t) \/ Finish(t)

Handle(t) == Pay(t) \/ Settle(t) \/ Expire(t) \/ End(t)

Next == \/ \E t \in Tx : Take(t) \/ Handle(t) \/ Crash(t)
        \/ \E o \in Order : Tick(o) \/ PayAtGateway(o)

Spec == Init /\ [][Next]_vars

(***************************************************************************)
(* Fairness.  A handler whose statement can proceed goes on; a row lock is *)
(* first come, first served, so one that can be taken again and again is.  *)
(* Celery beat starts the job every few minutes, and not every run of it   *)
(* is killed on its way, nor every time it commits.  Nobody has to buy,    *)
(* pay or review anything.                                                 *)
(***************************************************************************)
JobSurvives(t) == /\ <>[][At(t, "commit") \/ ~Crash(t)]_vars
                  /\ SF_vars(Finish(t))

Fairness == /\ \A t \in Tx : SF_vars(Handle(t))
            /\ \A t \in {u \in Tx : "expire" \in Duty[u]} : JobSurvives(t)

FairSpec == Spec /\ Fairness
-----------------------------------------------------------------------------
Table(name) == {r \in DOMAIN db : r[1] = name}

Orders == {o \in Order : O(o) \in DOMAIN db}
Status(o) == db[O(o)].status

Payments == {o \in Order : P(o) \in DOMAIN db}
PaymentStatus(o) == db[P(o)].status

Subscriptions(o) == Rows(db, "subscription", o)

OrderStatus == {"pending", "awaiting_payment", "paid", "delivered", "cancelled", "expired"}
RowType ==
    [order |-> [user : User, mode : {"manual", "panel"}, coupon : BOOLEAN, status : OrderStatus,
                renew : ({"subscription"} \X Order \X Copy) \cup {None}],
     config |-> [status : {"available", "reserved", "sold"}, order : Order \cup {None}],
     payment |-> [method : {"wallet", "gateway", "card"}, authority : BOOLEAN,
                  status : {"pending", "approved", "rejected", "failed"}],
     subscription |-> [config : Config \cup {None}, active : BOOLEAN],
     wallet |-> Nat, coupon |-> Nat, redemption |-> User, reward |-> User,
     referral |-> {"pending", "rewarded"}]

\* Types of committed and uncommitted rows and of the sessions.  A balance is
\* never negative, and a config has an order exactly while it is reserved.
TypeOK ==
    /\ \A f \in {db} \cup {ws[t] : t \in Tx} : \A r \in DOMAIN f :
          /\ f[r] \in RowType[r[1]]
          /\ r[1] = "config" => (f[r].status = "reserved" <=> f[r].order # None)
    /\ \A t \in Tx : /\ sess[t].order \in Order \cup {None}
                     /\ sess[t].config \in Config \cup {None}
                     /\ sess[t].uses \in Nat /\ sess[t].again \in BOOLEAN
                     /\ sess[t].dirty \in {"no", "approved", "rejected", "settled"}
    /\ issued \in Order \cup {0}
    /\ age \in [Order -> 0..2]
    /\ gw \in [Order -> {"none", "open", "paid", "verified"}]
    /\ fsm \in [User -> Order \cup {None}]

(***************************************************************************)
(* What holds whatever runs at the same time.                              *)
(***************************************************************************)

\* A wallet holds what its owner started with, less the orders paid by wallet,
\* plus the referral rewards: no interleaving of purchases, rewards, refused
\* handlers that commit, and crashes creates or destroys money.
MoneyConserved ==
    \A u \in User :
        LET bought(coupon) == {o \in Payments : /\ db[P(o)].method = "wallet"
                                                /\ db[O(o)].user = u
                                                /\ db[O(o)].coupon = coupon}
            rewards == {r \in Table("reward") : db[r] = u}
        IN db[W(u)] + Price * Cardinality(bought(FALSE))
                    + (Price - Discount) * Cardinality(bought(TRUE))
              = Funds[u] + Reward * Cardinality(rewards)

\* A delivered order has a subscription and a payment: no half of a delivery is
\* ever committed, even by a handler that fails and commits.
DeliveredHasSubscription ==
    \A o \in Orders : Status(o) = "delivered" => Subscriptions(o) # {} /\ o \in Payments

\* Stock is held only for orders that can still be paid, one config for each:
\* cancel, expiry and delivery never leave a reservation behind.
ReservationBacked ==
    \A c \in Config : db[C(c)].status = "reserved" =>
        /\ Status(db[C(c)].order) = "awaiting_payment"
        /\ \A d \in Config : db[C(d)].order = db[C(c)].order => c = d

\* An order paid by wallet is out of reach of reviews and of the job: it stays
\* paid or delivered, its payment approved, with one subscription at most.
WalletOrderSettled ==
    \A o \in Payments : db[P(o)].method = "wallet" =>
        /\ Status(o) \in {"paid", "delivered"}
        /\ PaymentStatus(o) = "approved"
        /\ Cardinality(Subscriptions(o)) <= 1

\* A referral is marked rewarded exactly when its reward was paid.
RewardRecorded ==
    \A u \in User : Reward > 0 /\ R(u) \in DOMAIN db =>
        (db[R(u)] = "rewarded" <=> Rows(db, "reward", u) # {})

(***************************************************************************)
(* What holds when the handlers run one after the other, crashes, refusals *)
(* and lost FSM data included, and what some of them keep concurrently.    *)
(***************************************************************************)

\* "A config can be sold once" (docs/DATABASE.md).
SoldOnce ==
    \A c \in Config : Cardinality({r \in Table("subscription") : db[r].config = c}) <= 1

\* deliver is "Idempotent per order" (fulfilment_service.py).
OneSubscriptionPerOrder == \A o \in Order : Cardinality(Subscriptions(o)) <= 1

\* A config is somebody's subscription exactly when it is sold: none is sold to
\* nobody, none goes back on sale.
SoldIsDelivered ==
    \A c \in Config : db[C(c)].status = "sold" <=>
        \E r \in Table("subscription") : db[r].config = c

\* The order, its payment and its subscription agree: what was delivered was
\* paid and stays so, what was not paid has no subscription.
PaymentMatchesDelivery ==
    \A o \in Orders :
        /\ Status(o) = "delivered" => PaymentStatus(o) = "approved"
        /\ Status(o) # "delivered" => Subscriptions(o) = {}

\* The referrer is rewarded once per referred user, and the coupon's counter is
\* the number of its redemptions.
PromotionsCounted ==
    /\ \A u \in User : Cardinality(Rows(db, "reward", u)) <= 1
    /\ db[K] = Cardinality(Table("redemption"))

\* Delivery is final: no later event (a late callback, a second review, the
\* job) takes an order out of "delivered".
DeliveredIsFinal ==
    [][\A o \in Orders : Status(o) = "delivered" => Status(o)' = "delivered"]_vars

(***************************************************************************)
(* Liveness, and promises some interleavings break.                        *)
(***************************************************************************)

\* An order whose reservation is past its 15 minutes and still holds a config,
\* or which still awaits payment after 30.
Overdue(o) == \/ age[o] >= 1 /\ \E c \in Config : db[C(c)].order = o
              \/ age[o] = 2 /\ Status(o) = "awaiting_payment"

\* Abandoned orders are expired and their stock returns to sale ("Release
\* inventory reserved by abandoned orders", docs/ARCHITECTURE.md).
OverdueIsCleared == \A o \in Order : Overdue(o) ~> ~Overdue(o)

\* "Charge the user's wallet and fulfil immediately" (order_service.py).
ChargedIsFulfilled ==
    \A o \in Payments : db[P(o)].method = "wallet" => Status(o) = "delivered"
=============================================================================
