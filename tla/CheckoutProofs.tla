--------------------------- MODULE CheckoutProofs ---------------------------
(***************************************************************************)
(* Proofs about Checkout for every set of users, orders, configs and       *)
(* transactions, every price, reward and division of the work.             *)
(*                                                                         *)
(* The inductive invariant has three parts: what the committed rows d      *)
(* satisfy (StoreOk); what the rows x that a transaction has written make  *)
(* of them (TxOk: order by order and user by user, for v = Over(x, d),     *)
(* what the transaction sees and what its commit leaves); and what a       *)
(* handler s knows of its order at each of its statements (Aware).         *)
(*                                                                         *)
(* Money has an invariant beside it: the committed books balance (Booked), *)
(* and each transaction's view of a wallet differs from the committed one  *)
(* by what the transaction has taken from it and paid into it (Moved),     *)
(* which it did under the row's lock.                                      *)
(***************************************************************************)
EXTENDS Checkout, RowStoreProofs, FiniteSetTheorems

S(o, i) == <<"subscription", o, i>>
Rew(u, i) == <<"reward", u, i>>

Typed(f) ==
    \A r \in DOMAIN f : /\ f[r] \in RowType[r[1]]
                        /\ r[1] = "config" => (f[r].status = "reserved" <=> f[r].order # None)

\* Order o is paid by wallet, as v has it.
ByWallet(v, o) == P(o) \in DOMAIN v /\ v[P(o)].method = "wallet"

\* The rows of v that belong to order o fit together.
OrderOk(v, o) ==
    /\ P(o) \in DOMAIN v => O(o) \in DOMAIN v
    /\ \A i \in Copy : S(o, i) \in DOMAIN v => O(o) \in DOMAIN v
    /\ O(o) \in DOMAIN v =>
          /\ v[O(o)].renew # None => v[O(o)].renew \in DOMAIN v
          /\ v[O(o)].status = "delivered" => /\ P(o) \in DOMAIN v
                                             /\ \E i \in Copy : S(o, i) \in DOMAIN v
    /\ ByWallet(v, o) =>
          /\ v[O(o)].status \in {"paid", "delivered"}
          /\ v[P(o)].status = "approved" /\ ~v[P(o)].authority
          /\ \A i, j \in Copy : S(o, i) \in DOMAIN v /\ S(o, j) \in DOMAIN v => i = j

\* Who was referred by whom is as at the start, and rewarded if a reward is there.
UserOk(v, u) ==
    R(u) \in DOMAIN v =>
        /\ Referrer[u] # None
        /\ Reward > 0 => (v[R(u)] = "rewarded" <=> \E i \in Copy : Rew(u, i) \in DOMAIN v)

StoreOk(d) ==
    /\ d = [r \in DOMAIN d |-> d[r]]
    /\ Typed(d)
    /\ K \in DOMAIN d
    /\ \A c \in Config : C(c) \in DOMAIN d
    /\ \A u \in User : W(u) \in DOMAIN d
    /\ \A o \in Order : OrderOk(d, o)
    /\ \A u \in User : UserOk(d, u)

\* A committed order stays its customer's, and a committed payment of its method; an
\* order paid by wallet is paid by the transaction that creates it, and left alone
\* by all others.
OrderKept(d, x, v, o) ==
    /\ OrderOk(v, o)
    /\ O(o) \in DOMAIN d => v[O(o)].user = d[O(o)].user /\ v[O(o)].coupon = d[O(o)].coupon
    /\ P(o) \in DOMAIN d => v[P(o)].method = d[P(o)].method
    /\ ByWallet(d, o) => /\ O(o) \notin DOMAIN x /\ P(o) \notin DOMAIN x
                         /\ \A i \in Copy : S(o, i) \in DOMAIN x => S(o, i) \in DOMAIN d
    /\ ByWallet(v, o) /\ P(o) \notin DOMAIN d => O(o) \notin DOMAIN d

\* A referral is written together with its reward, when it is rewarded.
UserKept(d, x, v, u) ==
    /\ UserOk(v, u)
    /\ R(u) \in DOMAIN x =>
          x[R(u)] = "rewarded" /\ (Reward > 0 => \E i \in Copy : Rew(u, i) \in DOMAIN x)
    /\ \A i \in Copy : Rew(u, i) \in DOMAIN x => R(u) \in DOMAIN x /\ Rew(u, i) \notin DOMAIN d

\* A transaction pays one reward.
OneReward(x) ==
    \A u, w \in User, i, j \in Copy :
        Rew(u, i) \in DOMAIN x /\ Rew(w, j) \in DOMAIN x => u = w /\ i = j

TxOk(d, x) ==
    /\ Typed(x)
    /\ \A o \in Order : OrderKept(d, x, Over(x, d), o)
    /\ \A u \in User : UserKept(d, x, Over(x, d), u)
    /\ OneReward(x)

StoreInv ==
    /\ DOMAIN ws = Tx /\ Shaped /\ Exclusive
    /\ StoreOk(db)
    /\ \A t \in Tx : TxOk(db, ws[t])

\* An order that was not created is nowhere.
Fresh == \A o \in Order : o > issued => O(o) \notin DOMAIN db /\ \A t \in Tx : O(o) \notin DOMAIN ws[t]
-----------------------------------------------------------------------------
Method == {"wallet", "gateway", "card"}

Session ==
    [op : {"none", "receipt", "approve", "reject", "verify", "expire"} \cup Method,
     pc : {"idle", "reserve", "wallet", "gateway", "card", "ask", "declined", "order", "coupon",
           "redeem", "find", "stock", "restock", "sell", "provision", "reward", "credit",
           "cancel", "release", "free", "stale", "refused", "commit"},
     via : {"bot", "api"}, order : Order \cup {None}, config : Config \cup {None},
     uses : Nat, again : BOOLEAN, dirty : {"no", "approved", "rejected", "settled"},
     todo : SUBSET (Order \cup Config)]

\* The statements from the payment of an order to its delivery, and to the end.
Delivering == {"coupon", "redeem", "find", "stock", "restock", "sell", "provision"}
Delivered == {"reward", "credit"}
Ending == {"refused", "commit"}

\* Which statements an operation runs.
Runs(op, pc) ==
    \/ op = "none" /\ pc = "idle"
    \/ op \in Method /\ pc \in {"reserve", op} \cup Ending
    \/ op \in {"wallet", "approve", "verify"} /\ pc \in Delivering \cup Delivered \cup Ending
    \/ op \in {"approve", "verify", "reject"} /\ pc = "order"
    \/ op = "verify" /\ pc \in {"ask", "declined"}
    \/ op = "reject" /\ pc \in {"cancel", "release"} \cup Ending
    \/ op = "expire" /\ pc \in {"free", "stale", "cancel", "release", "commit"}
    \/ op = "receipt" /\ pc = "commit"

\* A committed order that is not paid by wallet.
Open(d, o) == o \in Order /\ O(o) \in DOMAIN d /\ ~ByWallet(d, o)

\* A row as the transaction with the rows x sees it.
Of(x, d, r) == IF r \in DOMAIN x THEN x[r] ELSE d[r]

\* What session s, buying, knows of its order o.
Buying(s, o, x, d) ==
    /\ o \in Order /\ O(o) \in DOMAIN x /\ O(o) \notin DOMAIN d
    /\ P(o) \in DOMAIN x => x[P(o)].method = s.op
    /\ s.dirty # "no" => s.op = "wallet" /\ s.dirty = "settled" /\ P(o) \notin DOMAIN x
    /\ s.pc \in {"reserve"} \cup Method => s.dirty = "no" /\ P(o) \notin DOMAIN x
    /\ s.pc \in Delivering \cup Delivered => s.dirty = "settled" \/ P(o) \in DOMAIN x
    /\ s.dirty = "settled" \/ s.pc \notin Delivered \cup Ending =>
          \A i \in Copy : S(o, i) \notin DOMAIN x

\* What session s, with the rows x, knows.
Aware(s, x, d) ==
    /\ Runs(s.op, s.pc)
    /\ s.op = "none" => s = Idle /\ x = NoRows
    /\ s.op \in Method => Buying(s, s.order, x, d)
    /\ s.op \in {"approve", "verify", "reject"} => Open(d, s.order) /\ P(s.order) \in DOMAIN d
    /\ s.op \in {"receipt", "expire"} => s.dirty = "no"
    /\ s.pc = "sell" => s.config \in Config
    /\ s.pc \in {"cancel", "release"} => \A o \in s.todo : Open(d, o)
    /\ s.pc = "release" => Open(d, s.order)
    /\ s.op = "reject" /\ s.pc \in {"cancel", "release"} => s.todo \subseteq {s.order}
    /\ s.pc = "free" => s.todo \subseteq Config
    /\ s.pc = "credit" => R(Of(x, d, O(s.order)).user) \in DOMAIN d
    /\ s.pc # "commit" => \A u \in User : R(u) \notin DOMAIN x
    \* An order created in this transaction is the session's.
    /\ \A o \in Order : O(o) \in DOMAIN x /\ O(o) \notin DOMAIN d => s.op \in Method /\ o = s.order

Types ==
    /\ sess \in [Tx -> Session]
    /\ issued \in Nat /\ issued \in Order \cup {0}
    /\ age \in [Order -> 0..2]
    /\ gw \in [Order -> {"none", "open", "paid", "verified"}]
    /\ fsm \in [User -> Order \cup {None}]

Inv == Types /\ StoreInv /\ Fresh /\ \A t \in Tx : Aware(sess[t], ws[t], db)
-----------------------------------------------------------------------------
\* The keys of different tables differ, and so do those of one table.
LEMMA Keys ==
    /\ \A o : O(o)[1] = "order" /\ P(o)[1] = "payment"
    /\ \A c : C(c)[1] = "config"
    /\ \A u : W(u)[1] = "wallet" /\ R(u)[1] = "referral"
    /\ K[1] = "coupon"
    /\ \A o, i : S(o, i)[1] = "subscription"
    /\ \A u, i : Rew(u, i)[1] = "reward"
    /\ \A a, b : /\ O(a) = O(b) => a = b
                 /\ P(a) = P(b) => a = b
                 /\ C(a) = C(b) => a = b
                 /\ W(a) = W(b) => a = b
                 /\ R(a) = R(b) => a = b
    /\ \A a, b, i, j : /\ S(a, i) = S(b, j) => a = b /\ i = j
                       /\ Rew(a, i) = Rew(b, j) => a = b /\ i = j
    BY DEF O, P, C, W, R, K, S, Rew

\* The tables and their rows.
LEMMA RowTypes ==
    /\ RowType["order"] =
          [user : User, mode : {"manual", "panel"}, coupon : BOOLEAN, status : OrderStatus,
           renew : ({"subscription"} \X Order \X Copy) \cup {None}]
    /\ RowType["config"] =
          [status : {"available", "reserved", "sold"}, order : Order \cup {None}]
    /\ RowType["payment"] =
          [method : {"wallet", "gateway", "card"}, authority : BOOLEAN,
           status : {"pending", "approved", "rejected", "failed"}]
    /\ RowType["subscription"] = [config : Config \cup {None}, active : BOOLEAN]
    /\ RowType["wallet"] = Nat /\ RowType["coupon"] = Nat
    /\ RowType["redemption"] = User /\ RowType["reward"] = User
    /\ RowType["referral"] = {"pending", "rewarded"}
    BY DEF RowType

\* Typed rows can be written over typed rows.
LEMMA OverTyped ==
    ASSUME NEW f, NEW g, Typed(f), Typed(g)
    PROVE  Typed(Over(f, g))
    BY DEF Typed, Over

\* Two writes, one after the other, are one.
LEMMA OverAssoc ==
    ASSUME NEW f, NEW g, NEW h
    PROVE  Over(Over(f, g), h) = Over(f, Over(g, h))
    BY DEF Over

\* One row of its table's type.
LEMMA OneTyped ==
    ASSUME NEW r, NEW row, row \in RowType[r[1]],
           r[1] = "config" => (row.status = "reserved" <=> row.order # None)
    PROVE  Typed(Is(r, row))
<1>1. \A q \in DOMAIN Is(r, row) : q = r /\ Is(r, row)[q] = row
  BY DEF Is
<1> QED BY <1>1 DEF Typed

\* No rows.
LEMMA Nothing ==
    /\ DOMAIN NoRows = {} /\ Typed(NoRows)
    /\ \A g : g = [r \in DOMAIN g |-> g[r]] => Over(NoRows, g) = g
    BY DEF NoRows, Typed, Over

\* Writing on changes nothing for an order none of whose rows it writes; rows of
\* subscriptions that were there may be updated.
LEMMA OrderFrame ==
    ASSUME NEW d, NEW x, NEW f, NEW o \in Order, OrderKept(d, x, Over(x, d), o),
           O(o) \notin DOMAIN f, P(o) \notin DOMAIN f,
           \A i \in Copy : S(o, i) \in DOMAIN f => S(o, i) \in DOMAIN x \cup DOMAIN d
    PROVE  OrderKept(d, Over(f, x), Over(Over(f, x), d), o)
<1> DEFINE v == Over(x, d)
           y == Over(f, x)
           n == Over(y, d)
<1>1. /\ DOMAIN v = DOMAIN x \cup DOMAIN d
      /\ DOMAIN y = DOMAIN f \cup DOMAIN x
      /\ DOMAIN n = DOMAIN f \cup DOMAIN x \cup DOMAIN d
  BY DEF Over
<1>2. \A r : r \notin DOMAIN f => (r \in DOMAIN n <=> r \in DOMAIN v) /\ (r \in DOMAIN v => n[r] = v[r])
  BY DEF Over
<1> HIDE DEF v, y, n
<1>3. /\ O(o) \in DOMAIN n <=> O(o) \in DOMAIN v
      /\ O(o) \in DOMAIN v => n[O(o)] = v[O(o)]
      /\ P(o) \in DOMAIN n <=> P(o) \in DOMAIN v
      /\ P(o) \in DOMAIN v => n[P(o)] = v[P(o)]
      /\ \A i \in Copy : S(o, i) \in DOMAIN n <=> S(o, i) \in DOMAIN v
  BY <1>1, <1>2
<1>4. OrderKept(d, x, v, o)
  BY DEF v
<1>5. OrderOk(n, o)
  BY <1>1, <1>3, <1>4 DEF OrderKept, OrderOk, ByWallet
<1>6. OrderKept(d, y, n, o)
  BY <1>1, <1>3, <1>4, <1>5 DEF OrderKept, ByWallet
<1> QED BY <1>6 DEF y, n

\* Nor for a user whose referral and rewards it does not write.
LEMMA UserFrame ==
    ASSUME NEW d, NEW x, NEW f, NEW u \in User, UserKept(d, x, Over(x, d), u),
           R(u) \notin DOMAIN f, \A i \in Copy : Rew(u, i) \notin DOMAIN f
    PROVE  UserKept(d, Over(f, x), Over(Over(f, x), d), u)
<1> DEFINE v == Over(x, d)
           y == Over(f, x)
           n == Over(y, d)
<1>1. /\ DOMAIN v = DOMAIN x \cup DOMAIN d
      /\ DOMAIN y = DOMAIN f \cup DOMAIN x
      /\ DOMAIN n = DOMAIN f \cup DOMAIN x \cup DOMAIN d
  BY DEF Over
<1>2. \A r : r \notin DOMAIN f => (r \in DOMAIN n <=> r \in DOMAIN v) /\ (r \in DOMAIN v => n[r] = v[r])
  BY DEF Over
<1>3. \A r \in DOMAIN x : r \notin DOMAIN f => y[r] = x[r]
  BY DEF Over
<1> HIDE DEF v, y, n
<1>4. UserKept(d, x, v, u)
  BY DEF v
<1>5. UserOk(n, u)
  BY <1>1, <1>2, <1>4 DEF UserKept, UserOk
<1>6. UserKept(d, y, n, u)
  BY <1>1, <1>2, <1>3, <1>4, <1>5 DEF UserKept
<1> QED BY <1>6 DEF y, n

\* A write that pays no reward and touches only the rows of order o is sound if it
\* is for o.
LEMMA OrderWrite ==
    ASSUME NEW d, NEW x, NEW f, NEW o, TxOk(d, x), Typed(f),
           \A u \in User : R(u) \notin DOMAIN f /\ \A i \in Copy : Rew(u, i) \notin DOMAIN f,
           \A q \in Order \ {o} : /\ O(q) \notin DOMAIN f /\ P(q) \notin DOMAIN f
                                  /\ \A i \in Copy : S(q, i) \in DOMAIN f =>
                                        S(q, i) \in DOMAIN x \cup DOMAIN d,
           o \in Order => OrderKept(d, Over(f, x), Over(Over(f, x), d), o)
    PROVE  TxOk(d, Over(f, x))
<1>1. Typed(Over(f, x))
  BY OverTyped DEF TxOk
<1>2. ASSUME NEW q \in Order
      PROVE  OrderKept(d, Over(f, x), Over(Over(f, x), d), q)
  <2>1. CASE q = o
    BY <2>1
  <2>2. CASE q # o
    BY <2>2, OrderFrame DEF TxOk
  <2> QED BY <2>1, <2>2
<1>3. ASSUME NEW u \in User
      PROVE  UserKept(d, Over(f, x), Over(Over(f, x), d), u)
  BY UserFrame DEF TxOk
<1>4. OneReward(Over(f, x))
  <2>1. DOMAIN Over(f, x) = DOMAIN f \cup DOMAIN x
    BY OverRows
  <2> QED BY <2>1 DEF TxOk, OneReward
<1> QED BY <1>1, <1>2, <1>3, <1>4 DEF TxOk

\* So is one that touches the rows of no order.
LEMMA PlainWrite ==
    ASSUME NEW d, NEW x, NEW f, TxOk(d, x), Typed(f),
           \A r \in DOMAIN f : r[1] \in {"config", "wallet", "coupon", "redemption"}
    PROVE  TxOk(d, Over(f, x))
<1>1. \A q \in Order : O(q) \notin DOMAIN f /\ P(q) \notin DOMAIN f
                       /\ \A i \in Copy : S(q, i) \notin DOMAIN f
  BY Keys
<1>2. \A u \in User : R(u) \notin DOMAIN f /\ \A i \in Copy : Rew(u, i) \notin DOMAIN f
  BY Keys
<1>3. None \notin Order
  BY IdAssumption
<1> QED BY <1>1, <1>2, <1>3, OrderWrite
-----------------------------------------------------------------------------
\* An order paid by wallet that is not committed is among the rows of its
\* transaction, and nothing of it is committed.
LEMMA PaidHere ==
    ASSUME NEW d, NEW x, NEW v, NEW o \in Order, v = Over(x, d),
           OrderOk(d, o), OrderKept(d, x, v, o), ByWallet(v, o), ~ByWallet(d, o)
    PROVE  /\ O(o) \in DOMAIN x /\ P(o) \in DOMAIN x
           /\ O(o) \notin DOMAIN d /\ P(o) \notin DOMAIN d
           /\ \A i \in Copy : S(o, i) \notin DOMAIN d
<1>1. DOMAIN v = DOMAIN x \cup DOMAIN d
  BY DEF Over
<1>2. P(o) \notin DOMAIN d
  BY DEF OrderKept, ByWallet
<1>3. O(o) \notin DOMAIN d
  BY <1>2 DEF OrderKept
<1>4. O(o) \in DOMAIN v /\ P(o) \in DOMAIN v
  BY DEF OrderKept, OrderOk, ByWallet
<1> QED BY <1>1, <1>2, <1>3, <1>4 DEF OrderOk

\* What x makes of an order when another transaction, whose rows y are none of x,
\* has committed.
LEMMA MergeOrder ==
    ASSUME NEW d, NEW x, NEW y, NEW o \in Order, OrderOk(d, o), DOMAIN x \cap DOMAIN y = {},
           OrderKept(d, x, Over(x, d), o), OrderKept(d, y, Over(y, d), o)
    PROVE  OrderKept(Over(y, d), x, Over(x, Over(y, d)), o)
<1> DEFINE v == Over(x, d)
           m == Over(y, d)
           n == Over(x, m)
<1>1. /\ DOMAIN v = DOMAIN x \cup DOMAIN d
      /\ DOMAIN m = DOMAIN y \cup DOMAIN d
      /\ DOMAIN n = DOMAIN x \cup DOMAIN y \cup DOMAIN d
      /\ \A r \in DOMAIN x : n[r] = v[r] /\ r \notin DOMAIN y
      /\ \A r \in DOMAIN y : n[r] = m[r] /\ r \notin DOMAIN x
      /\ \A r \in DOMAIN d : r \notin DOMAIN x => v[r] = d[r] /\ n[r] = m[r]
      /\ \A r \in DOMAIN d : r \notin DOMAIN y => m[r] = d[r] /\ n[r] = v[r]
  BY DEF Over
<1>2. OrderKept(d, x, v, o) /\ OrderKept(d, y, m, o) /\ v = Over(x, d) /\ m = Over(y, d)
  OBVIOUS
<1> SUFFICES OrderKept(m, x, n, o)
  OBVIOUS
<1> HIDE DEF v, m, n
<1>3. CASE ByWallet(d, o)
  <2>1. /\ O(o) \notin DOMAIN x /\ P(o) \notin DOMAIN x /\ O(o) \notin DOMAIN y /\ P(o) \notin DOMAIN y
        /\ \A i \in Copy : S(o, i) \in DOMAIN x \cup DOMAIN y => S(o, i) \in DOMAIN d
        /\ O(o) \in DOMAIN d /\ P(o) \in DOMAIN d
    BY <1>2, <1>3 DEF OrderKept, OrderOk, ByWallet
  <2>2. n[O(o)] = d[O(o)] /\ m[O(o)] = d[O(o)] /\ n[P(o)] = d[P(o)] /\ m[P(o)] = d[P(o)]
    BY <1>1, <2>1
  <2>3. OrderOk(n, o)
    BY <1>1, <1>3, <2>1, <2>2 DEF OrderOk, ByWallet
  <2> QED BY <1>1, <1>3, <2>1, <2>2, <2>3 DEF OrderKept, ByWallet
<1>4. CASE ~ByWallet(d, o) /\ ByWallet(v, o)
  <2>1. /\ O(o) \in DOMAIN x /\ P(o) \in DOMAIN x
        /\ O(o) \notin DOMAIN d /\ P(o) \notin DOMAIN d
        /\ \A i \in Copy : S(o, i) \notin DOMAIN d
    BY <1>2, <1>4, PaidHere
  <2>2. O(o) \notin DOMAIN m
    BY <1>1, <2>1
  <2>3. P(o) \notin DOMAIN m /\ \A i \in Copy : S(o, i) \notin DOMAIN m
    BY <1>2, <2>2 DEF OrderKept, OrderOk
  <2>4. n[O(o)] = v[O(o)] /\ n[P(o)] = v[P(o)]
    BY <1>1, <2>1
  <2>5. OrderOk(n, o)
    BY <1>1, <1>2, <1>4, <2>1, <2>3, <2>4 DEF OrderKept, OrderOk, ByWallet
  <2> QED BY <1>1, <2>2, <2>3, <2>5 DEF OrderKept, ByWallet
<1>5. CASE ~ByWallet(d, o) /\ ByWallet(m, o)
  <2>1. /\ O(o) \in DOMAIN y /\ P(o) \in DOMAIN y
        /\ O(o) \notin DOMAIN d /\ P(o) \notin DOMAIN d
        /\ \A i \in Copy : S(o, i) \notin DOMAIN d
    BY <1>2, <1>5, PaidHere
  <2>2. O(o) \notin DOMAIN v
    BY <1>1, <2>1
  <2>3. P(o) \notin DOMAIN v /\ \A i \in Copy : S(o, i) \notin DOMAIN v
    BY <1>2, <2>2 DEF OrderKept, OrderOk
  <2>4. n[O(o)] = m[O(o)] /\ n[P(o)] = m[P(o)]
    BY <1>1, <2>1
  <2>5. OrderOk(n, o)
    BY <1>1, <1>2, <1>5, <2>1, <2>3, <2>4 DEF OrderKept, OrderOk, ByWallet
  <2> QED BY <1>1, <2>1, <2>3, <2>4, <2>5 DEF OrderKept, ByWallet
<1>6. CASE ~ByWallet(d, o) /\ ~ByWallet(v, o) /\ ~ByWallet(m, o)
  <2>1. ~ByWallet(n, o)
    BY <1>1, <1>6 DEF ByWallet
  <2>2. OrderOk(n, o)
    <3>1. P(o) \in DOMAIN n => O(o) \in DOMAIN n
      BY <1>1, <1>2 DEF OrderKept, OrderOk
    <3>2. \A i \in Copy : S(o, i) \in DOMAIN n => O(o) \in DOMAIN n
      BY <1>1, <1>2 DEF OrderKept, OrderOk
    <3>3. ASSUME O(o) \in DOMAIN n
          PROVE  /\ n[O(o)].renew # None => n[O(o)].renew \in DOMAIN n
                 /\ n[O(o)].status = "delivered" => /\ P(o) \in DOMAIN n
                                                    /\ \E i \in Copy : S(o, i) \in DOMAIN n
      <4>1. CASE O(o) \in DOMAIN x
        BY <1>1, <1>2, <4>1 DEF OrderKept, OrderOk
      <4>2. CASE O(o) \notin DOMAIN x
        <5>1. O(o) \in DOMAIN m /\ n[O(o)] = m[O(o)]
          BY <1>1, <3>3, <4>2
        <5> QED BY <1>1, <1>2, <5>1 DEF OrderKept, OrderOk
      <4> QED BY <4>1, <4>2
    <3> QED BY <2>1, <3>1, <3>2, <3>3 DEF OrderOk
  <2>3. O(o) \in DOMAIN m => n[O(o)].user = m[O(o)].user /\ n[O(o)].coupon = m[O(o)].coupon
    BY <1>1, <1>2 DEF OrderKept
  <2>4. P(o) \in DOMAIN m => n[P(o)].method = m[P(o)].method
    BY <1>1, <1>2 DEF OrderKept
  <2> QED BY <1>6, <2>1, <2>2, <2>3, <2>4 DEF OrderKept
<1> QED BY <1>3, <1>4, <1>5, <1>6

\* The same for a user.
LEMMA MergeUser ==
    ASSUME NEW d, NEW x, NEW y, NEW u \in User, DOMAIN x \cap DOMAIN y = {},
           UserKept(d, x, Over(x, d), u), UserKept(d, y, Over(y, d), u)
    PROVE  UserKept(Over(y, d), x, Over(x, Over(y, d)), u)
<1> DEFINE v == Over(x, d)
           m == Over(y, d)
           n == Over(x, m)
<1>1. /\ DOMAIN v = DOMAIN x \cup DOMAIN d
      /\ DOMAIN m = DOMAIN y \cup DOMAIN d
      /\ DOMAIN n = DOMAIN x \cup DOMAIN y \cup DOMAIN d
      /\ \A r \in DOMAIN x : n[r] = x[r] /\ r \notin DOMAIN y
      /\ \A r \in DOMAIN m : r \notin DOMAIN x => n[r] = m[r]
  BY DEF Over
<1>2. UserKept(d, x, v, u) /\ UserKept(d, y, m, u)
  OBVIOUS
<1> HIDE DEF v, m, n
<1>3. \A i \in Copy : Rew(u, i) \in DOMAIN x => Rew(u, i) \notin DOMAIN m
  BY <1>1, <1>2 DEF UserKept
<1>4. UserOk(n, u)
  <2>1. CASE R(u) \in DOMAIN x
    BY <1>1, <1>2, <2>1 DEF UserKept, UserOk
  <2>2. CASE R(u) \notin DOMAIN x
    <3>1. \A i \in Copy : Rew(u, i) \in DOMAIN n <=> Rew(u, i) \in DOMAIN m
      BY <1>1, <1>2, <2>2 DEF UserKept
    <3>2. R(u) \in DOMAIN n => R(u) \in DOMAIN m /\ n[R(u)] = m[R(u)]
      BY <1>1, <2>2
    <3> QED BY <1>2, <3>1, <3>2 DEF UserKept, UserOk
  <2> QED BY <2>1, <2>2
<1>5. UserKept(m, x, n, u)
  BY <1>2, <1>3, <1>4 DEF UserKept
<1> QED BY <1>5 DEF m, n

\* Nothing is done by writing nothing.
LEMMA Untouched ==
    ASSUME NEW d, StoreOk(d)
    PROVE  TxOk(d, NoRows)
<1>1. Over(NoRows, d) = d /\ DOMAIN NoRows = {} /\ Typed(NoRows)
  BY Nothing DEF StoreOk
<1>2. \A o \in Order : OrderKept(d, NoRows, d, o)
  BY <1>1 DEF StoreOk, OrderKept, ByWallet
<1>3. \A u \in User : UserKept(d, NoRows, d, u)
  BY <1>1 DEF StoreOk, UserKept
<1> QED BY <1>1, <1>2, <1>3 DEF TxOk, OneReward

\* What a transaction leaves when it commits.
LEMMA Committed ==
    ASSUME NEW d, NEW x, StoreOk(d), TxOk(d, x)
    PROVE  StoreOk(Over(x, d))
<1>1. Typed(Over(x, d))
  BY OverTyped DEF StoreOk, TxOk
<1>2. DOMAIN d \subseteq DOMAIN Over(x, d) /\ Over(x, d) = [r \in DOMAIN Over(x, d) |-> Over(x, d)[r]]
  BY DEF Over
<1>3. \A o \in Order : OrderOk(Over(x, d), o)
  BY DEF TxOk, OrderKept
<1>4. \A u \in User : UserOk(Over(x, d), u)
  BY DEF TxOk, UserKept
<1> QED BY <1>1, <1>2, <1>3, <1>4 DEF StoreOk

\* A statement leaves the store sound if its transaction does.
LEMMA WriteInv ==
    ASSUME StoreInv, NEW t \in Tx, NEW f, Write(t, f), TxOk(db, Over(f, ws[t]))
    PROVE  StoreInv'
<1>1. /\ db' = db
      /\ ws'[t] = Over(f, ws[t])
      /\ \A u \in Tx \ {t} : ws'[u] = ws[u]
      /\ DOMAIN ws' = Tx
  BY WriteEffect DEF StoreInv
<1>2. Exclusive'
  BY WriteExclusive DEF StoreInv
<1>3. Shaped'
  BY DEF Write, Shaped, StoreInv
<1>4. ASSUME NEW u \in Tx
      PROVE  TxOk(db', ws'[u])
  BY <1>1 DEF StoreInv
<1>5. StoreOk(db')
  BY <1>1 DEF StoreInv
<1> QED BY <1>1, <1>2, <1>3, <1>4, <1>5 DEF StoreInv

\* So does the end of a transaction.
LEMMA EndInv ==
    ASSUME StoreInv, NEW t \in Tx, Commit(t) \/ Rollback(t)
    PROVE  /\ StoreInv'
           /\ db' = db \/ db' = Over(ws[t], db)
           /\ ws'[t] = NoRows
           /\ \A u \in Tx \ {t} : ws'[u] = ws[u]
<1>1. /\ ws'[t] = NoRows
      /\ \A u \in Tx \ {t} : ws'[u] = ws[u]
      /\ DOMAIN ws' = Tx
  BY EndEffect DEF StoreInv
<1>2. Exclusive'
  BY EndExclusive DEF StoreInv
<1>3. Shaped'
  BY DEF Commit, Rollback, Shaped, StoreInv
<1>4. db' = db \/ db' = Over(ws[t], db)
  BY DEF Commit, Rollback, Visible
<1>5. StoreOk(db')
  BY <1>4, Committed DEF StoreInv
<1>6. ASSUME NEW u \in Tx
      PROVE  TxOk(db', ws'[u])
  <2>1. CASE u = t
    BY <1>1, <1>5, <2>1, Untouched
  <2>2. CASE u # t /\ db' = db
    BY <1>1, <2>2 DEF StoreInv
  <2>3. CASE u # t /\ db' = Over(ws[t], db)
    <3>1. TxOk(db, ws[u]) /\ TxOk(db, ws[t]) /\ DOMAIN ws[u] \cap DOMAIN ws[t] = {}
      BY <2>3 DEF StoreInv, Exclusive
    <3>2. \A o \in Order : OrderKept(db', ws[u], Over(ws[u], db'), o)
      BY <2>3, <3>1, MergeOrder DEF StoreInv, StoreOk, TxOk
    <3>3. \A w \in User : UserKept(db', ws[u], Over(ws[u], db'), w)
      BY <2>3, <3>1, MergeUser DEF TxOk
    <3>4. TxOk(db', ws[u])
      BY <3>1, <3>2, <3>3 DEF TxOk
    <3> QED BY <1>1, <2>3, <3>4
  <2> QED BY <1>4, <2>1, <2>2, <2>3
<1> QED BY <1>1, <1>2, <1>3, <1>4, <1>5, <1>6 DEF StoreInv
-----------------------------------------------------------------------------
\* What the commits of others do to the committed rows d, for a transaction with the
\* rows x: they keep what is there, whose it is, and how it is paid.
Onward(d, e, x) ==
    /\ DOMAIN d \subseteq DOMAIN e
    /\ \A o \in Order : Open(d, o) => ~ByWallet(e, o)
    /\ \A o \in Order : O(o) \in DOMAIN d => e[O(o)].user = d[O(o)].user
    /\ \A o \in Order : O(o) \in DOMAIN x /\ O(o) \notin DOMAIN d => O(o) \notin DOMAIN e

\* What a handler knows survives the commits of others.
LEMMA OthersKnow ==
    ASSUME NEW s, NEW x, NEW d, NEW e, Aware(s, x, d), Onward(d, e, x)
    PROVE  Aware(s, x, e)
<1>1. s.op \in Method => Buying(s, s.order, x, e)
  BY DEF Aware, Buying, Onward
<1>2. \A o : Open(d, o) => Open(e, o)
  BY DEF Open, Onward
<1>3. s.pc = "credit" => R(Of(x, e, O(s.order)).user) \in DOMAIN e
  <2>1. SUFFICES ASSUME s.pc = "credit"
                 PROVE  R(Of(x, e, O(s.order)).user) \in DOMAIN e
    OBVIOUS
  <2>2. s.op \in {"wallet", "approve", "verify"}
    BY <2>1 DEF Aware, Runs, Method, Delivered, Ending
  <2>3. s.order \in Order /\ O(s.order) \in DOMAIN x \cup DOMAIN d
    BY <2>2 DEF Aware, Buying, Open, Method
  <2>4. Of(x, e, O(s.order)).user = Of(x, d, O(s.order)).user
    BY <2>3 DEF Of, Onward
  <2> QED BY <2>1, <2>4 DEF Aware, Onward
<1>4. DOMAIN d \subseteq DOMAIN e
  BY DEF Onward
<1> QED BY <1>1, <1>2, <1>3, <1>4 DEF Aware

\* What the steps of a handler have in common: a sound store, and what the other
\* handlers know.
StepOf(t) ==
    /\ StoreInv'
    /\ Fresh'
    /\ \A u \in Tx \ {t} : Aware(sess'[u], ws'[u], db')

\* With the step of its own handler, that is the invariant.
LEMMA StepDone ==
    ASSUME NEW t \in Tx, StepOf(t), Aware(sess'[t], ws'[t], db'), Types'
    PROVE  Inv'
    BY DEF StepOf, Inv

\* The rows of orders that are there are those of orders that were created.
LEMMA Created ==
    ASSUME Inv, NEW t \in Tx, NEW o \in Order, O(o) \in DOMAIN ws[t] \cup DOMAIN db
    PROVE  o <= issued
<1>1. o \in Nat /\ issued \in Nat
  BY IdAssumption DEF Inv, Types
<1> QED BY <1>1 DEF Inv, Fresh

\* A statement that writes.
LEMMA WriteStep ==
    ASSUME Inv, NEW t \in Tx, NEW f, Write(t, f), TxOk(db, Over(f, ws[t])),
           issued' \in Nat, issued <= issued', \A o \in Order : O(o) \in DOMAIN f => o <= issued',
           \A u \in Tx \ {t} : sess'[u] = sess[u]
    PROVE  StepOf(t) /\ db' = db /\ ws'[t] = Over(f, ws[t])
<1>1. /\ db' = db
      /\ ws'[t] = Over(f, ws[t])
      /\ \A u \in Tx \ {t} : ws'[u] = ws[u]
  BY WriteEffect DEF Inv, StoreInv
<1>2. StoreInv'
  BY WriteInv DEF Inv
<1>3. Fresh'
  <2> SUFFICES ASSUME NEW o \in Order, o > issued'
               PROVE  O(o) \notin DOMAIN db' /\ \A u \in Tx : O(o) \notin DOMAIN ws'[u]
    BY DEF Fresh
  <2>1. o \in Nat /\ issued \in Nat
    BY IdAssumption DEF Inv, Types
  <2>2. o > issued /\ O(o) \notin DOMAIN f
    BY <2>1
  <2>3. O(o) \notin DOMAIN db /\ \A u \in Tx : O(o) \notin DOMAIN ws[u]
    BY <2>2 DEF Inv, Fresh
  <2>4. O(o) \notin DOMAIN Over(f, ws[t])
    BY <2>2, <2>3 DEF Over
  <2> QED BY <1>1, <2>3, <2>4
<1>4. \A u \in Tx \ {t} : Aware(sess'[u], ws'[u], db')
  BY <1>1 DEF Inv
<1> QED BY <1>1, <1>2, <1>3, <1>4 DEF StepOf

\* A statement that writes nothing.
LEMMA QuietStep ==
    ASSUME Inv, NEW t \in Tx, UNCHANGED store, issued' = issued,
           \A u \in Tx \ {t} : sess'[u] = sess[u]
    PROVE  StepOf(t) /\ db' = db /\ ws' = ws
<1>1. db' = db /\ ws' = ws
  BY DEF store
<1>2. StoreInv'
  BY <1>1 DEF Inv, StoreInv, Shaped, Exclusive
<1>3. Fresh'
  BY <1>1 DEF Inv, Fresh
<1>4. \A u \in Tx \ {t} : Aware(sess'[u], ws'[u], db')
  BY <1>1 DEF Inv
<1> QED BY <1>1, <1>2, <1>3, <1>4 DEF StepOf

\* The end of a transaction.
LEMMA EndStep ==
    ASSUME Inv, NEW t \in Tx, Commit(t) \/ Rollback(t), issued' = issued, sess'[t] = Idle,
           \A u \in Tx \ {t} : sess'[u] = sess[u]
    PROVE  StepOf(t) /\ Aware(sess'[t], ws'[t], db')
<1>1. /\ StoreInv'
      /\ db' = db \/ db' = Over(ws[t], db)
      /\ ws'[t] = NoRows
      /\ \A u \in Tx \ {t} : ws'[u] = ws[u]
  BY EndInv DEF Inv
<1>2. DOMAIN db \subseteq DOMAIN db' /\ DOMAIN db' \subseteq DOMAIN ws[t] \cup DOMAIN db
  BY <1>1 DEF Over
<1>3. Fresh'
  <2> SUFFICES ASSUME NEW o \in Order, o > issued
               PROVE  O(o) \notin DOMAIN db' /\ \A u \in Tx : O(o) \notin DOMAIN ws'[u]
    BY DEF Fresh
  <2>1. O(o) \notin DOMAIN db /\ \A u \in Tx : O(o) \notin DOMAIN ws[u]
    BY DEF Inv, Fresh
  <2> QED BY <1>1, <1>2, <2>1, Nothing
<1>4. ASSUME NEW u \in Tx \ {t}
      PROVE  Aware(sess'[u], ws'[u], db')
  <2>1. TxOk(db, ws[t]) /\ StoreOk(db) /\ DOMAIN ws[u] \cap DOMAIN ws[t] = {}
    BY DEF Inv, StoreInv, Exclusive
  <2>2. Onward(db, db', ws[u])
    <3>1. CASE db' = db
      BY <3>1 DEF Onward, Open
    <3>2. CASE db' = Over(ws[t], db)
      <4>1. \A o \in Order : OrderKept(db, ws[t], db', o)
        BY <2>1, <3>2 DEF TxOk
      <4>2. \A o \in Order : Open(db, o) => ~ByWallet(db', o)
        BY <4>1 DEF Open, OrderKept, ByWallet
      <4>3. \A o \in Order : O(o) \in DOMAIN db => db'[O(o)].user = db[O(o)].user
        BY <4>1 DEF OrderKept
      <4> QED BY <1>2, <2>1, <4>2, <4>3 DEF Onward
    <3> QED BY <1>1, <3>1, <3>2
  <2>3. Aware(sess[u], ws[u], db')
    BY <2>2, OthersKnow DEF Inv
  <2> QED BY <1>1, <2>3
<1>5. Aware(Idle, NoRows, db')
  BY Nothing DEF Aware, Idle, Runs, Method
<1> QED BY <1>1, <1>3, <1>4, <1>5 DEF StepOf

\* The session of t is now s.
LEMMA SessionStep ==
    ASSUME Inv, NEW t \in Tx, NEW s \in Session, sess' = [sess EXCEPT ![t] = s]
    PROVE  /\ sess' \in [Tx -> Session] /\ sess'[t] = s
           /\ \A u \in Tx \ {t} : sess'[u] = sess[u]
    BY DEF Inv, Types
-----------------------------------------------------------------------------
\* At the start the store is sound.
LEMMA InitInv == Init => Inv
<1> SUFFICES ASSUME Init PROVE Inv
  OBVIOUS
<1> DEFINE configs == [r \in {C(c) : c \in Config} |-> [status |-> "available", order |-> None]]
           wallets == [r \in {W(u) : u \in User} |-> Funds[r[2]]]
           referrals == [r \in {R(u) : u \in {v \in User : Referrer[v] # None}} |-> "pending"]
<1>1. db = Over(configs, Over(wallets, Over(referrals, Is(K, 0))))
  BY DEF Init
<1>2. Typed(configs)
  <2>1. \A r \in DOMAIN configs : r[1] = "config" /\ configs[r] \in RowType["config"]
                                  /\ configs[r].status # "reserved" /\ configs[r].order = None
    BY Keys, RowTypes
  <2> QED BY <2>1 DEF Typed
<1>3. Typed(wallets)
  <2>1. \A r \in DOMAIN wallets : r[1] = "wallet" /\ wallets[r] \in Nat
    <3>1. \A u \in User : W(u)[2] = u /\ Funds[u] \in Nat
      BY FundsAssumption DEF W
    <3> QED BY <3>1, Keys
  <2> QED BY <2>1, RowTypes DEF Typed
<1>4. Typed(referrals)
  <2>1. \A r \in DOMAIN referrals : r[1] = "referral" /\ referrals[r] \in RowType["referral"]
    BY Keys, RowTypes
  <2> QED BY <2>1 DEF Typed
<1>5. Typed(Is(K, 0))
  BY Keys, RowTypes, OneTyped
<1>6. Typed(db)
  BY <1>1, <1>2, <1>3, <1>4, <1>5, OverTyped
<1>7. /\ DOMAIN db = DOMAIN configs \cup DOMAIN wallets \cup DOMAIN referrals \cup {K}
      /\ db = [r \in DOMAIN db |-> db[r]]
      /\ \A r \in DOMAIN referrals : r \notin DOMAIN configs \cup DOMAIN wallets => db[r] = "pending"
  BY <1>1 DEF Over, Is
<1> HIDE DEF configs
<1>8. DOMAIN configs = {C(c) : c \in Config}
  BY DEF configs
<1> HIDE DEF wallets
<1>9. DOMAIN wallets = {W(u) : u \in User}
  BY DEF wallets
<1> HIDE DEF referrals
<1>10. DOMAIN referrals = {R(u) : u \in {v \in User : Referrer[v] # None}}
  BY DEF referrals
<1>11. \A r \in DOMAIN db : r[1] \in {"config", "wallet", "referral", "coupon"}
  BY <1>7, <1>8, <1>9, <1>10, Keys
<1>12. StoreOk(db)
  <2>1. K \in DOMAIN db /\ (\A c \in Config : C(c) \in DOMAIN db) /\ \A u \in User : W(u) \in DOMAIN db
    BY <1>7, <1>8, <1>9
  <2>2. ASSUME NEW o \in Order
        PROVE  OrderOk(db, o)
    <3>1. O(o) \notin DOMAIN db /\ P(o) \notin DOMAIN db /\ \A i \in Copy : S(o, i) \notin DOMAIN db
      BY <1>11, Keys
    <3> QED BY <3>1 DEF OrderOk, ByWallet
  <2>3. ASSUME NEW u \in User, R(u) \in DOMAIN db
        PROVE  Referrer[u] # None /\ db[R(u)] # "rewarded" /\ \A i \in Copy : Rew(u, i) \notin DOMAIN db
    <3>1. R(u) \in DOMAIN referrals /\ R(u) \notin DOMAIN configs \cup DOMAIN wallets
      <4>1. R(u) # K /\ (\A c \in Config : R(u) # C(c)) /\ \A w \in User : R(u) # W(w)
        BY Keys
      <4> QED BY <1>7, <1>8, <1>9, <2>3, <4>1
    <3>2. Referrer[u] # None
      <4>1. PICK w \in {v \in User : Referrer[v] # None} : R(u) = R(w)
        BY <1>10, <3>1
      <4> QED BY <4>1, Keys
    <3> QED BY <1>7, <1>11, <3>1, <3>2, Keys
  <2>4. \A u \in User : UserOk(db, u)
    BY <2>3 DEF UserOk
  <2> QED BY <1>6, <1>7, <2>1, <2>2, <2>4 DEF StoreOk
<1>13. ws = [t \in Tx |-> NoRows] /\ sess = [t \in Tx |-> Idle]
  BY DEF Init
<1>14. StoreInv
  <2>1. DOMAIN ws = Tx /\ Shaped /\ Exclusive
    BY <1>13, Nothing DEF Shaped, Exclusive
  <2>2. \A t \in Tx : TxOk(db, ws[t])
    BY <1>12, <1>13, Untouched
  <2> QED BY <1>12, <2>1, <2>2 DEF StoreInv
<1>15. Fresh
  BY <1>11, <1>13, Nothing, Keys DEF Fresh
<1>16. \A t \in Tx : Aware(sess[t], ws[t], db)
  BY <1>13, Nothing DEF Aware, Idle, Runs, Method
<1>17. Types
  <2>1. Idle \in Session
    BY DEF Idle, Session
  <2> QED BY <1>13, <2>1 DEF Init, Types
<1> QED BY <1>14, <1>15, <1>16, <1>17 DEF Inv
-----------------------------------------------------------------------------
\* What a transaction sees.
LEMMA Seen ==
    ASSUME Inv, NEW t \in Tx
    PROVE  /\ TxOk(db, ws[t]) /\ StoreOk(db)
           /\ \A r : Exists(t, r) <=> r \in DOMAIN Over(ws[t], db)
           /\ \A r : Row(t, r) = Of(ws[t], db, r)
           /\ \A r : Exists(t, r) => /\ Row(t, r) = Over(ws[t], db)[r]
                                     /\ Row(t, r) \in RowType[r[1]]
<1>1. TxOk(db, ws[t]) /\ StoreOk(db)
  BY DEF Inv, StoreInv
<1>2. \A r : Exists(t, r) <=> r \in DOMAIN Over(ws[t], db)
  BY DEF Exists, Over
<1>3. \A r : Row(t, r) = Of(ws[t], db, r)
  BY DEF Row, Of
<1>4. ASSUME NEW r, Exists(t, r)
      PROVE  Row(t, r) = Over(ws[t], db)[r] /\ Row(t, r) \in RowType[r[1]]
  <2>1. Row(t, r) = Over(ws[t], db)[r]
    BY <1>4 DEF Exists, Row, Over
  <2>2. Typed(ws[t]) /\ Typed(db)
    BY <1>1 DEF TxOk, StoreOk
  <2>3. Row(t, r) \in RowType[r[1]]
    BY <1>4, <2>2 DEF Exists, Row, Typed
  <2> QED BY <2>1, <2>3
<1> QED BY <1>1, <1>2, <1>3, <1>4

OrderType == RowType["order"]
PaymentType == RowType["payment"]

\* The order of a session that buys or settles one.
LEMMA OwnOrder ==
    ASSUME Inv, NEW t \in Tx, sess[t].op \in Method \cup {"approve", "verify", "reject"} \/ At(t, "release")
    PROVE  /\ sess[t].order \in Order
           /\ Exists(t, O(sess[t].order))
           /\ Mine(t) = Of(ws[t], db, O(sess[t].order))
           /\ Mine(t) = Over(ws[t], db)[O(sess[t].order)]
           /\ Mine(t) \in OrderType
<1> DEFINE o == sess[t].order
<1>1. Aware(sess[t], ws[t], db)
  BY DEF Inv
<1>2. o \in Order /\ O(o) \in DOMAIN ws[t] \cup DOMAIN db
  BY <1>1 DEF Aware, Buying, Open, At
<1>3. Exists(t, O(o))
  BY <1>2 DEF Exists
<1> QED BY <1>2, <1>3, Seen, Keys DEF Mine, OrderType

\* The rows a session still has to flush: the payment of its order, and the order.
LEMMA UnflushedRows ==
    ASSUME Inv, NEW t \in Tx, sess[t].dirty # "no"
    PROVE  LET o == sess[t].order
               f == Unflushed(t)
           IN /\ sess[t].op \in {"wallet", "approve", "reject", "verify"}
              /\ DOMAIN f = IF sess[t].dirty = "settled" THEN {O(o), P(o)} ELSE {P(o)}
              /\ f[P(o)] \in PaymentType
              /\ sess[t].op = "wallet" =>
                    /\ sess[t].dirty = "settled"
                    /\ f[P(o)] = [method |-> "wallet", status |-> "approved", authority |-> FALSE]
              /\ sess[t].op # "wallet" => f[P(o)].method = Row(t, P(o)).method
              /\ sess[t].dirty = "settled" => f[O(o)] = [Mine(t) EXCEPT !.status = "paid"]
<1> DEFINE o == sess[t].order
           f == Unflushed(t)
           d == sess[t].dirty
<1>1. Aware(sess[t], ws[t], db) /\ sess[t] \in Session
  BY DEF Inv, Types
<1>2. sess[t].op \in {"wallet", "approve", "reject", "verify"} /\ d \in {"approved", "rejected", "settled"}
  <2>1. d \in {"approved", "rejected", "settled"}
    BY <1>1 DEF Session
  <2>2. sess[t].op # "none"
    BY <1>1, <2>1 DEF Aware, Idle
  <2> QED BY <1>1, <2>1, <2>2 DEF Aware, Buying, Session, Method
<1>3. o \in Order
  BY <1>2, OwnOrder DEF Method
<1>4. CASE sess[t].op = "wallet"
  <2>1. d = "settled" /\ P(o) \notin DOMAIN ws[t] /\ O(o) \notin DOMAIN db
    BY <1>1, <1>4 DEF Aware, Buying, Method
  <2>2. ~Exists(t, P(o))
    BY <1>3, <2>1 DEF Inv, StoreInv, StoreOk, OrderOk, Exists
  <2>3. f = Over(Is(P(o), [method |-> "wallet", status |-> "approved", authority |-> FALSE]),
                 Is(O(o), [Mine(t) EXCEPT !.status = "paid"]))
    BY <1>4, <2>1, <2>2 DEF Unflushed
  <2>4. [method |-> "wallet", status |-> "approved", authority |-> FALSE] \in PaymentType
    BY RowTypes DEF PaymentType
  <2> QED BY <1>2, <1>4, <2>1, <2>3, <2>4, Keys DEF Over, Is
<1>5. CASE sess[t].op # "wallet"
  <2>1. Exists(t, P(o)) /\ Row(t, P(o)) \in PaymentType
    BY <1>1, <1>2, <1>3, <1>5, Seen, Keys DEF Aware, Exists, PaymentType
  <2>2. \A status \in {"approved", "rejected"} :
           /\ [Row(t, P(o)) EXCEPT !.status = status] \in PaymentType
           /\ [Row(t, P(o)) EXCEPT !.status = status].method = Row(t, P(o)).method
    BY <2>1, RowTypes DEF PaymentType
  <2>3. CASE d = "settled"
    <3>1. f = Over(Is(P(o), [Row(t, P(o)) EXCEPT !.status = "approved"]),
                   Is(O(o), [Mine(t) EXCEPT !.status = "paid"]))
      BY <2>1, <2>3 DEF Unflushed
    <3>2. /\ DOMAIN f = {O(o), P(o)}
          /\ f[P(o)] = [Row(t, P(o)) EXCEPT !.status = "approved"]
          /\ f[O(o)] = [Mine(t) EXCEPT !.status = "paid"]
      BY <3>1, Keys DEF Over, Is
    <3> QED BY <1>2, <1>5, <2>2, <2>3, <3>2
  <2>4. CASE d # "settled"
    <3>1. PICK status \in {"approved", "rejected"} :
             f = Is(P(o), [Row(t, P(o)) EXCEPT !.status = status])
      BY <1>2, <2>1, <2>4 DEF Unflushed
    <3> QED BY <1>2, <1>5, <2>2, <2>4, <3>1 DEF Is
  <2> QED BY <2>3, <2>4
<1> QED BY <1>4, <1>5
-----------------------------------------------------------------------------
\* The rows of t with what it still has to flush.
Pending(t) == Over(Unflushed(t), ws[t])

\* They are sound; the order is paid for, if the session delivers it.
LEMMA UnflushedOk ==
    ASSUME Inv, NEW t \in Tx
    PROVE  LET o == sess[t].order
               x == Pending(t)
           IN /\ TxOk(db, x)
              /\ \A r : r # O(o) /\ r # P(o) =>
                    /\ r \in DOMAIN x <=> r \in DOMAIN ws[t]
                    /\ Of(x, db, r) = Row(t, r)
              /\ DOMAIN ws[t] \subseteq DOMAIN x
              /\ \A q \in Order : O(q) \in DOMAIN x => O(q) \in DOMAIN ws[t] \cup DOMAIN db
              /\ sess[t].op \in Method /\ P(o) \in DOMAIN x => x[P(o)].method = sess[t].op
              /\ sess[t].pc \in Delivering \cup Delivered => P(o) \in DOMAIN x \cup DOMAIN db
              /\ sess[t].op \in Method \cup {"approve", "verify", "reject"} =>
                    LET row == Of(x, db, O(o))
                    IN /\ row \in OrderType
                       /\ row.user = Mine(t).user /\ row.mode = Mine(t).mode
                       /\ row.coupon = Mine(t).coupon /\ row.renew = Mine(t).renew
<1> DEFINE s == sess[t]
           o == sess[t].order
           f == Unflushed(t)
           x == Over(f, ws[t])
           v == Over(ws[t], db)
           n == Over(x, db)
           row == Of(x, db, O(o))
<1> SUFFICES /\ TxOk(db, x)
             /\ \A r : r # O(o) /\ r # P(o) =>
                   /\ r \in DOMAIN x <=> r \in DOMAIN ws[t]
                   /\ Of(x, db, r) = Row(t, r)
             /\ DOMAIN ws[t] \subseteq DOMAIN x
             /\ \A q \in Order : O(q) \in DOMAIN x => O(q) \in DOMAIN ws[t] \cup DOMAIN db
             /\ s.op \in Method /\ P(o) \in DOMAIN x => x[P(o)].method = s.op
             /\ s.pc \in Delivering \cup Delivered => P(o) \in DOMAIN x \cup DOMAIN db
             /\ s.op \in Method \cup {"approve", "verify", "reject"} =>
                   /\ row \in OrderType
                   /\ row.user = Mine(t).user /\ row.mode = Mine(t).mode
                   /\ row.coupon = Mine(t).coupon /\ row.renew = Mine(t).renew
  BY DEF Pending
<1>1. /\ Aware(s, ws[t], db) /\ s \in Session
      /\ TxOk(db, ws[t]) /\ StoreOk(db)
  BY Seen DEF Inv, Types
<1>2. CASE s.dirty = "no"
  <2>1. f = NoRows
    BY <1>2 DEF Unflushed
  <2>2. DOMAIN f = {} /\ Typed(f)
    BY <2>1, Nothing
  <2>3. TxOk(db, x)
    BY <1>1, <2>2, PlainWrite
  <2>4. DOMAIN x = DOMAIN ws[t] /\ \A r \in DOMAIN ws[t] : x[r] = ws[t][r]
    BY <2>2 DEF Over
  <2>5. \A r : Of(x, db, r) = Row(t, r)
    BY <2>4 DEF Of, Row
  <2>6. s.op \in Method /\ P(o) \in DOMAIN x => x[P(o)].method = s.op
    BY <1>1, <2>4 DEF Aware, Buying
  <2>7. s.pc \in Delivering \cup Delivered => P(o) \in DOMAIN x \cup DOMAIN db
    <3>1. s.pc \in Delivering \cup Delivered => s.op \in {"wallet", "approve", "verify"}
      BY <1>1 DEF Aware, Runs, Delivering, Delivered, Ending, Method
    <3> QED BY <1>1, <1>2, <2>4, <3>1 DEF Aware, Buying, Method
  <2>8. s.op \in Method \cup {"approve", "verify", "reject"} => row = Mine(t) /\ Mine(t) \in OrderType
    BY <2>5, OwnOrder DEF Mine
  <2> QED BY <2>3, <2>4, <2>5, <2>6, <2>7, <2>8
<1>3. CASE s.dirty # "no"
  <2>1. /\ s.op \in {"wallet", "approve", "reject", "verify"}
        /\ DOMAIN f = IF s.dirty = "settled" THEN {O(o), P(o)} ELSE {P(o)}
        /\ f[P(o)] \in PaymentType
        /\ s.op = "wallet" =>
              /\ s.dirty = "settled"
              /\ f[P(o)] = [method |-> "wallet", status |-> "approved", authority |-> FALSE]
        /\ s.op # "wallet" => f[P(o)].method = Row(t, P(o)).method
        /\ s.dirty = "settled" => f[O(o)] = [Mine(t) EXCEPT !.status = "paid"]
    BY <1>3, UnflushedRows
  <2>2. /\ o \in Order /\ O(o) \in DOMAIN v /\ Mine(t) = v[O(o)] /\ Mine(t) \in OrderType
        /\ Exists(t, O(o))
    BY <2>1, OwnOrder, Seen DEF Method
  <2>3. LET paid == [Mine(t) EXCEPT !.status = "paid"]
        IN /\ paid \in OrderType
           /\ paid.user = Mine(t).user /\ paid.mode = Mine(t).mode /\ paid.status = "paid"
           /\ paid.coupon = Mine(t).coupon /\ paid.renew = Mine(t).renew
    BY <2>2, RowTypes DEF OrderType, OrderStatus
  <2> HIDE DEF f
  <2>4. /\ DOMAIN x = DOMAIN f \cup DOMAIN ws[t]
        /\ DOMAIN n = DOMAIN x \cup DOMAIN db
        /\ DOMAIN v = DOMAIN ws[t] \cup DOMAIN db
        /\ \A r : r \notin DOMAIN f => /\ r \in DOMAIN n <=> r \in DOMAIN v
                                       /\ r \in DOMAIN v => n[r] = v[r]
                                       /\ r \in DOMAIN ws[t] => x[r] = ws[t][r]
        /\ \A r \in DOMAIN f : n[r] = f[r] /\ x[r] = f[r]
    BY DEF Over
  <2> HIDE DEF x, n, v
  <2>5. /\ n[O(o)].user = v[O(o)].user /\ n[O(o)].coupon = v[O(o)].coupon
        /\ n[O(o)].renew = v[O(o)].renew
        /\ n[O(o)].status = IF s.dirty = "settled" THEN "paid" ELSE v[O(o)].status
        /\ O(o) \in DOMAIN n /\ P(o) \in DOMAIN n /\ n[P(o)] = f[P(o)]
        /\ \A i \in Copy : S(o, i) \in DOMAIN n <=> S(o, i) \in DOMAIN v
        /\ DOMAIN v \subseteq DOMAIN n
    <3>1. /\ O(o) \in DOMAIN n /\ P(o) \in DOMAIN n /\ n[P(o)] = f[P(o)]
          /\ DOMAIN v \subseteq DOMAIN n
      BY <2>1, <2>2, <2>4
    <3>2. \A i \in Copy : S(o, i) \in DOMAIN n <=> S(o, i) \in DOMAIN v
      <4>1. \A i \in Copy : S(o, i) \notin DOMAIN f
        BY <2>1, Keys
      <4> QED BY <2>4, <4>1
    <3>3. CASE s.dirty = "settled"
      <4>1. n[O(o)] = [Mine(t) EXCEPT !.status = "paid"]
        BY <2>1, <2>4, <3>3
      <4> QED BY <2>2, <2>3, <3>1, <3>2, <3>3, <4>1
    <3>4. CASE s.dirty # "settled"
      <4>1. O(o) \notin DOMAIN f
        BY <2>1, <3>4, Keys
      <4> QED BY <2>2, <2>4, <3>1, <3>2, <3>4, <4>1
    <3> QED BY <3>3, <3>4
  <2>6. OrderKept(db, ws[t], v, o) /\ OrderOk(db, o)
    BY <1>1, <2>2 DEF TxOk, StoreOk, v
  <2>7. OrderKept(db, x, n, o)
    <3>1. CASE s.op = "wallet"
      <4>1. /\ O(o) \in DOMAIN ws[t] /\ O(o) \notin DOMAIN db
            /\ \A i \in Copy : S(o, i) \notin DOMAIN ws[t]
        BY <1>1, <2>1, <3>1 DEF Aware, Buying, Method
      <4>2. P(o) \notin DOMAIN db /\ \A i \in Copy : S(o, i) \notin DOMAIN db
        BY <2>6, <4>1 DEF OrderOk
      <4>3. /\ n[P(o)].status = "approved" /\ ~n[P(o)].authority
            /\ n[O(o)].status = "paid"
            /\ \A i \in Copy : S(o, i) \notin DOMAIN n
        <5>1. n[P(o)].status = "approved" /\ ~n[P(o)].authority
          BY <2>1, <2>5, <3>1
        <5>2. n[O(o)].status = "paid"
          BY <2>1, <2>5, <3>1
        <5>3. \A i \in Copy : S(o, i) \notin DOMAIN n
          BY <2>4, <2>5, <4>1, <4>2
        <5> QED BY <5>1, <5>2, <5>3
      <4>4. OrderOk(n, o)
        BY <2>2, <2>5, <2>6, <4>3 DEF OrderKept, OrderOk
      <4> QED BY <4>1, <4>2, <4>4 DEF OrderKept, ByWallet
    <3>2. CASE s.op # "wallet"
      <4>1. Open(db, o) /\ P(o) \in DOMAIN db
        BY <1>1, <2>1, <3>2 DEF Aware
      <4>2. n[P(o)].method = v[P(o)].method
        <5>1. Row(t, P(o)) = v[P(o)]
          BY <4>1, Seen DEF Exists, v
        <5> QED BY <2>1, <2>5, <3>2, <5>1
      <4>3. ~ByWallet(n, o) /\ ~ByWallet(db, o) /\ O(o) \in DOMAIN db
        BY <2>6, <4>1, <4>2 DEF OrderKept, ByWallet, Open
      <4>4. OrderOk(n, o)
        BY <2>2, <2>5, <2>6, <4>3 DEF OrderKept, OrderOk
      <4> QED BY <2>5, <2>6, <4>1, <4>2, <4>3, <4>4 DEF OrderKept
    <3> QED BY <3>1, <3>2
  <2>8. Typed(f)
    <3>1. \A r \in DOMAIN f : r[1] # "config" /\ f[r] \in RowType[r[1]]
      BY <2>1, <2>3, Keys DEF OrderType, PaymentType
    <3> QED BY <3>1 DEF Typed
  <2>9. TxOk(db, x)
    <3>1. \A u \in User : R(u) \notin DOMAIN f /\ \A i \in Copy : Rew(u, i) \notin DOMAIN f
      BY <2>1, Keys
    <3>2. \A q \in Order \ {o} : O(q) \notin DOMAIN f /\ P(q) \notin DOMAIN f
                                 /\ \A i \in Copy : S(q, i) \notin DOMAIN f
      BY <2>1, Keys
    <3> QED BY <1>1, <2>7, <2>8, <3>1, <3>2, OrderWrite DEF x, n
  <2>10. \A r : r # O(o) /\ r # P(o) =>
            (r \in DOMAIN x <=> r \in DOMAIN ws[t]) /\ Of(x, db, r) = Row(t, r)
    BY <2>1, <2>4 DEF Of, Row
  <2>11. \A q \in Order : O(q) \in DOMAIN x => O(q) \in DOMAIN ws[t] \cup DOMAIN db
    <3>1. O(o) \in DOMAIN ws[t] \cup DOMAIN db
      BY <2>2 DEF Exists
    <3>2. \A q \in Order : O(q) \in DOMAIN f => q = o
      BY <2>1, Keys
    <3> QED BY <2>4, <3>1, <3>2
  <2>12. P(o) \in DOMAIN x /\ x[P(o)] = f[P(o)]
    BY <2>1, <2>4
  <2>13. s.op \in Method => x[P(o)].method = s.op
    BY <2>1, <2>12 DEF Method
  <2>14. /\ row \in OrderType
         /\ row.user = Mine(t).user /\ row.mode = Mine(t).mode
         /\ row.coupon = Mine(t).coupon /\ row.renew = Mine(t).renew
    <3>1. CASE s.dirty = "settled"
      <4>1. O(o) \in DOMAIN x /\ x[O(o)] = [Mine(t) EXCEPT !.status = "paid"]
        BY <2>1, <2>4, <3>1
      <4> QED BY <2>3, <4>1 DEF Of
    <3>2. CASE s.dirty # "settled"
      <4>1. O(o) \notin DOMAIN f
        BY <2>1, <3>2, Keys
      <4>2. row = Mine(t)
        BY <2>4, <4>1 DEF Of, Row, Mine
      <4> QED BY <2>2, <4>2
    <3> QED BY <3>1, <3>2
  <2> QED BY <2>4, <2>9, <2>10, <2>11, <2>12, <2>13, <2>14
<1> QED BY <1>2, <1>3

\* A statement that flushes.
LEMMA FlushStep ==
    ASSUME Inv, NEW t \in Tx, NEW f, Flush(t, f), TxOk(db, Over(f, Pending(t))),
           \A o \in Order : O(o) \in DOMAIN f => O(o) \in DOMAIN ws[t] \cup DOMAIN db,
           issued' = issued, \A u \in Tx \ {t} : sess'[u] = sess[u]
    PROVE  StepOf(t) /\ db' = db /\ ws'[t] = Over(f, Pending(t))
<1> DEFINE g == Over(f, Unflushed(t))
<1>1. Write(t, g)
  BY DEF Flush
<1>2. Over(g, ws[t]) = Over(f, Pending(t))
  BY OverAssoc DEF Pending
<1>3. ASSUME NEW o \in Order, O(o) \in DOMAIN g
      PROVE  o <= issued
  <2>1. O(o) \in DOMAIN f \cup DOMAIN Pending(t)
    BY <1>3 DEF Over, Pending
  <2>2. O(o) \in DOMAIN ws[t] \cup DOMAIN db
    BY <2>1, UnflushedOk
  <2> QED BY <2>2, Created
<1>4. issued \in Nat /\ issued <= issued
  BY DEF Inv, Types
<1> HIDE DEF g
<1> QED BY <1>1, <1>2, <1>3, <1>4, WriteStep
-----------------------------------------------------------------------------
\* The rest of the world is of its types.
World ==
    /\ age \in [Order -> 0..2]
    /\ gw \in [Order -> {"none", "open", "paid", "verified"}]
    /\ fsm \in [User -> Order \cup {None}]

\* A statement of t that writes nothing and leaves the session z.
LEMMA QuietDone ==
    ASSUME Inv, NEW t \in Tx, NEW z \in Session, sess' = [sess EXCEPT ![t] = z],
           UNCHANGED store, issued' = issued, World', Aware(z, ws[t], db)
    PROVE  Inv'
<1>1. /\ sess' \in [Tx -> Session] /\ sess'[t] = z
      /\ \A u \in Tx \ {t} : sess'[u] = sess[u]
  BY SessionStep
<1>2. StepOf(t) /\ db' = db /\ ws' = ws
  BY <1>1, QuietStep
<1>3. Types'
  BY <1>1 DEF Inv, Types, World
<1>4. Aware(sess'[t], ws'[t], db')
  BY <1>1, <1>2
<1> QED BY <1>2, <1>3, <1>4, StepDone

\* One that writes.
LEMMA WriteDone ==
    ASSUME Inv, NEW t \in Tx, NEW z \in Session, sess' = [sess EXCEPT ![t] = z], NEW f,
           Write(t, f), TxOk(db, Over(f, ws[t])), World', Aware(z, Over(f, ws[t]), db),
           issued' = issued, \A o \in Order : O(o) \in DOMAIN f => O(o) \in DOMAIN ws[t] \cup DOMAIN db
    PROVE  Inv'
<1>1. /\ sess' \in [Tx -> Session] /\ sess'[t] = z
      /\ \A u \in Tx \ {t} : sess'[u] = sess[u]
  BY SessionStep
<1>2. StepOf(t) /\ db' = db /\ ws'[t] = Over(f, ws[t])
  <2>1. issued \in Nat /\ issued <= issued
    BY DEF Inv, Types
  <2>2. \A o \in Order : O(o) \in DOMAIN f => o <= issued
    BY Created
  <2> QED BY <1>1, <2>1, <2>2, WriteStep
<1>3. Types'
  BY <1>1 DEF Inv, Types, World
<1>4. Aware(sess'[t], ws'[t], db')
  BY <1>1, <1>2
<1> QED BY <1>2, <1>3, <1>4, StepDone

\* One that flushes.
LEMMA FlushDone ==
    ASSUME Inv, NEW t \in Tx, NEW z \in Session, sess' = [sess EXCEPT ![t] = z], NEW f,
           Flush(t, f), TxOk(db, Over(f, Pending(t))), UNCHANGED outside,
           Aware(z, Over(f, Pending(t)), db),
           \A o \in Order : O(o) \in DOMAIN f => O(o) \in DOMAIN ws[t] \cup DOMAIN db
    PROVE  Inv'
<1>1. /\ sess' \in [Tx -> Session] /\ sess'[t] = z
      /\ \A u \in Tx \ {t} : sess'[u] = sess[u]
  BY SessionStep
<1>2. StepOf(t) /\ db' = db /\ ws'[t] = Over(f, Pending(t))
  BY <1>1, FlushStep DEF outside
<1>3. Types'
  BY <1>1 DEF Inv, Types, outside
<1>4. Aware(sess'[t], ws'[t], db')
  BY <1>1, <1>2
<1> QED BY <1>2, <1>3, <1>4, StepDone

\* Where statements lead within a session.
PCs == {"idle", "reserve", "wallet", "gateway", "card", "ask", "declined", "order", "coupon",
        "redeem", "find", "stock", "restock", "sell", "provision", "reward", "credit",
        "cancel", "release", "free", "stale", "refused", "commit"}

\* A session that has only gone on to another statement.
LEMMA Gone ==
    ASSUME NEW s \in Session, NEW pc \in PCs
    PROVE  LET z == [s EXCEPT !.pc = pc]
           IN /\ z \in Session /\ z.pc = pc /\ z.op = s.op /\ z.order = s.order
              /\ z.dirty = s.dirty /\ z.todo = s.todo /\ z.config = s.config
    BY DEF Session, PCs

\* The same after a flush.
LEMMA GoneFlushed ==
    ASSUME NEW s \in Session, NEW pc \in PCs
    PROVE  LET z == [s EXCEPT !.pc = pc, !.dirty = "no"]
           IN /\ z \in Session /\ z.pc = pc /\ z.op = s.op /\ z.order = s.order
              /\ z.dirty = "no" /\ z.todo = s.todo /\ z.config = s.config
<1> DEFINE a == [s EXCEPT !.pc = pc]
<1>1. /\ a \in Session /\ a.pc = pc /\ a.op = s.op /\ a.order = s.order
      /\ a.todo = s.todo /\ a.config = s.config
  BY Gone
<1>2. [s EXCEPT !.pc = pc, !.dirty = "no"] = [a EXCEPT !.dirty = "no"]
  OBVIOUS
<1> HIDE DEF a
<1> QED BY <1>1, <1>2 DEF Session

\* What session t is and knows.
LEMMA Here ==
    ASSUME Inv, NEW t \in Tx
    PROVE  sess[t] \in Session /\ Aware(sess[t], ws[t], db)
    BY DEF Inv, Types

\* A session that delivers its order goes on without a write.
LEMMA Advance ==
    ASSUME NEW s, NEW z, NEW x, NEW d, Aware(s, x, d),
           z.op = s.op, z.order = s.order, z.dirty = s.dirty,
           s.pc \in Delivering \cup Delivered, z.pc \in Delivering \cup Delivered \cup Ending,
           s.pc \in Delivered => z.pc \in Delivered \cup Ending,
           z.pc = "sell" => z.config \in Config,
           z.pc = "credit" => R(Of(x, d, O(s.order)).user) \in DOMAIN d
    PROVE  Aware(z, x, d)
<1>1. /\ s.op \in {"wallet", "approve", "verify"}
      /\ s.pc \notin Ending /\ s.pc \notin {"reserve"} \cup Method
      /\ z.pc \notin {"reserve"} \cup Method
      /\ z.pc \notin {"cancel", "release", "free", "idle"}
      /\ s.pc # "commit"
  BY DEF Aware, Runs, Delivering, Delivered, Ending, Method
<1>2. Runs(z.op, z.pc)
  BY <1>1 DEF Runs
<1>3. z.op \in Method => Buying(z, z.order, x, d)
  BY <1>1 DEF Aware, Buying, Delivering, Delivered, Ending
<1> QED BY <1>1, <1>2, <1>3 DEF Aware

\* And with one.
LEMMA AdvanceFlushed ==
    ASSUME Inv, NEW t \in Tx, NEW z, NEW f,
           z.op = sess[t].op, z.order = sess[t].order, z.dirty = "no",
           sess[t].pc \in Delivering \cup Delivered,
           z.pc \in {"find", "sell", "reward", "commit"},
           sess[t].pc \in Delivered => z.pc \in Delivered \cup Ending,
           z.pc = "sell" => z.config \in Config,
           \A o \in Order : P(o) \notin DOMAIN f,
           \A o \in Order : O(o) \in DOMAIN f => O(o) \in DOMAIN ws[t] \cup DOMAIN db,
           z.pc # "commit" => \A u \in User : R(u) \notin DOMAIN f,
           z.pc \in {"find", "sell"} => \A i \in Copy : S(sess[t].order, i) \notin DOMAIN f
    PROVE  Aware(z, Over(f, Pending(t)), db)
<1> DEFINE s == sess[t]
           o == sess[t].order
           p == Pending(t)
           x == Over(f, p)
<1>1. Aware(s, ws[t], db)
  BY Here
<1>2. /\ s.op \in {"wallet", "approve", "verify"}
      /\ s.pc \notin Ending /\ s.pc \notin {"reserve"} \cup Method
      /\ z.pc \notin {"reserve"} \cup Method
      /\ z.pc \notin {"cancel", "release", "free", "idle", "credit"}
      /\ s.pc # "commit"
  BY <1>1 DEF Aware, Runs, Delivering, Delivered, Ending, Method
<1>3. /\ \A r : r # O(o) /\ r # P(o) => (r \in DOMAIN p <=> r \in DOMAIN ws[t])
      /\ DOMAIN ws[t] \subseteq DOMAIN p
      /\ \A q \in Order : O(q) \in DOMAIN p => O(q) \in DOMAIN ws[t] \cup DOMAIN db
      /\ s.op \in Method /\ P(o) \in DOMAIN p => p[P(o)].method = s.op
      /\ P(o) \in DOMAIN p \cup DOMAIN db
  BY UnflushedOk
<1>4. /\ DOMAIN x = DOMAIN f \cup DOMAIN p
      /\ \A r \in DOMAIN p : r \notin DOMAIN f => x[r] = p[r]
  BY DEF Over
<1> HIDE DEF x, p
<1>5. Runs(z.op, z.pc)
  BY <1>2 DEF Runs, Delivering, Delivered, Ending
<1>6. ASSUME z.op \in Method
      PROVE  Buying(z, o, x, db)
  <2>1. s.op = "wallet" /\ Buying(s, o, ws[t], db)
    BY <1>1, <1>2, <1>6 DEF Aware, Method
  <2>2. o \in Order /\ O(o) \in DOMAIN ws[t] /\ O(o) \notin DOMAIN db
    BY <2>1 DEF Buying
  <2>3. P(o) \notin DOMAIN db
    BY <2>2 DEF Inv, StoreInv, StoreOk, OrderOk
  <2>4. P(o) \in DOMAIN x /\ x[P(o)].method = z.op
    BY <1>3, <1>4, <1>6, <2>2, <2>3
  <2>5. z.pc \notin Delivered \cup Ending => \A i \in Copy : S(o, i) \notin DOMAIN x
    <3>1. SUFFICES ASSUME z.pc \notin Delivered \cup Ending, NEW i \in Copy
                   PROVE  S(o, i) \notin DOMAIN x
      OBVIOUS
    <3>2. z.pc \in {"find", "sell"} /\ s.pc \notin Delivered \cup Ending
      BY <1>2, <3>1 DEF Delivered, Ending
    <3>3. S(o, i) \notin DOMAIN ws[t] /\ S(o, i) \notin DOMAIN f
      BY <2>1, <3>2 DEF Buying
    <3> QED BY <1>3, <1>4, <3>3, Keys
  <2> QED BY <1>2, <1>3, <1>4, <2>2, <2>4, <2>5 DEF Buying
<1>7. z.pc # "commit" => \A u \in User : R(u) \notin DOMAIN x
  <2>1. \A u \in User : R(u) \notin DOMAIN ws[t]
    BY <1>1, <1>2 DEF Aware
  <2>2. \A u \in User : R(u) \notin DOMAIN p
    BY <1>3, <2>1, Keys
  <2> QED BY <1>4, <2>2
<1>8. \A q \in Order : O(q) \in DOMAIN x /\ O(q) \notin DOMAIN db => z.op \in Method /\ q = o
  BY <1>1, <1>3, <1>4 DEF Aware
<1>9. Aware(z, x, db)
  BY <1>1, <1>2, <1>5, <1>6, <1>7, <1>8 DEF Aware
<1> QED BY <1>9 DEF x, p
-----------------------------------------------------------------------------
\* What is outside the store and the sessions stays as it was.
LEMMA SameWorld ==
    ASSUME Inv, UNCHANGED outside
    PROVE  World' /\ issued' = issued
    BY DEF Inv, Types, World, outside

\* A session of t delivers its order.
Settling(t) == sess[t].pc \in Delivering \cup Delivered

\* What it knows then.
LEMMA Settles ==
    ASSUME Inv, NEW t \in Tx, Settling(t)
    PROVE  /\ sess[t].op \in {"wallet", "approve", "verify"}
           /\ sess[t].order \in Order
           /\ Mine(t) = Of(ws[t], db, O(sess[t].order))
           /\ Mine(t) \in OrderType
<1>1. sess[t].op \in {"wallet", "approve", "verify"}
  BY Here DEF Aware, Runs, Settling, Delivering, Delivered, Ending, Method
<1> QED BY <1>1, OwnOrder DEF Method

\* It goes on, or is refused.
LEMMA GotoStep ==
    ASSUME Inv, NEW t \in Tx, Settling(t), NEW pc \in Delivering \cup Delivered \cup Ending,
           Goto(t, pc), UNCHANGED store, UNCHANGED outside,
           sess[t].pc \in Delivered => pc \in Delivered \cup Ending, pc # "sell",
           pc = "credit" => R(Mine(t).user) \in DOMAIN db
    PROVE  Inv'
<1> DEFINE z == [sess[t] EXCEPT !.pc = pc]
<1>1. sess' = [sess EXCEPT ![t] = z]
  BY DEF Goto
<1>2. pc \in PCs
  BY DEF PCs, Delivering, Delivered, Ending
<1>3. /\ z \in Session /\ z.pc = pc /\ z.op = sess[t].op /\ z.order = sess[t].order
      /\ z.dirty = sess[t].dirty
  BY <1>2, Here, Gone
<1> HIDE DEF z
<1>4. Aware(z, ws[t], db)
  BY <1>3, Here, Settles, Advance DEF Settling
<1> QED BY <1>1, <1>3, <1>4, SameWorld, QuietDone

\* The coupon is loaded.
LEMMA LoadCouponStep ==
    ASSUME Inv, NEW t \in Tx, LoadCoupon(t)
    PROVE  Inv'
<1> DEFINE z == [sess[t] EXCEPT !.pc = "redeem", !.uses = Row(t, K)]
<1>1. /\ sess[t].pc = "coupon" /\ UNCHANGED store /\ UNCHANGED outside
      /\ sess' = [sess EXCEPT ![t] = z]
  BY DEF LoadCoupon, At
<1>2. Row(t, K) \in Nat
  <2>1. Exists(t, K)
    BY DEF Inv, StoreInv, StoreOk, Exists
  <2> QED BY <2>1, Seen, Keys, RowTypes
<1>3. /\ z \in Session /\ z.pc = "redeem" /\ z.op = sess[t].op /\ z.order = sess[t].order
      /\ z.dirty = sess[t].dirty
  BY <1>2, Here, ZenonT(30) DEF Session
<1> HIDE DEF z
<1>4. Aware(z, ws[t], db)
  BY <1>1, <1>3, Here, Advance DEF Delivering, Delivered
<1> QED BY <1>1, <1>3, <1>4, SameWorld, QuietDone

\* The rows of a table for one key are finitely many.
LEMMA RowsFinite ==
    ASSUME NEW f, NEW table, NEW x
    PROVE  IsFiniteSet(Rows(f, table, x)) /\ Cardinality(Rows(f, table, x)) \in Nat
<1> DEFINE T == Rows(f, table, x)
           g == [r \in T |-> r[3]]
<1>1. \A r \in T : r = <<table, x, r[3]>> /\ r[3] \in Copy
  BY DEF Rows
<1> HIDE DEF T
<1>2. g \in Injection(T, Copy)
  <2>1. g \in [T -> Copy]
    BY <1>1
  <2>2. \A a, b \in T : g[a] = g[b] => a = b
    BY <1>1
  <2> QED BY <2>1, <2>2 DEF Injection, IsInjective
<1>3. IsFiniteSet(T)
  BY <1>2, FS_Injection, CopyAssumption
<1> QED BY <1>3, FS_CardinalityType DEF T

\* The subscription, the reservation and the referral of an order are looked up.
LEMMA FindSubscriptionStep ==
    ASSUME Inv, NEW t \in Tx, FindSubscription(t)
    PROVE  Inv'
<1> DEFINE n == Cardinality(Rows(Visible(t), "subscription", sess[t].order))
<1>1. sess[t].pc = "find" /\ UNCHANGED store /\ UNCHANGED outside /\ n <= 1
  BY DEF FindSubscription, At
<1>2. Settling(t)
  BY <1>1 DEF Settling, Delivering
<1>3. Mine(t).mode \in {"manual", "panel"}
  BY <1>2, Settles, RowTypes DEF OrderType
<1>4. n = 0 \/ n = 1
  BY <1>1, RowsFinite
<1>5. PICK pc \in {"reward", "stock", "provision"} : Goto(t, pc)
  BY <1>3, <1>4 DEF FindSubscription
<1>6. pc \in Delivering \cup Delivered /\ pc # "sell" /\ pc # "credit"
  BY DEF Delivering, Delivered
<1> QED BY <1>1, <1>2, <1>5, <1>6, GotoStep DEF Delivering, Delivered

\* The config reserved for the order is looked up.
LEMMA FindReservationStep ==
    ASSUME Inv, NEW t \in Tx, FindReservation(t)
    PROVE  Inv'
<1>1. sess[t].pc = "stock" /\ UNCHANGED store /\ UNCHANGED outside
  BY DEF FindReservation, At
<1>2. Settling(t)
  BY <1>1 DEF Settling, Delivering
<1>3. CASE Goto(t, "restock")
  BY <1>1, <1>2, <1>3, GotoStep DEF Delivering, Delivered
<1>4. ASSUME NEW c \in Config, sess' = [sess EXCEPT ![t].pc = "sell", ![t].config = c]
      PROVE  Inv'
  <2> DEFINE z == [sess[t] EXCEPT !.pc = "sell", !.config = c]
  <2>1. sess' = [sess EXCEPT ![t] = z]
    BY <1>4
  <2>2. /\ z \in Session /\ z.pc = "sell" /\ z.op = sess[t].op /\ z.order = sess[t].order
        /\ z.dirty = sess[t].dirty /\ z.config = c
    BY Here, ZenonT(30) DEF Session
  <2> HIDE DEF z
  <2>3. Aware(z, ws[t], db)
    BY <1>1, <2>2, Here, Advance DEF Delivering, Delivered
  <2> QED BY <1>1, <2>1, <2>2, <2>3, SameWorld, QuietDone
<1> QED BY <1>3, <1>4 DEF FindReservation

\* The referral of the customer is looked up.
LEMMA FindReferralStep ==
    ASSUME Inv, NEW t \in Tx, FindReferral(t)
    PROVE  Inv'
<1> DEFINE u == Mine(t).user
<1>1. sess[t].pc = "reward" /\ UNCHANGED store /\ UNCHANGED outside
  BY DEF FindReferral, At
<1>2. Settling(t)
  BY <1>1 DEF Settling, Delivered
<1>3. u \in User
  BY <1>2, Settles, RowTypes DEF OrderType
<1>4. CASE Qualifies(t, u) /\ Goto(t, "credit")
  <2>1. R(u) \notin DOMAIN ws[t]
    BY <1>1, <1>3, Here DEF Aware
  <2>2. R(u) \in DOMAIN db
    BY <1>4, <2>1 DEF Qualifies, Exists
  <2> QED BY <1>1, <1>2, <1>4, <2>2, GotoStep DEF Delivering, Delivered
<1>5. CASE ~Qualifies(t, u) /\ Goto(t, "commit")
  BY <1>1, <1>2, <1>5, GotoStep DEF Delivering, Delivered, Ending
<1> QED BY <1>4, <1>5 DEF FindReferral
-----------------------------------------------------------------------------
\* A new row has a key of its own.
LEMMA NewKeys ==
    ASSUME NEW table, NEW x, Room(table, x)
    PROVE  /\ NewKey(table, x) \notin Taken
           /\ \E i \in Copy : NewKey(table, x) = <<table, x, i>>
<1> DEFINE i == CHOOSE j \in Copy : <<table, x, j>> \notin Taken
<1>1. i \in Copy /\ <<table, x, i>> \notin Taken
  BY DEF Room
<1> QED BY <1>1 DEF NewKey

\* The first of some configs is one of them.
LEMMA FirstIn ==
    ASSUME NEW T \in SUBSET Config, T # {}
    PROVE  FirstOf(T) \in T
<1>1. T \subseteq Nat
  BY IdAssumption
<1> DEFINE L == {p \in Nat \X Nat : p[1] < p[2]}
<1>2. IsWellFoundedOn(L, Nat)
  BY NatLessThanWellFounded DEF OpToRel
<1>3. \A c, d \in Nat : <<d, c>> \notin L => c <= d
  OBVIOUS
<1> HIDE DEF L
<1>4. \E c \in T : \A d \in T : <<d, c>> \notin L
  BY <1>1, <1>2, WFMin
<1>5. \E c \in T : \A d \in T : c <= d
  BY <1>1, <1>3, <1>4
<1> QED BY <1>5 DEF FirstOf

\* The coupon is redeemed.
LEMMA RedeemCouponStep ==
    ASSUME Inv, NEW t \in Tx, RedeemCoupon(t)
    PROVE  Inv'
<1> DEFINE o == sess[t].order
           f == Over(Is(K, sess[t].uses + 1), Is(NewKey("redemption", o), Mine(t).user))
           z == [sess[t] EXCEPT !.pc = "find", !.dirty = "no"]
<1>1. /\ sess[t].pc = "redeem" /\ UNCHANGED outside /\ Room("redemption", o)
      /\ Flush(t, f) /\ sess' = [sess EXCEPT ![t] = z]
  BY DEF RedeemCoupon, Flushed, At
<1>2. /\ z \in Session /\ z.pc = "find" /\ z.op = sess[t].op /\ z.order = o /\ z.dirty = "no"
  <2>1. sess[t] \in Session /\ "find" \in PCs
    BY Here DEF PCs
  <2> QED BY <2>1, GoneFlushed
<1>3. /\ Typed(f)
      /\ \A r \in DOMAIN f : r[1] \in {"coupon", "redemption"}
  <2>1. sess[t].uses + 1 \in Nat
    BY Here DEF Session
  <2>2. Mine(t).user \in User
    BY <1>1, Settles, RowTypes DEF OrderType, Settling, Delivering
  <2>3. NewKey("redemption", o)[1] = "redemption"
    BY <1>1, NewKeys
  <2>4. Typed(Is(K, sess[t].uses + 1)) /\ Typed(Is(NewKey("redemption", o), Mine(t).user))
    BY <2>1, <2>2, <2>3, OneTyped, RowTypes, Keys
  <2>5. DOMAIN f = {K, NewKey("redemption", o)}
    BY DEF Over, Is
  <2> QED BY <2>3, <2>4, <2>5, OverTyped, Keys
<1> HIDE DEF f, z
<1>4. TxOk(db, Over(f, Pending(t)))
  BY <1>3, UnflushedOk, PlainWrite
<1>5. /\ \A q \in Order : P(q) \notin DOMAIN f /\ O(q) \notin DOMAIN f
      /\ \A u \in User : R(u) \notin DOMAIN f
      /\ \A i \in Copy : S(o, i) \notin DOMAIN f
  BY <1>3, Keys
<1>6. Aware(z, Over(f, Pending(t)), db)
  BY <1>1, <1>2, <1>5, AdvanceFlushed DEF Delivering, Delivered
<1> QED BY <1>1, <1>2, <1>4, <1>5, <1>6, FlushDone

\* The rows of a delivery.
LEMMA DeliveryRows ==
    ASSUME Inv, NEW t \in Tx, NEW config \in Config \cup {None},
           sess[t].pc \in {"sell", "provision"}, Room("subscription", sess[t].order)
    PROVE  LET o == sess[t].order
               f == Delivery(t, config)
           IN /\ Typed(f)
              /\ O(o) \in DOMAIN f /\ f[O(o)] = [Mine(t) EXCEPT !.status = "delivered"]
              /\ \A r \in DOMAIN f : r # O(o) =>
                    \E q \in Order, i \in Copy :
                        r = S(q, i) /\ (r \in DOMAIN ws[t] \cup DOMAIN db \/ r = NewKey("subscription", o))
              /\ NewKey("subscription", o) \in DOMAIN f
<1> DEFINE o == sess[t].order
           k == NewKey("subscription", o)
           old == {Mine(t).renew} \ {None}
           olds == [r \in old |-> [Row(t, r) EXCEPT !.active = FALSE]]
           new == [config |-> config, active |-> TRUE]
           row == [Mine(t) EXCEPT !.status = "delivered"]
           f == Delivery(t, config)
<1>1. f = Over(Is(k, new), Over(olds, Is(O(o), row)))
  BY DEF Delivery
<1>2. o \in Order /\ Mine(t) \in OrderType
  BY Settles DEF Settling, Delivering
<1>3. PICK i \in Copy : k = S(o, i)
  BY NewKeys DEF S
<1>4. row \in OrderType
  BY <1>2, RowTypes DEF OrderType, OrderStatus
<1>5. \A r \in old : /\ \E q \in Order, j \in Copy : r = S(q, j)
                     /\ r \in DOMAIN ws[t] \cup DOMAIN db
                     /\ [Row(t, r) EXCEPT !.active = FALSE] \in RowType["subscription"]
  <2>1. SUFFICES ASSUME NEW r \in old
                 PROVE  /\ \E q \in Order, j \in Copy : r = S(q, j)
                        /\ r \in DOMAIN ws[t] \cup DOMAIN db
                        /\ [Row(t, r) EXCEPT !.active = FALSE] \in RowType["subscription"]
    OBVIOUS
  <2>2. r = Mine(t).renew /\ r # None
    OBVIOUS
  <2>3. r \in {"subscription"} \X Order \X Copy
    BY <1>2, <2>2, RowTypes DEF OrderType
  <2>4. PICK q \in Order, j \in Copy : r = S(q, j)
    BY <2>3 DEF S
  <2>5. Exists(t, r)
    <3>1. OrderOk(Over(ws[t], db), o) /\ O(o) \in DOMAIN Over(ws[t], db) /\ Mine(t) = Over(ws[t], db)[O(o)]
      <4>1. sess[t].op \in {"wallet", "approve", "verify"}
        BY Settles DEF Settling, Delivering
      <4> QED BY <1>2, <4>1, Seen, OwnOrder DEF TxOk, OrderKept, Method
    <3> QED BY <2>2, <3>1, Seen DEF OrderOk
  <2>6. Row(t, r) \in RowType["subscription"]
    BY <2>4, <2>5, Seen, Keys
  <2>7. [Row(t, r) EXCEPT !.active = FALSE] \in RowType["subscription"]
    <3>1. \A sub \in [config : Config \cup {None}, active : BOOLEAN] :
             [sub EXCEPT !.active = FALSE] \in [config : Config \cup {None}, active : BOOLEAN]
      OBVIOUS
    <3> QED BY <2>6, <3>1, RowTypes
  <2> QED BY <2>4, <2>5, <2>7 DEF Exists
<1> HIDE DEF old, row
<1>6. DOMAIN f = {k} \cup old \cup {O(o)}
  BY <1>1 DEF Over, Is
<1>7. f[O(o)] = row
  <2>1. O(o) # k /\ O(o) \notin old
    <3>1. O(o)[1] # k[1]
      BY <1>3, Keys
    <3>2. \A r \in old : \E q \in Order, j \in Copy : r = S(q, j)
      BY <1>5
    <3>3. \A q, j : S(q, j) # O(o)
      BY Keys
    <3> QED BY <3>1, <3>2, <3>3
  <2> QED BY <1>1, <2>1 DEF Over, Is
<1>8. Typed(f)
  <2>1. Typed(Is(O(o), row))
    BY <1>4, OneTyped, Keys DEF OrderType
  <2>2. Typed(olds)
    <3>1. \A r \in DOMAIN olds : r[1] = "subscription" /\ olds[r] \in RowType["subscription"]
      BY <1>5, Keys
    <3> QED BY <3>1 DEF Typed
  <2>3. Typed(Is(k, new))
    <3>1. new \in RowType["subscription"] /\ k[1] = "subscription"
      BY <1>3, RowTypes, Keys
    <3> QED BY <3>1, OneTyped
  <2> QED BY <1>1, <2>1, <2>2, <2>3, OverTyped
<1>9. \A r \in DOMAIN f : r # O(o) =>
         \E q \in Order, j \in Copy : r = S(q, j) /\ (r \in DOMAIN ws[t] \cup DOMAIN db \/ r = k)
  BY <1>2, <1>3, <1>5, <1>6
<1> QED BY <1>6, <1>7, <1>8, <1>9 DEF row

\* A delivery is sound: the order is paid for, and has no other subscription if it
\* is paid by wallet.
LEMMA DeliveryOk ==
    ASSUME Inv, NEW t \in Tx, NEW config \in Config \cup {None},
           sess[t].pc \in {"sell", "provision"}, Room("subscription", sess[t].order)
    PROVE  TxOk(db, Over(Delivery(t, config), Pending(t)))
<1> DEFINE o == sess[t].order
           k == NewKey("subscription", o)
           f == Delivery(t, config)
           p == Pending(t)
           v == Over(p, db)
           x == Over(f, p)
           n == Over(x, db)
<1>1. /\ Typed(f)
      /\ O(o) \in DOMAIN f /\ f[O(o)] = [Mine(t) EXCEPT !.status = "delivered"]
      /\ \A r \in DOMAIN f : r # O(o) =>
            \E q \in Order, i \in Copy :
                r = S(q, i) /\ (r \in DOMAIN ws[t] \cup DOMAIN db \/ r = k)
      /\ k \in DOMAIN f
  BY DeliveryRows
<1>2. PICK i \in Copy : k = S(o, i)
  BY NewKeys DEF S
<1>3. /\ sess[t].op \in {"wallet", "approve", "verify"} /\ o \in Order /\ Mine(t) \in OrderType
      /\ sess[t].pc \in Delivering /\ Settling(t)
  BY Settles DEF Settling, Delivering
<1>4. /\ TxOk(db, p) /\ StoreOk(db)
      /\ \A j \in Copy : S(o, j) \in DOMAIN p <=> S(o, j) \in DOMAIN ws[t]
      /\ P(o) \in DOMAIN p \cup DOMAIN db
      /\ DOMAIN ws[t] \subseteq DOMAIN p
      /\ Of(p, db, O(o)).user = Mine(t).user /\ Of(p, db, O(o)).coupon = Mine(t).coupon
      /\ Of(p, db, O(o)).renew = Mine(t).renew
  BY <1>3, UnflushedOk, Seen, Keys DEF Method
<1>5. /\ \A j \in Copy : S(o, j) \in DOMAIN f => S(o, j) \in DOMAIN ws[t] \cup DOMAIN db \/ S(o, j) = k
      /\ P(o) \notin DOMAIN f
  BY <1>1, Keys
<1> HIDE DEF f, p
<1>6. /\ DOMAIN v = DOMAIN p \cup DOMAIN db
      /\ DOMAIN x = DOMAIN f \cup DOMAIN p
      /\ DOMAIN n = DOMAIN f \cup DOMAIN p \cup DOMAIN db
      /\ \A r \in DOMAIN v : r \notin DOMAIN f => n[r] = v[r]
      /\ \A r \in DOMAIN f : n[r] = f[r]
      /\ \A r \in DOMAIN v : v[r] = Of(p, db, r)
  BY DEF Over, Of
<1> HIDE DEF v, x, n
<1>7. /\ O(o) \in DOMAIN v /\ O(o) \in DOMAIN n /\ n[O(o)].status = "delivered"
      /\ n[O(o)].user = v[O(o)].user /\ n[O(o)].coupon = v[O(o)].coupon
      /\ n[O(o)].renew = v[O(o)].renew
  <2>1. Exists(t, O(o))
    BY <1>3, OwnOrder DEF Method
  <2>2. O(o) \in DOMAIN v /\ O(o) \in DOMAIN n
    BY <1>1, <1>4, <1>6, <2>1 DEF Exists
  <2>3. LET row == [Mine(t) EXCEPT !.status = "delivered"]
        IN /\ row.status = "delivered" /\ row.user = Mine(t).user
           /\ row.coupon = Mine(t).coupon /\ row.renew = Mine(t).renew
    BY <1>3, RowTypes DEF OrderType
  <2> QED BY <1>1, <1>4, <1>6, <2>2, <2>3
<1>8. P(o) \in DOMAIN v /\ P(o) \in DOMAIN n /\ n[P(o)] = v[P(o)] /\ S(o, i) \in DOMAIN n
  BY <1>1, <1>2, <1>4, <1>5, <1>6
<1>9. OrderKept(db, p, v, o) /\ OrderOk(db, o)
  BY <1>3, <1>4 DEF TxOk, StoreOk, v
<1>10. OrderKept(db, x, n, o)
  <2>1. CASE sess[t].op = "wallet"
    <3>1. O(o) \notin DOMAIN db /\ \A j \in Copy : S(o, j) \notin DOMAIN ws[t]
      <4>1. Buying(sess[t], o, ws[t], db) /\ sess[t].pc \notin Delivered \cup Ending
        BY <2>1, Here DEF Aware, Method, Delivered, Ending
      <4> QED BY <4>1 DEF Buying
    <3>2. P(o) \notin DOMAIN db /\ \A j \in Copy : S(o, j) \notin DOMAIN db
      BY <1>9, <3>1 DEF OrderOk
    <3>3. \A j \in Copy : S(o, j) \in DOMAIN n => S(o, j) = k
      BY <1>4, <1>5, <1>6, <3>1, <3>2
    <3>4. OrderOk(n, o)
      <4>1. ASSUME NEW a \in Copy, NEW b \in Copy, S(o, a) \in DOMAIN n, S(o, b) \in DOMAIN n
            PROVE  a = b
        <5>1. S(o, a) = S(o, b)
          BY <3>3, <4>1
        <5> QED BY <5>1, Keys
      <4> QED BY <1>6, <1>7, <1>8, <1>9, <4>1 DEF OrderKept, OrderOk, ByWallet
    <3> QED BY <3>1, <3>2, <3>4 DEF OrderKept, ByWallet
  <2>2. CASE sess[t].op # "wallet"
    <3>1. Open(db, o) /\ P(o) \in DOMAIN db
      BY <1>3, <2>2, Here DEF Aware
    <3>2. ~ByWallet(db, o) /\ ~ByWallet(n, o)
      BY <1>8, <1>9, <3>1 DEF Open, OrderKept, ByWallet
    <3>3. OrderOk(n, o)
      BY <1>6, <1>7, <1>8, <1>9, <3>2 DEF OrderKept, OrderOk
    <3> QED BY <1>7, <1>8, <1>9, <3>2, <3>3 DEF OrderKept
  <2> QED BY <2>1, <2>2
<1>11. \A u \in User : R(u) \notin DOMAIN f /\ \A j \in Copy : Rew(u, j) \notin DOMAIN f
  BY <1>1, Keys DEF f
<1>12. ASSUME NEW q \in Order \ {o}
       PROVE  /\ O(q) \notin DOMAIN f /\ P(q) \notin DOMAIN f
              /\ \A j \in Copy : S(q, j) \in DOMAIN f => S(q, j) \in DOMAIN p \cup DOMAIN db
  <2>1. O(q) \notin DOMAIN f /\ P(q) \notin DOMAIN f
    BY <1>1, Keys DEF f
  <2>2. ASSUME NEW j \in Copy, S(q, j) \in DOMAIN f
        PROVE  S(q, j) \in DOMAIN p \cup DOMAIN db
    <3>1. S(q, j) # O(o) /\ S(q, j) # k
      BY <1>2, Keys
    <3> QED BY <1>1, <1>4, <2>2, <3>1 DEF f
  <2> QED BY <2>1, <2>2
<1>13. TxOk(db, x)
  BY <1>1, <1>3, <1>4, <1>10, <1>11, <1>12, OrderWrite DEF x, n, f
<1> QED BY <1>13 DEF x, f, p

\* The config is sold and the order delivered.
LEMMA SellConfigStep ==
    ASSUME Inv, NEW t \in Tx, SellConfig(t)
    PROVE  Inv'
<1> DEFINE o == sess[t].order
           c == sess[t].config
           g == Delivery(t, c)
           sold == Is(C(c), [status |-> "sold", order |-> None])
           f == Over(sold, g)
           z == [sess[t] EXCEPT !.pc = "reward", !.dirty = "no"]
<1>1. /\ sess[t].pc = "sell" /\ UNCHANGED outside /\ Room("subscription", o)
      /\ Flush(t, f) /\ sess' = [sess EXCEPT ![t] = z]
  BY DEF SellConfig, Flushed, At
<1>2. /\ z \in Session /\ z.pc = "reward" /\ z.op = sess[t].op /\ z.order = o /\ z.dirty = "no"
  <2>1. sess[t] \in Session /\ "reward" \in PCs
    BY Here DEF PCs
  <2> QED BY <2>1, GoneFlushed
<1>3. c \in Config
  BY <1>1, Here DEF Aware
<1>4. /\ O(o) \in DOMAIN g
      /\ \A r \in DOMAIN g : r # O(o) =>
            \E q \in Order, i \in Copy :
                r = S(q, i) /\ (r \in DOMAIN ws[t] \cup DOMAIN db \/ r = NewKey("subscription", o))
  BY <1>1, <1>3, DeliveryRows
<1>5. TxOk(db, Over(f, Pending(t)))
  <2>1. TxOk(db, Over(g, Pending(t)))
    BY <1>1, <1>3, DeliveryOk
  <2>2. Typed(sold) /\ \A r \in DOMAIN sold : r[1] = "config"
    <3>1. [status |-> "sold", order |-> None] \in RowType["config"]
      BY RowTypes
    <3>2. DOMAIN sold = {C(c)}
      BY DEF Is
    <3> QED BY <3>1, <3>2, OneTyped, Keys
  <2>3. TxOk(db, Over(sold, Over(g, Pending(t))))
    <3> HIDE DEF sold, g
    <3> QED BY <2>1, <2>2, PlainWrite
  <2> QED BY <2>3, OverAssoc
<1>6. DOMAIN f = DOMAIN g \cup {C(c)}
  BY DEF Over, Is
<1> HIDE DEF g, f, z
<1>7. /\ \A q \in Order : P(q) \notin DOMAIN f
      /\ \A q \in Order : O(q) \in DOMAIN f => O(q) \in DOMAIN ws[t] \cup DOMAIN db
      /\ \A u \in User : R(u) \notin DOMAIN f
  <2>1. O(o) \in DOMAIN ws[t] \cup DOMAIN db
    <3>1. sess[t].op \in {"wallet", "approve", "verify"}
      BY <1>1, Settles DEF Settling, Delivering
    <3> QED BY <3>1, OwnOrder DEF Exists, Method
  <2>2. \A r \in DOMAIN f : r[1] \in {"config", "order", "subscription"}
    BY <1>4, <1>6, Keys
  <2>3. \A q \in Order : O(q) \in DOMAIN f => O(q) = O(o)
    BY <1>4, <1>6, Keys
  <2> QED BY <2>1, <2>2, <2>3, Keys
<1>8. Aware(z, Over(f, Pending(t)), db)
  BY <1>1, <1>2, <1>7, AdvanceFlushed DEF Delivering, Delivered
<1> QED BY <1>1, <1>2, <1>5, <1>7, <1>8, FlushDone

\* The panel's account is created and the order delivered, or not.
LEMMA ProvisionStep ==
    ASSUME Inv, NEW t \in Tx, Provision(t)
    PROVE  Inv'
<1> DEFINE o == sess[t].order
           f == Delivery(t, None)
           z == [sess[t] EXCEPT !.pc = "reward", !.dirty = "no"]
<1>1. sess[t].pc = "provision" /\ UNCHANGED outside
  BY DEF Provision, At
<1>2. CASE Goto(t, "refused") /\ UNCHANGED store
  BY <1>1, <1>2, GotoStep DEF Settling, Delivering, Delivered, Ending
<1>3. CASE Room("subscription", o) /\ Flush(t, f) /\ Flushed(t, "reward")
  <2>1. Flush(t, f) /\ sess' = [sess EXCEPT ![t] = z]
    BY <1>3 DEF Flushed
  <2>2. /\ z \in Session /\ z.pc = "reward" /\ z.op = sess[t].op /\ z.order = o /\ z.dirty = "no"
    <3>1. sess[t] \in Session /\ "reward" \in PCs
      BY Here DEF PCs
    <3> QED BY <3>1, GoneFlushed
  <2>3. /\ O(o) \in DOMAIN f
        /\ \A r \in DOMAIN f : r # O(o) =>
              \E q \in Order, i \in Copy :
                  r = S(q, i) /\ (r \in DOMAIN ws[t] \cup DOMAIN db \/ r = NewKey("subscription", o))
    BY <1>1, <1>3, DeliveryRows
  <2>4. TxOk(db, Over(f, Pending(t)))
    BY <1>1, <1>3, DeliveryOk
  <2> HIDE DEF f, z
  <2>5. /\ \A q \in Order : P(q) \notin DOMAIN f
        /\ \A q \in Order : O(q) \in DOMAIN f => O(q) \in DOMAIN ws[t] \cup DOMAIN db
        /\ \A u \in User : R(u) \notin DOMAIN f
    <3>1. O(o) \in DOMAIN ws[t] \cup DOMAIN db
      <4>1. sess[t].op \in {"wallet", "approve", "verify"}
        BY <1>1, Settles DEF Settling, Delivering
      <4> QED BY <4>1, OwnOrder DEF Exists, Method
    <3>2. \A r \in DOMAIN f : r[1] \in {"order", "subscription"}
      BY <2>3, Keys
    <3>3. \A q \in Order : O(q) \in DOMAIN f => O(q) = O(o)
      BY <2>3, Keys
    <3> QED BY <3>1, <3>2, <3>3, Keys
  <2>6. Aware(z, Over(f, Pending(t)), db)
    BY <1>1, <2>2, <2>5, AdvanceFlushed DEF Delivering, Delivered
  <2> QED BY <1>1, <2>1, <2>2, <2>4, <2>5, <2>6, FlushDone
<1> QED BY <1>2, <1>3 DEF Provision
-----------------------------------------------------------------------------
\* Another row for an order that is not paid by wallet and not delivered here.
LEMMA OrderRow ==
    ASSUME NEW d, NEW x, NEW o \in Order, NEW row \in OrderType, TxOk(d, x), StoreOk(d),
           O(o) \in DOMAIN x \cup DOMAIN d,
           row.user = Of(x, d, O(o)).user, row.coupon = Of(x, d, O(o)).coupon,
           row.renew = Of(x, d, O(o)).renew, row.status # "delivered",
           ~ByWallet(Over(x, d), o), ~ByWallet(d, o)
    PROVE  TxOk(d, Over(Is(O(o), row), x))
<1> DEFINE f == Is(O(o), row)
           y == Over(f, x)
           v == Over(x, d)
           n == Over(y, d)
<1>1. DOMAIN f = {O(o)} /\ f[O(o)] = row
  BY DEF Is
<1> HIDE DEF f
<1>2. /\ DOMAIN v = DOMAIN x \cup DOMAIN d
      /\ DOMAIN y = DOMAIN f \cup DOMAIN x
      /\ DOMAIN n = DOMAIN f \cup DOMAIN x \cup DOMAIN d
      /\ \A r \in DOMAIN v : r \notin DOMAIN f => n[r] = v[r]
      /\ \A r \in DOMAIN f : n[r] = f[r]
      /\ \A r \in DOMAIN v : v[r] = Of(x, d, r)
  BY DEF Over, Of
<1>3. OrderKept(d, x, v, o) /\ OrderOk(d, o)
  BY DEF TxOk, StoreOk
<1>4. ~ByWallet(v, o)
  OBVIOUS
<1> HIDE DEF v, y, n
<1>5. /\ O(o) \in DOMAIN v /\ O(o) \in DOMAIN n /\ n[O(o)] = row
      /\ row.user = v[O(o)].user /\ row.coupon = v[O(o)].coupon /\ row.renew = v[O(o)].renew
      /\ P(o) \in DOMAIN n <=> P(o) \in DOMAIN v
      /\ P(o) \in DOMAIN v => n[P(o)] = v[P(o)]
      /\ \A i \in Copy : S(o, i) \in DOMAIN n <=> S(o, i) \in DOMAIN v
  <2>1. P(o) \notin DOMAIN f /\ \A i \in Copy : S(o, i) \notin DOMAIN f
    BY <1>1, Keys
  <2> QED BY <1>1, <1>2, <2>1
<1>6. ~ByWallet(n, o)
  BY <1>4, <1>5 DEF ByWallet
<1>7. OrderOk(n, o)
  BY <1>2, <1>3, <1>5, <1>6 DEF OrderKept, OrderOk
<1>8. OrderKept(d, y, n, o)
  BY <1>2, <1>3, <1>5, <1>6, <1>7 DEF OrderKept
<1>9. Typed(f)
  BY OneTyped, Keys DEF f, OrderType
<1>10. /\ \A u \in User : R(u) \notin DOMAIN f /\ \A i \in Copy : Rew(u, i) \notin DOMAIN f
       /\ \A q \in Order \ {o} : O(q) \notin DOMAIN f /\ P(q) \notin DOMAIN f
                                 /\ \A i \in Copy : S(q, i) \notin DOMAIN f
  BY <1>1, Keys
<1>11. TxOk(d, y)
  BY <1>8, <1>9, <1>10, OrderWrite DEF y, n
<1> QED BY <1>11 DEF y, f

\* A payment row that is not of the wallet.
LEMMA PaymentRow ==
    ASSUME NEW d, NEW x, NEW o \in Order, NEW row \in PaymentType, TxOk(d, x), StoreOk(d),
           O(o) \in DOMAIN x \cup DOMAIN d, row.method # "wallet", ~ByWallet(d, o),
           P(o) \in DOMAIN d => row.method = d[P(o)].method
    PROVE  TxOk(d, Over(Is(P(o), row), x))
<1> DEFINE f == Is(P(o), row)
           y == Over(f, x)
           v == Over(x, d)
           n == Over(y, d)
<1>1. DOMAIN f = {P(o)} /\ f[P(o)] = row
  BY DEF Is
<1> HIDE DEF f
<1>2. /\ DOMAIN v = DOMAIN x \cup DOMAIN d
      /\ DOMAIN y = DOMAIN f \cup DOMAIN x
      /\ DOMAIN n = DOMAIN f \cup DOMAIN x \cup DOMAIN d
      /\ \A r \in DOMAIN v : r \notin DOMAIN f => n[r] = v[r]
      /\ \A r \in DOMAIN f : n[r] = f[r]
  BY DEF Over
<1>3. OrderKept(d, x, v, o)
  BY DEF TxOk
<1> HIDE DEF v, y, n
<1>4. /\ O(o) \in DOMAIN v /\ O(o) \in DOMAIN n /\ n[O(o)] = v[O(o)]
      /\ P(o) \in DOMAIN n /\ n[P(o)] = row
      /\ \A i \in Copy : S(o, i) \in DOMAIN n <=> S(o, i) \in DOMAIN v
  <2>1. O(o) \notin DOMAIN f /\ \A i \in Copy : S(o, i) \notin DOMAIN f
    BY <1>1, Keys
  <2> QED BY <1>1, <1>2, <2>1
<1>5. ~ByWallet(n, o)
  BY <1>4 DEF ByWallet
<1>6. OrderOk(n, o)
  BY <1>2, <1>3, <1>4, <1>5 DEF OrderKept, OrderOk
<1>7. OrderKept(d, y, n, o)
  BY <1>3, <1>4, <1>5, <1>6 DEF OrderKept
<1>8. Typed(f)
  BY OneTyped, Keys DEF f, PaymentType
<1>9. /\ \A u \in User : R(u) \notin DOMAIN f /\ \A i \in Copy : Rew(u, i) \notin DOMAIN f
      /\ \A q \in Order \ {o} : O(q) \notin DOMAIN f /\ P(q) \notin DOMAIN f
                                /\ \A i \in Copy : S(q, i) \notin DOMAIN f
  BY <1>1, Keys
<1>10. TxOk(d, y)
  BY <1>7, <1>8, <1>9, OrderWrite DEF y, n
<1> QED BY <1>10 DEF y, f

\* Nothing waits to be flushed.
LEMMA NothingPending ==
    ASSUME NEW t \in Tx, sess[t].dirty = "no"
    PROVE  /\ DOMAIN Pending(t) = DOMAIN ws[t]
           /\ \A r \in DOMAIN ws[t] : Pending(t)[r] = ws[t][r]
<1>1. Unflushed(t) = NoRows
  BY DEF Unflushed
<1> QED BY <1>1, Nothing DEF Pending, Over

\* A session that creates an order, before it is paid.
LEMMA Buys ==
    ASSUME Inv, NEW t \in Tx, sess[t].pc \in {"reserve"} \cup Method
    PROVE  LET o == sess[t].order
           IN /\ sess[t].op \in Method /\ sess[t].pc \in {"reserve", sess[t].op}
              /\ sess[t].dirty = "no"
              /\ o \in Order /\ O(o) \in DOMAIN ws[t] /\ O(o) \notin DOMAIN db
              /\ P(o) \notin DOMAIN ws[t] /\ P(o) \notin DOMAIN db
              /\ \A i \in Copy : S(o, i) \notin DOMAIN ws[t]
              /\ Mine(t) \in OrderType
              /\ ~ByWallet(Over(ws[t], db), o) /\ ~ByWallet(db, o)
<1> DEFINE s == sess[t]
           o == sess[t].order
<1>1. Aware(s, ws[t], db)
  BY Here
<1>2. s.op \in Method /\ s.pc \in {"reserve", s.op}
  BY <1>1 DEF Aware, Runs, Method, Delivering, Delivered, Ending
<1>3. Buying(s, o, ws[t], db) /\ s.pc \notin Delivered \cup Ending
  BY <1>1, <1>2 DEF Aware, Method, Delivered, Ending
<1>4. /\ s.dirty = "no" /\ o \in Order /\ O(o) \in DOMAIN ws[t] /\ O(o) \notin DOMAIN db
      /\ P(o) \notin DOMAIN ws[t] /\ \A i \in Copy : S(o, i) \notin DOMAIN ws[t]
  BY <1>3 DEF Buying
<1>5. P(o) \notin DOMAIN db
  BY <1>4 DEF Inv, StoreInv, StoreOk, OrderOk
<1>6. ~ByWallet(Over(ws[t], db), o) /\ ~ByWallet(db, o)
  BY <1>4, <1>5 DEF ByWallet, Over
<1>7. Mine(t) \in OrderType
  BY <1>2, OwnOrder
<1> QED BY <1>2, <1>4, <1>5, <1>6, <1>7

\* What it knows after a statement: the payment, if it was written, is of its method.
LEMMA BuyingOn ==
    ASSUME Inv, NEW t \in Tx, sess[t].pc \in {"reserve"} \cup Method, NEW z, NEW x,
           z.op = sess[t].op, z.order = sess[t].order,
           \/ z.pc \in {"commit", "refused", sess[t].op} /\ z.dirty = "no"
           \/ z.pc \in {"redeem", "find"} /\ z.dirty = "settled" /\ z.op = "wallet",
           \A r : r # P(sess[t].order) /\ r[1] \notin {"config", "wallet"} =>
              (r \in DOMAIN x <=> r \in DOMAIN ws[t]),
           P(sess[t].order) \in DOMAIN x => /\ x[P(sess[t].order)].method = z.op
                                            /\ z.pc \in {"commit", "refused"}
    PROVE  Aware(z, x, db)
<1> DEFINE s == sess[t]
           o == sess[t].order
<1>1. Aware(s, ws[t], db) /\ s.pc # "commit"
  BY Here DEF Method
<1>2. /\ s.op \in Method /\ s.dirty = "no"
      /\ o \in Order /\ O(o) \in DOMAIN ws[t] /\ O(o) \notin DOMAIN db
      /\ \A i \in Copy : S(o, i) \notin DOMAIN ws[t]
  BY Buys
<1>3. O(o) \in DOMAIN x /\ \A i \in Copy : S(o, i) \notin DOMAIN x
  BY <1>2, Keys
<1>4. \A u \in User : R(u) \notin DOMAIN x
  BY <1>1, Keys DEF Aware
<1>5. \A q \in Order : O(q) \in DOMAIN x /\ O(q) \notin DOMAIN db => q = o
  BY <1>1, Keys DEF Aware
<1>6. Buying(z, o, x, db)
  BY <1>2, <1>3 DEF Buying, Method, Delivering, Delivered, Ending
<1>7. Runs(z.op, z.pc)
  BY <1>2 DEF Runs, Method, Delivering, Delivered, Ending
<1> QED BY <1>2, <1>4, <1>5, <1>6, <1>7 DEF Aware, Method

\* Stock is reserved for the order, when it is created or when it is delivered.
LEMMA ReserveStep ==
    ASSUME Inv, NEW t \in Tx, Reserve(t)
    PROVE  Inv'
<1> DEFINE s == sess[t]
           o == sess[t].order
           c == FirstOf(Stock(t))
           held == Is(C(c), [status |-> "reserved", order |-> o])
           row == [Mine(t) EXCEPT !.status = "awaiting_payment"]
<1>1. UNCHANGED outside
  BY DEF Reserve
<1>2. Stock(t) # {} => c \in Config
  BY FirstIn DEF Stock
<1>3. o \in Order /\ Stock(t) # {} =>
         /\ Typed(held) /\ DOMAIN held = {C(c)}
         /\ \A r \in DOMAIN held : r[1] = "config"
  <2>1. DOMAIN held = {C(c)}
    BY DEF Is
  <2>2. ASSUME o \in Order, Stock(t) # {}
        PROVE  Typed(held)
    <3>1. [status |-> "reserved", order |-> o] \in RowType["config"] /\ o # None
      BY <2>2, RowTypes, IdAssumption
    <3> QED BY <3>1, OneTyped, Keys
  <2> QED BY <2>1, <2>2, Keys
<1> HIDE DEF c, held, row
<1>4. ASSUME s.pc = "reserve", Stock(t) # {}, Flush(t, Over(held, Is(O(o), row))), Flushed(t, s.op)
      PROVE  Inv'
  <2> DEFINE f == Over(held, Is(O(o), row))
             p == Pending(t)
             z == [sess[t] EXCEPT !.pc = sess[t].op, !.dirty = "no"]
  <2>1. /\ s.op \in Method /\ s.dirty = "no" /\ o \in Order
        /\ O(o) \in DOMAIN ws[t] /\ O(o) \notin DOMAIN db
        /\ P(o) \notin DOMAIN ws[t] /\ P(o) \notin DOMAIN db
        /\ Mine(t) \in OrderType
    BY <1>4, Buys
  <2>2. sess' = [sess EXCEPT ![t] = z]
    BY <1>4 DEF Flushed
  <2>3. /\ z \in Session /\ z.pc = s.op /\ z.op = s.op /\ z.order = o /\ z.dirty = "no"
    <3>1. sess[t] \in Session /\ s.op \in PCs
      BY <2>1, Here DEF PCs, Method
    <3> QED BY <3>1, GoneFlushed
  <2>4. DOMAIN p = DOMAIN ws[t] /\ \A r \in DOMAIN ws[t] : p[r] = ws[t][r]
    BY <2>1, NothingPending
  <2>5. TxOk(db, p) /\ StoreOk(db)
    BY UnflushedOk, Seen
  <2>6. /\ row \in OrderType /\ row.user = Mine(t).user /\ row.coupon = Mine(t).coupon
        /\ row.renew = Mine(t).renew /\ row.status # "delivered"
    BY <2>1, RowTypes DEF row, OrderType, OrderStatus
  <2> HIDE DEF p, z
  <2>7. Of(p, db, O(o)) = Mine(t)
    BY <2>1, <2>4 DEF Of, Mine, Row
  <2>8. ~ByWallet(Over(p, db), o) /\ ~ByWallet(db, o)
    BY <2>1, <2>4 DEF ByWallet, Over
  <2>9. TxOk(db, Over(Is(O(o), row), p))
    BY <2>1, <2>4, <2>5, <2>6, <2>7, <2>8, OrderRow
  <2>10. TxOk(db, Over(f, p))
    <3>1. TxOk(db, Over(held, Over(Is(O(o), row), p)))
      BY <1>3, <1>4, <2>1, <2>9, PlainWrite
    <3> QED BY <3>1, OverAssoc
  <2>11. DOMAIN f = {C(c), O(o)} /\ DOMAIN Over(f, p) = DOMAIN f \cup DOMAIN p
    BY <1>3, <1>4, <2>1 DEF Over, Is
  <2> HIDE DEF f
  <2>12. Aware(z, Over(f, p), db)
    <3>1. \A r : r # P(o) /\ r[1] \notin {"config", "wallet"} =>
             (r \in DOMAIN Over(f, p) <=> r \in DOMAIN ws[t])
      BY <2>1, <2>4, <2>11, Keys
    <3>2. P(o) \notin DOMAIN Over(f, p)
      BY <2>1, <2>4, <2>11, Keys
    <3> QED BY <1>4, <2>3, <3>1, <3>2, BuyingOn
  <2>13. \A q \in Order : O(q) \in DOMAIN f => O(q) \in DOMAIN ws[t] \cup DOMAIN db
    BY <2>1, <2>11, Keys
  <2> QED BY <1>1, <1>4, <2>2, <2>3, <2>10, <2>12, <2>13, FlushDone DEF f, p
<1>5. ASSUME s.pc = "restock", Stock(t) # {}, Flush(t, held),
             sess' = [sess EXCEPT ![t].pc = "sell", ![t].config = c, ![t].dirty = "no"]
      PROVE  Inv'
  <2> DEFINE z == [sess[t] EXCEPT !.pc = "sell", !.config = c, !.dirty = "no"]
  <2>1. o \in Order /\ Settling(t)
    BY <1>5, Settles DEF Settling, Delivering
  <2>2. sess' = [sess EXCEPT ![t] = z]
    BY <1>5
  <2>3. /\ z \in Session /\ z.pc = "sell" /\ z.op = s.op /\ z.order = o /\ z.dirty = "no"
        /\ z.config \in Config
    <3> DEFINE a == [sess[t] EXCEPT !.pc = "sell", !.config = c]
    <3>1. a \in Session /\ a.pc = "sell" /\ a.op = s.op /\ a.order = o /\ a.config = c
      BY <1>2, <1>5, Here, ZenonT(60) DEF Session
    <3>2. z = [a EXCEPT !.dirty = "no"]
      OBVIOUS
    <3> HIDE DEF a
    <3> QED BY <1>2, <1>5, <3>1, <3>2 DEF Session
  <2>4. TxOk(db, Over(held, Pending(t)))
    BY <1>3, <1>5, <2>1, UnflushedOk, PlainWrite
  <2>5. /\ \A q \in Order : P(q) \notin DOMAIN held /\ O(q) \notin DOMAIN held
        /\ \A u \in User : R(u) \notin DOMAIN held
        /\ \A i \in Copy : S(o, i) \notin DOMAIN held
    BY <1>3, <1>5, <2>1, Keys
  <2> HIDE DEF z
  <2>6. Aware(z, Over(held, Pending(t)), db)
    BY <1>5, <2>3, <2>5, AdvanceFlushed DEF Delivering, Delivered
  <2> QED BY <1>1, <1>5, <2>2, <2>3, <2>4, <2>5, <2>6, FlushDone
<1>6. ASSUME s.pc \in {"reserve", "restock"}, Goto(t, "refused"), UNCHANGED store
      PROVE  Inv'
  <2>1. CASE s.pc = "restock"
    BY <1>1, <1>6, <2>1, GotoStep DEF Settling, Delivering, Delivered, Ending
  <2>2. CASE s.pc = "reserve"
    <3> DEFINE z == [sess[t] EXCEPT !.pc = "refused"]
    <3>1. sess' = [sess EXCEPT ![t] = z]
      BY <1>6 DEF Goto
    <3>2. z \in Session /\ z.pc = "refused" /\ z.op = s.op /\ z.order = o /\ z.dirty = s.dirty
      <4>1. sess[t] \in Session /\ "refused" \in PCs
        BY Here DEF PCs
      <4> QED BY <4>1, Gone
    <3> HIDE DEF z
    <3>3. s.dirty = "no" /\ P(o) \notin DOMAIN ws[t]
      BY <2>2, Buys
    <3>4. Aware(z, ws[t], db)
      BY <2>2, <3>2, <3>3, BuyingOn
    <3> QED BY <1>1, <1>6, <3>1, <3>2, <3>4, SameWorld, QuietDone
  <2> QED BY <1>6, <2>1, <2>2
<1> QED BY <1>4, <1>5, <1>6 DEF Reserve, At, c, held, row

\* The wallet is charged, or the order refused.
LEMMA PayWithWalletStep ==
    ASSUME Inv, NEW t \in Tx, PayWithWallet(t)
    PROVE  Inv'
<1> DEFINE s == sess[t]
           o == sess[t].order
           due == FinalPrice(Mine(t))
           w == W(Mine(t).user)
<1>1. s.pc = "wallet" /\ UNCHANGED outside
  BY DEF PayWithWallet, At
<1>2. /\ s.op = "wallet" /\ s.dirty = "no" /\ P(o) \notin DOMAIN ws[t] /\ Mine(t) \in OrderType
  BY <1>1, Buys DEF Method
<1>3. due \in Nat /\ Mine(t).user \in User /\ w[1] = "wallet" /\ Mine(t).coupon \in BOOLEAN
  BY <1>2, PriceAssumption, RowTypes, Keys DEF FinalPrice, OrderType
<1>4. Row(t, w) \in Nat
  <2>1. Exists(t, w)
    BY <1>3 DEF Inv, StoreInv, StoreOk, Exists
  <2> QED BY <1>3, <2>1, Seen, RowTypes
<1>5. TxOk(db, ws[t])
  BY Seen
<1>6. ASSUME NEW n \in Nat, NEW pc \in {"refused", "redeem", "find"}, NEW z \in Session,
             sess' = [sess EXCEPT ![t] = z], Write(t, Is(w, n)),
             z.pc = pc, z.op = s.op, z.order = o,
             z.dirty = IF pc = "refused" THEN "no" ELSE "settled"
      PROVE  Inv'
  <2> DEFINE f == Is(w, n)
  <2>1. DOMAIN f = {w} /\ Typed(f)
    <3>1. DOMAIN f = {w}
      BY DEF Is
    <3> QED BY <1>3, <3>1, OneTyped, RowTypes
  <2> HIDE DEF f
  <2>2. TxOk(db, Over(f, ws[t]))
    BY <1>3, <1>5, <2>1, PlainWrite
  <2>3. DOMAIN Over(f, ws[t]) = DOMAIN ws[t] \cup {w}
    BY <2>1 DEF Over
  <2>4. Aware(z, Over(f, ws[t]), db)
    <3>1. P(o) \notin DOMAIN Over(f, ws[t])
      BY <1>2, <1>3, <2>3, Keys
    <3>2. \A r : r # P(o) /\ r[1] \notin {"config", "wallet"} =>
             (r \in DOMAIN Over(f, ws[t]) <=> r \in DOMAIN ws[t])
      BY <1>3, <2>3
    <3> QED BY <1>1, <1>2, <1>6, <3>1, <3>2, BuyingOn DEF Method
  <2>5. \A q \in Order : O(q) \notin DOMAIN f
    BY <1>3, <2>1, Keys
  <2> QED BY <1>1, <1>6, <2>2, <2>4, <2>5, SameWorld, WriteDone DEF f
<1>7. \A pc \in {"refused", "redeem", "find"} :
         /\ LET z == [s EXCEPT !.pc = pc]
            IN z \in Session /\ z.pc = pc /\ z.op = s.op /\ z.order = o /\ z.dirty = s.dirty
         /\ LET z == [s EXCEPT !.dirty = "settled", !.pc = pc]
            IN z \in Session /\ z.pc = pc /\ z.op = s.op /\ z.order = o /\ z.dirty = "settled"
  <2> SUFFICES ASSUME NEW pc \in {"refused", "redeem", "find"}
               PROVE /\ LET z == [s EXCEPT !.pc = pc]
                        IN z \in Session /\ z.pc = pc /\ z.op = s.op /\ z.order = o /\ z.dirty = s.dirty
                     /\ LET z == [s EXCEPT !.dirty = "settled", !.pc = pc]
                        IN z \in Session /\ z.pc = pc /\ z.op = s.op /\ z.order = o /\ z.dirty = "settled"
    OBVIOUS
  <2> DEFINE a == [s EXCEPT !.dirty = "settled"]
  <2>1. s \in Session /\ pc \in PCs
    BY Here DEF PCs
  <2>2. a \in Session /\ a.op = s.op /\ a.order = o /\ a.dirty = "settled"
    BY <2>1 DEF Session
  <2>3. [s EXCEPT !.dirty = "settled", !.pc = pc] = [a EXCEPT !.pc = pc]
    OBVIOUS
  <2> HIDE DEF a
  <2> QED BY <2>1, <2>2, <2>3, Gone
<1>8. CASE Goto(t, "refused") /\ UNCHANGED store
  <2> DEFINE z == [s EXCEPT !.pc = "refused"]
  <2>1. sess' = [sess EXCEPT ![t] = z] /\ z \in Session /\ z.pc = "refused" /\ z.op = s.op
        /\ z.order = o /\ z.dirty = "no"
    BY <1>2, <1>7, <1>8 DEF Goto
  <2> HIDE DEF z
  <2>2. Aware(z, ws[t], db)
    BY <1>1, <1>2, <2>1, BuyingOn DEF Method
  <2> QED BY <1>1, <1>8, <2>1, <2>2, SameWorld, QuietDone
<1>9. CASE LockRow(t, w) /\ Goto(t, "refused")
  <2> DEFINE z == [s EXCEPT !.pc = "refused"]
  <2>1. sess' = [sess EXCEPT ![t] = z] /\ z \in Session /\ z.pc = "refused" /\ z.op = s.op
        /\ z.order = o /\ z.dirty = "no"
    BY <1>2, <1>7, <1>9 DEF Goto
  <2> HIDE DEF z
  <2> QED BY <1>4, <1>6, <1>9, <2>1 DEF LockRow
<1>10. ASSUME Row(t, w) >= due, Debit(t, w, due), NEW pc \in {"redeem", "find"},
              sess' = [sess EXCEPT ![t].dirty = "settled", ![t].pc = pc]
       PROVE  Inv'
  <2> DEFINE z == [s EXCEPT !.dirty = "settled", !.pc = pc]
  <2>1. sess' = [sess EXCEPT ![t] = z] /\ z \in Session /\ z.pc = pc /\ z.op = s.op
        /\ z.order = o /\ z.dirty = "settled"
    BY <1>7, <1>10
  <2> HIDE DEF z
  <2>2. Row(t, w) - due \in Nat
    BY <1>3, <1>4, <1>10
  <2> QED BY <1>6, <1>10, <2>1, <2>2 DEF Debit
<1> QED BY <1>3, <1>8, <1>9, <1>10 DEF PayWithWallet
-----------------------------------------------------------------------------
\* The rows of a reward.
LEMMA RewardRows ==
    ASSUME Inv, NEW t \in Tx, RewardReferrer(t)
    PROVE  LET u == Mine(t).user
               w == W(Referrer[u])
               k == NewKey("reward", u)
               f == Rewarded(t, u)
           IN /\ u \in User /\ Referrer[u] \in User
              /\ \A q \in User : R(q) \notin DOMAIN ws[t]
              /\ k \notin Taken /\ \E i \in Copy : k = Rew(u, i)
              /\ Typed(f) /\ R(u) \in DOMAIN f /\ f[R(u)] = "rewarded"
              /\ DOMAIN f = IF Reward = 0 THEN {R(u)} ELSE {R(u), w, k}
              /\ Reward # 0 => f[w] = Row(t, w) + Reward /\ f[k] = Referrer[u]
<1> DEFINE o == sess[t].order
           u == Mine(t).user
           w == W(Referrer[u])
           k == NewKey("reward", u)
           f == Rewarded(t, u)
<1>1. sess[t].pc = "credit" /\ Room("reward", u)
  BY DEF RewardReferrer, At
<1>2. o \in Order /\ u \in User /\ Mine(t) = Of(ws[t], db, O(o))
  BY <1>1, Settles, RowTypes DEF OrderType, Settling, Delivered
<1> HIDE DEF u
<1>3. R(u) \in DOMAIN db /\ \A q \in User : R(q) \notin DOMAIN ws[t]
  BY <1>1, <1>2, Here DEF Aware, u
<1>4. Referrer[u] \in User
  <2>1. UserOk(db, u)
    BY <1>2, Seen DEF StoreOk
  <2> QED BY <1>2, <1>3, <2>1, ReferrerAssumption DEF UserOk
<1>5. PICK i \in Copy : k = Rew(u, i)
  BY <1>1, NewKeys DEF Rew
<1>6. k \notin Taken
  BY <1>1, NewKeys
<1> HIDE DEF k
<1>7. /\ Typed(f) /\ R(u) \in DOMAIN f /\ f[R(u)] = "rewarded"
      /\ DOMAIN f = IF Reward = 0 THEN {R(u)} ELSE {R(u), w, k}
      /\ Reward # 0 => f[w] = Row(t, w) + Reward /\ f[k] = Referrer[u]
  <2>1. Typed(Is(R(u), "rewarded"))
    BY OneTyped, RowTypes, Keys
  <2>2. Row(t, w) + Reward \in Nat
    <3>1. w \in DOMAIN db
      BY <1>4, Seen DEF StoreOk
    <3>2. Row(t, w) \in RowType[w[1]]
      BY <3>1, Seen DEF Exists
    <3> QED BY <3>2, RowTypes, Keys, PriceAssumption
  <2>3. Typed(Is(w, Row(t, w) + Reward))
    BY <2>2, OneTyped, RowTypes, Keys
  <2>4. Typed(Is(k, Referrer[u]))
    BY <1>4, <1>5, OneTyped, RowTypes, Keys
  <2>5. CASE Reward = 0
    <3>1. f = Over(Is(R(u), "rewarded"), NoRows)
      BY <2>5 DEF Rewarded
    <3> QED BY <2>1, <2>5, <3>1, OverTyped, Nothing DEF Over, Is
  <2>6. CASE Reward # 0
    <3>1. f = Over(Is(R(u), "rewarded"), Over(Is(w, Row(t, w) + Reward), Is(k, Referrer[u])))
      BY <2>6 DEF Rewarded, Rewarding, k
    <3>2. Typed(f)
      BY <2>1, <2>3, <2>4, <3>1, OverTyped
    <3>3. R(u) # w /\ R(u) # k /\ w # k
      BY <1>5, Keys
    <3> QED BY <2>6, <3>1, <3>2, <3>3 DEF Over, Is
  <2> QED BY <2>5, <2>6
<1> QED BY <1>2, <1>3, <1>4, <1>5, <1>6, <1>7 DEF u, k

\* The referrer is rewarded.
LEMMA RewardReferrerStep ==
    ASSUME Inv, NEW t \in Tx, RewardReferrer(t)
    PROVE  Inv'
<1> DEFINE o == sess[t].order
           u == Mine(t).user
           w == W(Referrer[u])
           k == NewKey("reward", u)
           f == Rewarded(t, u)
           p == Pending(t)
           y == Over(f, p)
           n == Over(y, db)
           z == [sess[t] EXCEPT !.pc = "commit", !.dirty = "no"]
<1>1. /\ sess[t].pc = "credit" /\ UNCHANGED outside
      /\ Flush(t, f) /\ sess' = [sess EXCEPT ![t] = z]
  BY DEF RewardReferrer, Flushed, At
<1>2. /\ z \in Session /\ z.pc = "commit" /\ z.op = sess[t].op /\ z.order = o /\ z.dirty = "no"
  <2>1. sess[t] \in Session /\ "commit" \in PCs
    BY Here DEF PCs
  <2> QED BY <2>1, GoneFlushed
<1> HIDE DEF z
<1>3. o \in Order
  BY <1>1, Settles DEF Settling, Delivered
<1>4. /\ u \in User /\ Referrer[u] \in User
      /\ \A q \in User : R(q) \notin DOMAIN ws[t]
      /\ k \notin Taken /\ \E i \in Copy : k = Rew(u, i)
  BY RewardRows
<1>5. /\ Typed(f) /\ R(u) \in DOMAIN f /\ f[R(u)] = "rewarded"
      /\ DOMAIN f = IF Reward = 0 THEN {R(u)} ELSE {R(u), w, k}
  BY RewardRows
<1>6. /\ TxOk(db, p) /\ StoreOk(db) /\ TxOk(db, ws[t])
      /\ \A r : r # O(o) /\ r # P(o) => (r \in DOMAIN p <=> r \in DOMAIN ws[t])
  BY UnflushedOk, Seen
<1> HIDE DEF u, k
<1>7. PICK i \in Copy : k = Rew(u, i)
  BY <1>4
<1> HIDE DEF f, p
<1>8. \A r \in DOMAIN f : r = R(u) \/ r[1] = "wallet" \/ (Reward # 0 /\ r = k)
  BY <1>5, Keys
<1>9. /\ DOMAIN y = DOMAIN f \cup DOMAIN p
       /\ DOMAIN n = DOMAIN f \cup DOMAIN p \cup DOMAIN db
       /\ \A r \in DOMAIN f : y[r] = f[r] /\ n[r] = f[r]
  BY DEF Over
<1>10. \A q \in Order : /\ O(q) \notin DOMAIN f /\ P(q) \notin DOMAIN f
                        /\ \A j \in Copy : S(q, j) \notin DOMAIN f
  BY <1>7, <1>8, Keys
<1>11. \A q \in User, j \in Copy : Rew(q, j) \in DOMAIN y => Rew(q, j) = k /\ Reward # 0
  <2> SUFFICES ASSUME NEW q \in User, NEW j \in Copy, Rew(q, j) \in DOMAIN y
               PROVE  Rew(q, j) = k /\ Reward # 0
    OBVIOUS
  <2>1. Rew(q, j) \notin DOMAIN ws[t]
    BY <1>4, <1>6 DEF TxOk, UserKept
  <2>2. Rew(q, j) \notin DOMAIN p
    BY <1>6, <2>1, Keys
  <2>3. Rew(q, j) \in DOMAIN f
    BY <1>9, <2>2
  <2> QED BY <1>8, <2>3, Keys
<1> HIDE DEF y, n
<1>12. UserKept(db, y, n, u)
  <2>1. R(u) \in DOMAIN y /\ R(u) \in DOMAIN n /\ y[R(u)] = "rewarded" /\ n[R(u)] = "rewarded"
    BY <1>5, <1>9
  <2>2. Reward > 0 => Rew(u, i) \in DOMAIN y /\ Rew(u, i) \in DOMAIN n
    BY <1>7, <1>5, <1>9, PriceAssumption
  <2>3. UserOk(n, u)
    BY <1>4, <2>1, <2>2, ReferrerAssumption DEF UserOk
  <2>4. k \notin DOMAIN db
    BY <1>4 DEF Taken
  <2> QED BY <1>4, <1>11, <2>1, <2>2, <2>3, <2>4 DEF UserKept
<1>13. ASSUME NEW q \in User
       PROVE  UserKept(db, y, n, q)
  <2>1. CASE q = u
    BY <1>12, <2>1
  <2>2. CASE q # u
    <3>1. R(q) \notin DOMAIN f /\ \A j \in Copy : Rew(q, j) \notin DOMAIN f
      BY <1>7, <1>8, <2>2, Keys
    <3> QED BY <1>6, <3>1, UserFrame DEF TxOk, y, n
  <2> QED BY <2>1, <2>2
<1>14. TxOk(db, y)
  <2>1. Typed(y)
    BY <1>6, <1>5, OverTyped DEF TxOk, y
  <2>2. \A q \in Order : OrderKept(db, y, n, q)
    BY <1>6, <1>10, OrderFrame DEF TxOk, y, n
  <2>3. OneReward(y)
    BY <1>7, <1>11, Keys DEF OneReward
  <2> QED BY <1>13, <2>1, <2>2, <2>3 DEF TxOk, n
<1>15. Aware(z, y, db)
  BY <1>1, <1>2, <1>10, AdvanceFlushed DEF Delivering, Delivered, Ending, y, p
<1> QED BY <1>1, <1>2, <1>10, <1>14, <1>15, FlushDone DEF y, p

\* The gateway is asked for a payment page.
LEMMA RequestGatewayStep ==
    ASSUME Inv, NEW t \in Tx, RequestGateway(t)
    PROVE  Inv'
<1> DEFINE o == sess[t].order
<1>1. PICK ok \in BOOLEAN :
         /\ Write(t, Is(P(o), [method |-> "gateway", status |-> "pending", authority |-> ok]))
         /\ Goto(t, IF ok THEN "commit" ELSE "refused")
         /\ gw' = IF ok THEN [gw EXCEPT ![o] = "open"] ELSE gw
  BY DEF RequestGateway
<1> DEFINE row == [method |-> "gateway", status |-> "pending", authority |-> ok]
           f == Is(P(o), row)
           pc == IF ok THEN "commit" ELSE "refused"
           z == [sess[t] EXCEPT !.pc = pc]
<1>2. sess[t].pc = "gateway" /\ UNCHANGED <<issued, age, fsm>> /\ sess' = [sess EXCEPT ![t] = z]
      /\ Write(t, f)
  BY <1>1 DEF RequestGateway, Goto, At
<1>3. /\ sess[t].op = "gateway" /\ sess[t].dirty = "no"
      /\ o \in Order /\ O(o) \in DOMAIN ws[t] /\ P(o) \notin DOMAIN db /\ ~ByWallet(db, o)
  BY <1>2, Buys DEF Method
<1>4. z \in Session /\ z.pc = pc /\ z.op = "gateway" /\ z.order = o /\ z.dirty = "no"
  <2>1. sess[t] \in Session /\ pc \in PCs
    BY Here DEF PCs
  <2> QED BY <1>3, <2>1, Gone
<1> HIDE DEF z
<1>5. row \in PaymentType /\ row.method = "gateway"
  BY RowTypes DEF PaymentType
<1> HIDE DEF row
<1>6. TxOk(db, Over(f, ws[t]))
  BY <1>3, <1>5, Seen, PaymentRow
<1>7. DOMAIN f = {P(o)} /\ DOMAIN Over(f, ws[t]) = DOMAIN ws[t] \cup {P(o)}
      /\ Over(f, ws[t])[P(o)] = row
  BY DEF Over, Is
<1> HIDE DEF f
<1>8. Aware(z, Over(f, ws[t]), db)
  BY <1>2, <1>3, <1>4, <1>5, <1>7, BuyingOn DEF Method
<1>9. World'
  BY <1>1, <1>2, <1>3 DEF Inv, Types, World
<1>10. \A q \in Order : O(q) \notin DOMAIN f
  BY <1>7, Keys
<1> QED BY <1>2, <1>4, <1>6, <1>8, <1>9, <1>10, WriteDone

\* The card number is shown.
LEMMA ShowCardStep ==
    ASSUME Inv, NEW t \in Tx, ShowCard(t)
    PROVE  Inv'
<1> DEFINE o == sess[t].order
           z == [sess[t] EXCEPT !.pc = "commit"]
<1>1. /\ sess[t].pc = "card" /\ UNCHANGED <<db, ws, issued, age, gw>>
      /\ fsm' = [fsm EXCEPT ![Mine(t).user] = o] /\ sess' = [sess EXCEPT ![t] = z]
  BY DEF ShowCard, Goto, At
<1>2. /\ sess[t].op = "card" /\ sess[t].dirty = "no"
      /\ o \in Order /\ P(o) \notin DOMAIN ws[t]
  BY <1>1, Buys DEF Method
<1>3. z \in Session /\ z.pc = "commit" /\ z.op = "card" /\ z.order = o /\ z.dirty = "no"
  <2>1. sess[t] \in Session /\ "commit" \in PCs
    BY Here DEF PCs
  <2> QED BY <1>2, <2>1, Gone
<1> HIDE DEF z
<1>4. Aware(z, ws[t], db)
  BY <1>1, <1>2, <1>3, BuyingOn DEF Method
<1>5. World' /\ UNCHANGED store
  BY <1>1, <1>2 DEF Inv, Types, World, store
<1> QED BY <1>1, <1>3, <1>4, <1>5, QuietDone
-----------------------------------------------------------------------------
\* A slot that runs nothing holds nothing.
LEMMA AtRest ==
    ASSUME Inv, NEW t \in Tx, At(t, "idle")
    PROVE  sess[t] = Idle /\ ws[t] = NoRows
<1>1. Aware(sess[t], ws[t], db)
  BY Here
<1>2. sess[t].op = "none"
  BY <1>1 DEF Aware, Runs, At, Method, Delivering, Delivered, Ending
<1> QED BY <1>1, <1>2 DEF Aware

\* A payment under review, or asked about at the gateway, is committed and not one of
\* the wallet; so is the payment as this transaction has written it.
LEMMA OpenPayment ==
    ASSUME Inv, NEW t \in Tx, sess[t].op \in {"approve", "verify", "reject"}
    PROVE  LET o == sess[t].order
           IN /\ o \in Order /\ Open(db, o) /\ P(o) \in DOMAIN db
              /\ Row(t, P(o)) \in PaymentType
              /\ Row(t, P(o)).method = db[P(o)].method /\ Row(t, P(o)).method # "wallet"
<1> DEFINE o == sess[t].order
<1>1. o \in Order /\ Open(db, o) /\ P(o) \in DOMAIN db
  BY Here DEF Aware, Open
<1>2. Exists(t, P(o))
  BY <1>1 DEF Exists
<1>3. Row(t, P(o)) \in PaymentType
  BY <1>2, Seen, Keys DEF PaymentType
<1>4. Row(t, P(o)).method = db[P(o)].method
  <2>1. OrderKept(db, ws[t], Over(ws[t], db), o)
    BY <1>1, Seen DEF TxOk
  <2> QED BY <1>1, <1>2, <2>1, Seen DEF OrderKept
<1>5. db[P(o)].method # "wallet"
  BY <1>1 DEF Open, ByWallet
<1> QED BY <1>1, <1>3, <1>4, <1>5

\* A review or a verification goes on to another of its statements.
LEMMA ReviewOn ==
    ASSUME NEW s, NEW z, NEW x, NEW d, Aware(s, x, d),
           s.op \in {"approve", "verify", "reject"}, s.pc # "commit",
           z.op = s.op, z.order = s.order, Runs(z.op, z.pc),
           z.pc \notin {"sell", "credit", "free", "release"},
           z.pc = "cancel" => z.todo = {s.order}
    PROVE  Aware(z, x, d)
    BY DEF Aware, Method

\* The receipt of a transfer is received.
LEMMA ReceiveReceiptStep ==
    ASSUME Inv, NEW t \in Tx, NEW u \in Customer, ReceiveReceipt(t, u)
    PROVE  Inv'
<1> DEFINE o == fsm[u]
           row == [method |-> "card", status |-> "pending", authority |-> FALSE]
           f == Is(P(o), row)
           z == [Idle EXCEPT !.op = "receipt", !.pc = "commit", !.order = o]
<1>1. /\ At(t, "idle") /\ o # None /\ Exists(t, O(o)) /\ ~Exists(t, P(o)) /\ Write(t, f)
      /\ sess' = [sess EXCEPT ![t] = z] /\ fsm' = [fsm EXCEPT ![u] = None]
      /\ UNCHANGED <<issued, age, gw>>
  BY DEF ReceiveReceipt, Begin
<1>2. u \in User /\ o \in Order
  BY <1>1, OfferAssumption DEF Inv, Types
<1>3. z \in Session /\ z.op = "receipt" /\ z.pc = "commit" /\ z.order = o /\ z.dirty = "no"
  BY <1>2 DEF Idle, Session
<1> HIDE DEF z
<1>4. ws[t] = NoRows /\ DOMAIN ws[t] = {} /\ O(o) \in DOMAIN db /\ P(o) \notin DOMAIN db
  BY <1>1, AtRest, Nothing DEF Exists
<1>5. row \in PaymentType /\ row.method = "card"
  BY RowTypes DEF PaymentType
<1> HIDE DEF row
<1>6. TxOk(db, Over(f, ws[t]))
  BY <1>2, <1>4, <1>5, Seen, PaymentRow DEF ByWallet
<1>7. DOMAIN f = {P(o)} /\ DOMAIN Over(f, ws[t]) = {P(o)}
  BY <1>4 DEF Over, Is
<1> HIDE DEF f
<1>8. \A q \in Order : O(q) \notin DOMAIN f /\ O(q) \notin DOMAIN Over(f, ws[t])
  BY <1>7, Keys
<1>9. Aware(z, Over(f, ws[t]), db)
  BY <1>3, <1>8 DEF Aware, Runs, Method
<1>10. World'
  BY <1>1, <1>2 DEF Inv, Types, World
<1> QED BY <1>1, <1>3, <1>6, <1>8, <1>9, <1>10, WriteDone

\* A payment is taken up for review.
LEMMA ReviewPaymentStep ==
    ASSUME Inv, NEW t \in Tx, NEW op \in {"approve", "reject"}, NEW o \in Order,
           NEW via \in {"bot", "api"}, ReviewPayment(t, op, o, via)
    PROVE  Inv'
<1> DEFINE z == [Idle EXCEPT !.op = op, !.pc = "order", !.via = via, !.order = o,
                             !.dirty = IF op = "approve" THEN "approved" ELSE "rejected"]
<1>1. /\ At(t, "idle") /\ Reviewable(t, o) /\ UNCHANGED store /\ UNCHANGED outside
      /\ sess' = [sess EXCEPT ![t] = z]
  BY DEF ReviewPayment, Begin
<1>2. z \in Session /\ z.op = op /\ z.pc = "order" /\ z.order = o
  BY DEF Idle, Session
<1> HIDE DEF z
<1>3. ws[t] = NoRows /\ DOMAIN ws[t] = {}
  BY <1>1, AtRest, Nothing
<1>4. P(o) \in DOMAIN db /\ db[P(o)].status = "pending"
  BY <1>1, <1>3 DEF Reviewable, Exists, Row
<1>5. Open(db, o)
  BY <1>4 DEF Inv, StoreInv, StoreOk, OrderOk, Open
<1>6. Aware(z, ws[t], db)
  BY <1>2, <1>3, <1>4, <1>5 DEF Aware, Runs, Method
<1> QED BY <1>1, <1>2, <1>6, SameWorld, QuietDone

\* A payment is taken up for verification.
LEMMA VerifyPaymentStep ==
    ASSUME Inv, NEW t \in Tx, NEW o \in Order, VerifyPayment(t, o)
    PROVE  Inv'
<1> DEFINE z == [Idle EXCEPT !.op = "verify", !.pc = "ask", !.via = "api", !.order = o,
                             !.again = (Row(t, P(o)).status = "failed")]
<1>1. /\ At(t, "idle") /\ Exists(t, P(o)) /\ Row(t, P(o)).authority
      /\ UNCHANGED store /\ UNCHANGED outside /\ sess' = [sess EXCEPT ![t] = z]
  BY DEF VerifyPayment, Begin
<1>2. z \in Session /\ z.op = "verify" /\ z.pc = "ask" /\ z.order = o
  BY DEF Idle, Session
<1> HIDE DEF z
<1>3. ws[t] = NoRows /\ DOMAIN ws[t] = {}
  BY <1>1, AtRest, Nothing
<1>4. P(o) \in DOMAIN db /\ db[P(o)].authority
  BY <1>1, <1>3 DEF Exists, Row
<1>5. Open(db, o)
  BY <1>4 DEF Inv, StoreInv, StoreOk, OrderOk, Open
<1>6. Aware(z, ws[t], db)
  BY <1>2, <1>3, <1>4, <1>5 DEF Aware, Runs, Method
<1> QED BY <1>1, <1>2, <1>6, SameWorld, QuietDone

\* The gateway says whether it was paid.
LEMMA AskGatewayStep ==
    ASSUME Inv, NEW t \in Tx, AskGateway(t)
    PROVE  Inv'
<1> DEFINE o == sess[t].order
<1>1. sess[t].pc = "ask" /\ UNCHANGED store /\ UNCHANGED <<issued, age, fsm>>
  BY DEF AskGateway, At
<1>2. sess[t].op = "verify"
  BY <1>1, Here DEF Aware, Runs, Method, Delivering, Delivered, Ending
<1>3. o \in Order
  BY <1>2, OpenPayment
<1>4. World'
  <2>1. gw' = gw \/ gw' = [gw EXCEPT ![o] = "verified"]
    BY DEF AskGateway
  <2> QED BY <1>1, <1>3, <2>1 DEF Inv, Types, World
<1>5. ASSUME NEW z \in Session, sess' = [sess EXCEPT ![t] = z], z.op = sess[t].op, z.order = o,
             z.pc \in {"order", "declined"}
      PROVE  Inv'
  <2>1. Runs(z.op, z.pc)
    BY <1>2, <1>5 DEF Runs
  <2>2. Aware(z, ws[t], db)
    BY <1>1, <1>2, <1>5, <2>1, Here, ReviewOn
  <2> QED BY <1>1, <1>4, <1>5, <2>2, QuietDone
<1>6. CASE sess' = [sess EXCEPT ![t].pc = "order", ![t].dirty = "approved"]
  <2> DEFINE a == [sess[t] EXCEPT !.pc = "order"]
             z == [sess[t] EXCEPT !.pc = "order", !.dirty = "approved"]
  <2>1. sess[t] \in Session /\ "order" \in PCs
    BY Here DEF PCs
  <2>2. a \in Session /\ a.pc = "order" /\ a.op = sess[t].op /\ a.order = o
    BY <2>1, Gone
  <2>3. z = [a EXCEPT !.dirty = "approved"]
    OBVIOUS
  <2> HIDE DEF a
  <2>4. z \in Session /\ z.op = sess[t].op /\ z.order = o /\ z.pc = "order"
    BY <2>2, <2>3 DEF Session
  <2>5. sess' = [sess EXCEPT ![t] = z]
    BY <1>6
  <2> HIDE DEF z
  <2> QED BY <1>5, <2>4, <2>5
<1>7. CASE Goto(t, "declined")
  <2> DEFINE z == [sess[t] EXCEPT !.pc = "declined"]
  <2>1. sess[t] \in Session /\ "declined" \in PCs
    BY Here DEF PCs
  <2>2. z \in Session /\ z.pc = "declined" /\ z.op = sess[t].op /\ z.order = o
    BY <2>1, Gone
  <2>3. sess' = [sess EXCEPT ![t] = z]
    BY <1>7 DEF Goto
  <2> HIDE DEF z
  <2> QED BY <1>5, <2>2, <2>3
<1> QED BY <1>6, <1>7 DEF AskGateway

\* The payment failed.
LEMMA DeclinedStep ==
    ASSUME Inv, NEW t \in Tx, Declined(t)
    PROVE  Inv'
<1> DEFINE o == sess[t].order
           row == [Row(t, P(o)) EXCEPT !.status = "failed"]
           f == Is(P(o), row)
           z == [sess[t] EXCEPT !.pc = "commit"]
<1>1. /\ sess[t].pc = "declined" /\ sess' = [sess EXCEPT ![t] = z] /\ UNCHANGED outside
      /\ UNCHANGED store \/ Write(t, f)
  BY DEF Declined, Goto, At
<1>2. sess[t].op = "verify"
  BY <1>1, Here DEF Aware, Runs, Method, Delivering, Delivered, Ending
<1>3. z \in Session /\ z.pc = "commit" /\ z.op = sess[t].op /\ z.order = o
  <2>1. sess[t] \in Session /\ "commit" \in PCs
    BY Here DEF PCs
  <2> QED BY <2>1, Gone
<1> HIDE DEF z
<1>4. Aware(z, ws[t], db)
  <2>1. Runs(z.op, z.pc)
    BY <1>2, <1>3 DEF Runs, Ending
  <2> QED BY <1>1, <1>2, <1>3, <2>1, Here, ReviewOn
<1>5. CASE UNCHANGED store
  BY <1>1, <1>3, <1>4, <1>5, SameWorld, QuietDone
<1>6. CASE Write(t, f)
  <2>1. /\ o \in Order /\ Open(db, o) /\ P(o) \in DOMAIN db
        /\ Row(t, P(o)) \in PaymentType
        /\ Row(t, P(o)).method = db[P(o)].method /\ Row(t, P(o)).method # "wallet"
    BY <1>2, OpenPayment
  <2>2. row \in PaymentType /\ row.method = Row(t, P(o)).method
    BY <2>1, RowTypes DEF PaymentType
  <2> HIDE DEF row
  <2>3. TxOk(db, Over(f, ws[t]))
    BY <2>1, <2>2, Seen, PaymentRow DEF Open
  <2>4. DOMAIN f = {P(o)} /\ DOMAIN Over(f, ws[t]) = DOMAIN ws[t] \cup {P(o)}
    BY DEF Over, Is
  <2> HIDE DEF f
  <2>5. \A q \in Order : /\ O(q) \notin DOMAIN f
                         /\ O(q) \in DOMAIN Over(f, ws[t]) => O(q) \in DOMAIN ws[t]
    BY <2>4, Keys
  <2>6. Aware(z, Over(f, ws[t]), db)
    BY <1>2, <1>3, <1>4, <2>5 DEF Aware, Method
  <2> QED BY <1>1, <1>3, <1>6, <2>3, <2>5, <2>6, SameWorld, WriteDone DEF f
<1> QED BY <1>1, <1>5, <1>6

\* The order of a payment is loaded.
LEMMA LoadOrderStep ==
    ASSUME Inv, NEW t \in Tx, LoadOrder(t)
    PROVE  Inv'
<1> DEFINE s == sess[t]
           o == sess[t].order
<1>1. s.pc = "order" /\ UNCHANGED store /\ UNCHANGED outside
  BY DEF LoadOrder, At
<1>2. s.op \in {"approve", "verify", "reject"}
  BY <1>1, Here DEF Aware, Runs, Method, Delivering, Delivered, Ending
<1>3. ASSUME NEW z \in Session, sess' = [sess EXCEPT ![t] = z], z.op = s.op, z.order = o,
             Runs(z.op, z.pc), z.pc \notin {"sell", "credit", "free", "release"},
             z.pc = "cancel" => z.todo = {o}
      PROVE  Inv'
  <2>1. Aware(z, ws[t], db)
    BY <1>1, <1>2, <1>3, Here, ReviewOn
  <2> QED BY <1>1, <1>3, <2>1, SameWorld, QuietDone
<1>4. ASSUME NEW pc \in {"commit", "refused"}, Goto(t, pc)
      PROVE  Inv'
  <2> DEFINE z == [sess[t] EXCEPT !.pc = pc]
  <2>1. sess[t] \in Session /\ pc \in PCs
    BY Here DEF PCs
  <2>2. z \in Session /\ z.pc = pc /\ z.op = s.op /\ z.order = o
    BY <2>1, Gone
  <2>3. sess' = [sess EXCEPT ![t] = z]
    BY <1>4 DEF Goto
  <2>4. Runs(s.op, pc)
    BY <1>2 DEF Runs, Ending
  <2> HIDE DEF z
  <2> QED BY <1>3, <2>2, <2>3, <2>4
<1>5. ASSUME NEW pc \in {"coupon", "find"}, s.op \in {"approve", "verify"},
             NEW dirty \in {s.dirty, "settled"},
             sess' = [sess EXCEPT ![t] = [sess[t] EXCEPT !.pc = pc, !.dirty = dirty]]
      PROVE  Inv'
  <2> DEFINE a == [sess[t] EXCEPT !.pc = pc]
             z == [sess[t] EXCEPT !.pc = pc, !.dirty = dirty]
  <2>1. sess[t] \in Session /\ pc \in PCs
    BY Here DEF PCs
  <2>2. a \in Session /\ a.pc = pc /\ a.op = s.op /\ a.order = o
    BY <2>1, Gone
  <2>3. z = [a EXCEPT !.dirty = dirty]
    OBVIOUS
  <2> HIDE DEF a
  <2>4. z \in Session /\ z.op = s.op /\ z.order = o /\ z.pc = pc
    BY <2>1, <2>2, <2>3 DEF Session
  <2>5. Runs(s.op, pc)
    BY <1>5 DEF Runs, Delivering
  <2>6. sess' = [sess EXCEPT ![t] = z]
    BY <1>5
  <2> HIDE DEF z
  <2> QED BY <1>3, <2>4, <2>5, <2>6
<1>6. ASSUME s.op = "reject", sess' = [sess EXCEPT ![t].pc = "cancel", ![t].todo = {s.order}]
      PROVE  Inv'
  <2> DEFINE a == [sess[t] EXCEPT !.pc = "cancel"]
             z == [sess[t] EXCEPT !.pc = "cancel", !.todo = {o}]
  <2>1. sess[t] \in Session /\ "cancel" \in PCs
    BY Here DEF PCs
  <2>2. a \in Session /\ a.pc = "cancel" /\ a.op = s.op /\ a.order = o
    BY <2>1, Gone
  <2>3. z = [a EXCEPT !.todo = {o}]
    OBVIOUS
  <2> HIDE DEF a
  <2>4. o \in Order
    BY <1>2, OpenPayment
  <2>5. z \in Session /\ z.op = s.op /\ z.order = o /\ z.pc = "cancel" /\ z.todo = {o}
    BY <2>2, <2>3, <2>4 DEF Session
  <2>6. Runs(s.op, "cancel")
    BY <1>6 DEF Runs
  <2>7. sess' = [sess EXCEPT ![t] = z]
    BY <1>6
  <2> HIDE DEF z
  <2> QED BY <1>3, <2>5, <2>6, <2>7
<1>7. CASE /\ s.op = "approve" \/ s.op = "verify"
           /\ sess' = [sess EXCEPT ![t].pc = IF Mine(t).coupon THEN "coupon" ELSE "find",
                                   ![t].dirty = IF Mine(t).status = "paid" THEN @ ELSE "settled"]
  <2> DEFINE pc == IF Mine(t).coupon THEN "coupon" ELSE "find"
             dirty == IF Mine(t).status = "paid" THEN s.dirty ELSE "settled"
  <2>1. sess' = [sess EXCEPT ![t] = [sess[t] EXCEPT !.pc = pc, !.dirty = dirty]]
    BY <1>7
  <2>2. pc \in {"coupon", "find"} /\ dirty \in {s.dirty, "settled"}
    OBVIOUS
  <2> HIDE DEF pc, dirty
  <2> QED BY <1>5, <1>7, <2>1, <2>2
<1> QED BY <1>4, <1>6, <1>7 DEF LoadOrder
-----------------------------------------------------------------------------
\* Orders are cancelled by a review or by the job, which creates none.
LEMMA Cancelling ==
    ASSUME Inv, NEW t \in Tx, sess[t].pc \in {"cancel", "release", "free", "stale"}
    PROVE  /\ sess[t].op \in {"reject", "expire"}
           /\ sess[t].pc \in {"free", "stale"} => sess[t].op = "expire"
           /\ \A q \in Order : O(q) \in DOMAIN ws[t] => O(q) \in DOMAIN db
           /\ \A u \in User : R(u) \notin DOMAIN ws[t]
           /\ sess[t].op = "expire" => sess[t].dirty = "no"
<1>1. Aware(sess[t], ws[t], db)
  BY Here
<1>2. /\ sess[t].op \in {"reject", "expire"}
      /\ sess[t].pc \in {"free", "stale"} => sess[t].op = "expire"
  BY <1>1 DEF Aware, Runs, Method, Delivering, Delivered, Ending
<1> QED BY <1>1, <1>2 DEF Aware, Method

\* An order that is not paid by wallet is not so for this transaction either.
LEMMA StillOpen ==
    ASSUME NEW d, NEW x, NEW o, Open(d, o), TxOk(d, x)
    PROVE  ~ByWallet(Over(x, d), o)
<1>1. OrderKept(d, x, Over(x, d), o)
  BY DEF Open, TxOk
<1> QED BY <1>1 DEF Open, OrderKept, ByWallet

\* The config held for an order is looked up.
LEMMA CancelOrderStep ==
    ASSUME Inv, NEW t \in Tx, CancelOrder(t)
    PROVE  Inv'
<1> DEFINE s == sess[t]
<1>1. PICK o \in s.todo, c \in Config \cup {None} :
         /\ s.pc = "cancel" /\ UNCHANGED store /\ UNCHANGED outside
         /\ sess' = [sess EXCEPT ![t].pc = "release", ![t].order = o, ![t].config = c,
                                 ![t].todo = @ \ {o}]
  BY DEF CancelOrder, At
<1> DEFINE a == [s EXCEPT !.pc = "release"]
           b == [a EXCEPT !.order = o]
           e == [b EXCEPT !.config = c]
           z == [e EXCEPT !.todo = @ \ {o}]
<1>2. Aware(s, ws[t], db) /\ s \in Session /\ "release" \in PCs
  BY Here DEF PCs
<1>3. Open(db, o) /\ o \in Order
  BY <1>1, <1>2 DEF Aware, Open
<1>4. a \in Session /\ a.pc = "release" /\ a.op = s.op /\ a.dirty = s.dirty /\ a.todo = s.todo
  BY <1>2, Gone
<1>5. sess' = [sess EXCEPT ![t] = z]
  BY <1>1
<1> HIDE DEF a
<1>6. b \in Session /\ b.pc = "release" /\ b.op = s.op /\ b.dirty = s.dirty /\ b.todo = s.todo /\ b.order = o
  BY <1>3, <1>4 DEF Session
<1> HIDE DEF b
<1>7. e \in Session /\ e.pc = "release" /\ e.op = s.op /\ e.dirty = s.dirty /\ e.todo = s.todo /\ e.order = o
  BY <1>6 DEF Session
<1> HIDE DEF e
<1>8. /\ z \in Session /\ z.pc = "release" /\ z.op = s.op /\ z.dirty = s.dirty
      /\ z.todo = s.todo \ {o} /\ z.order = o
  BY <1>7 DEF Session
<1> HIDE DEF z
<1>9. s.op = "reject" => o = s.order
  BY <1>1, <1>2 DEF Aware
<1>10. Runs(z.op, z.pc)
  BY <1>1, <1>8, Cancelling DEF Runs
<1>11. Aware(z, ws[t], db)
  <2>1. s.op \in {"reject", "expire"} /\ (s.op = "reject" => o = s.order /\ P(o) \in DOMAIN db)
    BY <1>1, <1>2, <1>9, Cancelling DEF Aware
  <2> QED BY <1>1, <1>2, <1>3, <1>8, <1>10, <2>1 DEF Aware, Method
<1> QED BY <1>1, <1>5, <1>8, <1>11, SameWorld, QuietDone

\* The config is made available and the order closed.
LEMMA ReleaseConfigStep ==
    ASSUME Inv, NEW t \in Tx, ReleaseConfig(t)
    PROVE  Inv'
<1> DEFINE s == sess[t]
           o == sess[t].order
           status == IF s.op = "expire" THEN "expired" ELSE "cancelled"
           row == [Mine(t) EXCEPT !.status = status]
           g == Freed(t, s.config)
           f == Over(g, Is(O(o), row))
           pc == IF s.todo = {} THEN "commit" ELSE "cancel"
           p == Pending(t)
           z == [s EXCEPT !.pc = pc, !.dirty = "no"]
<1>1. /\ s.pc = "release" /\ UNCHANGED outside
      /\ Flush(t, f) /\ sess' = [sess EXCEPT ![t] = z]
  BY DEF ReleaseConfig, Flushed, At
<1>2. Aware(s, ws[t], db) /\ s \in Session
  BY Here
<1>3. z \in Session /\ z.pc = pc /\ z.op = s.op /\ z.order = o /\ z.dirty = "no" /\ z.todo = s.todo
  <2>1. pc \in PCs
    BY DEF PCs
  <2> QED BY <1>2, <2>1, GoneFlushed, ZenonT(30)
<1> HIDE DEF z
<1>4. Open(db, o) /\ o \in Order /\ s.op \in {"reject", "expire"}
  BY <1>1, <1>2, Cancelling DEF Aware, Open
<1>5. Mine(t) \in OrderType
  BY <1>1, OwnOrder DEF At
<1>6. /\ row \in OrderType /\ row.user = Mine(t).user /\ row.coupon = Mine(t).coupon
      /\ row.renew = Mine(t).renew /\ row.status # "delivered"
  BY <1>5, RowTypes DEF OrderType, OrderStatus
<1> HIDE DEF row
<1>7. /\ TxOk(db, p) /\ StoreOk(db)
      /\ \A r : r # O(o) /\ r # P(o) => (r \in DOMAIN p <=> r \in DOMAIN ws[t])
      /\ \A q \in Order : O(q) \in DOMAIN p => O(q) \in DOMAIN ws[t] \cup DOMAIN db
  BY UnflushedOk, Seen
<1>8. /\ row.user = Of(p, db, O(o)).user /\ row.coupon = Of(p, db, O(o)).coupon
      /\ row.renew = Of(p, db, O(o)).renew
  <2>1. CASE s.op = "expire"
    <3>1. s.dirty = "no"
      BY <1>1, <2>1, Cancelling
    <3>2. Of(p, db, O(o)) = Mine(t)
      BY <3>1, NothingPending DEF Of, Mine, Row
    <3> QED BY <1>6, <3>2
  <2>2. CASE s.op = "reject"
    BY <1>6, <2>2, UnflushedOk
  <2> QED BY <1>4, <2>1, <2>2
<1> HIDE DEF p
<1>9. TxOk(db, Over(Is(O(o), row), p))
  <2>1. ~ByWallet(Over(p, db), o) /\ ~ByWallet(db, o)
    BY <1>4, <1>7, StillOpen DEF Open
  <2>2. O(o) \in DOMAIN p \cup DOMAIN db
    BY <1>4 DEF Open
  <2> QED BY <1>4, <1>6, <1>7, <1>8, <2>1, <2>2, OrderRow
<1>10. Typed(g) /\ \A r \in DOMAIN g : r[1] = "config"
  <2>1. CASE s.config = None
    BY <2>1, Nothing DEF Freed
  <2>2. CASE s.config # None
    <3>1. g = Is(C(s.config), [status |-> "available", order |-> None])
      BY <2>2 DEF Freed
    <3>2. [status |-> "available", order |-> None] \in RowType["config"]
      BY RowTypes
    <3>3. DOMAIN g = {C(s.config)}
      BY <3>1 DEF Is
    <3> QED BY <3>1, <3>2, <3>3, OneTyped, Keys
  <2> QED BY <2>1, <2>2
<1> HIDE DEF g
<1>11. TxOk(db, Over(f, p))
  <2>1. TxOk(db, Over(g, Over(Is(O(o), row), p)))
    BY <1>9, <1>10, PlainWrite
  <2> QED BY <2>1, OverAssoc
<1>12. DOMAIN f = DOMAIN g \cup {O(o)} /\ DOMAIN Over(f, p) = DOMAIN f \cup DOMAIN p
  BY DEF Over, Is
<1> HIDE DEF f
<1>13. \A q \in Order : /\ O(q) \in DOMAIN f => O(q) \in DOMAIN ws[t] \cup DOMAIN db
                        /\ O(q) \in DOMAIN Over(f, p) => O(q) \in DOMAIN db
  <2>1. \A q \in Order : O(q) \in DOMAIN ws[t] => O(q) \in DOMAIN db
    BY <1>1, Cancelling
  <2>2. \A q \in Order : O(q) \in DOMAIN f => q = o
    BY <1>10, <1>12, Keys
  <2> QED BY <1>4, <1>7, <1>12, <2>1, <2>2 DEF Open
<1>14. \A u \in User : R(u) \notin DOMAIN Over(f, p)
  <2>1. \A u \in User : R(u) \notin DOMAIN f /\ R(u) \notin DOMAIN ws[t]
    BY <1>1, <1>10, <1>12, Keys, Cancelling
  <2> QED BY <1>7, <1>12, <2>1, Keys
<1>15. Aware(z, Over(f, p), db)
  <2>1. Runs(z.op, z.pc)
    BY <1>3, <1>4 DEF Runs, Ending
  <2>2. \A q \in s.todo : Open(db, q)
    BY <1>1, <1>2 DEF Aware
  <2>3. s.op = "reject" => P(o) \in DOMAIN db /\ s.todo \subseteq {o}
    BY <1>1, <1>2 DEF Aware
  <2> QED BY <1>3, <1>4, <1>13, <1>14, <2>1, <2>2, <2>3 DEF Aware, Method
<1> QED BY <1>1, <1>3, <1>11, <1>13, <1>15, FlushDone DEF p

\* The job selects the expired reservations ...
LEMMA FindExpiredStep ==
    ASSUME Inv, NEW t \in Tx, FindExpired(t)
    PROVE  Inv'
<1> DEFINE todo == {c \in Config : /\ Row(t, C(c)).status = "reserved"
                                   /\ age[Row(t, C(c)).order] >= 1}
           z == [Idle EXCEPT !.op = "expire", !.pc = "free", !.via = "api", !.todo = todo]
<1>1. /\ At(t, "idle") /\ UNCHANGED store /\ UNCHANGED outside
      /\ sess' = [sess EXCEPT ![t] = z]
  BY DEF FindExpired, Begin
<1>2. todo \subseteq Config
  OBVIOUS
<1> HIDE DEF todo
<1>3. z \in Session /\ z.op = "expire" /\ z.pc = "free" /\ z.dirty = "no" /\ z.todo = todo
  BY <1>2 DEF Idle, Session
<1> HIDE DEF z
<1>4. DOMAIN ws[t] = {}
  BY <1>1, AtRest, Nothing
<1>5. Aware(z, ws[t], db)
  BY <1>2, <1>3, <1>4 DEF Aware, Runs, Method
<1> QED BY <1>1, <1>3, <1>5, SameWorld, QuietDone

\* ... frees them ...
LEMMA FreeExpiredStep ==
    ASSUME Inv, NEW t \in Tx, FreeExpired(t)
    PROVE  Inv'
<1> DEFINE s == sess[t]
           row == [status |-> "available", order |-> None]
           f == [r \in {C(c) : c \in s.todo} |-> row]
           z == [s EXCEPT !.pc = "stale"]
<1>1. /\ s.pc = "free" /\ UNCHANGED outside /\ Write(t, f) /\ sess' = [sess EXCEPT ![t] = z]
  BY DEF FreeExpired, Goto, At
<1>2. z \in Session /\ z.pc = "stale" /\ z.op = s.op /\ z.dirty = s.dirty
  <2>1. s \in Session /\ "stale" \in PCs
    BY Here DEF PCs
  <2> QED BY <2>1, Gone
<1> HIDE DEF z
<1>3. /\ s.op = "expire" /\ s.dirty = "no" /\ \A u \in User : R(u) \notin DOMAIN ws[t]
      /\ \A q \in Order : O(q) \in DOMAIN ws[t] => O(q) \in DOMAIN db
  BY <1>1, Cancelling
<1>4. Typed(f) /\ \A r \in DOMAIN f : r[1] = "config"
  <2>1. \A r \in DOMAIN f : r[1] = "config" /\ f[r] = row
    BY Keys
  <2>2. row \in RowType["config"] /\ row.status # "reserved" /\ row.order = None
    BY RowTypes
  <2> QED BY <2>1, <2>2 DEF Typed
<1> HIDE DEF f
<1>5. TxOk(db, Over(f, ws[t]))
  BY <1>4, Seen, PlainWrite
<1>6. DOMAIN Over(f, ws[t]) = DOMAIN f \cup DOMAIN ws[t]
  BY DEF Over
<1>7. \A q \in Order : O(q) \notin DOMAIN f
  BY <1>4, Keys
<1>8. Aware(z, Over(f, ws[t]), db)
  <2>1. \A u \in User : R(u) \notin DOMAIN Over(f, ws[t])
    BY <1>3, <1>4, <1>6, Keys
  <2> QED BY <1>2, <1>3, <1>6, <1>7, <2>1 DEF Aware, Runs, Method
<1> QED BY <1>1, <1>2, <1>5, <1>7, <1>8, SameWorld, WriteDone DEF f

\* ... and selects the stale orders, none of which is paid by wallet.
LEMMA FindStaleStep ==
    ASSUME Inv, NEW t \in Tx, FindStale(t)
    PROVE  Inv'
<1> DEFINE s == sess[t]
           todo == Stale(t)
           pc == IF todo = {} THEN "commit" ELSE "cancel"
           a == [s EXCEPT !.pc = pc]
           z == [a EXCEPT !.todo = todo]
<1>1. /\ s.pc = "stale" /\ UNCHANGED outside /\ UNCHANGED store /\ sess' = [sess EXCEPT ![t] = z]
  BY DEF FindStale, At
<1>2. a \in Session /\ a.pc = pc /\ a.op = s.op /\ a.dirty = s.dirty
  <2>1. s \in Session /\ pc \in PCs
    BY Here DEF PCs
  <2> QED BY <2>1, Gone
<1> HIDE DEF a, pc
<1>3. todo \subseteq Order
  BY DEF Stale
<1>4. z \in Session /\ z.pc = pc /\ z.op = s.op /\ z.dirty = s.dirty /\ z.todo = todo
  BY <1>2, <1>3 DEF Session
<1> HIDE DEF z
<1>5. /\ s.op = "expire" /\ s.dirty = "no" /\ \A u \in User : R(u) \notin DOMAIN ws[t]
      /\ \A q \in Order : O(q) \in DOMAIN ws[t] => O(q) \in DOMAIN db
  BY <1>1, Cancelling
<1>6. ASSUME NEW o \in todo
      PROVE  Open(db, o)
  <2>1. o \in Order /\ Exists(t, O(o)) /\ Row(t, O(o)).status = "awaiting_payment"
    BY DEF Stale
  <2>2. O(o) \in DOMAIN db
    BY <1>5, <2>1 DEF Exists
  <2>3. OrderKept(db, ws[t], Over(ws[t], db), o) /\ OrderOk(db, o)
    BY <2>1, Seen DEF TxOk, StoreOk
  <2>4. ~ByWallet(db, o)
    <3>1. SUFFICES ASSUME ByWallet(db, o) PROVE FALSE
      OBVIOUS
    <3>2. O(o) \notin DOMAIN ws[t]
      BY <2>3, <3>1 DEF OrderKept
    <3>3. Row(t, O(o)) = db[O(o)]
      BY <3>2 DEF Row
    <3> QED BY <2>1, <2>3, <3>1, <3>3 DEF OrderOk
  <2> QED BY <2>1, <2>2, <2>4 DEF Open
<1>7. Aware(z, ws[t], db)
  <2>1. z.pc \in {"commit", "cancel"}
    BY <1>4 DEF pc
  <2> QED BY <1>4, <1>5, <1>6, <2>1 DEF Aware, Runs, Method
<1> QED BY <1>1, <1>4, <1>7, SameWorld, QuietDone
-----------------------------------------------------------------------------
\* An order is created.
LEMMA CreateOrderStep ==
    ASSUME Inv, NEW t \in Tx, NEW u \in Customer, NEW method \in Method, NEW offer \in Offer,
           NEW renew \in ({"subscription"} \X Order \X Copy) \cup {None},
           CreateOrder(t, u, method, offer[1], offer[2], renew)
    PROVE  Inv'
<1> DEFINE o == issued + 1
           row == [user |-> u, mode |-> offer[1], coupon |-> offer[2], renew |-> renew,
                   status |-> IF offer[1] = "manual" THEN "pending" ELSE "awaiting_payment"]
           f == Is(O(o), row)
           pc == IF offer[1] = "manual" THEN "reserve" ELSE method
           z == [Idle EXCEPT !.op = method, !.order = o, !.uses = Row(t, K), !.pc = pc]
           y == Over(f, ws[t])
           n == Over(y, db)
<1>1. /\ At(t, "idle") /\ o \in Order /\ (renew # None => Exists(t, renew))
      /\ Write(t, f) /\ issued' = o /\ sess' = [sess EXCEPT ![t] = z]
      /\ UNCHANGED <<age, gw, fsm>>
  BY DEF CreateOrder, Begin
<1>2. issued \in Nat /\ o \in Nat /\ issued <= o /\ o > issued
  BY DEF Inv, Types
<1> HIDE DEF o
<1>3. u \in User /\ offer[1] \in {"manual", "panel"} /\ offer[2] \in BOOLEAN
  BY OfferAssumption
<1>4. Row(t, K) \in Nat
  <2>1. Exists(t, K)
    BY DEF Inv, StoreInv, StoreOk, Exists
  <2> QED BY <2>1, Seen, Keys, RowTypes
<1>5. pc \in {"reserve", method}
  OBVIOUS
<1> HIDE DEF pc
<1>6. z \in Session /\ z.op = method /\ z.order = o /\ z.pc = pc /\ z.dirty = "no"
  <2> DEFINE a == [Idle EXCEPT !.uses = Row(t, K)]
             b == [a EXCEPT !.op = method, !.order = o]
  <2>1. a \in Session /\ a.dirty = "no"
    BY <1>4 DEF Idle, Session
  <2> HIDE DEF a
  <2>2. b \in Session /\ b.op = method /\ b.order = o /\ b.dirty = "no"
    BY <1>1, <2>1 DEF Session, Method
  <2>3. z = [b EXCEPT !.pc = pc]
    BY DEF a, Idle
  <2>4. pc \in PCs
    BY <1>5 DEF PCs, Method
  <2> HIDE DEF b
  <2>5. LET e == [b EXCEPT !.pc = pc]
        IN e \in Session /\ e.op = method /\ e.order = o /\ e.pc = pc /\ e.dirty = "no"
    BY <2>2, <2>4, Gone
  <2> QED BY <2>3, <2>5
<1> HIDE DEF z
<1>7. row \in OrderType /\ row.status # "delivered" /\ row.renew = renew
  BY <1>3, RowTypes DEF OrderType, OrderStatus
<1> HIDE DEF row
<1>8. /\ O(o) \notin DOMAIN db /\ P(o) \notin DOMAIN db /\ \A i \in Copy : S(o, i) \notin DOMAIN db
      /\ DOMAIN ws[t] = {} /\ TxOk(db, ws[t])
  <2>1. O(o) \notin DOMAIN db
    BY <1>1, <1>2 DEF Inv, Fresh
  <2>2. OrderOk(db, o)
    BY <1>1, Seen DEF StoreOk
  <2>3. DOMAIN ws[t] = {}
    BY <1>1, AtRest, Nothing
  <2> QED BY <2>1, <2>2, <2>3, Seen DEF OrderOk
<1>9. DOMAIN f = {O(o)} /\ f[O(o)] = row
  BY DEF Is
<1> HIDE DEF f
<1>10. /\ DOMAIN y = {O(o)} /\ DOMAIN n = {O(o)} \cup DOMAIN db /\ n[O(o)] = row
  BY <1>8, <1>9 DEF Over
<1> HIDE DEF y, n
<1>11. OrderKept(db, y, n, o)
  <2>1. P(o) \notin DOMAIN n /\ \A i \in Copy : S(o, i) \notin DOMAIN n /\ S(o, i) \notin DOMAIN y
    BY <1>8, <1>10, Keys
  <2>2. renew # None => renew \in DOMAIN n
    BY <1>1, <1>8, <1>10 DEF Exists
  <2>3. OrderOk(n, o)
    BY <1>7, <1>10, <2>1, <2>2 DEF OrderOk, ByWallet
  <2> QED BY <1>8, <2>1, <2>3 DEF OrderKept, ByWallet
<1>12. TxOk(db, y)
  <2>1. Typed(f)
    BY <1>7, OneTyped, Keys DEF f, OrderType
  <2>2. \A w \in User : R(w) \notin DOMAIN f /\ \A i \in Copy : Rew(w, i) \notin DOMAIN f
    BY <1>9, Keys
  <2>3. \A q \in Order \ {o} : /\ O(q) \notin DOMAIN f /\ P(q) \notin DOMAIN f
                               /\ \A i \in Copy : S(q, i) \notin DOMAIN f
    BY <1>9, Keys
  <2> QED BY <1>8, <1>11, <2>1, <2>2, <2>3, OrderWrite DEF y, n
<1>13. /\ sess' \in [Tx -> Session] /\ sess'[t] = z
       /\ \A v \in Tx \ {t} : sess'[v] = sess[v]
  BY <1>1, <1>6, SessionStep
<1>14. StepOf(t) /\ db' = db /\ ws'[t] = y
  <2>1. ASSUME NEW q \in Order, O(q) \in DOMAIN f
        PROVE  q <= issued'
    BY <1>1, <1>2, <1>9, <2>1, Keys
  <2> QED BY <1>1, <1>2, <1>12, <1>13, <2>1, WriteStep DEF y
<1>15. Aware(z, y, db)
  <2>1. Runs(z.op, z.pc)
    BY <1>5, <1>6 DEF Runs
  <2>2. z.pc \in {"reserve"} \cup Method
    BY <1>5, <1>6
  <2>3. z.op \in Method /\ z.dirty = "no" /\ z.order = o
    BY <1>6
  <2>4. /\ P(o) \notin DOMAIN y /\ (\A i \in Copy : S(o, i) \notin DOMAIN y)
        /\ \A w \in User : R(w) \notin DOMAIN y
        /\ \A q \in Order : O(q) \in DOMAIN y => q = o
    BY <1>10, Keys
  <2>5. z.pc \notin Delivering \cup Delivered \cup Ending
    BY <2>2 DEF Method, Delivering, Delivered, Ending
  <2>6. Buying(z, o, y, db)
    BY <1>1, <1>8, <1>10, <2>3, <2>4, <2>5 DEF Buying
  <2> QED BY <2>1, <2>2, <2>3, <2>4, <2>6 DEF Aware, Method
<1>16. Types'
  BY <1>1, <1>2, <1>13 DEF Inv, Types
<1> QED BY <1>13, <1>14, <1>15, <1>16, StepDone

\* The transaction of t ends, and its slot is free.
LEMMA CloseStep ==
    ASSUME Inv, NEW t \in Tx, Commit(t) \/ Rollback(t), Close(t), UNCHANGED outside
    PROVE  Inv'
<1>1. Idle \in Session /\ sess' = [sess EXCEPT ![t] = Idle]
  BY DEF Idle, Session, Close
<1>2. /\ sess' \in [Tx -> Session] /\ sess'[t] = Idle
      /\ \A u \in Tx \ {t} : sess'[u] = sess[u]
  BY <1>1, SessionStep
<1>3. issued' = issued
  BY DEF outside
<1>4. StepOf(t) /\ Aware(sess'[t], ws'[t], db')
  BY <1>2, <1>3, EndStep
<1>5. Types'
  BY <1>2 DEF Inv, Types, outside
<1> QED BY <1>4, <1>5, StepDone

\* A DomainError.
LEMMA DomainErrorStep ==
    ASSUME Inv, NEW t \in Tx, DomainError(t)
    PROVE  Inv'
<1>1. At(t, "refused") /\ UNCHANGED outside
  BY DEF DomainError
<1>2. CASE Rollback(t) /\ Close(t)
  BY <1>1, <1>2, CloseStep
<1>3. CASE Goto(t, "commit") /\ UNCHANGED store
  <2> DEFINE z == [sess[t] EXCEPT !.pc = "commit"]
  <2>1. sess[t] \in Session /\ "commit" \in PCs
    BY Here DEF PCs
  <2>2. /\ z \in Session /\ z.pc = "commit" /\ z.op = sess[t].op /\ z.dirty = sess[t].dirty
        /\ z.order = sess[t].order /\ sess' = [sess EXCEPT ![t] = z]
    BY <1>3, <2>1, Gone DEF Goto
  <2> HIDE DEF z
  <2>3. Aware(sess[t], ws[t], db) /\ sess[t].pc = "refused"
    BY <1>1, Here DEF At
  <2>4. Runs(z.op, z.pc)
    BY <2>2, <2>3 DEF Aware, Runs, Method, Delivering, Delivered, Ending
  <2>5. z.op \in Method => Buying(z, z.order, ws[t], db)
    BY <2>2, <2>3 DEF Aware, Buying, Method, Delivering, Delivered, Ending
  <2>6. z.op # "none"
    BY <2>2, <2>3 DEF Aware, Idle
  <2>7. Aware(z, ws[t], db)
    BY <2>2, <2>3, <2>4, <2>5, <2>6 DEF Aware
  <2> QED BY <1>1, <1>3, <2>2, <2>7, SameWorld, QuietDone
<1> QED BY <1>2, <1>3 DEF DomainError

\* The flush of a commit.
LEMMA FlushAtCommitStep ==
    ASSUME Inv, NEW t \in Tx, FlushAtCommit(t)
    PROVE  Inv'
<1> DEFINE s == sess[t]
           o == sess[t].order
           p == Pending(t)
           z == [s EXCEPT !.pc = "commit", !.dirty = "no"]
<1>1. /\ s.pc = "commit" /\ s.dirty # "no" /\ Flush(t, NoRows) /\ UNCHANGED outside
      /\ sess' = [sess EXCEPT ![t] = z]
  BY DEF FlushAtCommit, Flushed, At
<1>2. s \in Session /\ Aware(s, ws[t], db)
  BY Here
<1>3. z \in Session /\ z.pc = "commit" /\ z.op = s.op /\ z.order = o /\ z.dirty = "no"
  <2>1. "commit" \in PCs
    BY DEF PCs
  <2> QED BY <1>2, <2>1, GoneFlushed
<1> HIDE DEF z
<1>4. Over(NoRows, p) = p
  <2>1. p = [r \in DOMAIN p |-> p[r]]
    BY DEF Pending, Over
  <2> HIDE DEF p
  <2> QED BY <2>1, Nothing
<1>5. /\ TxOk(db, p)
      /\ DOMAIN ws[t] \subseteq DOMAIN p
      /\ \A q \in Order : O(q) \in DOMAIN p => O(q) \in DOMAIN ws[t] \cup DOMAIN db
      /\ s.op \in Method /\ P(o) \in DOMAIN p => p[P(o)].method = s.op
  BY UnflushedOk
<1> HIDE DEF p
<1>6. Aware(z, p, db)
  <2>1. s.op \in Method => Buying(s, o, ws[t], db)
    BY <1>2 DEF Aware
  <2>2. s.op \in Method => Buying(z, o, p, db)
    BY <1>3, <1>5, <2>1 DEF Buying, Method, Delivering, Delivered, Ending
  <2>3. s.op # "none"
    BY <1>1, <1>2 DEF Aware, Idle
  <2> QED BY <1>1, <1>2, <1>3, <1>5, <2>2, <2>3 DEF Aware
<1>7. \A q \in Order : O(q) \notin DOMAIN NoRows
  BY Nothing
<1> QED BY <1>1, <1>3, <1>4, <1>5, <1>6, <1>7, FlushDone DEF p

\* What happens outside the transactions.
LEMMA OutsideStep ==
    ASSUME Inv, UNCHANGED <<db, ws, sess, issued>>, World'
    PROVE  Inv'
<1>1. Types'
  BY DEF Inv, Types, World
<1>2. StoreInv'
  BY DEF Inv, StoreInv, Shaped, Exclusive
<1>3. Fresh'
  BY DEF Inv, Fresh
<1> QED BY <1>1, <1>2, <1>3 DEF Inv

\* Every step keeps the invariant.
LEMMA StepInv ==
    ASSUME Inv, [Next]_vars
    PROVE  Inv'
<1>1. ASSUME NEW t \in Tx, Take(t)
      PROVE  Inv'
  <2>1. CASE Buy(t)
    <3>1. PICK u \in Customer, method \in Method, offer \in Offer,
              renew \in ({"subscription"} \X Order \X Copy) \cup {None} :
                 CreateOrder(t, u, method, offer[1], offer[2], renew)
      BY <2>1 DEF Buy, Method
    <3> QED BY <3>1, CreateOrderStep
  <2>2. CASE \E u \in Customer : ReceiveReceipt(t, u)
    BY <2>2, ReceiveReceiptStep
  <2>3. CASE \E op \in {"approve", "reject"}, o \in Order, via \in {"bot", "api"} :
                ReviewPayment(t, op, o, via)
    BY <2>3, ReviewPaymentStep
  <2>4. CASE \E o \in Order : VerifyPayment(t, o)
    BY <2>4, VerifyPaymentStep
  <2> QED BY <1>1, <2>1, <2>2, <2>3, <2>4 DEF Take
<1>2. ASSUME NEW t \in Tx, Pay(t)
      PROVE  Inv'
  BY <1>2, ReserveStep, PayWithWalletStep, RequestGatewayStep, ShowCardStep, AskGatewayStep,
     DeclinedStep, LoadOrderStep DEF Pay
<1>3. ASSUME NEW t \in Tx, Settle(t)
      PROVE  Inv'
  BY <1>3, LoadCouponStep, RedeemCouponStep, FindSubscriptionStep, FindReservationStep,
     SellConfigStep, ProvisionStep, FindReferralStep, RewardReferrerStep DEF Settle
<1>4. ASSUME NEW t \in Tx, Expire(t)
      PROVE  Inv'
  BY <1>4, FindExpiredStep, FreeExpiredStep, FindStaleStep DEF Expire
<1>5. ASSUME NEW t \in Tx, Finish(t) \/ Crash(t)
      PROVE  Inv'
  BY <1>5, CloseStep DEF Finish, Crash
<1>6. ASSUME NEW t \in Tx, End(t)
      PROVE  Inv'
  BY <1>5, <1>6, CancelOrderStep, ReleaseConfigStep, DomainErrorStep, FlushAtCommitStep DEF End
<1>7. ASSUME NEW o \in Order, Tick(o)
      PROVE  Inv'
  <2>1. World' /\ UNCHANGED <<db, ws, sess, issued>>
    BY <1>7 DEF Inv, Types, World, Tick
  <2> QED BY <2>1, OutsideStep
<1>8. ASSUME NEW o \in Order, PayAtGateway(o)
      PROVE  Inv'
  <2>1. World' /\ UNCHANGED <<db, ws, sess, issued>>
    BY <1>8 DEF Inv, Types, World, PayAtGateway
  <2> QED BY <2>1, OutsideStep
<1>9. CASE UNCHANGED vars
  <2>1. World' /\ UNCHANGED <<db, ws, sess, issued>>
    BY <1>9 DEF Inv, Types, World, vars
  <2> QED BY <2>1, OutsideStep
<1> QED BY <1>1, <1>2, <1>3, <1>4, <1>5, <1>6, <1>7, <1>8, <1>9 DEF Next, Handle

\* The inductive invariant holds.
THEOREM Invariance == Spec => []Inv
<1>1. Inv /\ [Next]_vars => Inv'
  BY StepInv
<1> QED BY <1>1, InitInv, PTL DEF Spec
-----------------------------------------------------------------------------
\* The committed and the uncommitted rows, the sessions and the rest of the state are
\* always of their types: no balance is ever negative, and a config has an order
\* exactly while it is reserved.
THEOREM TypeCorrect == Spec => []TypeOK
<1>1. Inv => TypeOK
  <2> SUFFICES ASSUME Inv PROVE TypeOK
    OBVIOUS
  <2>1. \A f \in {db} \cup {ws[t] : t \in Tx} : Typed(f)
    BY DEF Inv, StoreInv, StoreOk, TxOk
  <2>2. \A t \in Tx : sess[t] \in Session
    BY DEF Inv, Types
  <2>3. \A t \in Tx : /\ sess[t].order \in Order \cup {None}
                      /\ sess[t].config \in Config \cup {None}
                      /\ sess[t].uses \in Nat /\ sess[t].again \in BOOLEAN
                      /\ sess[t].dirty \in {"no", "approved", "rejected", "settled"}
    BY <2>2 DEF Session
  <2> QED BY <2>1, <2>3 DEF TypeOK, Typed, Inv, Types
<1> QED BY <1>1, Invariance, PTL

\* The subscriptions of an order and the rewards for a user, as f has them.
LEMMA RowsAre ==
    ASSUME NEW f, NEW x
    PROVE  /\ \A r : r \in Rows(f, "subscription", x) <=>
                     \E i \in Copy : r = S(x, i) /\ r \in DOMAIN f
           /\ \A r : r \in Rows(f, "reward", x) <=>
                     \E i \in Copy : r = Rew(x, i) /\ r \in DOMAIN f
<1>1. \A table, r : r \in {table} \X {x} \X Copy => r[3] \in Copy /\ r = <<table, x, r[3]>>
  OBVIOUS
<1>2. \A table : \A i \in Copy : <<table, x, i>> \in {table} \X {x} \X Copy
  OBVIOUS
<1>3. \A table, r : r \in Rows(f, table, x) <=>
                     \E i \in Copy : r = <<table, x, i>> /\ r \in DOMAIN f
  BY <1>1, <1>2 DEF Rows
<1> QED BY <1>3 DEF S, Rew

\* A delivered order always has a subscription and a payment, whatever handlers
\* fail, crash or commit half of their work.
THEOREM DeliveredIsWhole == Spec => []DeliveredHasSubscription
<1>1. Inv => DeliveredHasSubscription
  <2> SUFFICES ASSUME Inv, NEW o \in Orders, Status(o) = "delivered"
               PROVE  Subscriptions(o) # {} /\ o \in Payments
    BY DEF DeliveredHasSubscription
  <2>1. o \in Order /\ O(o) \in DOMAIN db /\ db[O(o)].status = "delivered"
    BY DEF Orders, Status
  <2>2. OrderOk(db, o)
    BY <2>1 DEF Inv, StoreInv, StoreOk
  <2>3. P(o) \in DOMAIN db /\ \E i \in Copy : S(o, i) \in DOMAIN db
    BY <2>1, <2>2 DEF OrderOk
  <2> QED BY <2>1, <2>3, RowsAre DEF Subscriptions, Payments
<1> QED BY <1>1, Invariance, PTL

\* An order paid by wallet stays paid or delivered, its payment approved, with one
\* subscription at most, whatever reviews, verifications and jobs run next to it.
THEOREM WalletOrderIsSettled == Spec => []WalletOrderSettled
<1>1. Inv => WalletOrderSettled
  <2> SUFFICES ASSUME Inv, NEW o \in Payments, db[P(o)].method = "wallet"
               PROVE  /\ Status(o) \in {"paid", "delivered"}
                      /\ PaymentStatus(o) = "approved"
                      /\ Cardinality(Subscriptions(o)) <= 1
    BY DEF WalletOrderSettled
  <2>1. o \in Order /\ ByWallet(db, o)
    BY DEF Payments, ByWallet
  <2>2. OrderOk(db, o)
    BY <2>1 DEF Inv, StoreInv, StoreOk
  <2>3. /\ db[O(o)].status \in {"paid", "delivered"} /\ db[P(o)].status = "approved"
        /\ \A i, j \in Copy : S(o, i) \in DOMAIN db /\ S(o, j) \in DOMAIN db => i = j
    BY <2>1, <2>2 DEF OrderOk
  <2>4. \A r, q \in Subscriptions(o) : r = q
    BY <2>3, RowsAre DEF Subscriptions
  <2>5. Cardinality(Subscriptions(o)) <= 1
    <3>1. CASE Subscriptions(o) = {}
      BY <3>1, FS_EmptySet
    <3>2. CASE Subscriptions(o) # {}
      <4>1. PICK r : Subscriptions(o) = {r}
        BY <2>4, <3>2
      <4> QED BY <4>1, FS_Singleton
    <3> QED BY <3>1, <3>2
  <2> QED BY <2>3, <2>5 DEF Status, PaymentStatus
<1> QED BY <1>1, Invariance, PTL

\* A referral is always marked rewarded exactly when its reward was paid.
THEOREM RewardIsRecorded == Spec => []RewardRecorded
<1>1. Inv => RewardRecorded
  <2> SUFFICES ASSUME Inv, NEW u \in User, Reward > 0, R(u) \in DOMAIN db
               PROVE  db[R(u)] = "rewarded" <=> Rows(db, "reward", u) # {}
    BY DEF RewardRecorded
  <2>1. UserOk(db, u)
    BY DEF Inv, StoreInv, StoreOk
  <2>2. Rows(db, "reward", u) # {} <=> \E i \in Copy : Rew(u, i) \in DOMAIN db
    BY RowsAre
  <2> QED BY <2>1, <2>2 DEF UserOk
<1> QED BY <1>1, Invariance, PTL
-----------------------------------------------------------------------------
\* Session s, with the rows x, has charged a wallet for its order.
Charged(s, x) == s.op = "wallet" /\ (s.dirty = "settled" \/ P(s.order) \in DOMAIN x)

\* What it has taken from and paid into the wallet of u.
Spent(s, x, u) ==
    IF Charged(s, x) /\ x[O(s.order)].user = u THEN FinalPrice(x[O(s.order)]) ELSE 0
Gained(x, u) ==
    IF \E w \in User, i \in Copy : Rew(w, i) \in DOMAIN x /\ x[Rew(w, i)] = u
    THEN Reward ELSE 0

Moved(s, x, d, u) ==
    /\ Of(x, d, W(u)) + Spent(s, x, u) = d[W(u)] + Gained(x, u)
    /\ W(u) \notin DOMAIN x => Spent(s, x, u) = 0 /\ Gained(x, u) = 0

\* The orders of u paid by wallet, and the rewards for u, as v has them.
Bought(v, u, coupon) ==
    {o \in Order : ByWallet(v, o) /\ v[O(o)].user = u /\ v[O(o)].coupon = coupon}
Earned(v, u) == {r \in DOMAIN v : r[1] = "reward" /\ v[r] = u}

Booked(v, u) ==
    /\ IsFiniteSet(Bought(v, u, TRUE)) /\ IsFiniteSet(Bought(v, u, FALSE))
    /\ IsFiniteSet(Earned(v, u))
    /\ v[W(u)] + Price * Cardinality(Bought(v, u, FALSE))
               + (Price - Discount) * Cardinality(Bought(v, u, TRUE))
          = Funds[u] + Reward * Cardinality(Earned(v, u))

\* Every row of a reward is a reward of a user.
RewardKeys(f) == \A r \in DOMAIN f : r[1] = "reward" => \E u \in User, i \in Copy : r = Rew(u, i)

MoneyInv ==
    /\ RewardKeys(db)
    /\ \A u \in User : Booked(db, u)
    /\ \A t \in Tx : RewardKeys(ws[t]) /\ \A u \in User : Moved(sess[t], ws[t], db, u)
-----------------------------------------------------------------------------
\* One more of a price.
LEMMA OneMore == \A a \in Int, n \in Int : a * (n + 1) = a * n + a
  OBVIOUS

\* What Moved speaks of are numbers.
LEMMA Amounts ==
    /\ \A s, x, u : Spent(s, x, u) \in Int
    /\ \A x, u : Gained(x, u) \in Int
  BY PriceAssumption DEF Spent, Gained, FinalPrice

\* A statement of t after which each wallet is as the transaction has moved it.
LEMMA MovedStep ==
    ASSUME MoneyInv, NEW t \in Tx, db' = db, RewardKeys(ws'[t]),
           \A u \in Tx \ {t} : ws'[u] = ws[u] /\ sess'[u] = sess[u],
           \A u \in User : Moved(sess'[t], ws'[t], db, u)
    PROVE  MoneyInv'
<1>1. ASSUME NEW v \in Tx
      PROVE  RewardKeys(ws'[v]) /\ \A u \in User : Moved(sess'[v], ws'[v], db', u)
  BY DEF MoneyInv
<1> QED BY <1>1 DEF MoneyInv

\* One that leaves the wallets and the rewards alone.
LEMMA MoneyFrame ==
    ASSUME MoneyInv, NEW t \in Tx, db' = db, NEW y, ws'[t] = y,
           \A u \in Tx \ {t} : ws'[u] = ws[u] /\ sess'[u] = sess[u],
           \A r : r[1] \in {"wallet", "reward"} =>
              /\ r \in DOMAIN y <=> r \in DOMAIN ws[t]
              /\ r \in DOMAIN y => y[r] = ws[t][r],
           Charged(sess'[t], y) <=> Charged(sess[t], ws[t]),
           Charged(sess[t], ws[t]) =>
              /\ sess'[t].order = sess[t].order
              /\ y[O(sess[t].order)].user = ws[t][O(sess[t].order)].user
              /\ y[O(sess[t].order)].coupon = ws[t][O(sess[t].order)].coupon
    PROVE  MoneyInv'
<1>1. ASSUME NEW u \in User
      PROVE  Moved(sess'[t], y, db, u)
  <2>1. Spent(sess'[t], y, u) = Spent(sess[t], ws[t], u)
    BY DEF Spent, FinalPrice
  <2>2. Gained(y, u) = Gained(ws[t], u)
    <3>1. \A w \in User, i \in Copy : Rew(w, i) \in DOMAIN y /\ y[Rew(w, i)] = u <=>
                                      Rew(w, i) \in DOMAIN ws[t] /\ ws[t][Rew(w, i)] = u
      BY Keys
    <3> QED BY <3>1 DEF Gained
  <2>3. Of(y, db, W(u)) = Of(ws[t], db, W(u)) /\ (W(u) \in DOMAIN y <=> W(u) \in DOMAIN ws[t])
    BY Keys DEF Of
  <2> QED BY <2>1, <2>2, <2>3 DEF MoneyInv, Moved
<1>2. RewardKeys(y)
  BY DEF MoneyInv, RewardKeys
<1> QED BY <1>1, <1>2, MovedStep

\* A statement that writes nothing.
LEMMA MoneyQuiet ==
    ASSUME MoneyInv, NEW t \in Tx, UNCHANGED store,
           \A u \in Tx \ {t} : sess'[u] = sess[u],
           \/ /\ sess'[t].op = sess[t].op /\ sess'[t].order = sess[t].order
              /\ sess'[t].dirty = sess[t].dirty
           \/ sess'[t].op # "wallet" /\ sess[t].op # "wallet"
    PROVE  MoneyInv'
<1>1. db' = db /\ ws' = ws
  BY DEF store
<1>2. Charged(sess'[t], ws[t]) <=> Charged(sess[t], ws[t])
  BY DEF Charged
<1>3. Charged(sess[t], ws[t]) => sess'[t].order = sess[t].order
  BY DEF Charged
<1> QED BY <1>1, <1>2, <1>3, MoneyFrame

\* One that writes, before or without a charge.
LEMMA MoneyWrite ==
    ASSUME Inv, MoneyInv, NEW t \in Tx, NEW f, Write(t, f),
           \A r \in DOMAIN f : r[1] \notin {"wallet", "reward"},
           \A u \in Tx \ {t} : sess'[u] = sess[u],
           ~Charged(sess[t], ws[t]), ~Charged(sess'[t], Over(f, ws[t]))
    PROVE  MoneyInv'
<1>1. /\ db' = db
      /\ ws'[t] = Over(f, ws[t])
      /\ \A u \in Tx \ {t} : ws'[u] = ws[u]
  BY WriteEffect DEF Inv, StoreInv
<1>2. \A r : r[1] \in {"wallet", "reward"} =>
         /\ r \in DOMAIN Over(f, ws[t]) <=> r \in DOMAIN ws[t]
         /\ r \in DOMAIN Over(f, ws[t]) => Over(f, ws[t])[r] = ws[t][r]
  BY DEF Over
<1> QED BY <1>1, <1>2, MoneyFrame

\* What waits for the flush: no wallet and no reward, but the payment of a charge.
LEMMA PendingMoney ==
    ASSUME Inv, NEW t \in Tx
    PROVE  LET s == sess[t]
               o == sess[t].order
               p == Pending(t)
           IN /\ \A r : r[1] \in {"wallet", "reward"} =>
                    /\ r \in DOMAIN p <=> r \in DOMAIN ws[t]
                    /\ r \in DOMAIN p => p[r] = ws[t][r]
              /\ s.op = "wallet" =>
                    /\ P(o) \in DOMAIN p <=> Charged(s, ws[t])
                    /\ O(o) \in DOMAIN p /\ ws[t][O(o)] = Mine(t)
                    /\ p[O(o)].user = ws[t][O(o)].user /\ p[O(o)].coupon = ws[t][O(o)].coupon
<1> DEFINE s == sess[t]
           o == sess[t].order
           p == Pending(t)
<1>1. \A r : r # O(o) /\ r # P(o) => (r \in DOMAIN p <=> r \in DOMAIN ws[t]) /\ Of(p, db, r) = Row(t, r)
  BY UnflushedOk
<1>2. \A r : r[1] \in {"wallet", "reward"} =>
         /\ r \in DOMAIN p <=> r \in DOMAIN ws[t]
         /\ r \in DOMAIN p => p[r] = ws[t][r]
  BY <1>1, Keys DEF Of, Row
<1>3. Aware(s, ws[t], db)
  BY Here
<1>4. s.op = "wallet" => (P(o) \in DOMAIN p <=> Charged(s, ws[t]))
  <2> SUFFICES ASSUME s.op = "wallet" PROVE P(o) \in DOMAIN p <=> Charged(s, ws[t])
    OBVIOUS
  <2>1. CASE s.dirty = "no"
    BY <2>1, NothingPending DEF Charged
  <2>2. CASE s.dirty # "no"
    <3>1. s.dirty = "settled"
      BY <1>3, <2>2 DEF Aware, Buying, Method
    <3>2. P(o) \in DOMAIN Unflushed(t)
      BY <2>2, UnflushedRows
    <3> QED BY <3>1, <3>2 DEF Charged, Pending, Over
  <2> QED BY <2>1, <2>2
<1>5. s.op = "wallet" => /\ O(o) \in DOMAIN p
                         /\ p[O(o)].user = ws[t][O(o)].user /\ p[O(o)].coupon = ws[t][O(o)].coupon
                         /\ ws[t][O(o)] = Mine(t)
  <2> SUFFICES ASSUME s.op = "wallet"
               PROVE /\ O(o) \in DOMAIN p
                     /\ p[O(o)].user = ws[t][O(o)].user /\ p[O(o)].coupon = ws[t][O(o)].coupon
                     /\ ws[t][O(o)] = Mine(t)
    OBVIOUS
  <2>1. O(o) \in DOMAIN ws[t]
    BY <1>3 DEF Aware, Buying, Method
  <2>2. /\ DOMAIN ws[t] \subseteq DOMAIN p
        /\ Of(p, db, O(o)).user = Mine(t).user /\ Of(p, db, O(o)).coupon = Mine(t).coupon
    BY UnflushedOk DEF Method
  <2> QED BY <2>1, <2>2 DEF Of, Mine, Row
<1> QED BY <1>2, <1>4, <1>5

\* One that flushes: a charge that waited in the session is now the payment's row.
LEMMA MoneyFlush ==
    ASSUME Inv, MoneyInv, NEW t \in Tx, NEW f, Flush(t, f),
           \A r \in DOMAIN f : r[1] \notin {"wallet", "reward", "payment"},
           O(sess[t].order) \in DOMAIN f =>
              /\ f[O(sess[t].order)].user = Mine(t).user
              /\ f[O(sess[t].order)].coupon = Mine(t).coupon,
           \A u \in Tx \ {t} : sess'[u] = sess[u],
           sess'[t].op = sess[t].op, sess'[t].order = sess[t].order, sess'[t].dirty = "no"
    PROVE  MoneyInv'
<1> DEFINE s == sess[t]
           o == sess[t].order
           p == Pending(t)
           y == Over(f, p)
<1>1. /\ db' = db
      /\ ws'[t] = y
      /\ \A u \in Tx \ {t} : ws'[u] = ws[u]
  <2>1. Write(t, Over(f, Unflushed(t)))
    BY DEF Flush
  <2> QED BY <2>1, WriteEffect, OverAssoc DEF Inv, StoreInv, Pending
<1>2. /\ \A r : r[1] \in {"wallet", "reward"} =>
            /\ r \in DOMAIN p <=> r \in DOMAIN ws[t]
            /\ r \in DOMAIN p => p[r] = ws[t][r]
      /\ s.op = "wallet" =>
            /\ P(o) \in DOMAIN p <=> Charged(s, ws[t])
            /\ O(o) \in DOMAIN p /\ ws[t][O(o)] = Mine(t)
            /\ p[O(o)].user = ws[t][O(o)].user /\ p[O(o)].coupon = ws[t][O(o)].coupon
  BY PendingMoney
<1> HIDE DEF p
<1>3. /\ DOMAIN y = DOMAIN f \cup DOMAIN p
      /\ \A r \in DOMAIN f : y[r] = f[r]
      /\ \A r \in DOMAIN p : r \notin DOMAIN f => y[r] = p[r]
  BY DEF Over
<1> HIDE DEF y
<1>4. \A r : r[1] \in {"wallet", "reward"} =>
         /\ r \in DOMAIN y <=> r \in DOMAIN ws[t]
         /\ r \in DOMAIN y => y[r] = ws[t][r]
  BY <1>2, <1>3
<1>5. Charged(sess'[t], y) <=> Charged(s, ws[t])
  BY <1>2, <1>3, Keys DEF Charged
<1>6. Charged(s, ws[t]) => /\ y[O(o)].user = ws[t][O(o)].user
                           /\ y[O(o)].coupon = ws[t][O(o)].coupon
  BY <1>2, <1>3 DEF Charged
<1> QED BY <1>1, <1>4, <1>5, <1>6, MoneyFrame
-----------------------------------------------------------------------------
\* What changes in a session does not change what it has charged.
LEMMA SameCharge ==
    ASSUME NEW s \in Session
    PROVE  /\ \A pc : LET z == [s EXCEPT !.pc = pc]
                      IN z.op = s.op /\ z.order = s.order /\ z.dirty = s.dirty
           /\ \A pc, uses : LET z == [s EXCEPT !.pc = pc, !.uses = uses]
                            IN z.op = s.op /\ z.order = s.order /\ z.dirty = s.dirty
           /\ \A pc, c : LET z == [s EXCEPT !.pc = pc, !.config = c]
                         IN z.op = s.op /\ z.order = s.order /\ z.dirty = s.dirty
           /\ \A pc, dirty : LET z == [s EXCEPT !.pc = pc, !.dirty = dirty]
                             IN z.op = s.op /\ z.order = s.order /\ z.dirty = dirty
           /\ \A pc, todo : LET z == [s EXCEPT !.pc = pc, !.todo = todo]
                            IN z.op = s.op /\ z.order = s.order /\ z.dirty = s.dirty
           /\ \A pc, o, c, todo :
                 [s EXCEPT !.pc = pc, !.order = o, !.config = c, !.todo = todo].op = s.op
           /\ \A pc, c : LET z == [s EXCEPT !.pc = pc, !.config = c, !.dirty = "no"]
                         IN z.op = s.op /\ z.order = s.order /\ z.dirty = "no"
  BY DEF Session

\* A slot that runs nothing has charged nothing.
LEMMA RestOp ==
    ASSUME Inv, NEW t \in Tx, At(t, "idle")
    PROVE  sess[t].op = "none" /\ DOMAIN ws[t] = {}
  BY AtRest, Nothing DEF Idle

\* Other sessions are as they were.
LEMMA OneSession ==
    ASSUME Inv, NEW t \in Tx, NEW z, sess' = [sess EXCEPT ![t] = z]
    PROVE  sess'[t] = z /\ \A u \in Tx \ {t} : sess'[u] = sess[u]
  BY DEF Inv, Types

\* The statements that write nothing.
LEMMA QuietMoney ==
    ASSUME Inv, MoneyInv, NEW t \in Tx,
           \/ LoadCoupon(t) \/ FindSubscription(t) \/ FindReservation(t) \/ FindReferral(t)
           \/ AskGateway(t) \/ LoadOrder(t) \/ CancelOrder(t) \/ FindExpired(t) \/ FindStale(t)
           \/ \E op \in {"approve", "reject"}, o \in Order, via \in {"bot", "api"} :
                 ReviewPayment(t, op, o, via)
           \/ \E o \in Order : VerifyPayment(t, o)
    PROVE  MoneyInv'
<1> DEFINE s == sess[t]
<1>1. s \in Session /\ Aware(s, ws[t], db)
  BY Here
<1>2. ASSUME NEW z, sess' = [sess EXCEPT ![t] = z], UNCHANGED store,
             \/ z.op = s.op /\ z.order = s.order /\ z.dirty = s.dirty
             \/ z.op # "wallet" /\ s.op # "wallet"
      PROVE  MoneyInv'
  BY <1>2, OneSession, MoneyQuiet
<1>3. CASE LoadCoupon(t)
  <2> DEFINE z == [s EXCEPT !.pc = "redeem", !.uses = Row(t, K)]
  <2>1. UNCHANGED store /\ sess' = [sess EXCEPT ![t] = z]
    BY <1>3 DEF LoadCoupon
  <2>2. z.op = s.op /\ z.order = s.order /\ z.dirty = s.dirty
    BY <1>1, SameCharge
  <2> HIDE DEF z
  <2> QED BY <1>2, <2>1, <2>2
<1>4. CASE FindSubscription(t)
  BY <1>1, <1>2, <1>4, SameCharge DEF FindSubscription, Goto
<1>5. CASE FindReservation(t)
  <2>1. UNCHANGED store
    BY <1>5 DEF FindReservation
  <2>2. CASE Goto(t, "restock")
    BY <1>1, <1>2, <2>1, <2>2, SameCharge DEF Goto
  <2>3. ASSUME NEW c, sess' = [sess EXCEPT ![t].pc = "sell", ![t].config = c]
        PROVE  MoneyInv'
    <3> DEFINE z == [s EXCEPT !.pc = "sell", !.config = c]
    <3>1. sess' = [sess EXCEPT ![t] = z]
      BY <2>3
    <3>2. z.op = s.op /\ z.order = s.order /\ z.dirty = s.dirty
      BY <1>1, SameCharge
    <3> HIDE DEF z
    <3> QED BY <1>2, <2>1, <3>1, <3>2
  <2> QED BY <1>5, <2>2, <2>3 DEF FindReservation
<1>6. CASE FindReferral(t)
  BY <1>1, <1>2, <1>6, SameCharge DEF FindReferral, Goto
<1>7. CASE AskGateway(t)
  <2>1. s.op # "wallet"
    BY <1>1, <1>7 DEF AskGateway, At, Aware, Runs, Method, Delivering, Delivered, Ending
  <2>2. UNCHANGED store
    BY <1>7 DEF AskGateway
  <2>3. CASE Goto(t, "declined")
    BY <1>1, <1>2, <2>2, <2>3, SameCharge DEF Goto
  <2>4. CASE sess' = [sess EXCEPT ![t].pc = "order", ![t].dirty = "approved"]
    <3> DEFINE z == [s EXCEPT !.pc = "order", !.dirty = "approved"]
    <3>1. sess' = [sess EXCEPT ![t] = z]
      BY <2>4
    <3>2. z.op = s.op
      BY <1>1, SameCharge
    <3> HIDE DEF z
    <3> QED BY <1>2, <2>1, <2>2, <3>1, <3>2
  <2> QED BY <1>7, <2>3, <2>4 DEF AskGateway
<1>8. CASE LoadOrder(t)
  <2>1. s.op # "wallet"
    BY <1>1, <1>8 DEF LoadOrder, At, Aware, Runs, Method, Delivering, Delivered, Ending
  <2>2. UNCHANGED store
    BY <1>8 DEF LoadOrder
  <2>3. ASSUME NEW z, sess' = [sess EXCEPT ![t] = z], z.op = s.op
        PROVE  MoneyInv'
    BY <1>2, <2>1, <2>2, <2>3
  <2>4. CASE sess' = [sess EXCEPT ![t].pc = IF Mine(t).coupon THEN "coupon" ELSE "find",
                                  ![t].dirty = IF Mine(t).status = "paid" THEN @ ELSE "settled"]
    <3> DEFINE z == [s EXCEPT !.pc = IF Mine(t).coupon THEN "coupon" ELSE "find",
                              !.dirty = IF Mine(t).status = "paid" THEN s.dirty ELSE "settled"]
    <3>1. sess' = [sess EXCEPT ![t] = z]
      BY <2>4
    <3>2. z.op = s.op
      BY <1>1, SameCharge
    <3> HIDE DEF z
    <3> QED BY <2>3, <3>1, <3>2
  <2>5. CASE sess' = [sess EXCEPT ![t].pc = "cancel", ![t].todo = {s.order}]
    <3> DEFINE z == [s EXCEPT !.pc = "cancel", !.todo = {s.order}]
    <3>1. sess' = [sess EXCEPT ![t] = z]
      BY <2>5
    <3>2. z.op = s.op
      BY <1>1, SameCharge
    <3> HIDE DEF z
    <3> QED BY <2>3, <3>1, <3>2
  <2>6. CASE \E pc : Goto(t, pc)
    BY <1>1, <2>3, <2>6, SameCharge DEF Goto
  <2> QED BY <1>8, <2>4, <2>5, <2>6 DEF LoadOrder
<1>9. CASE CancelOrder(t)
  <2>1. s.op # "wallet"
    BY <1>1, <1>9 DEF CancelOrder, At, Aware, Runs, Method, Delivering, Delivered, Ending
  <2>2. PICK o, c : /\ UNCHANGED store
                    /\ sess' = [sess EXCEPT ![t].pc = "release", ![t].order = o,
                                            ![t].config = c, ![t].todo = @ \ {o}]
    BY <1>9 DEF CancelOrder
  <2>3. sess' = [sess EXCEPT ![t] = [s EXCEPT !.pc = "release", !.order = o, !.config = c,
                                              !.todo = s.todo \ {o}]]
    BY <2>2
  <2>4. [s EXCEPT !.pc = "release", !.order = o, !.config = c, !.todo = s.todo \ {o}].op = s.op
    BY <1>1, SameCharge
  <2> QED BY <1>2, <2>1, <2>2, <2>3, <2>4
<1>10. CASE FindStale(t)
  <2> DEFINE z == [s EXCEPT !.pc = IF Stale(t) = {} THEN "commit" ELSE "cancel", !.todo = Stale(t)]
  <2>1. UNCHANGED store /\ sess' = [sess EXCEPT ![t] = z]
    BY <1>10 DEF FindStale
  <2>2. z.op = s.op /\ z.order = s.order /\ z.dirty = s.dirty
    BY <1>1, SameCharge
  <2> HIDE DEF z
  <2> QED BY <1>2, <2>1, <2>2
<1>11. ASSUME At(t, "idle"), NEW z, z.op # "wallet", sess' = [sess EXCEPT ![t] = z], UNCHANGED store
       PROVE  MoneyInv'
  <2>1. s.op # "wallet"
    BY <1>11, RestOp
  <2> QED BY <1>2, <1>11, <2>1
<1>12. CASE FindExpired(t)
  <2> DEFINE z == [Idle EXCEPT !.op = "expire", !.pc = "free", !.via = "api",
                       !.todo = {c \in Config : /\ Row(t, C(c)).status = "reserved"
                                                /\ age[Row(t, C(c)).order] >= 1}]
  <2>1. At(t, "idle") /\ UNCHANGED store /\ sess' = [sess EXCEPT ![t] = z]
    BY <1>12 DEF FindExpired, Begin
  <2>2. z.op # "wallet"
    BY DEF Idle
  <2> HIDE DEF z
  <2> QED BY <1>11, <2>1, <2>2
<1>13. ASSUME NEW op \in {"approve", "reject"}, NEW o, NEW via, ReviewPayment(t, op, o, via)
       PROVE  MoneyInv'
  <2> DEFINE z == [Idle EXCEPT !.op = op, !.pc = "order", !.via = via, !.order = o,
                               !.dirty = IF op = "approve" THEN "approved" ELSE "rejected"]
  <2>1. At(t, "idle") /\ UNCHANGED store /\ sess' = [sess EXCEPT ![t] = z]
    BY <1>13 DEF ReviewPayment, Begin
  <2>2. z.op # "wallet"
    BY DEF Idle
  <2> HIDE DEF z
  <2> QED BY <1>11, <2>1, <2>2
<1>14. ASSUME NEW o, VerifyPayment(t, o)
       PROVE  MoneyInv'
  <2> DEFINE z == [Idle EXCEPT !.op = "verify", !.pc = "ask", !.via = "api", !.order = o,
                               !.again = (Row(t, P(o)).status = "failed")]
  <2>1. At(t, "idle") /\ UNCHANGED store /\ sess' = [sess EXCEPT ![t] = z]
    BY <1>14 DEF VerifyPayment, Begin
  <2>2. z.op # "wallet"
    BY DEF Idle
  <2> HIDE DEF z
  <2> QED BY <1>11, <2>1, <2>2
<1> QED BY <1>3, <1>4, <1>5, <1>6, <1>7, <1>8, <1>9, <1>10, <1>12, <1>13, <1>14

\* The card number: the FSM data is outside the store.
LEMMA ShowCardMoney ==
    ASSUME Inv, MoneyInv, NEW t \in Tx, ShowCard(t)
    PROVE  MoneyInv'
<1>1. UNCHANGED store /\ sess' = [sess EXCEPT ![t] = [sess[t] EXCEPT !.pc = "commit"]]
  BY DEF ShowCard, Goto, store
<1> QED BY <1>1, Here, SameCharge, OneSession, MoneyQuiet

\* The statements that write rows of an order that no wallet has paid for.
LEMMA WriteMoney ==
    ASSUME Inv, MoneyInv, NEW t \in Tx,
           \/ RequestGateway(t) \/ Declined(t) \/ FreeExpired(t)
           \/ \E u \in Customer : ReceiveReceipt(t, u)
           \/ \E u, method, mode, coupon, renew : CreateOrder(t, u, method, mode, coupon, renew)
    PROVE  MoneyInv'
<1> DEFINE s == sess[t]
<1>1. s \in Session /\ Aware(s, ws[t], db)
  BY Here
<1>2. ASSUME NEW z, sess' = [sess EXCEPT ![t] = z], NEW f, Write(t, f),
             \A r \in DOMAIN f : r[1] \notin {"wallet", "reward"},
             s.op # "wallet", z.op = "wallet" => z.dirty = "no" /\ P(z.order) \notin DOMAIN f \cup DOMAIN ws[t]
      PROVE  MoneyInv'
  <2>1. ~Charged(s, ws[t]) /\ ~Charged(z, Over(f, ws[t]))
    BY <1>2 DEF Charged, Over
  <2> QED BY <1>2, <2>1, OneSession, MoneyWrite
<1>3. CASE RequestGateway(t)
  <2> DEFINE o == s.order
  <2>1. s.op = "gateway"
    BY <1>3, Buys DEF RequestGateway, At, Method
  <2>2. PICK pc, row : sess' = [sess EXCEPT ![t] = [s EXCEPT !.pc = pc]] /\ Write(t, Is(P(o), row))
    BY <1>3 DEF RequestGateway, Goto
  <2>3. \A r \in DOMAIN Is(P(o), row) : r[1] = "payment"
    BY Keys DEF Is
  <2>4. [s EXCEPT !.pc = pc].op = "gateway"
    BY <1>1, <2>1, SameCharge
  <2> QED BY <1>2, <2>1, <2>2, <2>3, <2>4
<1>4. CASE Declined(t)
  <2> DEFINE o == s.order
             row == [Row(t, P(o)) EXCEPT !.status = "failed"]
             z == [s EXCEPT !.pc = "commit"]
  <2>1. s.op # "wallet"
    BY <1>1, <1>4 DEF Declined, At, Aware, Runs, Method, Delivering, Delivered, Ending
  <2>2. sess' = [sess EXCEPT ![t] = z] /\ (UNCHANGED store \/ Write(t, Is(P(o), row)))
    BY <1>4 DEF Declined, Goto
  <2>3. z.op # "wallet"
    BY <1>1, <2>1, SameCharge
  <2> HIDE DEF z, row
  <2>4. \A r \in DOMAIN Is(P(o), row) : r[1] = "payment"
    BY Keys DEF Is
  <2>5. CASE UNCHANGED store
    BY <2>1, <2>2, <2>3, <2>5, OneSession, MoneyQuiet
  <2> QED BY <1>2, <2>1, <2>2, <2>3, <2>4, <2>5
<1>5. CASE FreeExpired(t)
  <2> DEFINE f == [r \in {C(c) : c \in s.todo} |-> [status |-> "available", order |-> None]]
             z == [s EXCEPT !.pc = "stale"]
  <2>1. s.op = "expire"
    BY <1>5, Cancelling DEF FreeExpired, At
  <2>2. sess' = [sess EXCEPT ![t] = z] /\ Write(t, f)
    BY <1>5 DEF FreeExpired, Goto
  <2>3. z.op # "wallet"
    BY <1>1, <2>1, SameCharge
  <2>4. \A r \in DOMAIN f : r[1] = "config"
    BY Keys
  <2> HIDE DEF z, f
  <2> QED BY <1>2, <2>1, <2>2, <2>3, <2>4
<1>6. ASSUME NEW u \in Customer, ReceiveReceipt(t, u)
      PROVE  MoneyInv'
  <2> DEFINE f == Is(P(fsm[u]), [method |-> "card", status |-> "pending", authority |-> FALSE])
             z == [Idle EXCEPT !.op = "receipt", !.pc = "commit", !.order = fsm[u]]
  <2>1. s.op # "wallet"
    BY <1>6, RestOp DEF ReceiveReceipt, Begin
  <2>2. sess' = [sess EXCEPT ![t] = z] /\ Write(t, f)
    BY <1>6 DEF ReceiveReceipt
  <2>3. z.op # "wallet"
    BY DEF Idle
  <2>4. \A r \in DOMAIN f : r[1] = "payment"
    BY Keys DEF Is
  <2> HIDE DEF z, f
  <2> QED BY <1>2, <2>1, <2>2, <2>3, <2>4
<1>7. ASSUME NEW u, NEW method, NEW mode, NEW coupon, NEW renew,
             CreateOrder(t, u, method, mode, coupon, renew)
      PROVE  MoneyInv'
  <2> DEFINE o == issued + 1
             f == Is(O(o), [user |-> u, mode |-> mode, coupon |-> coupon, renew |-> renew,
                            status |-> IF mode = "manual" THEN "pending" ELSE "awaiting_payment"])
             pc == IF mode = "manual" THEN "reserve" ELSE method
             z == [Idle EXCEPT !.op = method, !.order = o, !.uses = Row(t, K), !.pc = pc]
  <2>1. s.op # "wallet" /\ DOMAIN ws[t] = {}
    BY <1>7, RestOp DEF CreateOrder, Begin
  <2>2. sess' = [sess EXCEPT ![t] = z] /\ Write(t, f)
    BY <1>7 DEF CreateOrder
  <2>3. z.dirty = "no"
    BY DEF Idle
  <2>4. DOMAIN f = {O(o)}
    BY DEF Is
  <2> HIDE DEF z, f
  <2>5. P(z.order) \notin DOMAIN f /\ \A r \in DOMAIN f : r[1] = "order"
    BY <2>4, Keys
  <2> QED BY <1>2, <2>1, <2>2, <2>3, <2>5
<1> QED BY <1>3, <1>4, <1>5, <1>6, <1>7
-----------------------------------------------------------------------------
\* The statements that flush rows of an order, but for the reward.
LEMMA FlushMoney ==
    ASSUME Inv, MoneyInv, NEW t \in Tx,
           \/ Reserve(t) \/ RedeemCoupon(t) \/ SellConfig(t) \/ Provision(t) \/ ReleaseConfig(t)
           \/ FlushAtCommit(t)
    PROVE  MoneyInv'
<1> DEFINE s == sess[t]
           o == sess[t].order
           Plain(f) == \A r \in DOMAIN f : r[1] \notin {"wallet", "reward", "payment"}
<1>1. s \in Session /\ Aware(s, ws[t], db)
  BY Here
<1>2. ASSUME NEW f, Flush(t, f), Plain(f), NEW pc, Flushed(t, pc),
             O(o) \in DOMAIN f => f[O(o)].user = Mine(t).user /\ f[O(o)].coupon = Mine(t).coupon
      PROVE  MoneyInv'
  <2> DEFINE z == [s EXCEPT !.pc = pc, !.dirty = "no"]
  <2>1. sess' = [sess EXCEPT ![t] = z]
    BY <1>2 DEF Flushed
  <2>2. z.op = s.op /\ z.order = o /\ z.dirty = "no"
    BY <1>1, SameCharge
  <2> HIDE DEF z
  <2>3. sess'[t] = z /\ \A u \in Tx \ {t} : sess'[u] = sess[u]
    BY <2>1, OneSession
  <2> QED BY <1>2, <2>2, <2>3, MoneyFlush
<1>3. ASSUME UNCHANGED store, NEW pc, Goto(t, pc)
      PROVE  MoneyInv'
  BY <1>1, <1>3, SameCharge, OneSession, MoneyQuiet DEF Goto
<1>4. ASSUME Mine(t) \in OrderType, NEW status
      PROVE  LET row == [Mine(t) EXCEPT !.status = status]
             IN row.user = Mine(t).user /\ row.coupon = Mine(t).coupon
  BY <1>4, RowTypes DEF OrderType
<1>5. CASE Reserve(t)
  <2> DEFINE c == FirstOf(Stock(t))
             held == Is(C(c), [status |-> "reserved", order |-> o])
             row == [Mine(t) EXCEPT !.status = "awaiting_payment"]
  <2>1. DOMAIN held = {C(c)}
    BY DEF Is
  <2>2. CASE s.pc = "reserve" /\ Flush(t, Over(held, Is(O(o), row))) /\ Flushed(t, s.op)
    <3>1. Mine(t) \in OrderType
      BY <2>2, Buys
    <3>2. row.user = Mine(t).user /\ row.coupon = Mine(t).coupon
      BY <1>4, <3>1
    <3> HIDE DEF row, held
    <3>3. /\ DOMAIN Over(held, Is(O(o), row)) = {C(c), O(o)}
          /\ Over(held, Is(O(o), row))[O(o)] = row
      BY <2>1, Keys DEF Over, Is
    <3>4. Plain(Over(held, Is(O(o), row)))
      BY <3>3, Keys
    <3> QED BY <1>2, <2>2, <3>2, <3>3, <3>4
  <2>3. CASE Flush(t, held) /\ sess' = [sess EXCEPT ![t].pc = "sell", ![t].config = c, ![t].dirty = "no"]
    <3> DEFINE z == [s EXCEPT !.pc = "sell", !.config = c, !.dirty = "no"]
    <3>1. sess' = [sess EXCEPT ![t] = z]
      BY <2>3
    <3>2. z.op = s.op /\ z.order = o /\ z.dirty = "no"
      BY <1>1, SameCharge
    <3> HIDE DEF z, held
    <3>3. O(o) \notin DOMAIN held /\ Plain(held)
      BY <2>1, Keys
    <3>4. sess'[t] = z /\ \A u \in Tx \ {t} : sess'[u] = sess[u]
      BY <3>1, OneSession
    <3> QED BY <2>3, <3>2, <3>3, <3>4, MoneyFlush
  <2> QED BY <1>3, <1>5, <2>2, <2>3 DEF Reserve, At
<1>6. CASE RedeemCoupon(t)
  <2> DEFINE k == NewKey("redemption", o)
             f == Over(Is(K, s.uses + 1), Is(k, Mine(t).user))
  <2>1. Flush(t, f) /\ Flushed(t, "find") /\ Room("redemption", o)
    BY <1>6 DEF RedeemCoupon
  <2>2. k[1] = "redemption" /\ DOMAIN f = {K, k}
    BY <2>1, NewKeys DEF Over, Is
  <2> HIDE DEF f, k
  <2>3. O(o) \notin DOMAIN f /\ Plain(f)
    BY <2>2, Keys
  <2> QED BY <1>2, <2>1, <2>3
<1>7. ASSUME NEW config \in Config \cup {None}, s.pc \in {"sell", "provision"},
             Room("subscription", o)
      PROVE  LET g == Delivery(t, config)
             IN Plain(g) /\ g[O(o)].user = Mine(t).user /\ g[O(o)].coupon = Mine(t).coupon
  <2> DEFINE g == Delivery(t, config)
  <2>1. /\ g[O(o)] = [Mine(t) EXCEPT !.status = "delivered"]
        /\ \A r \in DOMAIN g : r # O(o) => \E q \in Order, i \in Copy : r = S(q, i)
    BY <1>7, DeliveryRows
  <2>2. Mine(t) \in OrderType
    BY <1>7, Settles DEF Settling, Delivering
  <2>3. Plain(g)
    BY <2>1, Keys
  <2> QED BY <1>4, <2>1, <2>2, <2>3
<1>8. CASE SellConfig(t)
  <2> DEFINE g == Delivery(t, s.config)
             sold == Is(C(s.config), [status |-> "sold", order |-> None])
             f == Over(sold, g)
  <2>1. Flush(t, f) /\ Flushed(t, "reward") /\ Room("subscription", o) /\ s.pc = "sell"
    BY <1>8 DEF SellConfig, At
  <2>2. s.config \in Config
    BY <1>1, <2>1 DEF Aware
  <2>3. Plain(g) /\ g[O(o)].user = Mine(t).user /\ g[O(o)].coupon = Mine(t).coupon
    BY <1>7, <2>1, <2>2
  <2>4. DOMAIN f = {C(s.config)} \cup DOMAIN g /\ \A r \in DOMAIN f : r # C(s.config) => f[r] = g[r]
    BY DEF Over, Is
  <2> HIDE DEF f, g
  <2>5. Plain(f)
    BY <2>3, <2>4, Keys
  <2>6. O(o) \in DOMAIN f => f[O(o)] = g[O(o)]
    BY <2>4, Keys
  <2> QED BY <1>2, <2>1, <2>3, <2>5, <2>6
<1>9. CASE Provision(t)
  <2>1. CASE Goto(t, "refused") /\ UNCHANGED store
    BY <1>3, <2>1
  <2>2. CASE Room("subscription", o) /\ Flush(t, Delivery(t, None)) /\ Flushed(t, "reward")
    <3>1. s.pc = "provision"
      BY <1>9 DEF Provision, At
    <3>2. LET g == Delivery(t, None)
          IN Plain(g) /\ g[O(o)].user = Mine(t).user /\ g[O(o)].coupon = Mine(t).coupon
      BY <1>7, <2>2, <3>1
    <3> QED BY <1>2, <2>2, <3>2
  <2> QED BY <1>9, <2>1, <2>2 DEF Provision
<1>10. CASE ReleaseConfig(t)
  <2> DEFINE status == IF s.op = "expire" THEN "expired" ELSE "cancelled"
             row == [Mine(t) EXCEPT !.status = status]
             g == Freed(t, s.config)
             f == Over(g, Is(O(o), row))
  <2>1. Flush(t, f) /\ Flushed(t, IF s.todo = {} THEN "commit" ELSE "cancel") /\ At(t, "release")
    BY <1>10 DEF ReleaseConfig
  <2>2. Mine(t) \in OrderType
    BY <2>1, OwnOrder
  <2>3. row.user = Mine(t).user /\ row.coupon = Mine(t).coupon
    BY <1>4, <2>2
  <2>4. \A r \in DOMAIN g : r[1] = "config"
    BY Nothing, Keys DEF Freed, Is
  <2> HIDE DEF g, row
  <2>5. DOMAIN f = DOMAIN g \cup {O(o)} /\ (O(o) \notin DOMAIN g => f[O(o)] = row)
    BY DEF Over, Is
  <2> HIDE DEF f
  <2>6. Plain(f) /\ f[O(o)] = row
    BY <2>4, <2>5, Keys
  <2> QED BY <1>2, <2>1, <2>3, <2>6
<1>11. CASE FlushAtCommit(t)
  <2>1. DOMAIN NoRows = {}
    BY Nothing
  <2> QED BY <1>2, <1>11, <2>1 DEF FlushAtCommit
<1> QED BY <1>5, <1>6, <1>8, <1>9, <1>10, <1>11

\* The wallet is charged: what the transaction has spent is the price of its order.
LEMMA PayMoney ==
    ASSUME Inv, MoneyInv, NEW t \in Tx, PayWithWallet(t)
    PROVE  MoneyInv'
<1> DEFINE s == sess[t]
           o == sess[t].order
           m == Mine(t).user
           due == FinalPrice(Mine(t))
           w == W(m)
<1>1. s.pc = "wallet" /\ s \in Session /\ Aware(s, ws[t], db)
  BY Here DEF PayWithWallet, At
<1>2. /\ s.op = "wallet" /\ s.dirty = "no" /\ P(o) \notin DOMAIN ws[t] /\ Mine(t) \in OrderType
      /\ O(o) \in DOMAIN ws[t] /\ Mine(t) = ws[t][O(o)]
  BY <1>1, Buys DEF Method, Mine, Row
<1>3. ~Charged(s, ws[t])
  BY <1>2 DEF Charged
<1>4. due \in Nat /\ m \in User
  BY <1>2, PriceAssumption, RowTypes DEF FinalPrice, OrderType
<1>5. CASE Goto(t, "refused") /\ UNCHANGED store
  BY <1>1, <1>5, SameCharge, OneSession, MoneyQuiet DEF Goto
<1>6. ASSUME NEW n \in Int, NEW z, sess' = [sess EXCEPT ![t] = z], Write(t, Is(w, n)),
             z.op = "wallet", z.order = o,
             \/ z.dirty = "no" /\ n = Row(t, w)
             \/ z.dirty = "settled" /\ n = Row(t, w) - due
      PROVE  MoneyInv'
  <2> DEFINE y == Over(Is(w, n), ws[t])
  <2>1. /\ db' = db
        /\ ws'[t] = y
        /\ \A u \in Tx \ {t} : ws'[u] = ws[u] /\ sess'[u] = sess[u]
        /\ sess'[t] = z
    <3>1. sess'[t] = z /\ \A u \in Tx \ {t} : sess'[u] = sess[u]
      BY <1>6, OneSession
    <3>2. Shaped
      BY DEF Inv, StoreInv
    <3> QED BY <1>6, <3>1, <3>2, WriteEffect
  <2>2. /\ DOMAIN y = {w} \cup DOMAIN ws[t] /\ y[w] = n
        /\ \A r \in DOMAIN ws[t] : r # w => y[r] = ws[t][r]
    BY DEF Over, Is
  <2> HIDE DEF y
  <2>3. /\ P(o) \notin DOMAIN y /\ y[O(o)] = Mine(t)
        /\ \A u \in User, i \in Copy : /\ Rew(u, i) \in DOMAIN y <=> Rew(u, i) \in DOMAIN ws[t]
                                       /\ Rew(u, i) \in DOMAIN y => y[Rew(u, i)] = ws[t][Rew(u, i)]
    BY <1>2, <2>2, Keys
  <2>4. \A u : Gained(y, u) = Gained(ws[t], u)
    BY <2>3 DEF Gained
  <2>5. \A u : Spent(s, ws[t], u) = 0
    BY <1>3 DEF Spent
  <2>6. \A u : Spent(z, y, u) = IF z.dirty = "settled" /\ u = m THEN due ELSE 0
    BY <1>6, <2>3 DEF Spent, Charged
  <2>7. Row(t, w) \in Int /\ db[w] \in Int
    <3>1. w \in DOMAIN db /\ Exists(t, w)
      BY <1>4 DEF Inv, StoreInv, StoreOk, Exists
    <3>2. Typed(db) /\ Row(t, w) \in RowType[w[1]]
      BY <3>1, Seen DEF StoreOk
    <3> QED BY <3>1, <3>2, RowTypes, Keys DEF Typed
  <2>8. ASSUME NEW u \in User
        PROVE  Moved(z, y, db, u)
    <3>1. Moved(s, ws[t], db, u)
      BY DEF MoneyInv
    <3>2. CASE u = m
      <4>1. Of(y, db, w) = n /\ Of(ws[t], db, w) = Row(t, w)
        BY <2>2 DEF Of, Row
      <4>2. Row(t, w) = db[w] + Gained(ws[t], u)
        BY <2>5, <2>7, <3>1, <3>2, <4>1, Amounts DEF Moved
      <4>3. n + Spent(z, y, u) = Row(t, w)
        BY <1>4, <1>6, <2>6, <2>7, <3>2
      <4> QED BY <2>2, <2>4, <3>2, <4>1, <4>2, <4>3 DEF Moved
    <3>3. CASE u # m
      <4>1. W(u) # w
        BY <3>3, Keys
      <4>2. Of(y, db, W(u)) = Of(ws[t], db, W(u)) /\ (W(u) \in DOMAIN y <=> W(u) \in DOMAIN ws[t])
        BY <2>2, <4>1 DEF Of
      <4>3. Spent(z, y, u) = Spent(s, ws[t], u)
        BY <2>5, <2>6, <3>3
      <4> QED BY <2>4, <3>1, <4>2, <4>3 DEF Moved
    <3> QED BY <3>2, <3>3
  <2>9. RewardKeys(y)
    <3>1. RewardKeys(ws[t]) /\ w[1] = "wallet"
      BY Keys DEF MoneyInv
    <3> QED BY <2>2, <3>1 DEF RewardKeys
  <2> QED BY <2>1, <2>8, <2>9, MovedStep
<1>7. Row(t, w) \in Int
  <2>1. Exists(t, w)
    BY <1>4 DEF Inv, StoreInv, StoreOk, Exists
  <2> QED BY <2>1, Seen, RowTypes, Keys
<1>8. CASE LockRow(t, w) /\ Goto(t, "refused")
  <2> DEFINE z == [s EXCEPT !.pc = "refused"]
  <2>1. z.op = "wallet" /\ z.order = o /\ z.dirty = "no"
    BY <1>1, <1>2, SameCharge
  <2>2. sess' = [sess EXCEPT ![t] = z] /\ Write(t, Is(w, Row(t, w)))
    BY <1>8 DEF Goto, LockRow
  <2> HIDE DEF z
  <2> QED BY <1>6, <1>7, <2>1, <2>2
<1>9. ASSUME Debit(t, w, due), NEW pc, sess' = [sess EXCEPT ![t].dirty = "settled", ![t].pc = pc]
      PROVE  MoneyInv'
  <2> DEFINE z == [s EXCEPT !.pc = pc, !.dirty = "settled"]
  <2>1. z.op = "wallet" /\ z.order = o /\ z.dirty = "settled"
    BY <1>1, <1>2, SameCharge
  <2>2. sess' = [sess EXCEPT ![t] = z] /\ Write(t, Is(w, Row(t, w) - due))
    BY <1>9 DEF Debit
  <2> HIDE DEF z
  <2>3. Row(t, w) - due \in Int
    BY <1>4, <1>7
  <2> QED BY <1>6, <2>1, <2>2, <2>3
<1> QED BY <1>5, <1>8, <1>9 DEF PayWithWallet

\* The referrer is rewarded: what the transaction has paid in is the one reward.
LEMMA RewardMoney ==
    ASSUME Inv, MoneyInv, NEW t \in Tx, RewardReferrer(t)
    PROVE  MoneyInv'
<1> DEFINE s == sess[t]
           o == sess[t].order
           u == Mine(t).user
           m == Referrer[u]
           w == W(Referrer[u])
           k == NewKey("reward", u)
           f == Rewarded(t, u)
           p == Pending(t)
           y == Over(f, p)
           z == [s EXCEPT !.pc = "commit", !.dirty = "no"]
<1>1. Flush(t, f) /\ sess' = [sess EXCEPT ![t] = z]
  BY DEF RewardReferrer, Flushed
<1>2. z.op = s.op /\ z.order = o /\ z.dirty = "no"
  BY Here, SameCharge
<1> HIDE DEF z
<1>3. sess'[t] = z /\ \A v \in Tx \ {t} : sess'[v] = sess[v]
  BY <1>1, OneSession
<1>4. /\ u \in User /\ m \in User
      /\ \A q \in User : R(q) \notin DOMAIN ws[t]
      /\ \E i \in Copy : k = Rew(u, i)
      /\ DOMAIN f = IF Reward = 0 THEN {R(u)} ELSE {R(u), w, k}
      /\ Reward # 0 => f[w] = Row(t, w) + Reward /\ f[k] = m
  BY RewardRows
<1> HIDE DEF k, f
<1>5. CASE Reward = 0
  <2>1. DOMAIN f = {R(u)}
    BY <1>4, <1>5
  <2>2. /\ O(o) \notin DOMAIN f
        /\ \A r \in DOMAIN f : r[1] \notin {"wallet", "reward", "payment"}
    BY <2>1, Keys
  <2> QED BY <1>1, <1>2, <1>3, <2>2, MoneyFlush
<1>6. CASE Reward # 0
  <2>1. /\ db' = db /\ ws'[t] = y
        /\ \A v \in Tx \ {t} : ws'[v] = ws[v]
    <3>1. Write(t, Over(f, Unflushed(t)))
      BY <1>1 DEF Flush
    <3> QED BY <3>1, WriteEffect, OverAssoc DEF Inv, StoreInv, Pending
  <2>2. /\ \A r : r[1] \in {"wallet", "reward"} =>
              /\ r \in DOMAIN p <=> r \in DOMAIN ws[t]
              /\ r \in DOMAIN p => p[r] = ws[t][r]
        /\ s.op = "wallet" => (P(o) \in DOMAIN p <=> Charged(s, ws[t]))
        /\ s.op = "wallet" => /\ O(o) \in DOMAIN p
                              /\ p[O(o)].user = ws[t][O(o)].user
                              /\ p[O(o)].coupon = ws[t][O(o)].coupon
    BY PendingMoney
  <2> HIDE DEF p
  <2>3. /\ DOMAIN y = {R(u), w, k} \cup DOMAIN p
        /\ y[w] = Row(t, w) + Reward /\ y[k] = m
        /\ \A r \in DOMAIN p : r \notin {R(u), w, k} => y[r] = p[r]
    BY <1>4, <1>6 DEF Over
  <2> HIDE DEF y
  <2>4. PICK i \in Copy : k = Rew(u, i)
    BY <1>4
  <2>5. \A v \in User, j \in Copy : Rew(v, j) \notin DOMAIN ws[t]
    <3>1. \A v \in User : UserKept(db, ws[t], Over(ws[t], db), v)
      BY Seen DEF TxOk
    <3> QED BY <1>4, <3>1 DEF UserKept
  <2>6. \A q : Gained(ws[t], q) = 0
    BY <2>5 DEF Gained
  <2>7. \A q : Gained(y, q) = IF q = m THEN Reward ELSE 0
    <3>1. \A v \in User, j \in Copy : Rew(v, j) \in DOMAIN y => Rew(v, j) = k
      BY <2>2, <2>3, <2>5, Keys
    <3>2. Rew(u, i) \in DOMAIN y /\ y[Rew(u, i)] = m
      BY <2>3, <2>4
    <3>3. \A q : (\E v \in User, j \in Copy : Rew(v, j) \in DOMAIN y /\ y[Rew(v, j)] = q) <=> q = m
      BY <1>4, <2>3, <3>1, <3>2
    <3> QED BY <3>3 DEF Gained
  <2>8. \A q : Spent(z, y, q) = Spent(s, ws[t], q)
    <3>1. O(o) \notin {R(u), w, k} /\ P(o) \notin {R(u), w, k}
      BY <2>4, Keys
    <3>2. Charged(z, y) <=> Charged(s, ws[t])
      BY <1>2, <2>2, <2>3, <3>1 DEF Charged
    <3>3. Charged(s, ws[t]) => /\ y[O(o)].user = ws[t][O(o)].user
                               /\ y[O(o)].coupon = ws[t][O(o)].coupon
      BY <2>2, <2>3, <3>1 DEF Charged
    <3> QED BY <1>2, <3>2, <3>3 DEF Spent, FinalPrice
  <2>9. Row(t, w) \in Int /\ db[w] \in Int
    <3>1. w \in DOMAIN db /\ Exists(t, w)
      BY <1>4 DEF Inv, StoreInv, StoreOk, Exists
    <3>2. Typed(db) /\ Row(t, w) \in RowType[w[1]]
      BY <3>1, Seen DEF StoreOk
    <3> QED BY <3>1, <3>2, RowTypes, Keys DEF Typed
  <2>10. ASSUME NEW q \in User
         PROVE  Moved(z, y, db, q)
    <3>1. Moved(s, ws[t], db, q)
      BY DEF MoneyInv
    <3>2. CASE q = m
      <4>1. Of(y, db, w) = Row(t, w) + Reward /\ Of(ws[t], db, w) = Row(t, w)
        BY <2>3 DEF Of, Row
      <4>2. Row(t, w) + Spent(s, ws[t], q) = db[w]
        BY <2>6, <2>9, <3>1, <3>2, <4>1 DEF Moved
      <4>3. Of(y, db, w) + Spent(z, y, q) = db[w] + Gained(y, q)
        BY <2>7, <2>8, <2>9, <3>2, <4>1, <4>2, Amounts, PriceAssumption
      <4> QED BY <2>3, <3>2, <4>3 DEF Moved
    <3>3. CASE q # m
      <4>1. W(q) \notin {R(u), w, k} /\ W(q)[1] = "wallet"
        BY <2>4, <3>3, Keys
      <4>2. Of(y, db, W(q)) = Of(ws[t], db, W(q)) /\ (W(q) \in DOMAIN y <=> W(q) \in DOMAIN ws[t])
        BY <2>2, <2>3, <4>1 DEF Of
      <4> QED BY <2>6, <2>7, <2>8, <3>1, <3>3, <4>2 DEF Moved
    <3> QED BY <3>2, <3>3
  <2>11. RewardKeys(y)
    <3>1. RewardKeys(ws[t])
      BY DEF MoneyInv
    <3>2. ASSUME NEW r \in DOMAIN y, r[1] = "reward"
          PROVE  \E v \in User, j \in Copy : r = Rew(v, j)
      BY <1>4, <2>2, <2>3, <3>1, <3>2, Keys DEF RewardKeys
    <3> QED BY <3>2 DEF RewardKeys
  <2> QED BY <1>3, <2>1, <2>10, <2>11, MovedStep
<1> QED BY <1>5, <1>6
-----------------------------------------------------------------------------
\* The orders a commit adds to those paid by wallet: the one its session has charged.
LEMMA Sold ==
    ASSUME NEW s, NEW x, NEW d, StoreOk(d), TxOk(d, x), Aware(s, x, d), s.dirty = "no"
    PROVE  LET e == Over(x, d)
           IN /\ \A o \in Order : ByWallet(d, o) =>
                    ByWallet(e, o) /\ e[O(o)].user = d[O(o)].user /\ e[O(o)].coupon = d[O(o)].coupon
              /\ \A o \in Order : ByWallet(e, o) /\ ~ByWallet(d, o) => Charged(s, x) /\ o = s.order
              /\ Charged(s, x) => /\ s.order \in Order /\ ~ByWallet(d, s.order)
                                  /\ ByWallet(e, s.order) /\ e[O(s.order)] = x[O(s.order)]
<1> DEFINE e == Over(x, d)
<1>1. /\ DOMAIN e = DOMAIN x \cup DOMAIN d
      /\ \A r \in DOMAIN x : e[r] = x[r]
  BY DEF Over
<1>2. \A o \in Order : OrderOk(d, o) /\ OrderKept(d, x, e, o)
  BY DEF StoreOk, TxOk
<1>3. e = Over(x, d)
  OBVIOUS
<1> HIDE DEF e
<1>4. ASSUME NEW o \in Order, ByWallet(d, o)
      PROVE  ByWallet(e, o) /\ e[O(o)].user = d[O(o)].user /\ e[O(o)].coupon = d[O(o)].coupon
  <2>1. O(o) \in DOMAIN d /\ P(o) \in DOMAIN d
    BY <1>2, <1>4 DEF OrderOk, ByWallet
  <2> QED BY <1>1, <1>2, <1>4, <2>1 DEF OrderKept, ByWallet
<1>5. ASSUME NEW o \in Order, ByWallet(e, o), ~ByWallet(d, o)
      PROVE  Charged(s, x) /\ o = s.order
  <2>1. O(o) \in DOMAIN x /\ P(o) \in DOMAIN x /\ O(o) \notin DOMAIN d
    BY <1>2, <1>3, <1>5, PaidHere
  <2>2. s.op \in Method /\ o = s.order
    BY <2>1 DEF Aware
  <2>3. x[P(o)].method = s.op
    BY <2>1, <2>2 DEF Aware, Buying
  <2> QED BY <1>1, <1>5, <2>1, <2>2, <2>3 DEF Charged, ByWallet
<1>6. ASSUME Charged(s, x)
      PROVE  /\ s.order \in Order /\ ~ByWallet(d, s.order)
             /\ ByWallet(e, s.order) /\ e[O(s.order)] = x[O(s.order)]
  <2>1. s.op = "wallet" /\ P(s.order) \in DOMAIN x
    BY <1>6 DEF Charged
  <2>2. Buying(s, s.order, x, d)
    BY <2>1 DEF Aware, Method
  <2>3. /\ s.order \in Order /\ O(s.order) \in DOMAIN x /\ O(s.order) \notin DOMAIN d
        /\ x[P(s.order)].method = "wallet"
    BY <2>1, <2>2 DEF Buying
  <2> QED BY <1>1, <1>2, <2>1, <2>3 DEF OrderOk, ByWallet
<1> QED BY <1>4, <1>5, <1>6 DEF e

\* A set with one more element, or with none.
LEMMA OneElement ==
    ASSUME NEW A, NEW B, NEW a, IsFiniteSet(A), a \notin A, B = A \cup {a}
    PROVE  IsFiniteSet(B) /\ Cardinality(B) = Cardinality(A) + 1 /\ Cardinality(A) \in Int
  BY FS_AddElement, FS_CardinalityType

\* The commit's effect on the orders of a customer paid by wallet.
LEMMA SoldTo ==
    ASSUME NEW s, NEW x, NEW d, StoreOk(d), TxOk(d, x), Aware(s, x, d), s.dirty = "no",
           NEW u, NEW coupon, IsFiniteSet(Bought(d, u, coupon))
    PROVE  LET A == Bought(d, u, coupon)
               B == Bought(Over(x, d), u, coupon)
               n == IF Charged(s, x) /\ x[O(s.order)].user = u /\ x[O(s.order)].coupon = coupon
                    THEN 1 ELSE 0
           IN IsFiniteSet(B) /\ Cardinality(B) = Cardinality(A) + n /\ Cardinality(A) \in Int
<1> DEFINE A == Bought(d, u, coupon)
           e == Over(x, d)
           B == Bought(e, u, coupon)
           o == s.order
           Mark == Charged(s, x) /\ x[O(o)].user = u /\ x[O(o)].coupon = coupon
<1>1. /\ \A q \in Order : ByWallet(d, q) =>
            ByWallet(e, q) /\ e[O(q)].user = d[O(q)].user /\ e[O(q)].coupon = d[O(q)].coupon
      /\ \A q \in Order : ByWallet(e, q) /\ ~ByWallet(d, q) => Charged(s, x) /\ q = o
      /\ Charged(s, x) => /\ o \in Order /\ ~ByWallet(d, o)
                          /\ ByWallet(e, o) /\ e[O(o)] = x[O(o)]
  BY Sold
<1> HIDE DEF e
<1>2. CASE Mark
  <2>1. o \notin A /\ B = A \cup {o}
    BY <1>1, <1>2 DEF Bought
  <2> QED BY <1>2, <2>1, OneElement DEF e
<1>3. CASE ~Mark
  <2>1. B = A
    BY <1>1, <1>3 DEF Bought
  <2> QED BY <1>3, <2>1, FS_CardinalityType DEF e
<1> QED BY <1>2, <1>3

\* The commit's effect on the rewards of a referrer.
LEMMA EarnedBy ==
    ASSUME NEW x, NEW d, TxOk(d, x), RewardKeys(x), RewardKeys(d), NEW u, IsFiniteSet(Earned(d, u))
    PROVE  LET e == Over(x, d)
           IN /\ IsFiniteSet(Earned(e, u))
              /\ Reward * Cardinality(Earned(e, u)) = Reward * Cardinality(Earned(d, u)) + Gained(x, u)
              /\ Reward * Cardinality(Earned(d, u)) \in Int
<1> DEFINE e == Over(x, d)
           New(r) == r \in DOMAIN x /\ r[1] = "reward" /\ x[r] = u
<1>1. /\ DOMAIN e = DOMAIN x \cup DOMAIN d
      /\ \A r \in DOMAIN x : e[r] = x[r]
      /\ \A r \in DOMAIN d : r \notin DOMAIN x => e[r] = d[r]
  BY DEF Over
<1>2. \A r \in DOMAIN x : r[1] = "reward" => r \notin DOMAIN d
  BY DEF TxOk, UserKept, RewardKeys
<1>3. \A r, q \in DOMAIN x : r[1] = "reward" /\ q[1] = "reward" => r = q
  BY DEF TxOk, OneReward, RewardKeys
<1> HIDE DEF e
<1>4. Reward \in Int /\ Cardinality(Earned(d, u)) \in Int
  BY PriceAssumption, FS_CardinalityType
<1>5. CASE \E r : New(r)
  <2>1. PICK r : New(r)
    BY <1>5
  <2>2. r \notin Earned(d, u) /\ Earned(e, u) = Earned(d, u) \cup {r}
    BY <1>1, <1>2, <1>3, <2>1 DEF Earned
  <2>3. IsFiniteSet(Earned(e, u)) /\ Cardinality(Earned(e, u)) = Cardinality(Earned(d, u)) + 1
    BY <2>2, OneElement
  <2>4. Gained(x, u) = Reward
    BY <2>1 DEF Gained, RewardKeys
  <2> QED BY <1>4, <2>3, <2>4, OneMore DEF e
<1>6. CASE ~ \E r : New(r)
  <2>1. Earned(e, u) = Earned(d, u)
    BY <1>1, <1>2, <1>6 DEF Earned
  <2>2. Gained(x, u) = 0
    BY <1>6, Keys DEF Gained
  <2> QED BY <1>4, <2>1, <2>2 DEF e
<1> QED BY <1>5, <1>6

\* The books balance after a commit.
LEMMA Balanced ==
    ASSUME NEW s, NEW x, NEW d, StoreOk(d), TxOk(d, x), Aware(s, x, d), s.dirty = "no",
           RewardKeys(x), RewardKeys(d), NEW u \in User, Booked(d, u), Moved(s, x, d, u)
    PROVE  Booked(Over(x, d), u)
<1> DEFINE e == Over(x, d)
           o == s.order
           Mark(coupon) == Charged(s, x) /\ x[O(o)].user = u /\ x[O(o)].coupon = coupon
           full == IF Mark(FALSE) THEN 1 ELSE 0
           less == IF Mark(TRUE) THEN 1 ELSE 0
           a0 == Cardinality(Bought(d, u, FALSE))
           a1 == Cardinality(Bought(d, u, TRUE))
           b0 == Cardinality(Bought(e, u, FALSE))
           b1 == Cardinality(Bought(e, u, TRUE))
           cut == Price - Discount
           old == Reward * Cardinality(Earned(d, u))
           new == Reward * Cardinality(Earned(e, u))
<1>1. IsFiniteSet(Bought(e, u, FALSE)) /\ b0 = a0 + full /\ a0 \in Int
  BY SoldTo DEF Booked
<1>2. IsFiniteSet(Bought(e, u, TRUE)) /\ b1 = a1 + less /\ a1 \in Int
  BY SoldTo DEF Booked
<1>3. IsFiniteSet(Earned(e, u)) /\ new = old + Gained(x, u) /\ old \in Int
  BY EarnedBy DEF Booked
<1>4. e[W(u)] = Of(x, d, W(u)) /\ d[W(u)] \in Int /\ e[W(u)] \in Int
  <2>1. W(u) \in DOMAIN d /\ Typed(d)
    BY DEF StoreOk
  <2>2. W(u) \in DOMAIN e /\ Typed(e)
    BY <2>1, OverTyped DEF TxOk, Over
  <2>3. e[W(u)] = Of(x, d, W(u))
    BY <2>2 DEF Of, Over
  <2> QED BY <2>1, <2>2, <2>3, RowTypes, Keys DEF Typed
<1>5. e[W(u)] + Spent(s, x, u) = d[W(u)] + Gained(x, u)
  BY <1>4 DEF Moved
<1>6. /\ Price \in Int /\ cut \in Int /\ Price * a0 \in Int /\ cut * a1 \in Int
      /\ Price * b0 = Price * a0 + Price * full
      /\ cut * b1 = cut * a1 + cut * less
  <2>1. Price \in Int /\ cut \in Int
    BY PriceAssumption
  <2>2. full \in {0, 1} /\ less \in {0, 1}
    OBVIOUS
  <2> HIDE DEF full, less, a0, a1, b0, b1, cut
  <2>3. \A p, i \in Int, j \in {0, 1} : p * (i + j) = p * i + p * j /\ p * i \in Int
    BY OneMore
  <2> QED BY <1>1, <1>2, <2>1, <2>2, <2>3
<1>7. /\ Spent(s, x, u) = Price * full + cut * less
      /\ Price * full \in Int /\ cut * less \in Int
  <2>1. CASE Charged(s, x) /\ x[O(o)].user = u
    <3>1. x[O(o)].coupon \in BOOLEAN
      <4>1. O(o) \in DOMAIN x
        BY <2>1 DEF Charged, Aware, Buying, Method
      <4>2. x[O(o)] \in RowType["order"]
        BY <4>1, Keys DEF TxOk, Typed
      <4> QED BY <4>2, RowTypes
    <3> QED BY <2>1, <3>1, PriceAssumption DEF Spent, FinalPrice
  <2>2. CASE ~(Charged(s, x) /\ x[O(o)].user = u)
    BY <2>2, PriceAssumption DEF Spent
  <2> QED BY <2>1, <2>2
<1>8. d[W(u)] + Price * a0 + cut * a1 = Funds[u] + old
  BY DEF Booked
<1>9. Funds[u] \in Int /\ Gained(x, u) \in Int
  BY FundsAssumption, Amounts
<1>10. e[W(u)] + Price * b0 + cut * b1 = Funds[u] + new
  <2> DEFINE pa == Price * a0   pb == Price * b0   pn == Price * full
             ca == cut * a1     cb == cut * b1     cn == cut * less
             spent == Spent(s, x, u)
             gained == Gained(x, u)
             was == d[W(u)]
             is == e[W(u)]
  <2>1. /\ pa \in Int /\ pn \in Int /\ ca \in Int /\ cn \in Int /\ old \in Int /\ gained \in Int
        /\ was \in Int /\ is \in Int /\ Funds[u] \in Int
        /\ pb = pa + pn /\ cb = ca + cn /\ spent = pn + cn /\ new = old + gained
        /\ is + spent = was + gained /\ was + pa + ca = Funds[u] + old
    BY <1>3, <1>4, <1>5, <1>6, <1>7, <1>8, <1>9
  <2> HIDE DEF pa, pb, pn, ca, cb, cn, spent, gained, was, is, old, new
  <2>2. is + pb + cb = Funds[u] + new
    BY <2>1
  <2> QED BY <2>2 DEF is, pb, cb
<1> QED BY <1>1, <1>2, <1>3, <1>10 DEF Booked

\* The end of a transaction: its charge and its reward are committed with the wallets
\* they moved, or forgotten with them.
LEMMA EndMoney ==
    ASSUME Inv, MoneyInv, NEW t \in Tx, Close(t), Rollback(t) \/ (Commit(t) /\ sess[t].dirty = "no")
    PROVE  MoneyInv'
<1> DEFINE s == sess[t]
           x == ws[t]
           e == Over(x, db)
<1>1. sess'[t] = Idle /\ \A v \in Tx \ {t} : sess'[v] = sess[v]
  BY OneSession DEF Close
<1>2. ws'[t] = NoRows /\ \A v \in Tx \ {t} : ws'[v] = ws[v]
  BY EndEffect DEF Inv, StoreInv
<1>3. RewardKeys(NoRows)
  BY Nothing DEF RewardKeys
<1>4. ASSUME NEW d, NEW u
      PROVE  Moved(Idle, NoRows, d, u)
  <2>1. Spent(Idle, NoRows, u) = 0 /\ Gained(NoRows, u) = 0
    BY Nothing DEF Spent, Gained, Charged, Idle
  <2>2. Of(NoRows, d, W(u)) = d[W(u)]
    BY Nothing DEF Of
  <2> QED BY <2>1, <2>2 DEF Moved
<1>5. CASE Rollback(t)
  <2>1. db' = db
    BY <1>5 DEF Rollback
  <2>2. ASSUME NEW v \in Tx
        PROVE  RewardKeys(ws'[v]) /\ \A u \in User : Moved(sess'[v], ws'[v], db', u)
    <3>1. CASE v = t
      BY <1>1, <1>2, <1>3, <1>4, <3>1
    <3>2. CASE v # t
      BY <1>1, <1>2, <2>1, <3>2 DEF MoneyInv
    <3> QED BY <3>1, <3>2
  <2> QED BY <2>1, <2>2 DEF MoneyInv
<1>6. CASE Commit(t) /\ s.dirty = "no"
  <2>1. db' = e
    BY <1>6 DEF Commit, Visible
  <2>2. /\ StoreOk(db) /\ TxOk(db, x) /\ Aware(s, x, db) /\ RewardKeys(x) /\ RewardKeys(db)
        /\ \A u \in User : Booked(db, u) /\ Moved(s, x, db, u)
    BY DEF Inv, StoreInv, MoneyInv
  <2>3. \A u \in User : Booked(e, u)
    BY <1>6, <2>2, Balanced
  <2>4. RewardKeys(e)
    BY <2>2 DEF RewardKeys, Over
  <2>5. ASSUME NEW v \in Tx, v # t, NEW u \in User
        PROVE  Moved(sess[v], ws[v], e, u)
    <3>1. Moved(sess[v], ws[v], db, u) /\ Moved(s, x, db, u)
      BY DEF MoneyInv
    <3>2. CASE W(u) \in DOMAIN ws[v]
      <4>1. W(u) \notin DOMAIN x
        BY <2>5, <3>2 DEF Inv, StoreInv, Exclusive
      <4>2. W(u) \in DOMAIN db
        BY <2>2 DEF StoreOk
      <4>3. e[W(u)] = db[W(u)]
        BY <4>1, <4>2 DEF Over
      <4> QED BY <3>1, <3>2, <4>3 DEF Moved, Of
    <3>3. CASE W(u) \notin DOMAIN ws[v]
      BY <3>1, <3>3 DEF Moved, Of
    <3> QED BY <3>2, <3>3
  <2>6. ASSUME NEW v \in Tx
        PROVE  RewardKeys(ws'[v]) /\ \A u \in User : Moved(sess'[v], ws'[v], db', u)
    <3>1. CASE v = t
      BY <1>1, <1>2, <1>3, <1>4, <3>1
    <3>2. CASE v # t
      BY <1>1, <1>2, <2>1, <2>5, <3>2 DEF MoneyInv
    <3> QED BY <3>1, <3>2
  <2> QED BY <2>1, <2>3, <2>4, <2>6 DEF MoneyInv
<1> QED BY <1>5, <1>6

\* A DomainError: a bot handler goes on to its commit, any other rolls back.
LEMMA DomainErrorMoney ==
    ASSUME Inv, MoneyInv, NEW t \in Tx, DomainError(t)
    PROVE  MoneyInv'
<1>1. CASE Goto(t, "commit") /\ UNCHANGED store
  BY <1>1, Here, SameCharge, OneSession, MoneyQuiet DEF Goto
<1> QED BY <1>1, EndMoney DEF DomainError

\* Nobody has bought or earned anything at the start.
LEMMA InitMoney ==
    ASSUME Init
    PROVE  MoneyInv
<1>1. db = Over([r \in {C(c) : c \in Config} |-> [status |-> "available", order |-> None]],
           Over([r \in {W(u) : u \in User} |-> Funds[r[2]]],
           Over([r \in {R(u) : u \in {v \in User : Referrer[v] # None}} |-> "pending"],
                Is(K, 0))))
  BY DEF Init
<1>2. \A r \in DOMAIN db : r[1] \in {"config", "wallet", "referral", "coupon"}
  BY <1>1, Keys DEF Over, Is
<1>3. ASSUME NEW u \in User
      PROVE  Booked(db, u)
  <2>1. /\ \A coupon : Bought(db, u, coupon) = {}
        /\ Earned(db, u) = {}
    BY <1>2, Keys DEF Bought, Earned, ByWallet
  <2>2. db[W(u)] = Funds[u]
    <3>1. W(u)[2] = u
      BY DEF W
    <3>2. \A c : W(u) # C(c)
      BY Keys
    <3> QED BY <1>1, <3>1, <3>2 DEF Over
  <2>3. Funds[u] \in Int /\ Price \in Int /\ Discount \in Int /\ Reward \in Int
    BY PriceAssumption, FundsAssumption
  <2>4. IsFiniteSet({}) /\ Cardinality({}) = 0
    BY FS_EmptySet
  <2>5. \A a \in Int : a * 0 = 0
    OBVIOUS
  <2>6. Price * 0 = 0 /\ (Price - Discount) * 0 = 0 /\ Reward * 0 = 0
    BY <2>3, <2>5
  <2>7. /\ Price * Cardinality(Bought(db, u, FALSE)) = 0
        /\ (Price - Discount) * Cardinality(Bought(db, u, TRUE)) = 0
        /\ Reward * Cardinality(Earned(db, u)) = 0
        /\ IsFiniteSet(Bought(db, u, FALSE)) /\ IsFiniteSet(Bought(db, u, TRUE))
        /\ IsFiniteSet(Earned(db, u))
    BY <2>1, <2>4, <2>6
  <2> DEFINE full == Price * Cardinality(Bought(db, u, FALSE))
             less == (Price - Discount) * Cardinality(Bought(db, u, TRUE))
             gifts == Reward * Cardinality(Earned(db, u))
  <2>8. db[W(u)] + full + less = Funds[u] + gifts
    <3>1. full = 0 /\ less = 0 /\ gifts = 0
      BY <2>7
    <3> HIDE DEF full, less, gifts
    <3> QED BY <2>2, <2>3, <3>1
  <2> QED BY <2>7, <2>8 DEF Booked
<1>4. ASSUME NEW t \in Tx
      PROVE  RewardKeys(ws[t]) /\ \A u \in User : Moved(sess[t], ws[t], db, u)
  <2>1. ws[t] = NoRows /\ sess[t] = Idle
    BY DEF Init
  <2>2. RewardKeys(NoRows)
    BY Nothing DEF RewardKeys
  <2>3. ASSUME NEW u
        PROVE  Moved(Idle, NoRows, db, u)
    <3>1. Spent(Idle, NoRows, u) = 0 /\ Gained(NoRows, u) = 0
      BY Nothing DEF Spent, Gained, Charged, Idle
    <3>2. Of(NoRows, db, W(u)) = db[W(u)]
      BY Nothing DEF Of
    <3> QED BY <3>1, <3>2 DEF Moved
  <2> QED BY <2>1, <2>2, <2>3
<1>5. RewardKeys(db)
  BY <1>2 DEF RewardKeys
<1> QED BY <1>3, <1>4, <1>5 DEF MoneyInv

\* Every step keeps the books.
LEMMA MoneyStep ==
    ASSUME Inv, MoneyInv, [Next]_vars
    PROVE  MoneyInv'
<1>1. ASSUME NEW t \in Tx, Take(t)
      PROVE  MoneyInv'
  BY <1>1, QuietMoney, WriteMoney DEF Take, Buy
<1>2. ASSUME NEW t \in Tx, Pay(t)
      PROVE  MoneyInv'
  BY <1>2, FlushMoney, PayMoney, WriteMoney, ShowCardMoney, QuietMoney DEF Pay
<1>3. ASSUME NEW t \in Tx, Settle(t)
      PROVE  MoneyInv'
  BY <1>3, QuietMoney, FlushMoney, RewardMoney DEF Settle
<1>4. ASSUME NEW t \in Tx, Expire(t)
      PROVE  MoneyInv'
  BY <1>4, QuietMoney, WriteMoney DEF Expire
<1>5. ASSUME NEW t \in Tx, End(t)
      PROVE  MoneyInv'
  BY <1>5, QuietMoney, FlushMoney, DomainErrorMoney, EndMoney DEF End, Finish
<1>6. ASSUME NEW t \in Tx, Crash(t)
      PROVE  MoneyInv'
  BY <1>6, EndMoney DEF Crash
<1>7. ASSUME UNCHANGED <<db, ws, sess>>
      PROVE  MoneyInv'
  BY <1>7 DEF MoneyInv
<1>8. CASE (\E o \in Order : Tick(o) \/ PayAtGateway(o)) \/ UNCHANGED vars
  BY <1>7, <1>8 DEF Tick, PayAtGateway, vars
<1> QED BY <1>1, <1>2, <1>3, <1>4, <1>5, <1>6, <1>8 DEF Next, Handle

\* A wallet always holds what its owner started with, less the orders paid by wallet,
\* plus the referral rewards: no interleaving of purchases, rewards, refused handlers
\* that commit, and crashes creates or destroys money.
THEOREM MoneyIsConserved == Spec => []MoneyConserved
<1>1. Init => MoneyInv
  BY InitMoney
<1>2. Inv /\ MoneyInv /\ [Next]_vars => MoneyInv'
  BY MoneyStep
<1>3. MoneyInv => MoneyConserved
  <2> SUFFICES ASSUME MoneyInv, NEW u \in User
               PROVE  LET bought(coupon) == {o \in Payments : /\ db[P(o)].method = "wallet"
                                                              /\ db[O(o)].user = u
                                                              /\ db[O(o)].coupon = coupon}
                          rewards == {r \in Table("reward") : db[r] = u}
                      IN db[W(u)] + Price * Cardinality(bought(FALSE))
                                  + (Price - Discount) * Cardinality(bought(TRUE))
                            = Funds[u] + Reward * Cardinality(rewards)
    BY DEF MoneyConserved
  <2> DEFINE bought(coupon) == {o \in Payments : /\ db[P(o)].method = "wallet"
                                                 /\ db[O(o)].user = u
                                                 /\ db[O(o)].coupon = coupon}
             rewards == {r \in Table("reward") : db[r] = u}
  <2>1. Bought(db, u, TRUE) = bought(TRUE) /\ Bought(db, u, FALSE) = bought(FALSE)
    BY DEF Bought, Payments, ByWallet
  <2>2. Earned(db, u) = rewards
    BY DEF Earned, Table
  <2> HIDE DEF bought, rewards
  <2>3. Booked(db, u)
    BY DEF MoneyInv
  <2>4. db[W(u)] + Price * Cardinality(bought(FALSE))
                 + (Price - Discount) * Cardinality(bought(TRUE))
           = Funds[u] + Reward * Cardinality(rewards)
    BY <2>1, <2>2, <2>3 DEF Booked
  <2> QED BY <2>4 DEF bought, rewards
<1> QED BY <1>1, <1>2, <1>3, Invariance, PTL DEF Spec
=============================================================================
