------------------------- MODULE CheckoutSalesProofs -------------------------
(***************************************************************************)
(* Proofs that Checkout holds stock only for orders that can still be paid,*)
(* and of what it sells and counts while no two sessions get in each       *)
(* other's way, for every set of users, orders, configs and transactions,  *)
(* and every price and reward.                                             *)
(*                                                                         *)
(* Stock: each session knows which configs are held for its order          *)
(* (Stocked): one while the order awaits payment, and none once there is   *)
(* a subscription.  Between marking the order paid and selling the config, *)
(* that session alone sees a config held for an order not awaiting payment.*)
(*                                                                         *)
(* Sales: at every moment the committed rows, and the rows each            *)
(* transaction would leave if it committed now, agree on what is delivered,*)
(* paid for and sold (Settled), because a transaction writes to no         *)
(* delivered order (Writes) and its session knows, from what it has read,  *)
(* that its order is none and that it is paid for (Knows).  What it has    *)
(* read stays true until it commits only while no other session works on   *)
(* the order (OneAtAnOrder), which the code does not ensure.               *)
(*                                                                         *)
(* Promotions: what a session has read of the coupon's counter and of a    *)
(* referral is still so when it writes them (Promoted), while no other     *)
(* session has them in hand (OneAtAPromotion), which the code does not     *)
(* ensure either.                                                          *)
(***************************************************************************)
EXTENDS CheckoutProofs
\* No config is held for order o, as v has it.
NoneHeld(v, o) == \A c \in Config : v[C(c)].order # o

\* Configs are held for manual orders only, one for each, before it is delivered.
HeldOk(v, o) ==
    /\ \A c \in Config : v[C(c)].order = o => O(o) \in DOMAIN v /\ v[O(o)].mode = "manual"
    /\ \A c, d \in Config : v[C(c)].order = o /\ v[C(d)].order = o => c = d
    /\ (\E i \in Copy : S(o, i) \in DOMAIN v) => NoneHeld(v, o)

\* They are held while the order awaits payment.
Backed(v, o) ==
    /\ HeldOk(v, o)
    /\ O(o) \in DOMAIN v /\ v[O(o)].status # "awaiting_payment" => NoneHeld(v, o)

\* The statements before which a session may have marked its order paid while the
\* config held for it is still to be sold.
Selling == {"find", "stock", "sell"}

\* The statements before which no config is held for the session's order.
Holdless == {"reserve", "restock", "provision", "reward", "credit"}

\* What session s knows of the stock, as it sees the rows v.
Sees(s, v) ==
    /\ \A o \in Order : ~(o = s.order /\ s.pc \in Selling) => Backed(v, o)
    /\ s.pc \in {"find", "stock"} => HeldOk(v, s.order)
    /\ s.pc \in Holdless => NoneHeld(v, s.order)
    /\ s.pc \in Ending /\ s.dirty = "settled" => NoneHeld(v, s.order)
    /\ s.pc \in {"sell", "release"} =>
          \A c \in Config : v[C(c)].order = s.order => c = s.config
    /\ s.pc = "reserve" => v[O(s.order)].mode = "manual"
    /\ s.dirty = "settled" => s.pc \in Delivering \cup Delivered \cup Ending

\* A config is held by the session that creates the order, or is about to sell it.
Holds(s, x, d) ==
    \A c \in Config : C(c) \in DOMAIN x /\ x[C(c)].order # None =>
        /\ x[C(c)].order = s.order
        /\ s.pc = "sell" \/ (O(s.order) \in DOMAIN x /\ O(s.order) \notin DOMAIN d)

\* A subscription is inserted with its order.
Delivers(x, d) ==
    \A o \in Order, i \in Copy :
        S(o, i) \in DOMAIN x /\ S(o, i) \notin DOMAIN d => O(o) \in DOMAIN x

Stocked(s, x, d) == Sees(s, Over(x, d)) /\ Holds(s, x, d) /\ Delivers(x, d)

StockInv ==
    /\ \A o \in Order : Backed(db, o)
    /\ \A t \in Tx : Stocked(sess[t], ws[t], db)
-----------------------------------------------------------------------------
\* An order for which nothing is held.
LEMMA Unheld ==
    ASSUME NEW v, NEW o, NoneHeld(v, o)
    PROVE  Backed(v, o)
    BY DEF NoneHeld, Backed, HeldOk

\* A change that holds nothing more for order o, and leaves its row and its
\* subscriptions as they are.
LEMMA StillHeld ==
    ASSUME NEW v, NEW w, NEW o,
           \A c \in Config : w[C(c)].order = o => v[C(c)].order = o,
           \A i \in Copy : S(o, i) \in DOMAIN w => S(o, i) \in DOMAIN v,
           O(o) \in DOMAIN v => O(o) \in DOMAIN w /\ w[O(o)].mode = v[O(o)].mode
    PROVE  /\ NoneHeld(v, o) => NoneHeld(w, o)
           /\ HeldOk(v, o) => HeldOk(w, o)
           /\ Backed(v, o) /\ (O(o) \in DOMAIN w => O(o) \in DOMAIN v /\ w[O(o)] = v[O(o)]) => Backed(w, o)
<1>1. NoneHeld(v, o) => NoneHeld(w, o)
  BY DEF NoneHeld
<1>2. HeldOk(v, o) => HeldOk(w, o)
  BY <1>1 DEF HeldOk
<1>3. Backed(v, o) /\ (O(o) \in DOMAIN w => O(o) \in DOMAIN v /\ w[O(o)] = v[O(o)]) => Backed(w, o)
  BY <1>1, <1>2 DEF Backed
<1> QED BY <1>1, <1>2, <1>3

\* The session goes on with the same order.
LEMMA StockQuiet ==
    ASSUME NEW s, NEW z, NEW x, NEW d, Stocked(s, x, d), z.order = s.order,
           s.pc = "sell" => z.pc = "sell",
           s.pc \in Selling /\ z.pc \notin Selling => NoneHeld(Over(x, d), s.order),
           z.pc \in Holdless \/ (z.pc \in Ending /\ z.dirty = "settled") =>
              NoneHeld(Over(x, d), s.order),
           z.pc \in {"sell", "release"} =>
              \A c \in Config : Over(x, d)[C(c)].order = s.order => c = z.config,
           z.pc = "reserve" => s.pc = "reserve",
           z.dirty = "settled" => z.pc \in Delivering \cup Delivered \cup Ending,
           z.pc \in {"find", "stock"} => s.order \in Order
    PROVE  Stocked(z, x, d)
<1> DEFINE v == Over(x, d)
<1>1. Sees(s, v) /\ Holds(s, x, d) /\ Delivers(x, d)
  BY DEF Stocked
<1> HIDE DEF v
<1>2. \A o \in Order : ~(o = z.order /\ z.pc \in Selling) => Backed(v, o)
  <2> SUFFICES ASSUME NEW o \in Order, ~(o = z.order /\ z.pc \in Selling)
               PROVE  Backed(v, o)
    OBVIOUS
  <2>1. CASE o = s.order /\ s.pc \in Selling
    BY <2>1, Unheld DEF v
  <2>2. CASE ~(o = s.order /\ s.pc \in Selling)
    BY <1>1, <2>2 DEF Sees
  <2> QED BY <2>1, <2>2
<1>3. z.pc \in {"find", "stock"} => HeldOk(v, z.order)
  <2> SUFFICES ASSUME z.pc \in {"find", "stock"}
               PROVE  HeldOk(v, s.order)
    OBVIOUS
  <2>1. s.pc # "sell"
    OBVIOUS
  <2>2. CASE s.pc \in Selling
    BY <1>1, <2>1, <2>2 DEF Sees, Selling
  <2>3. CASE s.pc \notin Selling
    BY <1>1, <2>3 DEF Sees, Backed
  <2> QED BY <2>2, <2>3
<1>4. Sees(z, v)
  BY <1>1, <1>2, <1>3 DEF Sees, v
<1>5. Holds(z, x, d)
  BY <1>1 DEF Holds
<1> QED BY <1>1, <1>4, <1>5 DEF Stocked, v

\* It turns to another order, holding nothing.
LEMMA StockTurn ==
    ASSUME NEW s, NEW z, NEW x, NEW d, Stocked(s, x, d), s.pc \notin Selling,
           \A c \in Config : C(c) \in DOMAIN x => x[C(c)].order = None,
           z.pc \notin Selling \cup Holdless, z.dirty # "settled",
           z.pc = "release" => \A c \in Config : Over(x, d)[C(c)].order = z.order => c = z.config
    PROVE  Stocked(z, x, d)
<1>1. Sees(z, Over(x, d))
  BY DEF Stocked, Sees, Selling, Holdless
<1> QED BY <1>1 DEF Stocked, Holds

\* It writes neither orders nor subscriptions, and frees the configs it writes.
LEMMA StockPlain ==
    ASSUME NEW s, NEW f, NEW x, NEW d, Stocked(s, x, d),
           \A c \in Config : C(c) \in DOMAIN d,
           \A r \in DOMAIN f : r[1] \notin {"order", "subscription"},
           \A c \in Config : C(c) \in DOMAIN f => f[C(c)].order = None,
           s.pc # "reserve", s.order \in Order \/ (s.pc \in {"idle", "free"} /\ s.dirty = "no")
    PROVE  Stocked(s, Over(f, x), d)
<1> DEFINE v == Over(x, d)
           y == Over(f, x)
           w == Over(y, d)
<1>0. v = Over(x, d) /\ y = Over(f, x) /\ w = Over(y, d)
  OBVIOUS
<1> HIDE DEF v, y, w
<1>1. Sees(s, v) /\ Holds(s, x, d) /\ Delivers(x, d)
  BY <1>0 DEF Stocked
<1>2. /\ DOMAIN w = DOMAIN f \cup DOMAIN v
      /\ DOMAIN v = DOMAIN x \cup DOMAIN d
      /\ DOMAIN y = DOMAIN f \cup DOMAIN x
      /\ \A r \in DOMAIN f : w[r] = f[r] /\ y[r] = f[r]
      /\ \A r \in DOMAIN x : r \notin DOMAIN f => y[r] = x[r]
      /\ \A r \in DOMAIN v : r \notin DOMAIN f => w[r] = v[r]
  BY <1>0 DEF Over
<1>3. \A o : /\ O(o) \notin DOMAIN f
             /\ O(o) \in DOMAIN w <=> O(o) \in DOMAIN v
             /\ O(o) \in DOMAIN y <=> O(o) \in DOMAIN x
             /\ O(o) \in DOMAIN v => w[O(o)] = v[O(o)]
  BY <1>2, Keys
<1>4. \A o, i : /\ S(o, i) \in DOMAIN w <=> S(o, i) \in DOMAIN v
                /\ S(o, i) \in DOMAIN y <=> S(o, i) \in DOMAIN x
  BY <1>2, Keys
<1>5. \A c \in Config, o \in Order : w[C(c)].order = o => v[C(c)].order = o
  BY <1>2, IdAssumption
<1>6. \A o \in Order : /\ NoneHeld(v, o) => NoneHeld(w, o)
                       /\ HeldOk(v, o) => HeldOk(w, o)
                       /\ Backed(v, o) => Backed(w, o)
  BY <1>3, <1>4, <1>5, StillHeld
<1>7. Sees(s, w)
  <2>1. CASE s.order \in Order
    BY <1>1, <1>5, <1>6, <2>1 DEF Sees
  <2>2. CASE s.pc \in {"idle", "free"} /\ s.dirty = "no"
    BY <1>1, <1>6, <2>2 DEF Sees, Selling, Holdless, Ending
  <2> QED BY <2>1, <2>2
<1>8. Holds(s, y, d)
  <2> SUFFICES ASSUME NEW c \in Config, C(c) \in DOMAIN y, y[C(c)].order # None
               PROVE  /\ y[C(c)].order = s.order
                      /\ s.pc = "sell" \/ (O(s.order) \in DOMAIN y /\ O(s.order) \notin DOMAIN d)
    BY DEF Holds
  <2>1. C(c) \in DOMAIN x /\ y[C(c)] = x[C(c)]
    BY <1>2
  <2> QED BY <1>1, <1>3, <2>1 DEF Holds
<1>9. Delivers(y, d)
  BY <1>1, <1>3, <1>4 DEF Delivers
<1> QED BY <1>7, <1>8, <1>9 DEF Stocked, y, w

\* It writes order o, for which nothing is held then.
LEMMA StockClosing ==
    ASSUME NEW z, NEW o \in Order, z.order = o, NEW f, NEW x, NEW d,
           \A c \in Config : C(c) \in DOMAIN d,
           \A q \in Order \ {o} : Backed(Over(x, d), q), Delivers(x, d),
           \A c \in Config : C(c) \in DOMAIN x => x[C(c)].order \in {None, o},
           \A c \in Config : C(c) \in DOMAIN f => f[C(c)].order = None,
           \A q \in Order \ {o} : O(q) \notin DOMAIN f,
           \A q \in Order, i \in Copy :
              S(q, i) \in DOMAIN f => S(q, i) \in DOMAIN x \cup DOMAIN d \/ (q = o /\ O(o) \in DOMAIN f),
           NoneHeld(Over(Over(f, x), d), o),
           z.pc \notin Selling, z.pc # "release",
           z.pc = "reserve" => O(o) \in DOMAIN f /\ f[O(o)].mode = "manual",
           z.dirty = "settled" => z.pc \in Delivering \cup Delivered \cup Ending
    PROVE  Stocked(z, Over(f, x), d)
<1> DEFINE v == Over(x, d)
           y == Over(f, x)
           w == Over(y, d)
<1>0. v = Over(x, d) /\ y = Over(f, x) /\ w = Over(y, d)
  OBVIOUS
<1> HIDE DEF v, y, w
<1>1. /\ DOMAIN w = DOMAIN f \cup DOMAIN v
      /\ DOMAIN v = DOMAIN x \cup DOMAIN d
      /\ DOMAIN y = DOMAIN f \cup DOMAIN x
      /\ \A r \in DOMAIN f : w[r] = f[r] /\ y[r] = f[r]
      /\ \A r \in DOMAIN x : r \notin DOMAIN f => y[r] = x[r]
      /\ \A r \in DOMAIN v : r \notin DOMAIN f => w[r] = v[r]
  BY <1>0 DEF Over
<1>2. \A r \in DOMAIN y : w[r] = y[r]
  BY <1>0 DEF Over
<1>3. None \notin Order
  BY IdAssumption
<1>4. ASSUME NEW q \in Order, q # o
      PROVE  Backed(w, q)
  <2>1. \A c \in Config : w[C(c)].order = q => v[C(c)].order = q
    BY <1>1, <1>3
  <2>2. \A i \in Copy : S(q, i) \in DOMAIN w => S(q, i) \in DOMAIN v
    BY <1>1, <1>4
  <2>3. /\ O(q) \in DOMAIN w <=> O(q) \in DOMAIN v
        /\ O(q) \in DOMAIN v => w[O(q)] = v[O(q)]
    BY <1>1, <1>4
  <2>4. Backed(v, q)
    BY <1>4 DEF v
  <2> QED BY <2>1, <2>2, <2>3, <2>4, StillHeld
<1>5. NoneHeld(w, o) /\ Backed(w, o)
  BY Unheld DEF w, y
<1>6. z.pc = "reserve" => w[O(o)].mode = "manual"
  BY <1>1
<1>7. Sees(z, w)
  BY <1>4, <1>5, <1>6 DEF Sees, Selling
<1>8. Holds(z, y, d)
  <2> SUFFICES ASSUME NEW c \in Config, C(c) \in DOMAIN y, y[C(c)].order # None
               PROVE  FALSE
    BY DEF Holds
  <2>1. y[C(c)].order = o
    BY <1>1
  <2> QED BY <1>2, <1>5, <2>1 DEF NoneHeld
<1>9. Delivers(y, d)
  BY <1>1 DEF v, Delivers
<1> QED BY <1>7, <1>8, <1>9 DEF Stocked, y, w

\* It reserves config c, which is held for no order, for its order, for which none is.
LEMMA StockHolding ==
    ASSUME NEW s, NEW z, NEW o \in Order, s.order = o, z.order = o, NEW f, NEW x, NEW d, NEW c \in Config,
           Stocked(s, x, d), s.pc \notin Selling, NoneHeld(Over(x, d), o),
           \A e \in Config : C(e) \in DOMAIN d,
           C(c) \in DOMAIN f, f[C(c)].order = o,
           \A e \in Config \ {c} : C(e) \notin DOMAIN f,
           \A q \in Order \ {o} : O(q) \notin DOMAIN f,
           \A q \in Order, i \in Copy : S(q, i) \notin DOMAIN f,
           \/ z.pc = "sell" /\ z.config = c
           \/ /\ z.pc \notin Selling \cup Holdless \cup {"release"}
              /\ O(o) \in DOMAIN f /\ O(o) \notin DOMAIN d
              /\ f[O(o)].mode = "manual" /\ f[O(o)].status = "awaiting_payment"
              /\ \A i \in Copy : S(o, i) \notin DOMAIN x \cup DOMAIN d,
           z.dirty # "settled"
    PROVE  Stocked(z, Over(f, x), d)
<1> DEFINE v == Over(x, d)
           y == Over(f, x)
           w == Over(y, d)
<1>0. v = Over(x, d) /\ y = Over(f, x) /\ w = Over(y, d)
  OBVIOUS
<1> HIDE DEF v, y, w
<1>1. /\ DOMAIN w = DOMAIN f \cup DOMAIN v
      /\ DOMAIN v = DOMAIN x \cup DOMAIN d
      /\ DOMAIN y = DOMAIN f \cup DOMAIN x
      /\ \A r \in DOMAIN f : w[r] = f[r] /\ y[r] = f[r]
      /\ \A r \in DOMAIN x : r \notin DOMAIN f => y[r] = x[r]
      /\ \A r \in DOMAIN v : r \notin DOMAIN f => w[r] = v[r]
  BY <1>0 DEF Over
<1>2. Sees(s, v) /\ Holds(s, x, d) /\ Delivers(x, d) /\ NoneHeld(v, o)
  BY <1>0 DEF Stocked
<1>3. \A r \in DOMAIN x : v[r] = x[r]
  BY <1>0 DEF Over
<1>4. w[C(c)].order = o /\ \A e \in Config \ {c} : w[C(e)] = v[C(e)]
  BY <1>1
<1>5. \A e \in Config : w[C(e)].order = o => e = c
  BY <1>2, <1>4 DEF NoneHeld
<1>6. ASSUME NEW q \in Order, q # o
      PROVE  Backed(w, q)
  <2>1. \A e \in Config : w[C(e)].order = q => v[C(e)].order = q
    BY <1>4, <1>6
  <2>2. \A i \in Copy : S(q, i) \in DOMAIN w => S(q, i) \in DOMAIN v
    BY <1>1
  <2>3. /\ O(q) \in DOMAIN w <=> O(q) \in DOMAIN v
        /\ O(q) \in DOMAIN v => w[O(q)] = v[O(q)]
    BY <1>1, <1>6
  <2>4. Backed(v, q)
    BY <1>2, <1>6 DEF Sees
  <2> QED BY <2>1, <2>2, <2>3, <2>4, StillHeld
<1>7. z.pc # "sell" => Backed(w, o)
  <2> SUFFICES ASSUME z.pc # "sell" PROVE Backed(w, o)
    OBVIOUS
  <2>1. O(o) \in DOMAIN w /\ w[O(o)].mode = "manual" /\ w[O(o)].status = "awaiting_payment"
    BY <1>1
  <2>2. \A i \in Copy : S(o, i) \notin DOMAIN w
    BY <1>1
  <2> QED BY <1>5, <2>1, <2>2 DEF Backed, HeldOk
<1>8. Sees(z, w)
  BY <1>5, <1>6, <1>7 DEF Sees, Selling, Holdless
<1>9. Holds(z, y, d)
  <2> SUFFICES ASSUME NEW e \in Config, C(e) \in DOMAIN y, y[C(e)].order # None
               PROVE  /\ y[C(e)].order = o
                      /\ z.pc = "sell" \/ (O(o) \in DOMAIN y /\ O(o) \notin DOMAIN d)
    BY DEF Holds
  <2>1. y[C(e)].order = o
    <3>1. CASE e = c
      BY <1>1, <3>1
    <3>2. CASE e # c
      BY <1>1, <1>2, <3>2 DEF Holds
    <3> QED BY <3>1, <3>2
  <2> QED BY <1>1, <2>1
<1>10. Delivers(y, d)
  BY <1>1, <1>2 DEF Delivers
<1> QED BY <1>8, <1>9, <1>10 DEF Stocked, y, w
-----------------------------------------------------------------------------
\* The order of a session that has one is there.
LEMMA Located ==
    ASSUME Inv, NEW t \in Tx,
           sess[t].pc \in Holdless \cup Selling \cup {"coupon", "redeem", "release"} \cup Method \/ sess[t].dirty # "no"
    PROVE  /\ sess[t].order \in Order
           /\ O(sess[t].order) \in DOMAIN ws[t] \cup DOMAIN db
           /\ Exists(t, O(sess[t].order))
<1>1. sess[t].op \in Method \cup {"approve", "verify", "reject"} \/ At(t, "release")
  <2>1. CASE sess[t].dirty # "no"
    BY <2>1, UnflushedRows DEF Method
  <2>2. CASE sess[t].pc \in {"reserve"} \cup Method
    BY <2>2, Buys
  <2>3. CASE sess[t].pc = "release"
    BY <2>3 DEF At
  <2>4. CASE sess[t].pc \in (Holdless \cup Selling \cup {"coupon", "redeem"}) \ {"reserve"}
    <3>1. Settling(t)
      BY <2>4 DEF Settling, Delivering, Delivered, Holdless, Selling
    <3> QED BY <3>1, Settles DEF Method
  <2> QED BY <2>1, <2>2, <2>3, <2>4
<1> QED BY <1>1, OwnOrder DEF Exists

\* A slot that is free.
LEMMA StockIdle ==
    ASSUME NEW d, d = [r \in DOMAIN d |-> d[r]], \A o \in Order : Backed(d, o)
    PROVE  Stocked(Idle, NoRows, d)
<1>1. Over(NoRows, d) = d /\ DOMAIN NoRows = {}
  BY Nothing
<1>2. Sees(Idle, d)
  BY DEF Sees, Idle, Selling, Holdless, Ending
<1>3. Holds(Idle, NoRows, d) /\ Delivers(NoRows, d)
  BY <1>1 DEF Holds, Delivers
<1> QED BY <1>1, <1>2, <1>3 DEF Stocked

\* What session s, with the rows x, knows remains true when session z commits y.
LEMMA StockCommitted ==
    ASSUME NEW s, NEW z, NEW x, NEW y, NEW d, NEW e, e = Over(y, d),
           Stocked(s, x, d), Stocked(z, y, d), z.pc = "commit", DOMAIN x \cap DOMAIN y = {},
           \A c \in Config : C(c) \in DOMAIN d, \A o \in Order : Backed(e, o),
           s.pc \in Holdless \cup Selling \cup {"release"} \/ s.dirty # "no" =>
              s.order \in Order /\ O(s.order) \in DOMAIN x \cup DOMAIN d,
           s.pc = "reserve" => O(s.order) \in DOMAIN x
    PROVE  Stocked(s, x, e)
<1> DEFINE v == Over(x, d)
           w == Over(x, e)
<1>1. Sees(s, v) /\ Holds(s, x, d) /\ Delivers(x, d) /\ Holds(z, y, d) /\ Delivers(y, d)
  BY DEF Stocked
<1>2. /\ DOMAIN e = DOMAIN y \cup DOMAIN d
      /\ DOMAIN v = DOMAIN x \cup DOMAIN d
      /\ DOMAIN w = DOMAIN x \cup DOMAIN e
      /\ \A r \in DOMAIN y : e[r] = y[r]
      /\ \A r \in DOMAIN d : r \notin DOMAIN y => e[r] = d[r]
      /\ \A r \in DOMAIN x : v[r] = x[r] /\ w[r] = x[r]
      /\ \A r \in DOMAIN d : r \notin DOMAIN x => v[r] = d[r]
      /\ \A r \in DOMAIN e : r \notin DOMAIN x => w[r] = e[r]
  BY DEF Over
<1> HIDE DEF v, w
<1>3. None \notin Order
  BY IdAssumption
<1>4. ASSUME NEW o \in Order, O(o) \in DOMAIN x \cup DOMAIN d, NEW c \in Config, w[C(c)].order = o
      PROVE  v[C(c)].order = o
  <2>1. CASE C(c) \in DOMAIN x
    BY <1>2, <1>4, <2>1
  <2>2. CASE C(c) \notin DOMAIN x /\ C(c) \in DOMAIN y
    <3>1. y[C(c)].order = o
      BY <1>2, <1>4, <2>2
    <3>2. o = z.order /\ O(o) \in DOMAIN y /\ O(o) \notin DOMAIN d
      BY <1>1, <1>3, <2>2, <3>1 DEF Holds
    <3> QED BY <1>4, <3>2
  <2>3. CASE C(c) \notin DOMAIN x /\ C(c) \notin DOMAIN y
    BY <1>2, <1>4, <2>3
  <2> QED BY <2>1, <2>2, <2>3
<1>5. ASSUME NEW o \in Order, O(o) \in DOMAIN x \cup DOMAIN d, O(o) \notin DOMAIN y
      PROVE  /\ NoneHeld(v, o) => NoneHeld(w, o)
             /\ HeldOk(v, o) => HeldOk(w, o)
             /\ Backed(v, o) => Backed(w, o)
  <2>1. O(o) \in DOMAIN v /\ O(o) \in DOMAIN w /\ w[O(o)] = v[O(o)]
    BY <1>2, <1>5
  <2>2. \A i \in Copy : S(o, i) \in DOMAIN w => S(o, i) \in DOMAIN v
    BY <1>1, <1>2, <1>5 DEF Delivers
  <2>3. \A c \in Config : w[C(c)].order = o => v[C(c)].order = o
    BY <1>4, <1>5
  <2> QED BY <2>1, <2>2, <2>3, StillHeld
<1>6. ASSUME NEW o \in Order, O(o) \notin DOMAIN x, ~(o = s.order /\ s.pc = "sell")
      PROVE  Backed(w, o) /\ HeldOk(w, o)
  <2>1. \A c \in Config : w[C(c)].order = o => e[C(c)].order = o
    <3> SUFFICES ASSUME NEW c \in Config, w[C(c)].order = o
                 PROVE  e[C(c)].order = o
      OBVIOUS
    <3>1. CASE C(c) \in DOMAIN x
      BY <1>1, <1>2, <1>3, <1>6, <3>1 DEF Holds
    <3>2. CASE C(c) \notin DOMAIN x
      BY <1>2, <3>2
    <3> QED BY <3>1, <3>2
  <2>2. \A i \in Copy : S(o, i) \in DOMAIN w => S(o, i) \in DOMAIN e
    BY <1>1, <1>2, <1>6 DEF Delivers
  <2>3. /\ O(o) \in DOMAIN w <=> O(o) \in DOMAIN e
        /\ O(o) \in DOMAIN e => w[O(o)] = e[O(o)]
    BY <1>2, <1>6
  <2>4. Backed(e, o) /\ HeldOk(e, o)
    BY DEF Backed
  <2> QED BY <2>1, <2>2, <2>3, <2>4, StillHeld
<1>7. ASSUME NEW o \in Order, ~(o = s.order /\ s.pc = "sell")
      PROVE  /\ Backed(v, o) => Backed(w, o)
             /\ HeldOk(v, o) => HeldOk(w, o)
  <2>1. CASE O(o) \in DOMAIN x
    BY <1>5, <2>1
  <2>2. CASE O(o) \notin DOMAIN x
    BY <1>6, <1>7, <2>2
  <2> QED BY <2>1, <2>2
<1>8. s.order \in Order /\ O(s.order) \in DOMAIN x \cup DOMAIN d =>
         /\ NoneHeld(v, s.order) => NoneHeld(w, s.order)
         /\ (\A c \in Config : v[C(c)].order = s.order => c = s.config) =>
               (\A c \in Config : w[C(c)].order = s.order => c = s.config)
  BY <1>4 DEF NoneHeld
<1>9. Sees(s, w)
  <2>1. \A o \in Order : ~(o = s.order /\ s.pc \in Selling) => Backed(w, o)
    BY <1>1, <1>7 DEF Sees, Selling
  <2>2. s.pc \in {"find", "stock"} => HeldOk(w, s.order)
    BY <1>1, <1>7 DEF Sees, Selling
  <2>3. s.pc = "reserve" => w[O(s.order)].mode = "manual"
    BY <1>1, <1>2 DEF Sees
  <2> QED BY <1>1, <1>8, <2>1, <2>2, <2>3 DEF Sees, Selling
<1>10. Holds(s, x, e)
  BY <1>1, <1>2 DEF Holds
<1>11. Delivers(x, e)
  BY <1>1, <1>2 DEF Delivers
<1> QED BY <1>9, <1>10, <1>11 DEF Stocked, w

\* The transaction of t ends.
LEMMA EndStock ==
    ASSUME Inv, StockInv, NEW t \in Tx, Close(t),
           Rollback(t) \/ (Commit(t) /\ sess[t].pc = "commit")
    PROVE  StockInv'
<1> DEFINE e == Over(ws[t], db)
<1>1. sess'[t] = Idle /\ \A u \in Tx \ {t} : sess'[u] = sess[u]
  BY DEF Close, Inv, Types
<1>2. ws'[t] = NoRows /\ \A u \in Tx \ {t} : ws'[u] = ws[u]
  BY EndEffect DEF Inv, StoreInv
<1>3. StoreOk(db) /\ \A u \in Tx : Stocked(sess[u], ws[u], db)
  BY DEF Inv, StoreInv, StockInv
<1>4. CASE Rollback(t)
  <2>1. db' = db
    BY <1>4 DEF Rollback
  <2>2. Stocked(Idle, NoRows, db)
    BY <1>3, StockIdle DEF StoreOk, StockInv
  <2> QED BY <1>1, <1>2, <2>1, <2>2 DEF StockInv
<1>5. CASE Commit(t) /\ sess[t].pc = "commit"
  <2>1. db' = e /\ e = [r \in DOMAIN e |-> e[r]]
    BY <1>5 DEF Commit, Visible, Over
  <2>2. \A o \in Order : Backed(e, o)
    BY <1>3, <1>5 DEF Stocked, Sees, Selling
  <2> HIDE DEF e
  <2>3. Stocked(Idle, NoRows, e)
    BY <2>1, <2>2, StockIdle
  <2>4. ASSUME NEW u \in Tx, u # t
        PROVE  Stocked(sess[u], ws[u], e)
    <3>1. DOMAIN ws[u] \cap DOMAIN ws[t] = {}
      BY <2>4 DEF Inv, StoreInv, Exclusive
    <3>2. sess[u].pc \in Holdless \cup Selling \cup {"release"} \/ sess[u].dirty # "no" =>
             sess[u].order \in Order /\ O(sess[u].order) \in DOMAIN ws[u] \cup DOMAIN db
      BY Located
    <3>3. sess[u].pc = "reserve" => O(sess[u].order) \in DOMAIN ws[u]
      BY Buys
    <3>4. e = Over(ws[t], db) /\ \A c \in Config : C(c) \in DOMAIN db
      BY <1>3 DEF e, StoreOk
    <3> QED BY <1>3, <1>5, <2>2, <3>1, <3>2, <3>3, <3>4, StockCommitted
  <2>5. ASSUME NEW u \in Tx
        PROVE  Stocked(sess'[u], ws'[u], db')
    <3>1. CASE u = t
      BY <1>1, <1>2, <2>1, <2>3, <3>1
    <3>2. CASE u # t
      BY <1>1, <1>2, <2>1, <2>4, <3>2
    <3> QED BY <3>1, <3>2
  <2> QED BY <2>1, <2>2, <2>5 DEF StockInv
<1> QED BY <1>4, <1>5

\* All stock is on sale at the start.
LEMMA InitStock == Init => StockInv
<1> SUFFICES ASSUME Init PROVE StockInv
  OBVIOUS
<1>1. db = Over([r \in {C(c) : c \in Config} |-> [status |-> "available", order |-> None]],
           Over([r \in {W(u) : u \in User} |-> Funds[r[2]]],
           Over([r \in {R(u) : u \in {v \in User : Referrer[v] # None}} |-> "pending"],
                Is(K, 0))))
  BY DEF Init
<1>2. \A c \in Config : db[C(c)].order = None
  BY <1>1 DEF Over
<1>3. \A o \in Order : Backed(db, o)
  BY <1>2, IdAssumption, Unheld DEF NoneHeld
<1>4. db = [r \in DOMAIN db |-> db[r]]
  BY <1>1 DEF Over
<1>5. \A t \in Tx : sess[t] = Idle /\ ws[t] = NoRows
  BY DEF Init
<1> QED BY <1>3, <1>4, <1>5, StockIdle DEF StockInv

\* A statement of t that leaves the committed rows alone.
LEMMA StockDone ==
    ASSUME Inv, StockInv, NEW t \in Tx, NEW z, NEW y, sess' = [sess EXCEPT ![t] = z], db' = db,
           ws' = [ws EXCEPT ![t] = y], Stocked(z, y, db)
    PROVE  StockInv'
<1>1. /\ sess'[t] = z /\ \A u \in Tx \ {t} : sess'[u] = sess[u]
      /\ ws'[t] = y /\ \A u \in Tx \ {t} : ws'[u] = ws[u]
  BY DEF Inv, Types, StoreInv
<1>2. ASSUME NEW u \in Tx
      PROVE  Stocked(sess'[u], ws'[u], db')
  <2>1. CASE u = t
    BY <1>1, <2>1
  <2>2. CASE u # t
    BY <1>1, <2>2 DEF StockInv
  <2> QED BY <2>1, <2>2
<1> QED BY <1>2 DEF StockInv
-----------------------------------------------------------------------------
\* A statement of t that writes nothing.
LEMMA StockSession ==
    ASSUME Inv, StockInv, NEW t \in Tx, NEW z, sess' = [sess EXCEPT ![t] = z], UNCHANGED store,
           Stocked(z, ws[t], db)
    PROVE  StockInv'
<1>1. db' = db /\ ws' = [ws EXCEPT ![t] = ws[t]]
  BY DEF store, Inv, StoreInv, Shaped
<1> QED BY <1>1, StockDone

\* One that writes.
LEMMA StockWrite ==
    ASSUME Inv, StockInv, NEW t \in Tx, NEW z, NEW f, sess' = [sess EXCEPT ![t] = z], Write(t, f),
           Stocked(z, Over(f, ws[t]), db)
    PROVE  StockInv'
  BY StockDone DEF Write

\* One that flushes.
LEMMA StockFlush ==
    ASSUME Inv, StockInv, NEW t \in Tx, NEW z, NEW f, sess' = [sess EXCEPT ![t] = z], Flush(t, f),
           Stocked(z, Over(f, Pending(t)), db)
    PROVE  StockInv'
<1>1. Write(t, Over(f, Unflushed(t)))
  BY DEF Flush
<1>2. Over(Over(f, Unflushed(t)), ws[t]) = Over(f, Pending(t))
  BY OverAssoc DEF Pending
<1> QED BY <1>1, <1>2, StockWrite

\* What session t has and sees.
LEMMA Stock0 ==
    ASSUME Inv, StockInv, NEW t \in Tx
    PROVE  /\ sess[t] \in Session
           /\ Stocked(sess[t], ws[t], db) /\ Sees(sess[t], Over(ws[t], db))
           /\ \A c \in Config : C(c) \in DOMAIN db
           /\ \A c \in Config : Row(t, C(c)) = Over(ws[t], db)[C(c)]
           /\ \A o : Held(t, o) = {} => NoneHeld(Over(ws[t], db), o)
           /\ \A o, c : Held(t, o) = {c} => \A e \in Config : Over(ws[t], db)[C(e)].order = o => e = c
<1>1. sess[t] \in Session /\ Stocked(sess[t], ws[t], db) /\ Sees(sess[t], Over(ws[t], db))
  BY Here DEF StockInv, Stocked
<1>2. \A c \in Config : C(c) \in DOMAIN db
  BY DEF Inv, StoreInv, StoreOk
<1>3. \A c \in Config : Row(t, C(c)) = Over(ws[t], db)[C(c)]
  BY <1>2 DEF Row, Over
<1>4. \A o : Held(t, o) = {c \in Config : Over(ws[t], db)[C(c)].order = o}
  BY <1>3 DEF Held
<1> QED BY <1>1, <1>2, <1>3, <1>4 DEF NoneHeld

\* Nothing of the stock depends on what a session has read of coupons and the gateway.
LEMMA StockGoto ==
    ASSUME Inv, StockInv, NEW t \in Tx, NEW pc \in PCs, Goto(t, pc), UNCHANGED store,
           sess[t].pc \notin Selling \cup {"cancel", "release"}, pc \notin {"sell", "release", "reserve"},
           pc \in {"find", "stock"} => sess[t].order \in Order,
           pc \in Holdless \/ (pc \in Ending /\ sess[t].dirty = "settled") =>
              NoneHeld(Over(ws[t], db), sess[t].order),
           sess[t].dirty = "settled" => pc \in Delivering \cup Delivered \cup Ending
    PROVE  StockInv'
<1> DEFINE z == [sess[t] EXCEPT !.pc = pc]
<1>1. sess' = [sess EXCEPT ![t] = z]
  BY DEF Goto
<1>2. Stocked(sess[t], ws[t], db) /\ sess[t] \in Session
  BY Stock0
<1>3. z.pc = pc /\ z.order = sess[t].order /\ z.dirty = sess[t].dirty
  BY <1>2, Gone
<1> HIDE DEF z
<1>4. Stocked(z, ws[t], db)
  <2>1. sess[t].pc # "sell"
    BY DEF Selling
  <2> QED BY <1>2, <1>3, <2>1, StockQuiet
<1> QED BY <1>1, <1>4, StockSession

\* What a transaction settling an order looks up.
LEMMA FindStock ==
    ASSUME Inv, StockInv, NEW t \in Tx,
           LoadCoupon(t) \/ FindSubscription(t) \/ FindReservation(t) \/ FindReferral(t)
    PROVE  StockInv'
<1> DEFINE s == sess[t]
           o == sess[t].order
           x == ws[t]
           v == Over(x, db)
<1>1. /\ s \in Session /\ Stocked(s, x, db) /\ Sees(s, v)
      /\ UNCHANGED store
  BY Stock0 DEF LoadCoupon, FindSubscription, FindReservation, FindReferral
<1>2. CASE LoadCoupon(t)
  <2> DEFINE z == [s EXCEPT !.pc = "redeem", !.uses = Row(t, K)]
  <2>1. s.pc = "coupon" /\ sess' = [sess EXCEPT ![t] = z]
    BY <1>2 DEF LoadCoupon, At
  <2>2. z.pc = "redeem" /\ z.order = s.order /\ z.dirty = s.dirty
    BY <1>1 DEF Session
  <2> HIDE DEF z
  <2>3. Stocked(z, x, db)
    BY <1>1, <2>1, <2>2, StockQuiet DEF Selling, Holdless, Ending, Delivering
  <2> QED BY <1>1, <2>1, <2>3, StockSession
<1>3. CASE FindSubscription(t)
  <2> DEFINE n == Cardinality(Rows(Visible(t), "subscription", o))
             to == CASE n = 1 -> "reward"
                     [] n = 0 /\ Mine(t).mode = "manual" -> "stock"
                     [] n = 0 /\ Mine(t).mode = "panel"  -> "provision"
             z == [s EXCEPT !.pc = to]
  <2>1. s.pc = "find" /\ n <= 1 /\ sess' = [sess EXCEPT ![t] = z]
    BY <1>3 DEF FindSubscription, Goto, At
  <2>2. HeldOk(v, o)
    BY <1>1, <2>1 DEF Sees
  <2>3. /\ o \in Order /\ Mine(t).mode \in {"manual", "panel"}
        /\ Mine(t) = v[O(o)]
    <3>1. Settling(t)
      BY <2>1 DEF Settling, Delivering
    <3>2. s.op \in {"wallet", "approve", "verify"} /\ o \in Order /\ Mine(t) \in OrderType
      BY <3>1, Settles
    <3>3. Mine(t) = v[O(o)]
      BY <3>2, OwnOrder DEF Method
    <3> QED BY <3>2, <3>3, RowTypes DEF OrderType
  <2>4. n \in Nat
    BY RowsFinite
  <2>5. n # 0 => \E i \in Copy : S(o, i) \in DOMAIN v
    <3>1. n # 0 => Rows(Visible(t), "subscription", o) # {}
      BY FS_EmptySet
    <3> QED BY <3>1 DEF Rows, Visible, S
  <2> HIDE DEF n
  <2>6. to \in {"reward", "stock", "provision"} /\ (to \in {"reward", "provision"} => NoneHeld(v, o))
    <3>1. CASE n = 1
      <4>1. to = "reward"
        BY <3>1
      <4> QED BY <2>2, <2>5, <3>1, <4>1 DEF HeldOk
    <3>2. CASE n = 0 /\ Mine(t).mode = "manual"
      <4>1. to = "stock"
        BY <3>2
      <4> QED BY <4>1
    <3>3. CASE n = 0 /\ Mine(t).mode = "panel"
      <4>1. to = "provision"
        BY <3>3
      <4>2. NoneHeld(v, o)
        BY <2>2, <2>3, <3>3 DEF HeldOk, NoneHeld
      <4> QED BY <4>1, <4>2
    <3> QED BY <2>1, <2>3, <2>4, <3>1, <3>2, <3>3
  <2> HIDE DEF to
  <2>7. z.pc = to /\ z.order = o /\ z.dirty = s.dirty
    BY <1>1 DEF Session
  <2> HIDE DEF z
  <2>8. Stocked(z, x, db)
    BY <1>1, <2>1, <2>3, <2>6, <2>7, StockQuiet DEF Selling, Holdless, Ending, Delivering, Delivered
  <2> QED BY <1>1, <2>1, <2>8, StockSession
<1>4. CASE FindReservation(t)
  <2>1. s.pc = "stock"
    BY <1>4 DEF FindReservation, At
  <2>2. CASE Held(t, o) = {} /\ Goto(t, "restock")
    <3> DEFINE z == [s EXCEPT !.pc = "restock"]
    <3>1. sess' = [sess EXCEPT ![t] = z]
      BY <2>2 DEF Goto
    <3>2. z.pc = "restock" /\ z.order = o /\ z.dirty = s.dirty
      BY <1>1 DEF Session
    <3>3. NoneHeld(v, o)
      BY <2>2, Stock0
    <3> HIDE DEF z
    <3>4. Stocked(z, x, db)
      BY <1>1, <2>1, <3>2, <3>3, StockQuiet DEF Delivering
    <3> QED BY <1>1, <3>1, <3>4, StockSession
  <2>3. ASSUME NEW c \in Config, Held(t, o) = {c},
               sess' = [sess EXCEPT ![t].pc = "sell", ![t].config = c]
        PROVE  StockInv'
    <3> DEFINE z == [s EXCEPT !.pc = "sell", !.config = c]
    <3>1. sess' = [sess EXCEPT ![t] = z]
      BY <2>3
    <3>2. z.pc = "sell" /\ z.order = o /\ z.dirty = s.dirty /\ z.config = c
      BY <1>1 DEF Session
    <3>3. \A e \in Config : v[C(e)].order = o => e = c
      BY <2>3, Stock0
    <3> HIDE DEF z
    <3>4. Stocked(z, x, db)
      BY <1>1, <2>1, <3>2, <3>3, StockQuiet DEF Selling, Holdless, Ending, Delivering
    <3> QED BY <1>1, <3>1, <3>4, StockSession
  <2> QED BY <1>4, <2>2, <2>3 DEF FindReservation
<1>5. CASE FindReferral(t)
  <2> DEFINE pc == IF Qualifies(t, Mine(t).user) THEN "credit" ELSE "commit"
  <2>1. s.pc = "reward" /\ Goto(t, pc) /\ pc \in {"credit", "commit"}
    BY <1>5 DEF FindReferral, At
  <2> HIDE DEF pc
  <2>2. NoneHeld(v, o)
    BY <1>1, <2>1 DEF Sees, Holdless
  <2> QED BY <1>1, <2>1, <2>2, StockGoto DEF PCs, Selling, Delivered, Ending
<1> QED BY <1>2, <1>3, <1>4, <1>5

\* A session that creates no order and does not sell holds nothing.
LEMMA HoldsNothing ==
    ASSUME Inv, StockInv, NEW t \in Tx, sess[t].op \notin Method, sess[t].pc # "sell"
    PROVE  \A c \in Config : C(c) \in DOMAIN ws[t] => ws[t][C(c)].order = None
<1> SUFFICES ASSUME NEW c \in Config, C(c) \in DOMAIN ws[t], ws[t][C(c)].order # None
             PROVE  FALSE
  OBVIOUS
<1>1. O(sess[t].order) \in DOMAIN ws[t] /\ O(sess[t].order) \notin DOMAIN db /\ ws[t][C(c)].order = sess[t].order
  BY Stock0 DEF Stocked, Holds
<1>2. ws[t][C(c)].order \in Order \cup {None}
  <2>1. Typed(ws[t]) /\ C(c)[1] = "config"
    BY Seen, Keys DEF TxOk
  <2>2. ws[t][C(c)] \in RowType["config"]
    BY <2>1 DEF Typed
  <2> QED BY <2>2, RowTypes
<1> QED BY <1>1, <1>2, Here DEF Aware

\* A slot takes up a review, a verification or the job.
LEMMA TakeStock ==
    ASSUME Inv, StockInv, NEW t \in Tx,
           \/ \E op \in {"approve", "reject"}, o \in Order, via \in {"bot", "api"} :
                 ReviewPayment(t, op, o, via)
           \/ \E o \in Order : VerifyPayment(t, o)
           \/ FindExpired(t)
    PROVE  StockInv'
<1>1. At(t, "idle") /\ UNCHANGED store
  BY DEF ReviewPayment, VerifyPayment, FindExpired, Begin
<1>2. sess[t] = Idle /\ ws[t] = NoRows /\ DOMAIN NoRows = {}
  BY <1>1, AtRest, Nothing
<1>3. ASSUME NEW z, sess' = [sess EXCEPT ![t] = z], z.pc \in {"order", "ask", "free"}, z.dirty # "settled"
      PROVE  StockInv'
  <2>1. Idle.pc = "idle"
    BY DEF Idle
  <2>2. Stocked(z, ws[t], db)
    BY <1>2, <1>3, <2>1, Stock0, StockTurn DEF Selling, Holdless
  <2> QED BY <1>1, <1>3, <2>2, StockSession
<1>4. ASSUME NEW op \in {"approve", "reject"}, NEW o \in Order, NEW via \in {"bot", "api"},
             ReviewPayment(t, op, o, via)
      PROVE  StockInv'
  <2> DEFINE z == [Idle EXCEPT !.op = op, !.pc = "order", !.via = via, !.order = o,
                               !.dirty = IF op = "approve" THEN "approved" ELSE "rejected"]
  <2>1. sess' = [sess EXCEPT ![t] = z]
    BY <1>4 DEF ReviewPayment
  <2>2. z.pc = "order" /\ z.dirty # "settled"
    BY DEF Idle
  <2> HIDE DEF z
  <2> QED BY <1>3, <2>1, <2>2
<1>5. ASSUME NEW o \in Order, VerifyPayment(t, o)
      PROVE  StockInv'
  <2> DEFINE z == [Idle EXCEPT !.op = "verify", !.pc = "ask", !.via = "api", !.order = o,
                               !.again = (Row(t, P(o)).status = "failed")]
  <2>1. sess' = [sess EXCEPT ![t] = z]
    BY <1>5 DEF VerifyPayment
  <2>2. z.pc = "ask" /\ z.dirty # "settled"
    BY DEF Idle
  <2> HIDE DEF z
  <2> QED BY <1>3, <2>1, <2>2
<1>6. CASE FindExpired(t)
  <2> DEFINE todo == {c \in Config : /\ Row(t, C(c)).status = "reserved"
                                     /\ age[Row(t, C(c)).order] >= 1}
             z == [Idle EXCEPT !.op = "expire", !.pc = "free", !.via = "api", !.todo = todo]
  <2>1. sess' = [sess EXCEPT ![t] = z]
    BY <1>6 DEF FindExpired
  <2> HIDE DEF todo
  <2>2. z.pc = "free" /\ z.dirty # "settled"
    BY DEF Idle
  <2> HIDE DEF z
  <2> QED BY <1>3, <2>1, <2>2
<1> QED BY <1>4, <1>5, <1>6

\* The gateway answers; the order under review is loaded.
LEMMA LoadStock ==
    ASSUME Inv, StockInv, NEW t \in Tx, AskGateway(t) \/ LoadOrder(t)
    PROVE  StockInv'
<1> DEFINE s == sess[t]
           o == sess[t].order
           x == ws[t]
<1>1. /\ s \in Session /\ Stocked(s, x, db) /\ Sees(s, Over(x, db))
      /\ UNCHANGED store /\ s.pc \in {"ask", "order"} /\ s.dirty # "settled"
  <2>1. /\ s \in Session /\ Stocked(s, x, db) /\ Sees(s, Over(x, db))
        /\ UNCHANGED store /\ s.pc \in {"ask", "order"}
    BY Stock0 DEF AskGateway, LoadOrder, At
  <2> QED BY <2>1 DEF Sees, Delivering, Delivered, Ending
<1>2. o \in Order
  <2>1. s.op \in {"approve", "verify", "reject"}
    BY <1>1, Here DEF Aware, Runs, Method, Delivering, Delivered, Ending
  <2> QED BY <2>1, OwnOrder DEF Method
<1>3. ASSUME NEW z, sess' = [sess EXCEPT ![t] = z], z.order = o,
             \/ z.pc \in {"order", "declined", "commit", "refused", "cancel"} /\ z.dirty # "settled"
             \/ z.pc \in {"coupon", "find"}
      PROVE  StockInv'
  <2>1. Stocked(z, x, db)
    BY <1>1, <1>2, <1>3, StockQuiet DEF Selling, Holdless, Ending, Delivering
  <2> QED BY <1>1, <1>3, <2>1, StockSession
<1>4. ASSUME NEW pc, pc \in {"declined", "commit", "refused"}, Goto(t, pc)
      PROVE  StockInv'
  <2> DEFINE z == [s EXCEPT !.pc = pc]
  <2>1. sess' = [sess EXCEPT ![t] = z]
    BY <1>4 DEF Goto
  <2>2. z.pc = pc /\ z.order = o /\ z.dirty = s.dirty
    BY <1>1 DEF Session
  <2> HIDE DEF z
  <2> QED BY <1>1, <1>3, <1>4, <2>1, <2>2
<1>5. CASE AskGateway(t)
  <2>1. CASE sess' = [sess EXCEPT ![t].pc = "order", ![t].dirty = "approved"]
    <3> DEFINE z == [s EXCEPT !.pc = "order", !.dirty = "approved"]
    <3>1. sess' = [sess EXCEPT ![t] = z]
      BY <2>1
    <3>2. z.pc = "order" /\ z.order = o /\ z.dirty = "approved"
      BY <1>1 DEF Session
    <3> HIDE DEF z
    <3> QED BY <1>3, <3>1, <3>2
  <2>2. CASE Goto(t, "declined")
    BY <1>4, <2>2
  <2> QED BY <1>5, <2>1, <2>2 DEF AskGateway
<1>6. CASE LoadOrder(t)
  <2> DEFINE onPaid == IF Mine(t).coupon THEN "coupon" ELSE "find"
             dirty == IF Mine(t).status = "paid" THEN s.dirty ELSE "settled"
  <2>1. onPaid \in {"coupon", "find"}
    OBVIOUS
  <2>2. CASE sess' = [sess EXCEPT ![t].pc = onPaid,
                                  ![t].dirty = IF Mine(t).status = "paid" THEN @ ELSE "settled"]
    <3> DEFINE z == [s EXCEPT !.pc = onPaid, !.dirty = dirty]
    <3>1. sess' = [sess EXCEPT ![t] = z]
      BY <2>2
    <3> HIDE DEF onPaid, dirty
    <3>2. z.pc = onPaid /\ z.order = o
      BY <1>1 DEF Session
    <3> HIDE DEF z
    <3> QED BY <1>3, <2>1, <3>1, <3>2
  <2>3. CASE sess' = [sess EXCEPT ![t].pc = "cancel", ![t].todo = {s.order}]
    <3> DEFINE z == [s EXCEPT !.pc = "cancel", !.todo = {s.order}]
    <3>1. sess' = [sess EXCEPT ![t] = z]
      BY <2>3
    <3>2. z.pc = "cancel" /\ z.order = o /\ z.dirty = s.dirty
      BY <1>1 DEF Session
    <3> HIDE DEF z
    <3> QED BY <1>1, <1>3, <3>1, <3>2
  <2>4. CASE Goto(t, "commit") \/ Goto(t, "refused")
    BY <1>4, <2>4
  <2> QED BY <1>6, <2>2, <2>3, <2>4 DEF LoadOrder
<1> QED BY <1>5, <1>6

\* The job finds the stale orders; it, or a review, turns to one of them.
LEMMA CancelStock ==
    ASSUME Inv, StockInv, NEW t \in Tx, FindStale(t) \/ CancelOrder(t)
    PROVE  StockInv'
<1> DEFINE s == sess[t]
           x == ws[t]
<1>1. /\ s \in Session /\ Stocked(s, x, db) /\ Sees(s, Over(x, db))
      /\ UNCHANGED store /\ s.pc \in {"stale", "cancel"}
  BY Stock0 DEF FindStale, CancelOrder, At
<1>2. s.dirty # "settled" /\ \A c \in Config : C(c) \in DOMAIN x => x[C(c)].order = None
  <2>1. s.op \notin Method
    BY <1>1, Cancelling DEF Method
  <2> QED BY <1>1, <2>1, HoldsNothing DEF Sees, Delivering, Delivered, Ending
<1>3. ASSUME NEW z, sess' = [sess EXCEPT ![t] = z], z.dirty = s.dirty,
             \/ z.pc \in {"commit", "cancel"}
             \/ /\ z.pc = "release"
                /\ \A c \in Config : Over(x, db)[C(c)].order = z.order => c = z.config
      PROVE  StockInv'
  <2>1. Stocked(z, x, db)
    BY <1>1, <1>2, <1>3, StockTurn DEF Selling, Holdless
  <2> QED BY <1>1, <1>3, <2>1, StockSession
<1>4. CASE FindStale(t)
  <2> DEFINE pc == IF Stale(t) = {} THEN "commit" ELSE "cancel"
             z == [s EXCEPT !.pc = pc, !.todo = Stale(t)]
  <2>1. sess' = [sess EXCEPT ![t] = z] /\ pc \in {"commit", "cancel"}
    BY <1>4 DEF FindStale
  <2> HIDE DEF pc
  <2>2. z.pc = pc /\ z.dirty = s.dirty
    BY <1>1 DEF Session
  <2> HIDE DEF z
  <2> QED BY <1>3, <2>1, <2>2
<1>5. CASE CancelOrder(t)
  <2>1. PICK o \in s.todo, c \in Config \cup {None} :
           /\ Held(t, o) = IF c = None THEN {} ELSE {c}
           /\ sess' = [sess EXCEPT ![t].pc = "release", ![t].order = o, ![t].config = c,
                                   ![t].todo = @ \ {o}]
    BY <1>5 DEF CancelOrder
  <2> DEFINE z == [s EXCEPT !.pc = "release", !.order = o, !.config = c, !.todo = @ \ {o}]
  <2>2. sess' = [sess EXCEPT ![t] = z]
    BY <2>1
  <2>3. z.pc = "release" /\ z.order = o /\ z.config = c /\ z.dirty = s.dirty
    BY <1>1 DEF Session
  <2> HIDE DEF z
  <2>4. \A e \in Config : Over(x, db)[C(e)].order = o => e = c
    <3>1. CASE c = None
      BY <2>1, <3>1, Stock0 DEF NoneHeld
    <3>2. CASE c # None
      BY <2>1, <3>2, Stock0
    <3> QED BY <3>1, <3>2
  <2> QED BY <1>3, <2>2, <2>3, <2>4
<1> QED BY <1>4, <1>5

\* The card is shown; a refused handler ends.
LEMMA EndingStock ==
    ASSUME Inv, StockInv, NEW t \in Tx, ShowCard(t) \/ DomainError(t)
    PROVE  StockInv'
<1> DEFINE s == sess[t]
<1>1. s \in Session /\ Sees(s, Over(ws[t], db)) /\ Stocked(s, ws[t], db)
  BY Stock0
<1>2. CASE ShowCard(t)
  <2>1. s.pc = "card" /\ Goto(t, "commit") /\ UNCHANGED store
    BY <1>2 DEF ShowCard, At, store
  <2>2. s.dirty # "settled"
    BY <1>1, <2>1 DEF Sees, Delivering, Delivered, Ending
  <2> QED BY <2>1, <2>2, StockGoto DEF PCs, Selling, Holdless
<1>3. CASE At(t, "refused") /\ Goto(t, "commit") /\ UNCHANGED store
  <2>1. s.dirty = "settled" => NoneHeld(Over(ws[t], db), s.order)
    BY <1>1, <1>3 DEF Sees, At, Ending
  <2> QED BY <1>3, <2>1, StockGoto DEF PCs, Selling, Holdless, Ending, At
<1>4. CASE Rollback(t) /\ Close(t)
  BY <1>4, EndStock
<1> QED BY <1>2, <1>3, <1>4 DEF DomainError
-----------------------------------------------------------------------------
\* An order marked as paid, and its payment: nothing more is held.
LEMMA StockPaid ==
    ASSUME NEW s, NEW f, NEW x, NEW d, Stocked(s, x, d), \A c \in Config : C(c) \in DOMAIN d,
           DOMAIN f \subseteq {O(s.order), P(s.order)},
           O(s.order) \in DOMAIN f =>
              /\ s.order \in Order /\ O(s.order) \in DOMAIN x \cup DOMAIN d
              /\ f[O(s.order)].mode = Over(x, d)[O(s.order)].mode
              /\ s.pc \in Selling \/ NoneHeld(Over(x, d), s.order),
           s.pc = "reserve" => O(s.order) \in DOMAIN x
    PROVE  Stocked(s, Over(f, x), d)
<1> DEFINE v == Over(x, d)
           y == Over(f, x)
           w == Over(y, d)
<1>1. v = Over(x, d) /\ y = Over(f, x) /\ w = Over(y, d)
  OBVIOUS
<1> HIDE DEF v, y, w
<1>2. Sees(s, v) /\ Holds(s, x, d) /\ Delivers(x, d)
  BY <1>1 DEF Stocked
<1>3. /\ DOMAIN w = DOMAIN f \cup DOMAIN v
      /\ DOMAIN v = DOMAIN x \cup DOMAIN d
      /\ DOMAIN y = DOMAIN f \cup DOMAIN x
      /\ \A r \in DOMAIN f : w[r] = f[r] /\ y[r] = f[r]
      /\ \A r \in DOMAIN x : r \notin DOMAIN f => y[r] = x[r]
      /\ \A r \in DOMAIN v : r \notin DOMAIN f => w[r] = v[r]
  BY <1>1 DEF Over
<1>4. \A c \in Config : w[C(c)] = v[C(c)] /\ (C(c) \in DOMAIN y => C(c) \in DOMAIN x /\ y[C(c)] = x[C(c)])
  BY <1>3, Keys
<1>5. \A o, i : /\ S(o, i) \in DOMAIN w => S(o, i) \in DOMAIN v
                /\ S(o, i) \in DOMAIN y => S(o, i) \in DOMAIN x
  BY <1>3, Keys
<1>6. \A o : O(o) \in DOMAIN f => o = s.order
  BY Keys
<1>7. ASSUME NEW o, O(o) \notin DOMAIN f
      PROVE  /\ NoneHeld(v, o) => NoneHeld(w, o)
             /\ HeldOk(v, o) => HeldOk(w, o)
             /\ Backed(v, o) => Backed(w, o)
  <2>1. /\ O(o) \in DOMAIN w <=> O(o) \in DOMAIN v
        /\ O(o) \in DOMAIN v => w[O(o)] = v[O(o)]
    BY <1>3, <1>7
  <2> QED BY <1>4, <1>5, <2>1, StillHeld
<1>8. ASSUME O(s.order) \in DOMAIN f
      PROVE  /\ NoneHeld(v, s.order) => NoneHeld(w, s.order) /\ Backed(w, s.order)
             /\ HeldOk(v, s.order) => HeldOk(w, s.order)
  <2>1. O(s.order) \in DOMAIN w /\ w[O(s.order)].mode = v[O(s.order)].mode
    BY <1>1, <1>3, <1>8
  <2> QED BY <1>4, <1>5, <2>1, StillHeld, Unheld
<1>9. Sees(s, w)
  <2>1. \A o \in Order : ~(o = s.order /\ s.pc \in Selling) => Backed(w, o)
    <3> SUFFICES ASSUME NEW o \in Order, ~(o = s.order /\ s.pc \in Selling)
                 PROVE  Backed(w, o)
      OBVIOUS
    <3>1. CASE O(o) \in DOMAIN f
      BY <1>1, <1>6, <1>8, <3>1
    <3>2. CASE O(o) \notin DOMAIN f
      BY <1>2, <1>7, <3>2 DEF Sees
    <3> QED BY <3>1, <3>2
  <2>2. /\ NoneHeld(v, s.order) => NoneHeld(w, s.order)
        /\ HeldOk(v, s.order) => HeldOk(w, s.order)
    BY <1>7, <1>8
  <2>3. s.pc = "reserve" => w[O(s.order)].mode = "manual"
    <3> SUFFICES ASSUME s.pc = "reserve" PROVE w[O(s.order)].mode = "manual"
      OBVIOUS
    <3>1. v[O(s.order)].mode = "manual" /\ O(s.order) \in DOMAIN v
      BY <1>2, <1>3 DEF Sees
    <3> QED BY <1>1, <1>3, <3>1
  <2> QED BY <1>2, <1>4, <2>1, <2>2, <2>3 DEF Sees
<1>10. Holds(s, y, d)
  BY <1>2, <1>3, <1>4 DEF Holds
<1>11. Delivers(y, d)
  BY <1>2, <1>3, <1>5 DEF Delivers
<1> QED BY <1>1, <1>9, <1>10, <1>11 DEF Stocked

\* What session t still has to flush.
LEMMA StockPending ==
    ASSUME Inv, StockInv, NEW t \in Tx, NEW z, Stocked(z, ws[t], db), z.order = sess[t].order,
           sess[t].dirty = "settled" =>
              z.pc \in Selling \/ NoneHeld(Over(ws[t], db), sess[t].order),
           z.pc = "reserve" => O(z.order) \in DOMAIN ws[t]
    PROVE  Stocked(z, Pending(t), db)
<1> DEFINE o == sess[t].order
           f == Unflushed(t)
<1>1. \A c \in Config : C(c) \in DOMAIN db
  BY Stock0
<1>2. CASE sess[t].dirty = "no"
  <2>1. f = NoRows /\ DOMAIN NoRows = {}
    BY <1>2, Nothing DEF Unflushed
  <2> HIDE DEF f
  <2>2. Stocked(z, Over(f, ws[t]), db)
    BY <1>1, <2>1, StockPaid
  <2> QED BY <2>2 DEF Pending, f
<1>3. CASE sess[t].dirty # "no"
  <2>1. /\ DOMAIN f = IF sess[t].dirty = "settled" THEN {O(o), P(o)} ELSE {P(o)}
        /\ sess[t].dirty = "settled" => f[O(o)] = [Mine(t) EXCEPT !.status = "paid"]
        /\ sess[t].op \in {"wallet", "approve", "reject", "verify"}
    BY <1>3, UnflushedRows
  <2>2. o \in Order /\ O(o) \in DOMAIN ws[t] \cup DOMAIN db
    BY <1>3, Located
  <2>3. Mine(t) \in OrderType /\ Mine(t) = Over(ws[t], db)[O(o)]
    BY <2>1, OwnOrder DEF Method
  <2>4. [Mine(t) EXCEPT !.status = "paid"].mode = Mine(t).mode
    BY <2>3, RowTypes DEF OrderType
  <2>5. O(o) # P(o)
    BY Keys
  <2> HIDE DEF f
  <2>6. Stocked(z, Over(f, ws[t]), db)
    BY <1>1, <2>1, <2>2, <2>3, <2>4, <2>5, StockPaid
  <2> QED BY <2>6 DEF Pending, f
<1> QED BY <1>2, <1>3

\* Rows of other tables than the orders and the subscriptions; configs are freed.
Plain(f) ==
    /\ \A r \in DOMAIN f : r[1] \notin {"order", "subscription"}
    /\ \A c \in Config : C(c) \in DOMAIN f => f[C(c)].order = None

\* The statements that write such rows.
LEMMA PlainStock ==
    ASSUME Inv, StockInv, NEW t \in Tx,
           RequestGateway(t) \/ Declined(t) \/ FreeExpired(t) \/ PayWithWallet(t)
    PROVE  StockInv'
<1> DEFINE s == sess[t]
           o == sess[t].order
           x == ws[t]
<1>1. /\ s \in Session /\ Stocked(s, x, db) /\ Sees(s, Over(x, db))
      /\ \A c \in Config : C(c) \in DOMAIN db
  BY Stock0
<1>2. /\ s.pc \in {"gateway", "declined", "free", "wallet"}
      /\ s.dirty # "settled"
      /\ s.pc = "free" \/ o \in Order
      /\ s.pc \in {"gateway", "free", "wallet"} => s.dirty = "no"
  <2>1. s.pc \in {"gateway", "declined", "free", "wallet"}
    BY DEF RequestGateway, Declined, FreeExpired, PayWithWallet, At
  <2>2. s.pc \in {"gateway", "wallet"} => s.dirty = "no" /\ o \in Order
    BY Buys DEF Method
  <2>3. s.pc = "free" => s.dirty = "no"
    BY Cancelling
  <2>4. s.pc = "declined" => o \in Order
    <3> SUFFICES ASSUME s.pc = "declined" PROVE o \in Order
      OBVIOUS
    <3>1. s.op = "verify"
      BY Here DEF Aware, Runs, Method, Delivering, Delivered, Ending
    <3> QED BY <3>1, OpenPayment
  <2>5. s.dirty # "settled"
    BY <1>1, <2>1 DEF Sees, Delivering, Delivered, Ending
  <2> QED BY <2>1, <2>2, <2>3, <2>4, <2>5
<1>3. ASSUME NEW f, Plain(f), Write(t, f), NEW z, sess' = [sess EXCEPT ![t] = z], z.order = o,
             \/ z.pc \in {"commit", "refused", "stale"} /\ z.dirty = s.dirty
             \/ z.pc \in {"redeem", "find"} /\ o \in Order
      PROVE  StockInv'
  <2>1. Stocked(s, Over(f, x), db)
    BY <1>1, <1>2, <1>3, StockPlain DEF Plain
  <2>2. Stocked(z, Over(f, x), db)
    BY <1>2, <1>3, <2>1, StockQuiet DEF Selling, Holdless, Ending, Delivering
  <2> QED BY <1>3, <2>2, StockWrite
<1>4. \A pc : LET z == [s EXCEPT !.pc = pc]
              IN z.pc = pc /\ z.order = o /\ z.dirty = s.dirty
  BY <1>1 DEF Session
<1>5. ASSUME NEW r, NEW row, r[1] \in {"payment", "wallet"}
      PROVE  Plain(Is(r, row))
  <2>1. DOMAIN Is(r, row) = {r}
    BY DEF Is
  <2> QED BY <1>5, <2>1, Keys DEF Plain
<1>6. CASE RequestGateway(t)
  <2>1. PICK ok \in BOOLEAN :
           /\ Write(t, Is(P(o), [method |-> "gateway", status |-> "pending", authority |-> ok]))
           /\ Goto(t, IF ok THEN "commit" ELSE "refused")
    BY <1>6 DEF RequestGateway
  <2> DEFINE f == Is(P(o), [method |-> "gateway", status |-> "pending", authority |-> ok])
             pc == IF ok THEN "commit" ELSE "refused"
  <2>2. Plain(f)
    BY <1>5, Keys
  <2>3. sess' = [sess EXCEPT ![t] = [s EXCEPT !.pc = pc]] /\ pc \in {"commit", "refused"}
    BY <2>1 DEF Goto
  <2> HIDE DEF pc
  <2> QED BY <1>3, <1>4, <2>1, <2>2, <2>3
<1>7. CASE Declined(t)
  <2>1. s.pc = "declined" /\ Goto(t, "commit")
    BY <1>7 DEF Declined, At
  <2>2. CASE UNCHANGED store
    BY <1>2, <2>1, <2>2, StockGoto DEF PCs, Selling, Holdless
  <2>3. CASE Write(t, Is(P(o), [Row(t, P(o)) EXCEPT !.status = "failed"]))
    <3> DEFINE f == Is(P(o), [Row(t, P(o)) EXCEPT !.status = "failed"])
    <3>1. Plain(f)
      BY <1>5, Keys
    <3>2. sess' = [sess EXCEPT ![t] = [s EXCEPT !.pc = "commit"]]
      BY <2>1 DEF Goto
    <3> HIDE DEF f
    <3> QED BY <1>3, <1>4, <2>3, <3>1, <3>2 DEF f
  <2> QED BY <1>7, <2>2, <2>3 DEF Declined
<1>8. CASE FreeExpired(t)
  <2> DEFINE row == [status |-> "available", order |-> None]
             f == [r \in {C(c) : c \in s.todo} |-> row]
  <2>1. Write(t, f) /\ sess' = [sess EXCEPT ![t] = [s EXCEPT !.pc = "stale"]]
    BY <1>8 DEF FreeExpired, Goto
  <2>2. Plain(f)
    BY Keys DEF Plain
  <2> HIDE DEF f
  <2> QED BY <1>3, <1>4, <2>1, <2>2
<1>9. CASE PayWithWallet(t)
  <2> DEFINE due == FinalPrice(Mine(t))
             w == W(Mine(t).user)
  <2>1. s.pc = "wallet" /\ o \in Order
    BY <1>2, <1>9 DEF PayWithWallet, At
  <2>2. CASE Goto(t, "refused") /\ UNCHANGED store
    BY <1>2, <2>1, <2>2, StockGoto DEF PCs, Selling, Holdless
  <2>3. CASE LockRow(t, w) /\ Goto(t, "refused")
    <3>1. Write(t, Is(w, Row(t, w))) /\ sess' = [sess EXCEPT ![t] = [s EXCEPT !.pc = "refused"]]
      BY <2>3 DEF LockRow, Goto
    <3>2. Plain(Is(w, Row(t, w)))
      BY <1>5, Keys
    <3> HIDE DEF w
    <3> QED BY <1>3, <1>4, <3>1, <3>2
  <2>4. ASSUME Debit(t, w, due), NEW pc \in {"redeem", "find"},
               sess' = [sess EXCEPT ![t].dirty = "settled", ![t].pc = pc]
        PROVE  StockInv'
    <3> DEFINE z == [s EXCEPT !.dirty = "settled", !.pc = pc]
               f == Is(w, Row(t, w) - due)
    <3>1. sess' = [sess EXCEPT ![t] = z] /\ z.pc = pc /\ z.order = o
      BY <1>1, <2>4 DEF Session
    <3>2. Plain(f)
      BY <1>5, Keys
    <3>3. Write(t, f)
      BY <2>4 DEF Debit
    <3> HIDE DEF z, f
    <3> QED BY <1>3, <2>1, <3>1, <3>2, <3>3
  <2>5. \/ Goto(t, "refused") /\ UNCHANGED store
        \/ LockRow(t, w) /\ Goto(t, "refused")
        \/ \E pc \in {"redeem", "find"} :
              Debit(t, w, due) /\ sess' = [sess EXCEPT ![t].dirty = "settled", ![t].pc = pc]
    BY <1>9 DEF PayWithWallet
  <2> HIDE DEF w, due
  <2> QED BY <2>2, <2>3, <2>4, <2>5
<1> QED BY <1>6, <1>7, <1>8, <1>9

\* The receipt of a transfer is received.
LEMMA ReceiptStock ==
    ASSUME Inv, StockInv, NEW t \in Tx, NEW u \in Customer, ReceiveReceipt(t, u)
    PROVE  StockInv'
<1> DEFINE o == fsm[u]
           f == Is(P(o), [method |-> "card", status |-> "pending", authority |-> FALSE])
           z == [Idle EXCEPT !.op = "receipt", !.pc = "commit", !.order = o]
<1>1. At(t, "idle") /\ Write(t, f) /\ sess' = [sess EXCEPT ![t] = z]
  BY DEF ReceiveReceipt, Begin
<1>2. sess[t] = Idle /\ ws[t] = NoRows /\ DOMAIN NoRows = {}
  BY <1>1, AtRest, Nothing
<1>3. Idle.pc = "idle" /\ Idle.dirty = "no" /\ z.pc = "commit" /\ z.dirty = "no"
  BY DEF Idle
<1>4. DOMAIN f = {P(o)}
  BY DEF Is
<1> HIDE DEF f, z
<1>5. \A c \in Config : C(c) \notin DOMAIN Over(f, ws[t]) /\ C(c) \notin DOMAIN f
  BY <1>2, <1>4, Keys DEF Over
<1>6. Stocked(Idle, Over(f, ws[t]), db)
  <2>1. \A r \in DOMAIN f : r[1] \notin {"order", "subscription"}
    BY <1>4, Keys
  <2> QED BY <1>2, <1>3, <1>5, <2>1, Stock0, StockPlain
<1>7. Stocked(z, Over(f, ws[t]), db)
  BY <1>3, <1>5, <1>6, StockTurn DEF Selling, Holdless
<1> QED BY <1>1, <1>7, StockWrite

\* The coupon is redeemed, the referrer rewarded, the session flushed.
LEMMA FlushStock ==
    ASSUME Inv, StockInv, NEW t \in Tx, RedeemCoupon(t) \/ RewardReferrer(t) \/ FlushAtCommit(t)
    PROVE  StockInv'
<1> DEFINE s == sess[t]
           o == sess[t].order
           x == ws[t]
<1>1. /\ s \in Session /\ Stocked(s, x, db) /\ Sees(s, Over(x, db))
      /\ \A c \in Config : C(c) \in DOMAIN db
  BY Stock0
<1>2. o \in Order
  <2>1. s.pc \in {"redeem", "credit"} \/ s.dirty # "no"
    BY DEF RedeemCoupon, RewardReferrer, FlushAtCommit, At
  <2> QED BY <2>1, Located DEF Holdless
<1>3. ASSUME NEW f, Plain(f), Flush(t, f), NEW a, Stocked(a, x, db), a.order = o,
             s.dirty = "settled" => a.pc \in Selling \/ NoneHeld(Over(x, db), o),
             a.pc \notin {"reserve", "sell"},
             NEW z, sess' = [sess EXCEPT ![t] = z], z.order = o, z.dirty = "no",
             a.pc = z.pc \/ (a.pc = "credit" /\ z.pc = "commit"), z.pc \in {"find", "commit"}
      PROVE  StockInv'
  <2>1. Stocked(a, Pending(t), db)
    BY <1>3, StockPending
  <2>2. Stocked(a, Over(f, Pending(t)), db)
    BY <1>1, <1>2, <1>3, <2>1, StockPlain DEF Plain
  <2>3. Stocked(z, Over(f, Pending(t)), db)
    BY <1>2, <1>3, <2>2, StockQuiet DEF Selling, Holdless, Ending
  <2> QED BY <1>3, <2>3, StockFlush
<1>4. \A pc : LET z == [s EXCEPT !.pc = pc, !.dirty = "no"]
              IN z.pc = pc /\ z.order = o /\ z.dirty = "no"
  BY <1>1 DEF Session
<1>5. CASE RedeemCoupon(t)
  <2> DEFINE k == NewKey("redemption", o)
             f == Over(Is(K, s.uses + 1), Is(k, Mine(t).user))
             a == [s EXCEPT !.pc = "find"]
             z == [s EXCEPT !.pc = "find", !.dirty = "no"]
  <2>1. /\ s.pc = "redeem" /\ Flush(t, f) /\ sess' = [sess EXCEPT ![t] = z]
        /\ Room("redemption", o)
    BY <1>5 DEF RedeemCoupon, Flushed, At
  <2>2. k[1] = "redemption"
    BY <2>1, NewKeys
  <2>3. DOMAIN f = {K, k}
    BY DEF Over, Is
  <2>4. z.pc = "find" /\ z.order = o /\ z.dirty = "no"
    BY <1>4
  <2>5. a.pc = "find" /\ a.order = o /\ a.dirty = s.dirty
    BY <1>1 DEF Session
  <2> HIDE DEF f, k, a, z
  <2>6. Plain(f)
    BY <2>2, <2>3, Keys DEF Plain
  <2>7. Stocked(a, x, db)
    BY <1>1, <1>2, <2>1, <2>5, StockQuiet DEF Selling, Holdless, Ending, Delivering
  <2> QED BY <1>3, <2>1, <2>4, <2>5, <2>6, <2>7 DEF Selling
<1>6. CASE RewardReferrer(t)
  <2> DEFINE u == Mine(t).user
             w == W(Referrer[u])
             k == NewKey("reward", u)
             f == Rewarded(t, u)
             z == [s EXCEPT !.pc = "commit", !.dirty = "no"]
  <2>1. s.pc = "credit" /\ Flush(t, f) /\ sess' = [sess EXCEPT ![t] = z]
    BY <1>6 DEF RewardReferrer, Flushed, At
  <2>2. (\E i \in Copy : k = Rew(u, i)) /\ DOMAIN f = IF Reward = 0 THEN {R(u)} ELSE {R(u), w, k}
    BY <1>6, RewardRows
  <2>3. z.pc = "commit" /\ z.order = o /\ z.dirty = "no"
    BY <1>4
  <2> HIDE DEF f, k, z
  <2>4. Plain(f)
    <3>1. \A r \in DOMAIN f : r[1] \in {"referral", "wallet", "reward"}
      BY <2>2, Keys
    <3> QED BY <3>1, Keys DEF Plain
  <2>5. NoneHeld(Over(x, db), o)
    BY <1>1, <2>1 DEF Sees, Holdless
  <2> QED BY <1>1, <1>3, <2>1, <2>3, <2>4, <2>5
<1>7. CASE FlushAtCommit(t)
  <2> DEFINE z == [s EXCEPT !.pc = "commit", !.dirty = "no"]
  <2>1. s.pc = "commit" /\ Flush(t, NoRows) /\ sess' = [sess EXCEPT ![t] = z]
    BY <1>7 DEF FlushAtCommit, Flushed, At
  <2>2. z.pc = "commit" /\ z.order = o /\ z.dirty = "no"
    BY <1>4
  <2> HIDE DEF z
  <2>3. Plain(NoRows)
    BY Nothing DEF Plain
  <2>4. s.dirty = "settled" => NoneHeld(Over(x, db), o)
    BY <1>1, <2>1 DEF Sees, Ending
  <2> QED BY <1>1, <1>3, <2>1, <2>2, <2>3, <2>4
<1> QED BY <1>5, <1>6, <1>7

\* An order is created.
LEMMA CreateStock ==
    ASSUME Inv, StockInv, NEW t \in Tx, NEW u \in Customer, NEW method \in Method, NEW offer \in Offer,
           NEW renew \in ({"subscription"} \X Order \X Copy) \cup {None},
           CreateOrder(t, u, method, offer[1], offer[2], renew)
    PROVE  StockInv'
<1> DEFINE o == issued + 1
           row == [user |-> u, mode |-> offer[1], coupon |-> offer[2], renew |-> renew,
                   status |-> IF offer[1] = "manual" THEN "pending" ELSE "awaiting_payment"]
           f == Is(O(o), row)
           pc == IF offer[1] = "manual" THEN "reserve" ELSE method
           z == [Idle EXCEPT !.op = method, !.order = o, !.uses = Row(t, K), !.pc = pc]
           v == Over(ws[t], db)
           w == Over(Over(f, ws[t]), db)
<1>1. /\ At(t, "idle") /\ o \in Order /\ Write(t, f) /\ sess' = [sess EXCEPT ![t] = z]
  BY DEF CreateOrder, Begin
<1>2. issued \in Nat /\ o > issued
  BY DEF Inv, Types
<1> HIDE DEF o
<1>3. pc \in {"reserve"} \cup Method /\ (pc = "reserve" => offer[1] = "manual")
  BY DEF Method
<1>4. z.pc = pc /\ z.order = o /\ z.dirty = "no"
  BY DEF Idle
<1> HIDE DEF z, pc
<1>5. DOMAIN f = {O(o)} /\ f[O(o)].mode = offer[1]
  BY DEF Is
<1> HIDE DEF f
<1>6. sess[t] = Idle /\ ws[t] = NoRows /\ DOMAIN NoRows = {}
  BY <1>1, AtRest, Nothing
<1>7. /\ Stocked(Idle, NoRows, db) /\ Sees(Idle, v) /\ \A c \in Config : C(c) \in DOMAIN db
      /\ \A q \in Order : Backed(db, q)
  BY <1>6, Stock0 DEF StockInv
<1>8. O(o) \notin DOMAIN db
  BY <1>1, <1>2 DEF Inv, Fresh
<1>9. \A q \in Order : Backed(v, q)
  BY <1>7 DEF Sees, Idle, Selling
<1>10. \A c \in Config : w[C(c)] = db[C(c)]
  BY <1>5, <1>6, <1>7, Keys DEF Over
<1>11. NoneHeld(w, o)
  BY <1>1, <1>7, <1>8, <1>10 DEF NoneHeld, Backed, HeldOk
<1>12. \A c \in Config : C(c) \notin DOMAIN f
  BY <1>5, Keys
<1>13. /\ \A q \in Order \ {o} : O(q) \notin DOMAIN f
       /\ \A q \in Order, i \in Copy : S(q, i) \notin DOMAIN f
  BY <1>5, Keys
<1>14. z.pc \notin Selling \cup {"release"}
  BY <1>3, <1>4 DEF Selling, Method
<1>15. Delivers(ws[t], db)
  BY <1>6 DEF Delivers
<1> HIDE DEF v, w
<1>16. Stocked(z, Over(f, ws[t]), db)
  BY <1>1, <1>3, <1>4, <1>5, <1>6, <1>7, <1>9, <1>11, <1>12, <1>13, <1>14, <1>15, StockClosing DEF v, w
<1> QED BY <1>1, <1>16, StockWrite
-----------------------------------------------------------------------------
\* The order is delivered or closed: the config held for it is sold or freed.
LEMMA StockClosed ==
    ASSUME Inv, StockInv, NEW t \in Tx, sess[t].pc \in {"sell", "provision", "release"},
           NEW f, Flush(t, f), NEW z, sess' = [sess EXCEPT ![t] = z],
           z.order = sess[t].order, z.dirty = "no", z.pc \in {"reward", "commit", "cancel"},
           O(sess[t].order) \in DOMAIN f,
           \A q \in Order \ {sess[t].order} : O(q) \notin DOMAIN f,
           \A q \in Order, i \in Copy :
              S(q, i) \in DOMAIN f => S(q, i) \in DOMAIN ws[t] \cup DOMAIN db \/ q = sess[t].order,
           \A c \in Config : C(c) \in DOMAIN f => f[C(c)].order = None,
           sess[t].config \in Config => C(sess[t].config) \in DOMAIN f \/ sess[t].pc = "provision"
    PROVE  StockInv'
<1> DEFINE s == sess[t]
           o == sess[t].order
           p == Pending(t)
           v == Over(p, db)
           w == Over(Over(f, p), db)
<1>1. /\ Stocked(s, ws[t], db) /\ Sees(s, Over(ws[t], db))
      /\ \A c \in Config : C(c) \in DOMAIN db
  BY Stock0
<1>2. o \in Order
  BY Located DEF Holdless, Selling
<1>3. Stocked(s, p, db)
  <2>1. s.dirty = "settled" => s.pc \in Selling \/ NoneHeld(Over(ws[t], db), o)
    BY <1>1 DEF Sees, Holdless, Selling, Delivering, Delivered, Ending
  <2> QED BY <1>1, <2>1, StockPending
<1>4. DOMAIN ws[t] \subseteq DOMAIN p
  BY UnflushedOk
<1> HIDE DEF p
<1>5. Sees(s, v) /\ Holds(s, p, db) /\ Delivers(p, db)
  BY <1>3 DEF Stocked
<1>6. /\ DOMAIN w = DOMAIN f \cup DOMAIN v
      /\ DOMAIN v = DOMAIN p \cup DOMAIN db
      /\ \A r \in DOMAIN f : w[r] = f[r]
      /\ \A r \in DOMAIN v : r \notin DOMAIN f => w[r] = v[r]
  BY DEF Over
<1>7. o # None
  BY <1>2, IdAssumption
<1> HIDE DEF v, w
<1>8. NoneHeld(w, o)
  <2> SUFFICES ASSUME NEW c \in Config, w[C(c)].order = o
               PROVE  FALSE
    BY DEF NoneHeld
  <2>1. C(c) \notin DOMAIN f /\ v[C(c)].order = o
    BY <1>1, <1>6, <1>7
  <2>2. CASE s.pc = "provision"
    BY <1>5, <2>1, <2>2 DEF Sees, Holdless, NoneHeld
  <2>3. CASE s.pc \in {"sell", "release"}
    <3>1. c = s.config
      BY <1>5, <2>1, <2>3 DEF Sees
    <3> QED BY <2>1, <2>3, <3>1
  <2> QED BY <2>2, <2>3
<1>9. \A q \in Order \ {o} : Backed(v, q)
  BY <1>5 DEF Sees
<1>10. \A c \in Config : C(c) \in DOMAIN p => p[C(c)].order \in {None, o}
  BY <1>5 DEF Holds
<1>11. \A q \in Order, i \in Copy :
          S(q, i) \in DOMAIN f => S(q, i) \in DOMAIN p \cup DOMAIN db \/ (q = o /\ O(o) \in DOMAIN f)
  BY <1>4
<1>12. Stocked(z, Over(f, p), db)
  BY <1>1, <1>2, <1>5, <1>8, <1>9, <1>10, <1>11, StockClosing DEF Selling, v, w
<1> QED BY <1>12, StockFlush DEF p

\* The order is delivered, with the config of the session or with an account.
LEMMA DeliverStock ==
    ASSUME Inv, StockInv, NEW t \in Tx, SellConfig(t) \/ Provision(t)
    PROVE  StockInv'
<1> DEFINE s == sess[t]
           o == sess[t].order
           z == [s EXCEPT !.pc = "reward", !.dirty = "no"]
<1>1. /\ s \in Session /\ Sees(s, Over(ws[t], db)) /\ s.pc \in {"sell", "provision"} /\ None \notin Config
  BY Stock0, IdAssumption DEF SellConfig, Provision, At
<1>2. z.pc = "reward" /\ z.order = o /\ z.dirty = "no"
  BY <1>1 DEF Session
<1>3. o \in Order
  BY <1>1, Located DEF Holdless, Selling
<1> HIDE DEF z
<1>4. ASSUME NEW c \in Config \cup {None}, Room("subscription", o)
      PROVE  LET g == Delivery(t, c)
             IN /\ O(o) \in DOMAIN g
                /\ \A q \in Order \ {o} : O(q) \notin DOMAIN g
                /\ \A q \in Order, i \in Copy :
                      S(q, i) \in DOMAIN g => S(q, i) \in DOMAIN ws[t] \cup DOMAIN db \/ q = o
                /\ \A e \in Config : C(e) \notin DOMAIN g
  <2> DEFINE g == Delivery(t, c)
  <2>1. /\ O(o) \in DOMAIN g
        /\ \A r \in DOMAIN g : r # O(o) =>
              \E q \in Order, i \in Copy :
                  r = S(q, i) /\ (r \in DOMAIN ws[t] \cup DOMAIN db \/ r = NewKey("subscription", o))
    BY <1>1, <1>4, DeliveryRows
  <2>2. PICK j \in Copy : NewKey("subscription", o) = S(o, j)
    BY <1>4, NewKeys DEF S
  <2> HIDE DEF g
  <2>3. \A q \in Order \ {o} : O(q) \notin DOMAIN g
    BY <2>1, Keys
  <2>4. \A q \in Order, i \in Copy :
           S(q, i) \in DOMAIN g => S(q, i) \in DOMAIN ws[t] \cup DOMAIN db \/ q = o
    <3> SUFFICES ASSUME NEW q \in Order, NEW i \in Copy, S(q, i) \in DOMAIN g
                 PROVE  S(q, i) \in DOMAIN ws[t] \cup DOMAIN db \/ q = o
      OBVIOUS
    <3>1. S(q, i) # O(o)
      BY Keys, <1>3
    <3>2. PICK p \in Order, k \in Copy :
             S(q, i) = S(p, k) /\ (S(q, i) \in DOMAIN ws[t] \cup DOMAIN db \/ S(q, i) = NewKey("subscription", o))
      BY <2>1, <3>1
    <3> QED BY <3>2, <2>2, <1>3, Keys
  <2>5. \A e \in Config : C(e) \notin DOMAIN g
    BY <2>1, Keys
  <2> QED BY <2>1, <2>3, <2>4, <2>5 DEF g
<1>5. CASE SellConfig(t)
  <2> DEFINE c == s.config
             g == Delivery(t, c)
             f == Over(Is(C(c), [status |-> "sold", order |-> None]), g)
  <2>1. s.pc = "sell" /\ Room("subscription", o) /\ Flush(t, f) /\ sess' = [sess EXCEPT ![t] = z]
    BY <1>5 DEF SellConfig, Flushed, At, z
  <2>2. c \in Config
    BY <2>1, Here DEF Aware
  <2>3. /\ O(o) \in DOMAIN g
        /\ \A q \in Order \ {o} : O(q) \notin DOMAIN g
        /\ \A q \in Order, i \in Copy :
              S(q, i) \in DOMAIN g => S(q, i) \in DOMAIN ws[t] \cup DOMAIN db \/ q = o
        /\ \A e \in Config : C(e) \notin DOMAIN g
    BY <1>4, <2>1, <2>2
  <2> HIDE DEF g
  <2>4. DOMAIN f = DOMAIN g \cup {C(c)} /\ f[C(c)].order = None
    BY DEF Over, Is
  <2> HIDE DEF f
  <2>5. /\ O(o) \in DOMAIN f
        /\ \A q \in Order \ {o} : O(q) \notin DOMAIN f
        /\ \A q \in Order, i \in Copy :
              S(q, i) \in DOMAIN f => S(q, i) \in DOMAIN ws[t] \cup DOMAIN db \/ q = o
        /\ \A e \in Config : C(e) \in DOMAIN f => f[C(e)].order = None
    BY <2>3, <2>4, Keys
  <2> QED BY <1>1, <1>2, <2>1, <2>4, <2>5, StockClosed
<1>6. CASE Provision(t)
  <2>1. s.pc = "provision"
    BY <1>6 DEF Provision, At
  <2>2. CASE Room("subscription", o) /\ Flush(t, Delivery(t, None)) /\ Flushed(t, "reward")
    <3> DEFINE f == Delivery(t, None)
    <3>1. sess' = [sess EXCEPT ![t] = z]
      BY <2>2 DEF Flushed, z
    <3>2. /\ O(o) \in DOMAIN f
          /\ \A q \in Order \ {o} : O(q) \notin DOMAIN f
          /\ \A q \in Order, i \in Copy :
                S(q, i) \in DOMAIN f => S(q, i) \in DOMAIN ws[t] \cup DOMAIN db \/ q = o
          /\ \A e \in Config : C(e) \notin DOMAIN f
      BY <1>4, <2>2
    <3> HIDE DEF f
    <3> QED BY <1>2, <2>1, <2>2, <3>1, <3>2, StockClosed DEF f
  <2>3. CASE Goto(t, "refused") /\ UNCHANGED store
    <3>1. NoneHeld(Over(ws[t], db), o)
      BY <1>1, <2>1 DEF Sees, Holdless
    <3> QED BY <2>1, <2>3, <3>1, StockGoto DEF PCs, Selling, Ending, Holdless
  <2> QED BY <1>6, <2>2, <2>3 DEF Provision
<1> QED BY <1>5, <1>6

\* The config is freed and the order closed.
LEMMA ReleaseStock ==
    ASSUME Inv, StockInv, NEW t \in Tx, ReleaseConfig(t)
    PROVE  StockInv'
<1> DEFINE s == sess[t]
           o == sess[t].order
           g == Freed(t, s.config)
           row == [Mine(t) EXCEPT !.status = IF s.op = "expire" THEN "expired" ELSE "cancelled"]
           f == Over(g, Is(O(o), row))
           pc == IF s.todo = {} THEN "commit" ELSE "cancel"
           z == [s EXCEPT !.pc = pc, !.dirty = "no"]
<1>1. s.pc = "release" /\ Flush(t, f) /\ sess' = [sess EXCEPT ![t] = z] /\ s \in Session
  BY Stock0, ZenonT(30) DEF ReleaseConfig, Flushed, At
<1>2. z.pc = pc /\ z.order = o /\ z.dirty = "no" /\ pc \in {"commit", "cancel"}
  BY <1>1 DEF Session
<1> HIDE DEF z, pc, row
<1>3. /\ \A r \in DOMAIN g : r = C(s.config) /\ g[r].order = None
      /\ s.config \in Config => C(s.config) \in DOMAIN g
  <2>1. CASE s.config = None
    BY <2>1, Nothing, IdAssumption DEF Freed
  <2>2. CASE s.config # None
    <3>1. g = Is(C(s.config), [status |-> "available", order |-> None])
      BY <2>2 DEF Freed
    <3> QED BY <3>1 DEF Is
  <2> QED BY <2>1, <2>2
<1> HIDE DEF g
<1>4. DOMAIN f = DOMAIN g \cup {O(o)} /\ \A r \in DOMAIN g : f[r] = g[r]
  BY DEF Over, Is
<1> HIDE DEF f
<1>5. /\ O(o) \in DOMAIN f
      /\ \A q \in Order \ {o} : O(q) \notin DOMAIN f
      /\ \A q \in Order, i \in Copy : S(q, i) \notin DOMAIN f
      /\ s.config \in Config => C(s.config) \in DOMAIN f
  BY <1>3, <1>4, Keys
<1>6. \A c \in Config : C(c) \in DOMAIN f => f[C(c)].order = None
  BY <1>3, <1>4, Keys
<1> QED BY <1>1, <1>2, <1>5, <1>6, StockClosed

\* A config is reserved.
LEMMA ReserveStock ==
    ASSUME Inv, StockInv, NEW t \in Tx, Reserve(t)
    PROVE  StockInv'
<1> DEFINE s == sess[t]
           o == sess[t].order
           c == FirstOf(Stock(t))
           held == Is(C(c), [status |-> "reserved", order |-> o])
           row == [Mine(t) EXCEPT !.status = "awaiting_payment"]
           p == Pending(t)
           v == Over(p, db)
<1>1. /\ s \in Session /\ Stocked(s, ws[t], db) /\ Sees(s, Over(ws[t], db))
      /\ \A e \in Config : C(e) \in DOMAIN db
      /\ s.pc \in {"reserve", "restock"}
  BY Stock0 DEF Reserve, At
<1>2. NoneHeld(Over(ws[t], db), o) /\ o \in Order /\ O(o) \in DOMAIN ws[t] \cup DOMAIN db
  BY <1>1, Located DEF Sees, Holdless
<1>3. s.pc = "reserve" =>
         /\ s.op \in Method /\ s.dirty = "no"
         /\ O(o) \in DOMAIN ws[t] /\ O(o) \notin DOMAIN db
         /\ Mine(t) \in OrderType
         /\ \A i \in Copy : S(o, i) \notin DOMAIN ws[t] \cup DOMAIN db
  <2>1. StoreOk(db)
    BY Seen
  <2> QED BY <1>2, <2>1, Buys DEF StoreOk, OrderOk
<1>4. Stocked(s, p, db)
  BY <1>1, <1>2, <1>3, StockPending
<1>5. NoneHeld(v, o)
  BY <1>1, <1>4 DEF Stocked, Sees, Holdless
<1>6. Stock(t) # {} => c \in Config
  BY FirstIn DEF Stock
<1>7. DOMAIN held = {C(c)} /\ held[C(c)].order = o
  BY DEF Is
<1>8. s.pc = "reserve" => \A i \in Copy : S(o, i) \notin DOMAIN p \cup DOMAIN db
  BY <1>3, NothingPending
<1> HIDE DEF c, held, p, v
<1>9. CASE s.pc = "reserve" /\ Stock(t) # {} /\ Flush(t, Over(held, Is(O(o), row))) /\ Flushed(t, s.op)
  <2> DEFINE f == Over(held, Is(O(o), row))
             z == [s EXCEPT !.pc = s.op, !.dirty = "no"]
  <2>1. sess' = [sess EXCEPT ![t] = z]
    BY <1>9 DEF Flushed
  <2>2. z.pc = s.op /\ z.order = o /\ z.dirty = "no"
    BY <1>1 DEF Session
  <2>3. row.mode = "manual" /\ row.status = "awaiting_payment"
    <3>1. Mine(t).mode = "manual"
      BY <1>1, <1>2, <1>3, <1>9 DEF Sees, Mine, Row, Over
    <3> QED BY <1>3, <1>9, <3>1, RowTypes DEF OrderType
  <2> HIDE DEF row, z
  <2>4. DOMAIN f = {C(c), O(o)} /\ f[C(c)].order = o /\ f[O(o)] = row
    BY <1>7, Keys DEF Over, Is
  <2> HIDE DEF f
  <2>5. /\ \A e \in Config \ {c} : C(e) \notin DOMAIN f
        /\ \A q \in Order \ {o} : O(q) \notin DOMAIN f
        /\ \A q \in Order, i \in Copy : S(q, i) \notin DOMAIN f
    BY <2>4, Keys
  <2>6. s.pc \notin Selling /\ z.pc \notin Selling \cup Holdless \cup {"release"}
    BY <1>3, <1>9, <2>2 DEF Method, Selling, Holdless
  <2>7. c \in Config
    BY <1>6, <1>9
  <2>8. Stocked(z, Over(f, p), db)
    BY <1>1, <1>2, <1>3, <1>4, <1>5, <1>8, <1>9, <2>2, <2>3, <2>4, <2>5, <2>6, <2>7, StockHolding DEF v
  <2> QED BY <1>9, <2>1, <2>8, StockFlush DEF p, f
<1>10. CASE s.pc = "restock" /\ Stock(t) # {} /\ Flush(t, held)
            /\ sess' = [sess EXCEPT ![t].pc = "sell", ![t].config = c, ![t].dirty = "no"]
  <2> DEFINE z == [s EXCEPT !.pc = "sell", !.config = c, !.dirty = "no"]
  <2>1. sess' = [sess EXCEPT ![t] = z]
    BY <1>10
  <2>2. z.pc = "sell" /\ z.order = o /\ z.dirty = "no" /\ z.config = c
    BY <1>1 DEF Session
  <2> HIDE DEF z
  <2>3. /\ \A e \in Config \ {c} : C(e) \notin DOMAIN held
        /\ \A q \in Order \ {o} : O(q) \notin DOMAIN held
        /\ \A q \in Order, i \in Copy : S(q, i) \notin DOMAIN held
        /\ C(c) \in DOMAIN held
    BY <1>7, Keys
  <2>4. c \in Config /\ s.pc \notin Selling
    BY <1>6, <1>10 DEF Selling
  <2>5. Stocked(z, Over(held, p), db)
    BY <1>1, <1>2, <1>4, <1>5, <1>7, <2>2, <2>3, <2>4, StockHolding DEF v
  <2> QED BY <1>10, <2>1, <2>5, StockFlush DEF p
<1>11. CASE Goto(t, "refused") /\ UNCHANGED store
  BY <1>1, <1>2, <1>11, StockGoto DEF PCs, Selling, Ending, Holdless
<1> QED BY <1>9, <1>10, <1>11 DEF Reserve, At, c, held

\* Every step keeps the reservations.
LEMMA StockStep ==
    ASSUME Inv, StockInv, [Next]_vars
    PROVE  StockInv'
<1>1. ASSUME NEW t \in Tx, Take(t)
      PROVE  StockInv'
  <2>1. CASE Buy(t)
    <3>1. PICK u \in Customer, method \in {"wallet", "gateway", "card"}, offer \in Offer,
               renew \in ({"subscription"} \X Order \X Copy) \cup {None} :
                  CreateOrder(t, u, method, offer[1], offer[2], renew)
      BY <2>1 DEF Buy
    <3> QED BY <3>1, CreateStock DEF Method
  <2>2. CASE \E u \in Customer : ReceiveReceipt(t, u)
    BY <2>2, ReceiptStock
  <2> QED BY <1>1, <2>1, <2>2, TakeStock DEF Take
<1>2. ASSUME NEW t \in Tx, Pay(t)
      PROVE  StockInv'
  BY <1>2, ReserveStock, PlainStock, EndingStock, LoadStock DEF Pay
<1>3. ASSUME NEW t \in Tx, Settle(t)
      PROVE  StockInv'
  BY <1>3, FindStock, FlushStock, DeliverStock DEF Settle
<1>4. ASSUME NEW t \in Tx, Expire(t)
      PROVE  StockInv'
  BY <1>4, TakeStock, PlainStock, CancelStock DEF Expire
<1>5. ASSUME NEW t \in Tx, End(t)
      PROVE  StockInv'
  BY <1>5, CancelStock, ReleaseStock, EndingStock, FlushStock, EndStock DEF End, Finish, At
<1>6. ASSUME NEW t \in Tx, Crash(t)
      PROVE  StockInv'
  BY <1>6, EndStock DEF Crash
<1>7. ASSUME UNCHANGED <<db, ws, sess>>
      PROVE  StockInv'
  BY <1>7 DEF StockInv
<1>8. CASE (\E o \in Order : Tick(o) \/ PayAtGateway(o)) \/ UNCHANGED vars
  BY <1>7, <1>8 DEF Tick, PayAtGateway, vars
<1> QED BY <1>1, <1>2, <1>3, <1>4, <1>5, <1>6, <1>8 DEF Next, Handle

\* Stock is held only for orders that can still be paid, one config for each, whatever
\* the handlers, the reviews and the housekeeping job do to an order at the same time.
THEOREM StockIsBacked == Spec => []ReservationBacked
<1>1. Inv /\ StockInv => ReservationBacked
  <2> SUFFICES ASSUME Inv, StockInv, NEW c \in Config, db[C(c)].status = "reserved"
               PROVE  /\ Status(db[C(c)].order) = "awaiting_payment"
                      /\ \A d \in Config : db[C(d)].order = db[C(c)].order => c = d
    BY DEF ReservationBacked
  <2> DEFINE o == db[C(c)].order
  <2>1. Typed(db) /\ C(c) \in DOMAIN db /\ C(c)[1] = "config"
    BY Keys DEF Inv, StoreInv, StoreOk
  <2>2. db[C(c)] \in RowType["config"] /\ db[C(c)].order # None
    BY <2>1 DEF Typed
  <2>3. o \in Order
    BY <2>2, RowTypes
  <2>4. Backed(db, o)
    BY <2>3 DEF StockInv
  <2>5. O(o) \in DOMAIN db /\ db[O(o)].status = "awaiting_payment"
    BY <2>4 DEF Backed, HeldOk, NoneHeld
  <2>6. \A d \in Config : db[C(d)].order = o => c = d
    BY <2>4 DEF Backed, HeldOk
  <2> QED BY <2>5, <2>6 DEF Status
<1> QED BY <1>1, InitStock, StockStep, Invariance, PTL DEF Spec
-----------------------------------------------------------------------------
\* The orders a session works on: the one it has loaded, those it is about to cancel,
\* those of the rows it has written, and those that hold the configs it has written
\* or is about to free.
WorksOn(t) ==
    {o \in Order : \/ o = sess[t].order
                   \/ sess[t].pc \in {"cancel", "release"} /\ o \in sess[t].todo
                   \/ {O(o), P(o)} \cap DOMAIN ws[t] # {}
                   \/ \E c \in Config :
                         /\ db[C(c)].order = o
                         /\ C(c) \in DOMAIN ws[t] \/ (At(t, "free") /\ c \in sess[t].todo)}

\* No two sessions work on the same order at the same time, as if every handler
\* locked the order before it reads it.  The code does not: what is proved from
\* this premise is what such a lock would give, and what handlers of different
\* orders cannot spoil without it.
OneAtAnOrder == \A t, u \in Tx : t # u => WorksOn(t) \cap WorksOn(u) = {}

Done(v, o) == O(o) \in DOMAIN v /\ v[O(o)].status = "delivered"
PaidFor(v, o) == P(o) \in DOMAIN v /\ v[P(o)].status = "approved"
Subs(v) == {r \in DOMAIN v : r[1] = "subscription"}

\* As v has it, orders, payments, subscriptions and configs agree: what is delivered
\* is paid for, what is not has no subscription, and every config that is sold is in
\* one subscription.
Settled(v) ==
    /\ \A o \in Order : Done(v, o) => PaidFor(v, o)
    /\ \A r \in Subs(v) : r[2] \in Order /\ Done(v, r[2])
    /\ \A c \in Config :
          /\ v[C(c)].status = "sold" <=> \E r \in Subs(v) : v[r].config = c
          /\ \A r, k \in Subs(v) : v[r].config = c /\ v[k].config = c => r = k

\* What the rows x of a transaction do to the committed rows d: no delivered order is
\* written, no subscription gets another config, and a new one comes with its config.
Writes(x, d) ==
    /\ \A o \in Order : O(o) \in DOMAIN x => ~Done(d, o)
    /\ \A r \in Subs(x) :
          IF r \in DOMAIN d THEN x[r].config = d[r].config
          ELSE x[r].config \in Config => C(x[r].config) \in DOMAIN x

\* The session has read its order, or is bound to write it.
Loaded(s) ==
    \/ s.pc \in {"reserve", "wallet", "gateway", "card", "ask", "declined", "order", "release"}
    \/ s.pc \in Delivering
    \/ s.dirty # "no"

\* What session s knows then, as it sees the rows v.
Knows(s, v) ==
    /\ Loaded(s) => ~Done(v, s.order)
    /\ s.pc \in {"cancel", "release"} => \A o \in s.todo : ~Done(v, o)
    /\ s.pc \in Delivering => /\ s.dirty # "rejected"
                              /\ s.dirty = "no" => PaidFor(v, s.order)
    /\ s.pc = "order" /\ s.op # "reject" => s.dirty = "approved"
    /\ s.pc = "sell" \/ (s.pc = "release" /\ s.config # None) => v[C(s.config)].order = s.order
    /\ s.pc = "free" => \A c \in s.todo : v[C(c)].status = "reserved"

Single(s, x, d) == Settled(Over(x, d)) /\ Writes(x, d) /\ Knows(s, Over(x, d))

SoldInv ==
    /\ Settled(db)
    /\ \A t \in Tx : Single(sess[t], ws[t], db)
-----------------------------------------------------------------------------
\* What a transaction writes on top of the rows v: no row of a delivered order and no
\* subscription; it neither delivers, nor touches a config that is sold.
Modest(f, v) ==
    /\ \A o \in Order : {O(o), P(o)} \cap DOMAIN f # {} => ~Done(v, o)
    /\ \A o \in Order : O(o) \in DOMAIN f => f[O(o)].status # "delivered"
    /\ Subs(f) = {}
    /\ \A c \in Config : C(c) \in DOMAIN f => v[C(c)].status # "sold" /\ f[C(c)].status # "sold"

LEMMA SettledKept ==
    ASSUME NEW v, NEW f, Settled(v), Modest(f, v), \A c \in Config : C(c) \in DOMAIN v
    PROVE  Settled(Over(f, v))
<1> DEFINE w == Over(f, v)
<1>1. /\ DOMAIN w = DOMAIN f \cup DOMAIN v
      /\ \A r \in DOMAIN f : w[r] = f[r]
      /\ \A r \in DOMAIN v : r \notin DOMAIN f => w[r] = v[r]
  BY DEF Over
<1> HIDE DEF w
<1>2. ASSUME NEW o \in Order
      PROVE  /\ Done(w, o) <=> Done(v, o)
             /\ Done(v, o) => PaidFor(w, o)
  <2>1. Done(w, o) => O(o) \notin DOMAIN f
    BY <1>1 DEF Modest, Done
  <2>2. Done(v, o) => O(o) \notin DOMAIN f /\ P(o) \notin DOMAIN f
    BY DEF Modest
  <2>3. Done(w, o) <=> Done(v, o)
    BY <1>1, <2>1, <2>2 DEF Done
  <2> QED BY <1>1, <2>2, <2>3 DEF Settled, PaidFor
<1>3. Subs(w) = Subs(v) /\ \A r \in Subs(v) : w[r] = v[r]
  <2>1. \A r \in DOMAIN f : r[1] # "subscription"
    BY DEF Modest, Subs
  <2> QED BY <1>1, <2>1 DEF Subs
<1>4. \A c \in Config : w[C(c)].status = "sold" <=> v[C(c)].status = "sold"
  BY <1>1 DEF Modest
<1> QED BY <1>2, <1>3, <1>4 DEF Settled, w

\* The same for a transaction that has written x before.
LEMMA ModestWrite ==
    ASSUME NEW d, NEW x, NEW f, Settled(Over(x, d)), Writes(x, d), Modest(f, Over(x, d)),
           \A c \in Config : C(c) \in DOMAIN d
    PROVE  /\ Settled(Over(Over(f, x), d)) /\ Writes(Over(f, x), d)
           /\ \A o \in Order : ~Done(Over(x, d), o) => ~Done(Over(Over(f, x), d), o)
<1> DEFINE v == Over(x, d)
           y == Over(f, x)
<1>1. /\ DOMAIN v = DOMAIN x \cup DOMAIN d
      /\ \A r \in DOMAIN x : v[r] = x[r]
      /\ \A r \in DOMAIN d : r \notin DOMAIN x => v[r] = d[r]
      /\ DOMAIN y = DOMAIN f \cup DOMAIN x
      /\ \A r \in DOMAIN f : y[r] = f[r]
      /\ \A r \in DOMAIN x : r \notin DOMAIN f => y[r] = x[r]
  BY DEF Over
<1>2. Over(y, d) = Over(f, v)
  BY OverAssoc
<1>3. Modest(f, v) /\ Settled(v)
  OBVIOUS
<1> HIDE DEF v, y
<1>4. Settled(Over(f, v))
  BY <1>1, <1>3, SettledKept
<1>5. Writes(y, d)
  <2>1. ASSUME NEW o \in Order, O(o) \in DOMAIN y
        PROVE  ~Done(d, o)
    <3>1. CASE O(o) \in DOMAIN x
      BY <3>1 DEF Writes
    <3>2. CASE O(o) \notin DOMAIN x
      <4>1. ~Done(v, o)
        BY <1>1, <1>3, <2>1, <3>2 DEF Modest
      <4> QED BY <1>1, <3>2, <4>1 DEF Done
    <3> QED BY <3>1, <3>2
  <2>2. Subs(y) = Subs(x) /\ \A r \in Subs(x) : y[r] = x[r]
    <3>1. \A r \in DOMAIN f : r[1] # "subscription"
      BY <1>3 DEF Modest, Subs
    <3> QED BY <1>1, <3>1 DEF Subs
  <2> QED BY <1>1, <2>1, <2>2 DEF Writes
<1>6. ASSUME NEW o \in Order, ~Done(v, o)
      PROVE  ~Done(Over(f, v), o)
  BY <1>3, <1>6 DEF Modest, Done, Over
<1> QED BY <1>2, <1>4, <1>5, <1>6 DEF v, y

\* The delivery of an order: its row, its subscription, the config in it.
LEMMA SettledSold ==
    ASSUME NEW v, NEW f, NEW o \in Order, NEW k, NEW e \in Config \cup {None}, Settled(v), ~Done(v, o), PaidFor(v, o),
           \A c \in Config : C(c) \in DOMAIN v,
           O(o) \in DOMAIN f, f[O(o)].status = "delivered", P(o) \notin DOMAIN f,
           \A q \in Order \ {o} : O(q) \notin DOMAIN f /\ P(q) \notin DOMAIN f,
           k \in Subs(f), k \notin DOMAIN v, k[2] = o, f[k].config = e,
           \A r \in Subs(f) : r # k => r \in DOMAIN v /\ f[r].config = v[r].config,
           e \in Config => C(e) \in DOMAIN f /\ v[C(e)].status # "sold" /\ f[C(e)].status = "sold",
           \A c \in Config \ {e} : C(c) \notin DOMAIN f
    PROVE  Settled(Over(f, v))
<1> DEFINE w == Over(f, v)
<1>1. /\ DOMAIN w = DOMAIN f \cup DOMAIN v
      /\ \A r \in DOMAIN f : w[r] = f[r]
      /\ \A r \in DOMAIN v : r \notin DOMAIN f => w[r] = v[r]
  BY DEF Over
<1> HIDE DEF w
<1>2. \A q \in Order : Done(w, q) <=> q = o \/ Done(v, q)
  BY <1>1 DEF Done
<1>3. \A q \in Order : PaidFor(w, q) <=> PaidFor(v, q)
  BY <1>1 DEF PaidFor
<1>4. Subs(w) = Subs(v) \cup {k} /\ k \notin Subs(v)
  BY <1>1 DEF Subs
<1>5. w[k].config = e /\ \A r \in Subs(v) : w[r].config = v[r].config
  BY <1>1 DEF Subs
<1>6. None \notin Config
  BY IdAssumption
<1>7. \A c \in Config : w[C(c)].status = "sold" <=> c = e \/ v[C(c)].status = "sold"
  BY <1>1
<1>8. \A r \in Subs(v) : v[r].config \in Config => v[C(v[r].config)].status = "sold"
  BY DEF Settled
<1>9. \A r \in Subs(v) : e \in Config => v[r].config # e
  BY <1>8
<1>10. \A r \in Subs(w) : r[2] \in Order /\ Done(w, r[2])
  BY <1>2, <1>4 DEF Settled
<1>11. ASSUME NEW c \in Config
       PROVE  /\ w[C(c)].status = "sold" <=> \E r \in Subs(w) : w[r].config = c
              /\ \A r, j \in Subs(w) : w[r].config = c /\ w[j].config = c => r = j
  <2>1. /\ v[C(c)].status = "sold" <=> \E r \in Subs(v) : v[r].config = c
        /\ \A r, j \in Subs(v) : v[r].config = c /\ v[j].config = c => r = j
    BY DEF Settled
  <2>2. CASE c = e
    <3>1. \A r \in Subs(v) : w[r].config # c
      BY <1>5, <1>9, <2>2
    <3>2. \A r \in Subs(w) : w[r].config = c <=> r = k
      BY <1>4, <1>5, <2>2, <3>1
    <3> QED BY <1>4, <1>7, <2>2, <3>2
  <2>3. CASE c # e
    <3>1. \A r \in Subs(w) : w[r].config = c <=> r \in Subs(v) /\ v[r].config = c
      BY <1>4, <1>5, <2>3
    <3> QED BY <1>4, <1>7, <2>1, <2>3, <3>1
  <2> QED BY <2>2, <2>3
<1> QED BY <1>2, <1>3, <1>10, <1>11 DEF Settled, w

LEMMA WritesSold ==
    ASSUME NEW d, NEW x, NEW f, NEW o \in Order, NEW k, NEW e \in Config \cup {None}, Writes(x, d), ~Done(d, o),
           \A q \in Order \ {o} : O(q) \notin DOMAIN f,
           k \in Subs(f), k \notin DOMAIN d, f[k].config = e,
           \A r \in Subs(f) : r # k => r \in DOMAIN x \cup DOMAIN d /\ f[r].config = Over(x, d)[r].config,
           e \in Config => C(e) \in DOMAIN f
    PROVE  Writes(Over(f, x), d)
<1> DEFINE y == Over(f, x)
<1>1. /\ DOMAIN y = DOMAIN f \cup DOMAIN x
      /\ \A r \in DOMAIN f : y[r] = f[r]
      /\ \A r \in DOMAIN x : r \notin DOMAIN f => y[r] = x[r]
      /\ \A r \in DOMAIN x : Over(x, d)[r] = x[r]
      /\ \A r \in DOMAIN d : r \notin DOMAIN x => Over(x, d)[r] = d[r]
  BY DEF Over
<1> HIDE DEF y
<1>2. \A q \in Order : O(q) \in DOMAIN y => ~Done(d, q)
  BY <1>1 DEF Writes
<1>3. ASSUME NEW r \in Subs(y)
      PROVE  IF r \in DOMAIN d THEN y[r].config = d[r].config
             ELSE y[r].config \in Config => C(y[r].config) \in DOMAIN y
  <2>1. CASE r \notin DOMAIN f
    <3>1. r \in Subs(x) /\ y[r] = x[r]
      BY <1>1, <2>1 DEF Subs
    <3> QED BY <1>1, <3>1 DEF Writes
  <2>2. CASE r = k
    BY <1>1, <2>2 DEF Subs
  <2>3. CASE r \in DOMAIN f /\ r # k
    <3>1. r \in Subs(f) /\ y[r] = f[r]
      BY <1>1, <2>3 DEF Subs
    <3>2. CASE r \in DOMAIN x
      <4>1. r \in Subs(x) /\ y[r].config = x[r].config
        BY <1>1, <2>3, <3>1, <3>2 DEF Subs
      <4> QED BY <1>1, <4>1 DEF Writes
    <3>3. CASE r \notin DOMAIN x
      BY <1>1, <2>3, <3>1, <3>3
    <3> QED BY <3>2, <3>3
  <2> QED BY <2>1, <2>2, <2>3
<1> QED BY <1>2, <1>3 DEF Writes, y

-----------------------------------------------------------------------------
\* What session t has and sees.
LEMMA Sold0 ==
    ASSUME Inv, SoldInv, NEW t \in Tx
    PROVE  /\ sess[t] \in Session
           /\ Settled(Over(ws[t], db)) /\ Writes(ws[t], db) /\ Knows(sess[t], Over(ws[t], db))
           /\ \A c \in Config : C(c) \in DOMAIN db
           /\ \A r : Exists(t, r) <=> r \in DOMAIN Over(ws[t], db)
           /\ \A r : Exists(t, r) => Row(t, r) = Over(ws[t], db)[r]
           /\ \A c \in Config : /\ Row(t, C(c)) = Over(ws[t], db)[C(c)]
                                /\ Row(t, C(c)).status = "reserved" <=> Row(t, C(c)).order # None
<1>1. sess[t] \in Session /\ Single(sess[t], ws[t], db)
  BY Here DEF SoldInv
<1>2. \A c \in Config : C(c) \in DOMAIN db
  BY DEF Inv, StoreInv, StoreOk
<1>3. /\ \A r : Exists(t, r) <=> r \in DOMAIN Over(ws[t], db)
      /\ \A r : Exists(t, r) => Row(t, r) = Over(ws[t], db)[r]
  BY Seen
<1>4. \A c \in Config : Exists(t, C(c))
  BY <1>2 DEF Exists
<1>5. ASSUME NEW c \in Config
      PROVE  Row(t, C(c)).status = "reserved" <=> Row(t, C(c)).order # None
  <2>1. Typed(ws[t]) /\ Typed(db) /\ C(c)[1] = "config"
    BY Seen, Keys DEF TxOk, StoreOk
  <2> QED BY <1>2, <2>1 DEF Typed, Row
<1> QED BY <1>1, <1>2, <1>3, <1>4, <1>5 DEF Single

\* An order that session t has loaded was created.
LEMMA LoadedHere ==
    ASSUME Inv, NEW t \in Tx, Loaded(sess[t])
    PROVE  sess[t].order \in Order /\ Exists(t, O(sess[t].order))
<1>1. sess[t].op \in Method \cup {"approve", "verify", "reject"} \/ At(t, "release")
  BY Here DEF Loaded, Aware, Runs, Method, Delivering, Delivered, Ending, At, Idle
<1> QED BY <1>1, OwnOrder

\* A statement of t that leaves the committed rows alone.
LEMMA SoldDone ==
    ASSUME Inv, SoldInv, NEW t \in Tx, NEW z, NEW y, sess' = [sess EXCEPT ![t] = z], db' = db,
           ws' = [ws EXCEPT ![t] = y], Single(z, y, db)
    PROVE  SoldInv'
<1>1. /\ sess'[t] = z /\ \A u \in Tx \ {t} : sess'[u] = sess[u]
      /\ ws'[t] = y /\ \A u \in Tx \ {t} : ws'[u] = ws[u]
  BY DEF Inv, Types, StoreInv
<1>2. ASSUME NEW u \in Tx
      PROVE  Single(sess'[u], ws'[u], db')
  <2>1. CASE u = t
    BY <1>1, <2>1
  <2>2. CASE u # t
    BY <1>1, <2>2 DEF SoldInv
  <2> QED BY <2>1, <2>2
<1> QED BY <1>2 DEF SoldInv

\* One that writes nothing: the session goes on with what it knows.
LEMMA SoldQuiet ==
    ASSUME Inv, SoldInv, NEW t \in Tx, NEW z, sess' = [sess EXCEPT ![t] = z], UNCHANGED store,
           Knows(z, Over(ws[t], db))
    PROVE  SoldInv'
<1>1. db' = db /\ ws' = [ws EXCEPT ![t] = ws[t]]
  BY DEF store, Inv, StoreInv, Shaped
<1> QED BY <1>1, Sold0, SoldDone DEF Single

\* One that writes modestly.
LEMMA SoldWrite ==
    ASSUME Inv, SoldInv, NEW t \in Tx, NEW z, NEW f, sess' = [sess EXCEPT ![t] = z], Write(t, f),
           Modest(f, Over(ws[t], db)), Knows(z, Over(Over(f, ws[t]), db))
    PROVE  SoldInv'
<1>1. Settled(Over(Over(f, ws[t]), db)) /\ Writes(Over(f, ws[t]), db)
  BY Sold0, ModestWrite
<1> QED BY <1>1, SoldDone DEF Single, Write

\* What session t still has to flush is modest, and pays the order it delivers.
LEMMA PendingSold ==
    ASSUME Inv, SoldInv, NEW t \in Tx
    PROVE  LET v == Over(ws[t], db)
               w == Over(Pending(t), db)
               o == sess[t].order
           IN /\ Settled(w) /\ Writes(Pending(t), db)
              /\ \A q \in Order : ~Done(v, q) => ~Done(w, q)
              /\ sess[t].pc \in Delivering => PaidFor(w, o)
              /\ \A r : r # O(o) /\ r # P(o) => (r \in DOMAIN w <=> r \in DOMAIN v)
              /\ \A r \in DOMAIN v : r # O(o) /\ r # P(o) => w[r] = v[r]
<1> DEFINE s == sess[t]
           o == s.order
           f == Unflushed(t)
           v == Over(ws[t], db)
           w == Over(f, v)
<1>0. Over(Pending(t), db) = w
  BY OverAssoc DEF Pending
<1>1. /\ Settled(v) /\ Writes(ws[t], db) /\ Knows(s, v)
      /\ \A c \in Config : C(c) \in DOMAIN db
  BY Sold0
<1>2. CASE s.dirty = "no"
  <2>1. f = NoRows /\ DOMAIN NoRows = {}
    BY <1>2, Nothing DEF Unflushed
  <2>2. Pending(t) = ws[t] \/ DOMAIN ws[t] = DOMAIN Pending(t)
    BY <1>2, NothingPending
  <2> HIDE DEF f, v
  <2>3. w = [r \in DOMAIN v |-> v[r]]
    BY <2>1 DEF Over
  <2>4. w = v
    BY <2>3 DEF Over, v
  <2>5. Writes(Pending(t), db)
    <3>1. /\ DOMAIN Pending(t) = DOMAIN ws[t]
          /\ \A r \in DOMAIN ws[t] : Pending(t)[r] = ws[t][r]
      BY <1>2, NothingPending
    <3>2. Subs(Pending(t)) = Subs(ws[t]) /\ \A r \in Subs(ws[t]) : Pending(t)[r] = ws[t][r]
      BY <3>1 DEF Subs
    <3> QED BY <1>1, <3>1, <3>2 DEF Writes
  <2>6. s.pc \in Delivering => PaidFor(w, o)
    BY <1>1, <1>2, <2>4 DEF Knows
  <2> QED BY <1>0, <1>1, <2>4, <2>5, <2>6 DEF v
<1>3. CASE s.dirty # "no"
  <2>1. /\ DOMAIN f = IF s.dirty = "settled" THEN {O(o), P(o)} ELSE {P(o)}
        /\ s.dirty = "settled" => f[O(o)] = [Mine(t) EXCEPT !.status = "paid"]
        /\ s.op \in {"wallet", "approve", "reject", "verify"}
    BY <1>3, UnflushedRows
  <2>2. o \in Order /\ ~Done(v, o)
    BY <1>1, <1>3, LoadedHere DEF Loaded, Knows
  <2>3. Mine(t) \in OrderType
    BY <2>1, OwnOrder DEF Method
  <2>4. s.dirty = "settled" => f[O(o)].status = "paid"
    BY <2>1, <2>3, RowTypes DEF OrderType
  <2>5. s.dirty # "rejected" => f[P(o)].status = "approved"
    <3>1. s.dirty \in {"approved", "settled"} =>
             f[P(o)] = IF Exists(t, P(o)) THEN [Row(t, P(o)) EXCEPT !.status = "approved"]
                       ELSE [method |-> s.op, status |-> "approved", authority |-> FALSE]
      BY <1>3, Keys DEF Unflushed, Over, Is
    <3>2. Exists(t, P(o)) => Row(t, P(o)) \in PaymentType
      BY Seen, Keys DEF PaymentType
    <3>3. Exists(t, P(o)) => [Row(t, P(o)) EXCEPT !.status = "approved"].status = "approved"
      BY <3>2, RowTypes DEF PaymentType
    <3>4. s.dirty \in {"approved", "rejected", "settled"}
      BY <1>3, Sold0 DEF Session
    <3> HIDE DEF f
    <3>5. CASE Exists(t, P(o))
      BY <1>3, <3>1, <3>3, <3>4, <3>5
    <3>6. CASE ~Exists(t, P(o))
      BY <1>3, <3>1, <3>4, <3>6
    <3> QED BY <3>5, <3>6
  <2> HIDE DEF f, v
  <2>6. Modest(f, v)
    BY <2>1, <2>2, <2>4, Keys DEF Modest, Subs
  <2>7. /\ Settled(Over(Over(f, ws[t]), db)) /\ Writes(Over(f, ws[t]), db)
        /\ \A q \in Order : ~Done(v, q) => ~Done(Over(Over(f, ws[t]), db), q)
    BY <1>1, <2>6, ModestWrite DEF v
  <2>8. s.pc \in Delivering => PaidFor(w, o)
    BY <1>1, <2>1, <2>5 DEF Knows, PaidFor, Over
  <2>9. /\ \A r : r # O(o) /\ r # P(o) => (r \in DOMAIN w <=> r \in DOMAIN v)
        /\ \A r \in DOMAIN v : r # O(o) /\ r # P(o) => w[r] = v[r]
    BY <2>1 DEF Over
  <2> QED BY <1>0, <2>7, <2>8, <2>9 DEF Pending, f, v
<1> QED BY <1>2, <1>3

\* A flush that writes modestly.
LEMMA SoldFlush ==
    ASSUME Inv, SoldInv, NEW t \in Tx, NEW z, NEW f, sess' = [sess EXCEPT ![t] = z], Flush(t, f),
           Modest(f, Over(Pending(t), db)), Knows(z, Over(Over(f, Pending(t)), db))
    PROVE  SoldInv'
<1>1. Write(t, Over(f, Unflushed(t)))
  BY DEF Flush
<1>2. Over(Over(f, Unflushed(t)), ws[t]) = Over(f, Pending(t))
  BY OverAssoc DEF Pending
<1>3. Settled(Over(Over(f, Pending(t)), db)) /\ Writes(Over(f, Pending(t)), db)
  BY Sold0, PendingSold, ModestWrite
<1> QED BY <1>1, <1>2, <1>3, SoldDone DEF Single, Write

-----------------------------------------------------------------------------
\* A slot takes up a review or a verification of a payment that is not approved.
LEMMA TakeSold ==
    ASSUME Inv, SoldInv, NEW t \in Tx,
           \/ \E op \in {"approve", "reject"}, o \in Order, via \in {"bot", "api"} :
                 ReviewPayment(t, op, o, via)
           \/ \E o \in Order : VerifyPayment(t, o)
    PROVE  SoldInv'
<1> DEFINE v == Over(ws[t], db)
<1>1. UNCHANGED store
  BY DEF ReviewPayment, VerifyPayment
<1>2. ASSUME NEW o \in Order, Exists(t, P(o)), Row(t, P(o)).status # "approved"
      PROVE  ~Done(v, o)
  <2>1. Row(t, P(o)) = v[P(o)] /\ Settled(v)
    BY <1>2, Sold0
  <2> QED BY <1>2, <2>1 DEF Settled, PaidFor
<1> HIDE DEF v
<1>3. ASSUME NEW z, NEW o \in Order, sess' = [sess EXCEPT ![t] = z], z.pc \in {"order", "ask"}, z.order = o,
             ~Done(v, o), z.pc = "order" /\ z.op # "reject" => z.dirty = "approved"
      PROVE  SoldInv'
  <2>1. Knows(z, v)
    BY <1>3 DEF Knows, Loaded, Delivering
  <2> QED BY <1>1, <1>3, <2>1, SoldQuiet DEF v
<1>4. ASSUME NEW op \in {"approve", "reject"}, NEW o \in Order, NEW via \in {"bot", "api"},
             ReviewPayment(t, op, o, via)
      PROVE  SoldInv'
  <2> DEFINE z == [Idle EXCEPT !.op = op, !.pc = "order", !.via = via, !.order = o,
                               !.dirty = IF op = "approve" THEN "approved" ELSE "rejected"]
  <2>1. sess' = [sess EXCEPT ![t] = z] /\ ~Done(v, o)
    BY <1>2, <1>4 DEF ReviewPayment, Reviewable
  <2>2. z.pc = "order" /\ z.order = o /\ (z.op # "reject" => z.dirty = "approved")
    BY <1>4 DEF Idle
  <2> HIDE DEF z
  <2> QED BY <1>3, <2>1, <2>2
<1>5. ASSUME NEW o \in Order, VerifyPayment(t, o)
      PROVE  SoldInv'
  <2> DEFINE z == [Idle EXCEPT !.op = "verify", !.pc = "ask", !.via = "api", !.order = o,
                               !.again = (Row(t, P(o)).status = "failed")]
  <2>1. sess' = [sess EXCEPT ![t] = z] /\ ~Done(v, o)
    BY <1>2, <1>5 DEF VerifyPayment
  <2>2. z.pc = "ask" /\ z.order = o
    BY DEF Idle
  <2> HIDE DEF z
  <2> QED BY <1>3, <2>1, <2>2
<1> QED BY <1>4, <1>5

\* A session with the same order and the same changes to flush goes on.
LEMMA SoldOn ==
    ASSUME Inv, SoldInv, NEW t \in Tx, NEW z, sess' = [sess EXCEPT ![t] = z], UNCHANGED store,
           z.order = sess[t].order, Loaded(z) => Loaded(sess[t]),
           z.pc \notin {"cancel", "release", "free"},
           z.pc \in Delivering => \/ z.dirty \in {"approved", "settled"}
                                  \/ sess[t].pc \in Delivering /\ z.dirty = sess[t].dirty,
           z.pc = "order" /\ z.op # "reject" => z.dirty = "approved",
           z.pc = "sell" => Over(ws[t], db)[C(z.config)].order = z.order
    PROVE  SoldInv'
<1>1. Knows(sess[t], Over(ws[t], db))
  BY Sold0
<1>2. Knows(z, Over(ws[t], db))
  BY <1>1 DEF Knows
<1> QED BY <1>2, SoldQuiet

\* It only goes to another statement.
LEMMA SoldGoto ==
    ASSUME Inv, SoldInv, NEW t \in Tx, NEW pc \in PCs, Goto(t, pc), UNCHANGED store,
           pc \notin {"cancel", "release", "free", "sell", "order"},
           pc \in Delivering => sess[t].pc \in Delivering,
           pc \in Ending \cup Delivered \/ Loaded(sess[t])
    PROVE  SoldInv'
<1> DEFINE z == [sess[t] EXCEPT !.pc = pc]
<1>1. sess' = [sess EXCEPT ![t] = z] /\ sess[t] \in Session
  BY Sold0 DEF Goto
<1>2. z.pc = pc /\ z.order = sess[t].order /\ z.dirty = sess[t].dirty
  BY <1>1, Gone
<1> HIDE DEF z
<1>3. Loaded(z) => Loaded(sess[t])
  BY <1>2 DEF Loaded, Delivering, Delivered, Ending
<1> QED BY <1>1, <1>2, <1>3, SoldOn

\* What a transaction settling an order looks up.
LEMMA FindSold ==
    ASSUME Inv, SoldInv, NEW t \in Tx,
           LoadCoupon(t) \/ FindSubscription(t) \/ FindReservation(t) \/ FindReferral(t)
    PROVE  SoldInv'
<1> DEFINE s == sess[t]
<1>1. s \in Session /\ UNCHANGED store
  BY Sold0 DEF LoadCoupon, FindSubscription, FindReservation, FindReferral
<1>2. CASE LoadCoupon(t)
  <2> DEFINE z == [s EXCEPT !.pc = "redeem", !.uses = Row(t, K)]
  <2>1. s.pc = "coupon" /\ sess' = [sess EXCEPT ![t] = z]
    BY <1>2 DEF LoadCoupon, At
  <2>2. z.pc = "redeem" /\ z.order = s.order /\ z.dirty = s.dirty
    BY <1>1 DEF Session
  <2> HIDE DEF z
  <2> QED BY <1>1, <2>1, <2>2, SoldOn DEF Loaded, Delivering
<1>3. CASE FindSubscription(t)
  <2> DEFINE n == Cardinality(Rows(Visible(t), "subscription", s.order))
             to == CASE n = 1 -> "reward"
                     [] n = 0 /\ Mine(t).mode = "manual" -> "stock"
                     [] n = 0 /\ Mine(t).mode = "panel"  -> "provision"
  <2>1. s.pc = "find" /\ n <= 1 /\ Goto(t, to)
    BY <1>3 DEF FindSubscription, At
  <2>2. Mine(t).mode \in {"manual", "panel"}
    <3>1. Settling(t)
      BY <2>1 DEF Settling, Delivering
    <3> QED BY <3>1, Settles, RowTypes DEF OrderType
  <2>3. n \in Nat
    BY RowsFinite
  <2> HIDE DEF n
  <2>4. to \in {"reward", "stock", "provision"}
    <3>1. CASE n = 1
      BY <3>1
    <3>2. CASE n = 0 /\ Mine(t).mode = "manual"
      BY <3>2
    <3>3. CASE n = 0 /\ Mine(t).mode = "panel"
      BY <3>3
    <3> QED BY <2>1, <2>2, <2>3, <3>1, <3>2, <3>3
  <2> HIDE DEF to
  <2> QED BY <1>1, <2>1, <2>4, SoldGoto DEF PCs, Delivering, Delivered, Loaded
<1>4. CASE FindReservation(t)
  <2>1. s.pc = "stock"
    BY <1>4 DEF FindReservation, At
  <2>2. CASE Goto(t, "restock")
    BY <1>1, <2>1, <2>2, SoldGoto DEF PCs, Delivering, Loaded
  <2>3. ASSUME NEW c \in Config, Held(t, s.order) = {c},
               sess' = [sess EXCEPT ![t].pc = "sell", ![t].config = c]
        PROVE  SoldInv'
    <3> DEFINE z == [s EXCEPT !.pc = "sell", !.config = c]
    <3>1. sess' = [sess EXCEPT ![t] = z]
      BY <2>3
    <3>2. z.pc = "sell" /\ z.order = s.order /\ z.dirty = s.dirty /\ z.config = c
      BY <1>1 DEF Session
    <3>3. Over(ws[t], db)[C(c)].order = s.order
      BY <2>3, Sold0 DEF Held
    <3> HIDE DEF z
    <3> QED BY <1>1, <2>1, <3>1, <3>2, <3>3, SoldOn DEF Loaded, Delivering
  <2> QED BY <1>4, <2>2, <2>3 DEF FindReservation
<1>5. CASE FindReferral(t)
  <2> DEFINE pc == IF Qualifies(t, Mine(t).user) THEN "credit" ELSE "commit"
  <2>1. s.pc = "reward" /\ Goto(t, pc) /\ pc \in {"credit", "commit"}
    BY <1>5 DEF FindReferral, At
  <2> HIDE DEF pc
  <2> QED BY <1>1, <2>1, SoldGoto DEF PCs, Delivering, Delivered, Ending
<1> QED BY <1>2, <1>3, <1>4, <1>5

\* The gateway answers; the order under review is loaded.
LEMMA LoadSold ==
    ASSUME Inv, SoldInv, NEW t \in Tx, AskGateway(t) \/ LoadOrder(t)
    PROVE  SoldInv'
<1> DEFINE s == sess[t]
<1>1. s \in Session /\ UNCHANGED store /\ s.pc \in {"ask", "order"} /\ Loaded(s)
  BY Sold0 DEF AskGateway, LoadOrder, At, Loaded
<1>2. CASE AskGateway(t)
  <2>1. CASE sess' = [sess EXCEPT ![t].pc = "order", ![t].dirty = "approved"]
    <3> DEFINE z == [s EXCEPT !.pc = "order", !.dirty = "approved"]
    <3>1. sess' = [sess EXCEPT ![t] = z]
      BY <2>1
    <3>2. z.pc = "order" /\ z.order = s.order /\ z.dirty = "approved"
      BY <1>1 DEF Session
    <3> HIDE DEF z
    <3> QED BY <1>1, <3>1, <3>2, SoldOn DEF Delivering
  <2>2. CASE Goto(t, "declined")
    BY <1>1, <2>2, SoldGoto DEF PCs, Delivering
  <2> QED BY <1>2, <2>1, <2>2 DEF AskGateway
<1>3. CASE LoadOrder(t)
  <2> DEFINE onPaid == IF Mine(t).coupon THEN "coupon" ELSE "find"
             dirty == IF Mine(t).status = "paid" THEN s.dirty ELSE "settled"
  <2>1. onPaid \in {"coupon", "find"}
    OBVIOUS
  <2>2. CASE /\ s.op \in {"approve", "verify"}
             /\ sess' = [sess EXCEPT ![t].pc = onPaid,
                                     ![t].dirty = IF Mine(t).status = "paid" THEN @ ELSE "settled"]
    <3> DEFINE z == [s EXCEPT !.pc = onPaid, !.dirty = dirty]
    <3>1. sess' = [sess EXCEPT ![t] = z]
      BY <2>2
    <3>2. dirty \in {"approved", "settled"}
      <4>1. s.pc = "order"
        BY <1>3 DEF LoadOrder, At
      <4>2. s.dirty = "approved"
        BY <2>2, <4>1, Sold0 DEF Knows
      <4> QED BY <4>2
    <3> HIDE DEF onPaid, dirty
    <3>3. z.pc = onPaid /\ z.order = s.order /\ z.dirty = dirty
      BY <1>1 DEF Session
    <3> HIDE DEF z
    <3> QED BY <1>1, <2>1, <3>1, <3>2, <3>3, SoldOn
  <2>3. CASE sess' = [sess EXCEPT ![t].pc = "cancel", ![t].todo = {s.order}]
    <3> DEFINE z == [s EXCEPT !.pc = "cancel", !.todo = {s.order}]
    <3>1. sess' = [sess EXCEPT ![t] = z]
      BY <2>3
    <3>2. z.pc = "cancel" /\ z.order = s.order /\ z.dirty = s.dirty /\ z.todo = {s.order}
      BY <1>1 DEF Session
    <3>3. Knows(s, Over(ws[t], db))
      BY Sold0
    <3> HIDE DEF z
    <3>4. Knows(z, Over(ws[t], db))
      BY <1>1, <3>2, <3>3 DEF Knows, Delivering
    <3> QED BY <1>1, <3>1, <3>4, SoldQuiet
  <2>4. CASE Goto(t, "commit") \/ Goto(t, "refused")
    BY <1>1, <2>4, SoldGoto DEF PCs, Delivering, Ending
  <2> QED BY <1>3, <2>2, <2>3, <2>4 DEF LoadOrder
<1> QED BY <1>2, <1>3

\* The job finds what to free and what to expire; it, or a review, turns to an order.
LEMMA TurnSold ==
    ASSUME Inv, SoldInv, NEW t \in Tx, FindExpired(t) \/ FindStale(t) \/ CancelOrder(t)
    PROVE  SoldInv'
<1> DEFINE s == sess[t]
           v == Over(ws[t], db)
<1>1. s \in Session /\ Knows(s, v) /\ UNCHANGED store
  BY Sold0 DEF FindExpired, FindStale, CancelOrder
<1> HIDE DEF v
<1>2. CASE FindExpired(t)
  <2> DEFINE todo == {c \in Config : /\ Row(t, C(c)).status = "reserved"
                                     /\ age[Row(t, C(c)).order] >= 1}
             z == [Idle EXCEPT !.op = "expire", !.pc = "free", !.via = "api", !.todo = todo]
  <2>1. sess' = [sess EXCEPT ![t] = z]
    BY <1>2 DEF FindExpired
  <2>2. \A c \in todo : v[C(c)].status = "reserved"
    BY Sold0 DEF v
  <2> HIDE DEF todo
  <2>3. z.pc = "free" /\ z.dirty = "no" /\ z.todo = todo
    BY DEF Idle
  <2> HIDE DEF z
  <2>4. Knows(z, v)
    BY <2>2, <2>3 DEF Knows, Loaded, Delivering
  <2> QED BY <1>1, <2>1, <2>4, SoldQuiet DEF v
<1>3. CASE FindStale(t)
  <2> DEFINE pc == IF Stale(t) = {} THEN "commit" ELSE "cancel"
             z == [s EXCEPT !.pc = pc, !.todo = Stale(t)]
  <2>1. s.pc = "stale" /\ sess' = [sess EXCEPT ![t] = z] /\ pc \in {"commit", "cancel"}
    BY <1>3 DEF FindStale, At
  <2>2. s.dirty = "no"
    BY <2>1, Cancelling
  <2>3. \A o \in Stale(t) : ~Done(v, o)
    BY Sold0 DEF Stale, Done, v
  <2> HIDE DEF pc
  <2>4. z.pc = pc /\ z.dirty = "no" /\ z.todo = Stale(t)
    BY <1>1, <2>2 DEF Session
  <2> HIDE DEF z
  <2>5. Knows(z, v)
    BY <2>1, <2>3, <2>4 DEF Knows, Loaded, Delivering
  <2> QED BY <1>1, <2>1, <2>5, SoldQuiet DEF v
<1>4. CASE CancelOrder(t)
  <2>1. PICK o \in s.todo, c \in Config \cup {None} :
           /\ s.pc = "cancel" /\ Held(t, o) = IF c = None THEN {} ELSE {c}
           /\ sess' = [sess EXCEPT ![t].pc = "release", ![t].order = o, ![t].config = c,
                                   ![t].todo = @ \ {o}]
    BY <1>4 DEF CancelOrder, At
  <2> DEFINE z == [s EXCEPT !.pc = "release", !.order = o, !.config = c, !.todo = s.todo \ {o}]
  <2>2. sess' = [sess EXCEPT ![t] = z]
    BY <2>1
  <2>3. z.pc = "release" /\ z.order = o /\ z.config = c /\ z.todo = s.todo \ {o}
    BY <1>1 DEF Session
  <2>4. c # None => v[C(c)].order = o
    BY <2>1, Sold0 DEF Held, v
  <2> HIDE DEF z
  <2>5. Knows(z, v)
    BY <1>1, <2>1, <2>3, <2>4 DEF Knows, Loaded, Delivering
  <2> QED BY <1>1, <2>2, <2>5, SoldQuiet DEF v
<1> QED BY <1>2, <1>3, <1>4
-----------------------------------------------------------------------------
\* A row of a payment, while the order is not delivered; rows of the other tables.
LEMMA ModestRows ==
    ASSUME NEW v, NEW f
    PROVE  /\ \A o \in Order : DOMAIN f = {P(o)} /\ ~Done(v, o) => Modest(f, v)
           /\ (\A r \in DOMAIN f : r[1] \notin {"order", "payment", "subscription", "config"}) => Modest(f, v)
  BY Keys DEF Modest, Subs

\* The session writes and goes on.
LEMMA SoldOnWrite ==
    ASSUME Inv, SoldInv, NEW t \in Tx, NEW z, NEW f, sess' = [sess EXCEPT ![t] = z], Write(t, f),
           Modest(f, Over(ws[t], db)), z.order = sess[t].order,
           \/ z.pc \in {"commit", "refused", "stale"} /\ z.dirty = sess[t].dirty
           \/ z.pc \in Delivering /\ z.pc # "sell" /\ z.dirty = "settled" /\ Loaded(sess[t])
    PROVE  SoldInv'
<1> DEFINE v == Over(ws[t], db)
           w == Over(Over(f, ws[t]), db)
<1>1. Knows(sess[t], v)
  BY Sold0
<1>2. \A o \in Order : ~Done(v, o) => ~Done(w, o)
  BY Sold0, ModestWrite
<1>3. Loaded(sess[t]) => sess[t].order \in Order
  BY LoadedHere
<1>4. Loaded(z) => Loaded(sess[t])
  BY DEF Loaded, Delivering
<1> HIDE DEF v, w
<1>5. Knows(z, w)
  BY <1>1, <1>2, <1>3, <1>4 DEF Knows, Delivering
<1> QED BY <1>5, SoldWrite DEF w

\* A payment is requested or declined, the wallet charged.
LEMMA PaySold ==
    ASSUME Inv, SoldInv, NEW t \in Tx, RequestGateway(t) \/ Declined(t) \/ PayWithWallet(t)
    PROVE  SoldInv'
<1> DEFINE s == sess[t]
           o == sess[t].order
           v == Over(ws[t], db)
<1>1. s \in Session /\ Knows(s, v) /\ Loaded(s) /\ o \in Order /\ ~Done(v, o)
  <2>1. s.pc \in {"gateway", "declined", "wallet"}
    BY DEF RequestGateway, Declined, PayWithWallet, At
  <2>2. Loaded(s)
    BY <2>1 DEF Loaded
  <2> QED BY <2>2, Sold0, LoadedHere DEF Knows
<1> HIDE DEF v
<1>2. \A pc : LET z == [s EXCEPT !.pc = pc]
              IN z.pc = pc /\ z.order = o /\ z.dirty = s.dirty
  BY <1>1 DEF Session
<1>3. ASSUME NEW f, DOMAIN f = {P(o)} \/ \A r \in DOMAIN f : r[1] = "wallet", Write(t, f),
             NEW pc \in {"commit", "refused"}, Goto(t, pc)
      PROVE  SoldInv'
  <2>1. Modest(f, v)
    BY <1>1, <1>3, ModestRows
  <2> DEFINE z == [s EXCEPT !.pc = pc]
  <2>2. sess' = [sess EXCEPT ![t] = z] /\ z.pc = pc /\ z.order = o /\ z.dirty = s.dirty
    BY <1>2, <1>3 DEF Goto
  <2> HIDE DEF z
  <2> QED BY <1>3, <2>1, <2>2, SoldOnWrite DEF v
<1>4. \A r, row : DOMAIN Is(r, row) = {r}
  BY DEF Is
<1>5. CASE RequestGateway(t)
  <2>1. PICK ok \in BOOLEAN :
           /\ Write(t, Is(P(o), [method |-> "gateway", status |-> "pending", authority |-> ok]))
           /\ Goto(t, IF ok THEN "commit" ELSE "refused")
    BY <1>5 DEF RequestGateway
  <2> QED BY <1>3, <1>4, <2>1
<1>6. CASE Declined(t)
  <2>1. Goto(t, "commit")
    BY <1>6 DEF Declined
  <2>2. CASE UNCHANGED store
    BY <1>1, <2>1, <2>2, SoldGoto DEF PCs, Delivering, Ending
  <2>3. CASE Write(t, Is(P(o), [Row(t, P(o)) EXCEPT !.status = "failed"]))
    BY <1>3, <1>4, <2>1, <2>3
  <2> QED BY <1>6, <2>2, <2>3 DEF Declined
<1>7. CASE PayWithWallet(t)
  <2> DEFINE due == FinalPrice(Mine(t))
             w == W(Mine(t).user)
  <2>1. \A row : \A r \in DOMAIN Is(w, row) : r[1] = "wallet"
    <3>1. w[1] = "wallet"
      BY Keys
    <3> HIDE DEF w
    <3> QED BY <1>4, <3>1
  <2>2. CASE Goto(t, "refused") /\ UNCHANGED store
    BY <1>1, <2>2, SoldGoto DEF PCs, Delivering, Ending
  <2>3. CASE LockRow(t, w) /\ Goto(t, "refused")
    BY <1>3, <2>1, <2>3 DEF LockRow
  <2>4. ASSUME Debit(t, w, due), NEW pc \in {"redeem", "find"},
               sess' = [sess EXCEPT ![t].dirty = "settled", ![t].pc = pc]
        PROVE  SoldInv'
    <3> DEFINE z == [s EXCEPT !.dirty = "settled", !.pc = pc]
               f == Is(w, Row(t, w) - due)
    <3>1. sess' = [sess EXCEPT ![t] = z] /\ z.pc = pc /\ z.order = o /\ z.dirty = "settled"
      BY <1>1, <2>4 DEF Session
    <3>2. Modest(f, v) /\ Write(t, f)
      <4>1. \A r \in DOMAIN f : r[1] \notin {"order", "payment", "subscription", "config"}
        BY <2>1
      <4> HIDE DEF f
      <4>2. Modest(f, v)
        BY <4>1, ModestRows
      <4> QED BY <2>4, <4>2 DEF Debit, f
    <3> HIDE DEF z, f
    <3> QED BY <1>1, <3>1, <3>2, SoldOnWrite DEF Delivering, v
  <2>5. \/ Goto(t, "refused") /\ UNCHANGED store
        \/ LockRow(t, w) /\ Goto(t, "refused")
        \/ \E pc \in {"redeem", "find"} :
              Debit(t, w, due) /\ sess' = [sess EXCEPT ![t].dirty = "settled", ![t].pc = pc]
    BY <1>7 DEF PayWithWallet
  <2> HIDE DEF w, due
  <2> QED BY <2>2, <2>3, <2>4, <2>5
<1> QED BY <1>5, <1>6, <1>7

\* The job frees the configs it has found reserved.
LEMMA FreeSold ==
    ASSUME Inv, SoldInv, NEW t \in Tx, FreeExpired(t)
    PROVE  SoldInv'
<1> DEFINE s == sess[t]
           v == Over(ws[t], db)
           row == [status |-> "available", order |-> None]
           f == [r \in {C(c) : c \in s.todo} |-> row]
           z == [s EXCEPT !.pc = "stale"]
<1>1. s.pc = "free" /\ Write(t, f) /\ sess' = [sess EXCEPT ![t] = z] /\ s \in Session /\ Knows(s, v)
  BY Sold0 DEF FreeExpired, Goto, At
<1>2. z.pc = "stale" /\ z.order = s.order /\ z.dirty = s.dirty
  BY <1>1 DEF Session
<1>3. \A r \in DOMAIN f : \E c \in s.todo : r = C(c) /\ v[r].status = "reserved" /\ f[r].status = "available"
  BY <1>1 DEF Knows
<1> HIDE DEF f, v, z
<1>4. Modest(f, v)
  <2>1. \A r \in DOMAIN f : r[1] = "config" /\ v[r].status = "reserved" /\ f[r].status = "available"
    BY <1>3, Keys
  <2> QED BY <2>1, Keys DEF Modest, Subs
<1> QED BY <1>1, <1>2, <1>4, SoldOnWrite DEF v

\* The receipt of a transfer is received; an order is created.
LEMMA CreateSold ==
    ASSUME Inv, SoldInv, NEW t \in Tx,
           \/ \E u \in Customer : ReceiveReceipt(t, u)
           \/ Buy(t)
    PROVE  SoldInv'
<1> DEFINE v == Over(ws[t], db)
<1>1. Settled(v) /\ \A r : Exists(t, r) <=> r \in DOMAIN v
  BY Sold0
<1>2. ASSUME NEW u \in Customer, ReceiveReceipt(t, u)
      PROVE  SoldInv'
  <2> DEFINE o == fsm[u]
             f == Is(P(o), [method |-> "card", status |-> "pending", authority |-> FALSE])
             z == [Idle EXCEPT !.op = "receipt", !.pc = "commit", !.order = o]
  <2>1. /\ Write(t, f) /\ sess' = [sess EXCEPT ![t] = z]
        /\ o # None /\ ~Exists(t, P(o))
    BY <1>2 DEF ReceiveReceipt
  <2>2. o \in Order
    <3>1. u \in User /\ fsm \in [User -> Order \cup {None}]
      BY OfferAssumption DEF Inv, Types
    <3> QED BY <2>1, <3>1
  <2>3. ~Done(v, o)
    BY <1>1, <2>1, <2>2 DEF Settled, PaidFor
  <2>4. DOMAIN f = {P(o)} /\ z.pc = "commit" /\ z.dirty = "no"
    BY DEF Is, Idle
  <2> HIDE DEF f, z, v
  <2>5. Modest(f, v)
    BY <2>2, <2>3, <2>4, ModestRows
  <2>6. Knows(z, Over(Over(f, ws[t]), db))
    BY <2>4 DEF Knows, Loaded, Delivering
  <2> QED BY <2>1, <2>5, <2>6, SoldWrite DEF v
<1>3. ASSUME NEW u \in Customer, NEW method \in Method, NEW offer \in Offer,
             NEW renew \in ({"subscription"} \X Order \X Copy) \cup {None},
             CreateOrder(t, u, method, offer[1], offer[2], renew)
      PROVE  SoldInv'
  <2> DEFINE o == issued + 1
             row == [user |-> u, mode |-> offer[1], coupon |-> offer[2], renew |-> renew,
                     status |-> IF offer[1] = "manual" THEN "pending" ELSE "awaiting_payment"]
             f == Is(O(o), row)
             pc == IF offer[1] = "manual" THEN "reserve" ELSE method
             z == [Idle EXCEPT !.op = method, !.order = o, !.uses = Row(t, K), !.pc = pc]
             w == Over(Over(f, ws[t]), db)
  <2>1. o \in Order /\ Write(t, f) /\ sess' = [sess EXCEPT ![t] = z]
    BY <1>3 DEF CreateOrder, Begin
  <2>2. ~Exists(t, O(o))
    <3>1. issued \in Nat /\ o > issued
      BY DEF Inv, Types
    <3> QED BY <2>1, <3>1 DEF Inv, Fresh, Exists
  <2> HIDE DEF o
  <2>3. pc \in {"reserve"} \cup Method
    BY DEF Method
  <2>4. z.pc = pc /\ z.order = o /\ z.dirty = "no" /\ z.op = method
    BY DEF Idle
  <2>5. DOMAIN f = {O(o)} /\ f[O(o)].status # "delivered"
    BY DEF Is
  <2> HIDE DEF z, pc, f
  <2>6. ~Done(v, o)
    BY <1>1, <2>2 DEF Done
  <2> HIDE DEF v
  <2>7. Modest(f, v)
    BY <2>1, <2>5, <2>6, Keys DEF Modest, Subs
  <2>8. ~Done(w, o)
    BY <2>5 DEF Done, Over
  <2> HIDE DEF w
  <2>9. Knows(z, w)
    BY <2>3, <2>4, <2>8 DEF Knows, Loaded, Delivering, Method
  <2> QED BY <2>1, <2>7, <2>9, SoldWrite DEF v, w
<1> QED BY <1>2, <1>3 DEF Buy, Method

-----------------------------------------------------------------------------
\* The session flushes, writes and goes on.
LEMMA SoldOnFlush ==
    ASSUME Inv, SoldInv, NEW t \in Tx, NEW z, NEW f, sess' = [sess EXCEPT ![t] = z], Flush(t, f),
           Modest(f, Over(Pending(t), db)), z.order = sess[t].order, z.dirty = "no",
           \/ z.pc \in {"commit"} \cup Method /\ (z.pc \in Method => Loaded(sess[t]))
           \/ /\ z.pc \in {"find", "sell"} /\ sess[t].pc \in Delivering
              /\ P(z.order) \notin DOMAIN f
              /\ z.pc = "sell" => C(z.config) \in DOMAIN f /\ f[C(z.config)].order = z.order
    PROVE  SoldInv'
<1> DEFINE o == sess[t].order
           v == Over(ws[t], db)
           p == Over(Pending(t), db)
           w == Over(f, p)
<1>1. Knows(sess[t], v) /\ \A c \in Config : C(c) \in DOMAIN db
  BY Sold0
<1>2. /\ \A q \in Order : ~Done(v, q) => ~Done(p, q)
      /\ Settled(p) /\ Writes(Pending(t), db)
      /\ sess[t].pc \in Delivering => PaidFor(p, o)
  BY PendingSold
<1>3. Over(Over(f, Pending(t)), db) = w
  BY OverAssoc
<1>4. \A q \in Order : ~Done(p, q) => ~Done(w, q)
  BY <1>1, <1>2, <1>3, ModestWrite
<1>5. Loaded(sess[t]) => o \in Order
  BY LoadedHere
<1>6. Loaded(z) => Loaded(sess[t])
  BY DEF Loaded, Delivering, Method
<1>7. Loaded(z) => ~Done(w, o)
  BY <1>1, <1>2, <1>4, <1>5, <1>6 DEF Knows
<1>8. z.pc \in Delivering => PaidFor(w, o)
  <2> SUFFICES ASSUME z.pc \in Delivering PROVE PaidFor(w, o)
    OBVIOUS
  <2>1. sess[t].pc \in Delivering /\ P(o) \notin DOMAIN f
    BY DEF Delivering, Method
  <2> HIDE DEF p
  <2> QED BY <1>2, <2>1 DEF PaidFor, Over
<1>9. z.pc = "sell" => w[C(z.config)].order = o
  BY DEF Method, Over
<1> HIDE DEF w
<1>10. Knows(z, w)
  BY <1>7, <1>8, <1>9 DEF Knows, Method
<1> QED BY <1>3, <1>10, SoldFlush

\* The coupon is redeemed, the referrer rewarded, the session flushed.
LEMMA FlushSold ==
    ASSUME Inv, SoldInv, NEW t \in Tx, RedeemCoupon(t) \/ RewardReferrer(t) \/ FlushAtCommit(t)
    PROVE  SoldInv'
<1> DEFINE s == sess[t]
           o == sess[t].order
<1>1. s \in Session
  BY Sold0
<1>2. \A pc : LET z == [s EXCEPT !.pc = pc, !.dirty = "no"]
              IN z.pc = pc /\ z.order = o /\ z.dirty = "no"
  BY <1>1 DEF Session
<1>3. ASSUME NEW f, \A r \in DOMAIN f : r[1] \notin {"order", "payment", "subscription", "config"},
             Flush(t, f), NEW pc \in {"find", "commit"}, Flushed(t, pc),
             pc = "find" => s.pc \in Delivering
      PROVE  SoldInv'
  <2> DEFINE z == [s EXCEPT !.pc = pc, !.dirty = "no"]
  <2>1. sess' = [sess EXCEPT ![t] = z] /\ z.pc = pc /\ z.order = o /\ z.dirty = "no"
    BY <1>2, <1>3 DEF Flushed
  <2>2. Modest(f, Over(Pending(t), db)) /\ P(o) \notin DOMAIN f
    BY <1>3, ModestRows, Keys
  <2> HIDE DEF z
  <2> QED BY <1>3, <2>1, <2>2, SoldOnFlush DEF Method
<1>4. CASE RedeemCoupon(t)
  <2> DEFINE k == NewKey("redemption", o)
             f == Over(Is(K, s.uses + 1), Is(k, Mine(t).user))
  <2>1. s.pc = "redeem" /\ Flush(t, f) /\ Flushed(t, "find") /\ Room("redemption", o)
    BY <1>4 DEF RedeemCoupon, At
  <2>2. k[1] = "redemption"
    BY <2>1, NewKeys
  <2>3. DOMAIN f = {K, k}
    BY DEF Over, Is
  <2> HIDE DEF f, k
  <2>4. \A r \in DOMAIN f : r[1] \in {"coupon", "redemption"}
    BY <2>2, <2>3, Keys
  <2> QED BY <1>3, <2>1, <2>4 DEF Delivering
<1>5. CASE RewardReferrer(t)
  <2> DEFINE u == Mine(t).user
             w == W(Referrer[u])
             k == NewKey("reward", u)
             f == Rewarded(t, u)
  <2>1. Flush(t, f) /\ Flushed(t, "commit")
    BY <1>5 DEF RewardReferrer
  <2>2. (\E i \in Copy : k = Rew(u, i)) /\ DOMAIN f = IF Reward = 0 THEN {R(u)} ELSE {R(u), w, k}
    BY <1>5, RewardRows
  <2> HIDE DEF f, k
  <2>3. \A r \in DOMAIN f : r[1] \in {"referral", "wallet", "reward"}
    BY <2>2, Keys
  <2> QED BY <1>3, <2>1, <2>3
<1>6. CASE FlushAtCommit(t)
  <2>1. Flush(t, NoRows) /\ Flushed(t, "commit")
    BY <1>6 DEF FlushAtCommit
  <2> QED BY <1>3, <2>1, Nothing
<1> QED BY <1>4, <1>5, <1>6

\* A config is reserved.
LEMMA ReserveSold ==
    ASSUME Inv, SoldInv, NEW t \in Tx, Reserve(t)
    PROVE  SoldInv'
<1> DEFINE s == sess[t]
           o == sess[t].order
           c == FirstOf(Stock(t))
           held == Is(C(c), [status |-> "reserved", order |-> o])
           row == [Mine(t) EXCEPT !.status = "awaiting_payment"]
           v == Over(ws[t], db)
           p == Over(Pending(t), db)
<1>1. s \in Session /\ Knows(s, v) /\ s.pc \in {"reserve", "restock"} /\ Loaded(s)
  BY Sold0 DEF Reserve, At, Loaded, Delivering
<1>2. o \in Order /\ ~Done(v, o)
  BY <1>1, LoadedHere DEF Knows
<1>3. ~Done(p, o)
  BY <1>2, PendingSold
<1>4. Stock(t) # {} => c \in Config /\ p[C(c)].status = "available"
  <2> SUFFICES ASSUME Stock(t) # {} PROVE c \in Config /\ p[C(c)].status = "available"
    OBVIOUS
  <2>1. c \in Stock(t)
    BY FirstIn DEF Stock
  <2> HIDE DEF c
  <2>2. c \in Config /\ v[C(c)].status = "available" /\ C(c) \in DOMAIN v
    BY <2>1, Sold0 DEF Stock, Over
  <2>3. C(c) # O(o) /\ C(c) # P(o)
    BY Keys
  <2>4. \A r \in DOMAIN v : r # O(o) /\ r # P(o) => p[r] = v[r]
    BY PendingSold
  <2> QED BY <2>2, <2>3, <2>4
<1>5. DOMAIN held = {C(c)} /\ held[C(c)].order = o /\ held[C(c)].status = "reserved"
  BY DEF Is
<1> HIDE DEF c, held, p, v
<1>6. CASE s.pc = "reserve" /\ Stock(t) # {} /\ Flush(t, Over(held, Is(O(o), row))) /\ Flushed(t, s.op)
  <2> DEFINE f == Over(held, Is(O(o), row))
             z == [s EXCEPT !.pc = s.op, !.dirty = "no"]
  <2>1. sess' = [sess EXCEPT ![t] = z]
    BY <1>6 DEF Flushed
  <2>2. z.pc = s.op /\ z.order = o /\ z.dirty = "no"
    BY <1>1 DEF Session
  <2>3. row.status = "awaiting_payment" /\ s.op \in Method
    <3>1. Mine(t) \in OrderType /\ s.op \in Method
      BY <1>6, Buys
    <3> QED BY <3>1, RowTypes DEF OrderType
  <2> HIDE DEF row, z
  <2>4. DOMAIN f = {C(c), O(o)} /\ f[C(c)].status = "reserved" /\ f[O(o)] = row
    BY <1>5, Keys DEF Over, Is
  <2> HIDE DEF f
  <2>5. Modest(f, p)
    BY <1>3, <1>4, <1>6, <2>3, <2>4, Keys DEF Modest, Subs
  <2> QED BY <1>1, <1>6, <2>1, <2>2, <2>3, <2>5, SoldOnFlush DEF p, f
<1>7. CASE s.pc = "restock" /\ Stock(t) # {} /\ Flush(t, held)
           /\ sess' = [sess EXCEPT ![t].pc = "sell", ![t].config = c, ![t].dirty = "no"]
  <2> DEFINE z == [s EXCEPT !.pc = "sell", !.config = c, !.dirty = "no"]
  <2>1. sess' = [sess EXCEPT ![t] = z]
    BY <1>7
  <2>2. z.pc = "sell" /\ z.order = o /\ z.dirty = "no" /\ z.config = c
    BY <1>1 DEF Session
  <2> HIDE DEF z
  <2>3. Modest(held, p) /\ P(o) \notin DOMAIN held
    BY <1>3, <1>4, <1>5, <1>7, Keys DEF Modest, Subs
  <2> QED BY <1>5, <1>7, <2>1, <2>2, <2>3, SoldOnFlush DEF p, Delivering
<1>8. CASE Goto(t, "refused") /\ UNCHANGED store
  BY <1>1, <1>8, SoldGoto DEF PCs, Delivering, Ending
<1> QED BY <1>6, <1>7, <1>8 DEF Reserve, At, c, held

\* A config is freed and its order closed.
LEMMA ReleaseSold ==
    ASSUME Inv, SoldInv, NEW t \in Tx, ReleaseConfig(t)
    PROVE  SoldInv'
<1> DEFINE s == sess[t]
           o == sess[t].order
           g == Freed(t, s.config)
           row == [Mine(t) EXCEPT !.status = IF s.op = "expire" THEN "expired" ELSE "cancelled"]
           f == Over(g, Is(O(o), row))
           pc == IF s.todo = {} THEN "commit" ELSE "cancel"
           z == [s EXCEPT !.pc = pc, !.dirty = "no"]
           v == Over(ws[t], db)
           p == Over(Pending(t), db)
           w == Over(f, p)
<1>1. s.pc = "release" /\ Flush(t, f) /\ sess' = [sess EXCEPT ![t] = z]
  BY ZenonT(30) DEF ReleaseConfig, Flushed, At
<1>2. s \in Session /\ Knows(s, v) /\ \A e \in Config : C(e) \in DOMAIN db
  BY Sold0
<1>3. z.pc = pc /\ z.order = o /\ z.dirty = "no" /\ pc \in {"commit", "cancel"} /\ z.todo = s.todo
  BY <1>2 DEF Session
<1> HIDE DEF z, pc
<1>4. row.status # "delivered"
  <2>1. Mine(t) \in OrderType
    BY <1>1, OwnOrder DEF At
  <2> QED BY <2>1, RowTypes DEF OrderType
<1> HIDE DEF row
<1>5. o \in Order /\ ~Done(v, o) /\ \A q \in s.todo : ~Done(v, q)
  BY <1>1, <1>2, LoadedHere DEF Loaded, Knows
<1>6. /\ \A q \in Order : ~Done(v, q) => ~Done(p, q)
      /\ \A r \in DOMAIN v : r # O(o) /\ r # P(o) => p[r] = v[r]
      /\ Settled(p) /\ Writes(Pending(t), db)
  BY PendingSold
<1>7. \A r \in DOMAIN g : r = C(s.config) /\ s.config \in Config /\ g[r].status = "available" /\ p[r].status # "sold"
  <2>1. CASE s.config = None
    BY <2>1, Nothing DEF Freed
  <2>2. CASE s.config # None
    <3>1. g = Is(C(s.config), [status |-> "available", order |-> None])
      BY <2>2 DEF Freed
    <3>2. s.config \in Config
      BY <1>2, <2>2 DEF Session
    <3>3. v[C(s.config)].order = o
      BY <1>1, <1>2, <2>2 DEF Knows
    <3>4. v[C(s.config)].status = "reserved" /\ C(s.config) \in DOMAIN v
      <4>1. o # None
        BY <1>5, IdAssumption
      <4>2. Row(t, C(s.config)) = v[C(s.config)] /\ Row(t, C(s.config)).status = "reserved"
        BY <3>2, <3>3, <4>1, Sold0
      <4> QED BY <1>2, <3>2, <4>2 DEF Over
    <3>5. C(s.config) # O(o) /\ C(s.config) # P(o)
      BY Keys
    <3>6. p[C(s.config)].status = "reserved"
      BY <1>6, <3>4, <3>5
    <3> HIDE DEF g
    <3> QED BY <3>1, <3>2, <3>6 DEF Is
  <2> QED BY <2>1, <2>2
<1> HIDE DEF g
<1>8. /\ DOMAIN f = DOMAIN g \cup {O(o)} /\ \A r \in DOMAIN g : f[r] = g[r]
      /\ O(o) \notin DOMAIN g /\ f[O(o)] = row
  BY <1>7, Keys DEF Over, Is
<1> HIDE DEF f, p, v
<1>9. Modest(f, p)
  BY <1>4, <1>5, <1>6, <1>7, <1>8, Keys DEF Modest, Subs
<1>10. Over(Over(f, Pending(t)), db) = w
  BY OverAssoc DEF p
<1>11. \A q \in Order : ~Done(p, q) => ~Done(w, q)
  BY <1>2, <1>6, <1>9, <1>10, ModestWrite DEF p
<1>12. s.todo \subseteq Order
  <2>1. \A q \in s.todo : Open(db, q)
    BY <1>1, Here DEF Aware
  <2> QED BY <2>1 DEF Open
<1> HIDE DEF w
<1>13. Knows(z, w)
  BY <1>3, <1>5, <1>6, <1>11, <1>12 DEF Knows, Loaded, Delivering
<1> QED BY <1>1, <1>9, <1>10, <1>13, SoldFlush DEF p

-----------------------------------------------------------------------------
\* The subscriptions of a delivery: the new one, and the renewed one with its config.
LEMMA DeliverySubs ==
    ASSUME Inv, NEW t \in Tx, NEW config \in Config \cup {None},
           sess[t].pc \in {"sell", "provision"}, Room("subscription", sess[t].order)
    PROVE  LET o == sess[t].order
               k == NewKey("subscription", o)
               f == Delivery(t, config)
           IN /\ f[k].config = config
              /\ \A r \in DOMAIN f : r # O(o) /\ r # k => Exists(t, r) /\ f[r].config = Row(t, r).config
<1> DEFINE o == sess[t].order
           k == NewKey("subscription", o)
           old == {Mine(t).renew} \ {None}
           olds == [r \in old |-> [Row(t, r) EXCEPT !.active = FALSE]]
           new == [config |-> config, active |-> TRUE]
           row == [Mine(t) EXCEPT !.status = "delivered"]
           f == Delivery(t, config)
<1>1. f = Over(Is(k, new), Over(olds, Is(O(o), row)))
  BY DEF Delivery
<1> HIDE DEF old, row
<1>2. f[k] = new /\ DOMAIN f = {k} \cup old \cup {O(o)}
  BY <1>1 DEF Over, Is
<1>3. \A r \in old : r # k => f[r] = [Row(t, r) EXCEPT !.active = FALSE]
  BY <1>1 DEF Over, Is
<1>4. ASSUME NEW r \in DOMAIN f, r # O(o), r # k
      PROVE  Exists(t, r) /\ f[r].config = Row(t, r).config
  <2>1. /\ r \in old
        /\ \E q \in Order, i \in Copy : r = S(q, i) /\ r \in DOMAIN ws[t] \cup DOMAIN db
    <3>1. \A a \in DOMAIN f : a # O(o) =>
             \E q \in Order, i \in Copy : a = S(q, i) /\ (a \in DOMAIN ws[t] \cup DOMAIN db \/ a = k)
      BY DeliveryRows
    <3> HIDE DEF f, k
    <3> QED BY <1>2, <1>4, <3>1
  <2>2. Exists(t, r) /\ Row(t, r) \in RowType["subscription"]
    BY <2>1, Seen, Keys DEF Exists
  <2>3. \A sub \in [config : Config \cup {None}, active : BOOLEAN] :
           [sub EXCEPT !.active = FALSE].config = sub.config
    OBVIOUS
  <2>4. [Row(t, r) EXCEPT !.active = FALSE].config = Row(t, r).config
    BY <2>2, <2>3, RowTypes
  <2> QED BY <1>3, <1>4, <2>1, <2>2, <2>4
<1> QED BY <1>2, <1>4

\* The order is delivered, with config e, or with an account if e is None.
LEMMA Sell ==
    ASSUME Inv, SoldInv, NEW t \in Tx, NEW e \in Config \cup {None}, sess[t].pc \in {"sell", "provision"},
           Room("subscription", sess[t].order), NEW g, Flush(t, Over(g, Delivery(t, e))), Flushed(t, "reward"),
           e = None => g = NoRows,
           e # None => /\ sess[t].pc = "sell" /\ e = sess[t].config
                       /\ g = Is(C(e), [status |-> "sold", order |-> None])
    PROVE  SoldInv'
<1> DEFINE s == sess[t]
           o == sess[t].order
           z == [s EXCEPT !.pc = "reward", !.dirty = "no"]
           k == NewKey("subscription", o)
           h == Delivery(t, e)
           f == Over(g, h)
           v == Over(ws[t], db)
           x == Pending(t)
           p == Over(x, db)
<1>1. /\ s \in Session /\ Knows(s, v) /\ sess' = [sess EXCEPT ![t] = z]
      /\ \A c \in Config : C(c) \in DOMAIN db
  BY Sold0 DEF Flushed
<1>2. z.pc = "reward" /\ z.order = o /\ z.dirty = "no"
  BY <1>1 DEF Session
<1> HIDE DEF z
<1>3. s.pc \in Delivering /\ o \in Order /\ ~Done(v, o)
  BY <1>1, LoadedHere DEF Loaded, Delivering, Knows
<1>4. /\ Settled(p) /\ Writes(x, db) /\ ~Done(p, o) /\ PaidFor(p, o)
      /\ \A r : r # O(o) /\ r # P(o) => (r \in DOMAIN p <=> r \in DOMAIN v)
      /\ \A r \in DOMAIN v : r # O(o) /\ r # P(o) => p[r] = v[r]
  BY <1>3, PendingSold
<1>5. PICK i \in Copy : k = S(o, i)
  BY NewKeys DEF S
<1>6. /\ k[1] = "subscription" /\ k[2] = o /\ k # O(o) /\ k # P(o)
      /\ k \notin DOMAIN p /\ k \notin DOMAIN db
  <2>1. k[1] = "subscription" /\ k[2] = o
    BY <1>5 DEF S
  <2>2. k \notin Taken
    BY NewKeys
  <2>3. k \notin DOMAIN v /\ k \notin DOMAIN db
    BY <2>2 DEF Taken, Over
  <2> QED BY <1>4, <2>1, <2>3, Keys
<1>7. /\ O(o) \in DOMAIN h /\ h[O(o)].status = "delivered"
      /\ k \in DOMAIN h /\ h[k].config = e
      /\ \A r \in DOMAIN h : r # O(o) => r[1] = "subscription"
      /\ \A r \in DOMAIN h : r # O(o) /\ r # k => r \in DOMAIN v /\ h[r].config = v[r].config
  <2>1. /\ O(o) \in DOMAIN h /\ h[O(o)] = [Mine(t) EXCEPT !.status = "delivered"]
        /\ k \in DOMAIN h
        /\ \A r \in DOMAIN h : r # O(o) => \E q \in Order, j \in Copy : r = S(q, j)
    BY DeliveryRows
  <2>2. [Mine(t) EXCEPT !.status = "delivered"].status = "delivered"
    <3>1. Mine(t) \in OrderType
      BY <1>3, Settles DEF Settling
    <3> QED BY <3>1, RowTypes DEF OrderType
  <2>3. /\ h[k].config = e
        /\ \A r \in DOMAIN h : r # O(o) /\ r # k => Exists(t, r) /\ h[r].config = Row(t, r).config
    BY DeliverySubs
  <2>4. \A r : Exists(t, r) => r \in DOMAIN v /\ Row(t, r) = v[r]
    BY Sold0
  <2>5. \A r \in DOMAIN h : r # O(o) => r[1] = "subscription"
    BY <2>1, Keys
  <2> HIDE DEF h, v
  <2> QED BY <2>1, <2>2, <2>3, <2>4, <2>5
<1>8. \A r \in DOMAIN g : r = C(e) /\ e # None
  <2>1. CASE e = None
    BY <2>1, Nothing
  <2>2. CASE e # None
    BY <2>2 DEF Is
  <2> QED BY <2>1, <2>2
<1>9. e \in Config => C(e) \in DOMAIN g /\ g[C(e)].status = "sold" /\ p[C(e)].status # "sold"
  <2> SUFFICES ASSUME e \in Config
               PROVE  C(e) \in DOMAIN g /\ g[C(e)].status = "sold" /\ p[C(e)].status # "sold"
    OBVIOUS
  <2>1. e # None /\ o # None
    BY <1>3, IdAssumption
  <2>2. v[C(e)].order = o /\ C(e) \in DOMAIN v
    BY <1>1, <2>1 DEF Knows, Over
  <2>3. v[C(e)].status = "reserved"
    <3>1. Row(t, C(e)) = v[C(e)] /\ (Row(t, C(e)).status = "reserved" <=> Row(t, C(e)).order # None)
      BY Sold0
    <3> QED BY <2>1, <2>2, <3>1
  <2>4. C(e) # O(o) /\ C(e) # P(o)
    BY Keys
  <2>5. p[C(e)].status = "reserved"
    BY <1>4, <2>2, <2>3, <2>4
  <2> QED BY <2>1, <2>5 DEF Is
<1> HIDE DEF h, k, v, p, x
<1>10. /\ DOMAIN f = DOMAIN g \cup DOMAIN h
       /\ \A r \in DOMAIN g : f[r] = g[r]
       /\ \A r \in DOMAIN h : f[r] = h[r]
  <2>1. \A r \in DOMAIN h : r \notin DOMAIN g
    BY <1>7, <1>8, Keys
  <2> QED BY <2>1 DEF Over
<1> HIDE DEF f
<1>11. /\ O(o) \in DOMAIN f /\ f[O(o)].status = "delivered" /\ P(o) \notin DOMAIN f
       /\ \A q \in Order \ {o} : O(q) \notin DOMAIN f /\ P(q) \notin DOMAIN f
       /\ e \in Config => C(e) \in DOMAIN f /\ f[C(e)].status = "sold"
       /\ \A c \in Config \ {e} : C(c) \notin DOMAIN f
  <2>1. \A r \in DOMAIN f : r = O(o) \/ r[1] = "subscription" \/ (r = C(e) /\ e # None)
    BY <1>7, <1>8, <1>10
  <2>2. O(o) \in DOMAIN f /\ f[O(o)].status = "delivered"
    BY <1>7, <1>10
  <2>3. e \in Config => C(e) \in DOMAIN f /\ f[C(e)].status = "sold"
    BY <1>9, <1>10
  <2>4. P(o) \notin DOMAIN f /\ \A q \in Order \ {o} : O(q) \notin DOMAIN f /\ P(q) \notin DOMAIN f
    BY <2>1, Keys
  <2>5. \A c \in Config \ {e} : C(c) \notin DOMAIN f
    BY <2>1, Keys
  <2> QED BY <2>2, <2>3, <2>4, <2>5
<1>12. /\ k \in Subs(f) /\ f[k].config = e
       /\ \A r \in Subs(f) : r # k => r \in DOMAIN p /\ f[r].config = p[r].config
  <2>1. k \in Subs(f) /\ f[k].config = e
    BY <1>6, <1>7, <1>10 DEF Subs
  <2>2. ASSUME NEW r \in Subs(f), r # k
        PROVE  r \in DOMAIN p /\ f[r].config = p[r].config
    <3>1. r \in DOMAIN h /\ r # O(o) /\ r # P(o)
      BY <1>8, <1>10, <2>2, Keys DEF Subs
    <3> QED BY <1>4, <1>7, <1>10, <2>2, <3>1
  <2> QED BY <2>1, <2>2
<1>13. Settled(Over(f, p))
  <2>1. \A c \in Config : C(c) \in DOMAIN p
    BY <1>1 DEF p, Over
  <2> QED BY <1>3, <1>4, <1>6, <1>9, <1>11, <1>12, <2>1, SettledSold
<1>14. Writes(Over(f, x), db)
  <2>1. ~Done(db, o)
    <3>1. CASE O(o) \in DOMAIN x
      BY <1>3, <1>4, <3>1 DEF Writes
    <3>2. CASE O(o) \notin DOMAIN x
      BY <1>4, <3>2 DEF Done, p, Over
    <3> QED BY <3>1, <3>2
  <2>2. \A r \in Subs(f) : r # k => r \in DOMAIN x \cup DOMAIN db /\ f[r].config = Over(x, db)[r].config
    BY <1>12 DEF p, Over
  <2> QED BY <1>3, <1>4, <1>6, <1>11, <1>12, <2>1, <2>2, WritesSold
<1>15. Over(Over(f, x), db) = Over(f, p)
  BY OverAssoc DEF p
<1>16. Knows(z, Over(f, p))
  BY <1>2 DEF Knows, Loaded, Delivering
<1>17. /\ db' = db /\ ws' = [ws EXCEPT ![t] = Over(f, x)]
  <2>1. Write(t, Over(f, Unflushed(t)))
    BY DEF Flush, f, h
  <2>2. Over(Over(f, Unflushed(t)), ws[t]) = Over(f, x)
    BY OverAssoc DEF Pending, x
  <2> QED BY <2>1, <2>2 DEF Write
<1> QED BY <1>1, <1>13, <1>14, <1>15, <1>16, <1>17, SoldDone DEF Single

LEMMA DeliverSold ==
    ASSUME Inv, SoldInv, NEW t \in Tx, SellConfig(t) \/ Provision(t)
    PROVE  SoldInv'
<1> DEFINE s == sess[t]
<1>1. CASE SellConfig(t)
  <2> DEFINE g == Is(C(s.config), [status |-> "sold", order |-> None])
  <2>1. /\ s.pc = "sell" /\ Room("subscription", s.order)
        /\ Flush(t, Over(g, Delivery(t, s.config))) /\ Flushed(t, "reward")
    BY <1>1 DEF SellConfig, At
  <2>2. s.config \in Config /\ s.config # None
    BY <2>1, Here, IdAssumption DEF Aware
  <2> QED BY <2>1, <2>2, Sell
<1>2. CASE Provision(t)
  <2>1. s.pc = "provision"
    BY <1>2 DEF Provision, At
  <2>2. CASE Room("subscription", s.order) /\ Flush(t, Delivery(t, None)) /\ Flushed(t, "reward")
    <3> DEFINE h == Delivery(t, None)
    <3>1. h = [r \in DOMAIN h |-> h[r]]
      BY DEF Delivery, Over
    <3>2. Over(NoRows, h) = h
      BY <3>1, Nothing
    <3> QED BY <2>1, <2>2, <3>2, Sell
  <2>3. CASE Goto(t, "refused") /\ UNCHANGED store
    BY <2>3, SoldGoto DEF PCs, Delivering, Ending
  <2> QED BY <1>2, <2>2, <2>3 DEF Provision
<1> QED BY <1>1, <1>2

\* A card is shown; a refused handler of a bot goes to its commit.
LEMMA EndingSold ==
    ASSUME Inv, SoldInv, NEW t \in Tx,
           ShowCard(t) \/ (At(t, "refused") /\ Goto(t, "commit") /\ UNCHANGED store)
    PROVE  SoldInv'
<1>1. Goto(t, "commit") /\ UNCHANGED store
  BY DEF ShowCard, store
<1> QED BY <1>1, SoldGoto DEF PCs, Delivering, Ending

-----------------------------------------------------------------------------
\* What a transaction with the rows x sees is settled when another commits the rows y,
\* if they work on different orders.
LEMMA SoldCommitted ==
    ASSUME NEW x, NEW y, NEW d, NEW e, e = Over(y, d), Settled(Over(x, d)), Settled(e),
           Writes(x, d), Writes(y, d), DOMAIN x \cap DOMAIN y = {}, \A c \in Config : C(c) \in DOMAIN d,
           \A o \in Order : {O(o), P(o)} \cap DOMAIN x = {} \/ {O(o), P(o)} \cap DOMAIN y = {}
    PROVE  Settled(Over(x, e)) /\ Writes(x, e)
<1> DEFINE v == Over(x, d)
           w == Over(x, e)
<1>1. /\ DOMAIN e = DOMAIN y \cup DOMAIN d
      /\ DOMAIN v = DOMAIN x \cup DOMAIN d
      /\ DOMAIN w = DOMAIN x \cup DOMAIN e
      /\ \A r \in DOMAIN y : e[r] = y[r]
      /\ \A r \in DOMAIN d : r \notin DOMAIN y => e[r] = d[r]
      /\ \A r \in DOMAIN x : v[r] = x[r] /\ w[r] = x[r]
      /\ \A r \in DOMAIN d : r \notin DOMAIN x => v[r] = d[r]
      /\ \A r \in DOMAIN e : r \notin DOMAIN x => w[r] = e[r]
  BY DEF Over
<1>2. Settled(v) /\ Settled(e)
  OBVIOUS
<1> HIDE DEF v, w
<1>3. \A r \in DOMAIN v : r \notin DOMAIN y => r \in DOMAIN w /\ w[r] = v[r]
  BY <1>1
<1>4. \A r \in DOMAIN w : r \notin DOMAIN y => r \in DOMAIN v
  BY <1>1
<1>5. ASSUME NEW o \in Order, Done(w, o)
      PROVE  PaidFor(w, o)
  <2>1. CASE {O(o), P(o)} \cap DOMAIN x = {}
    <3>1. Done(e, o)
      BY <1>1, <1>5, <2>1 DEF Done
    <3>2. PaidFor(e, o)
      BY <1>2, <3>1 DEF Settled
    <3> QED BY <1>1, <2>1, <3>2 DEF PaidFor
  <2>2. CASE {O(o), P(o)} \cap DOMAIN y = {}
    <3>1. Done(v, o)
      BY <1>3, <1>4, <1>5, <2>2 DEF Done
    <3>2. PaidFor(v, o)
      BY <1>2, <3>1 DEF Settled
    <3> QED BY <1>3, <2>2, <3>2 DEF PaidFor
  <2> QED BY <2>1, <2>2
\* An order that was delivered is written by neither of them.
<1>6. ASSUME NEW o \in Order
      PROVE  Done(v, o) \/ Done(e, o) => Done(w, o)
  <2>1. CASE O(o) \in DOMAIN x
    <3>1. ~Done(d, o) /\ O(o) \notin DOMAIN y
      BY <2>1 DEF Writes
    <3> QED BY <1>1, <2>1, <3>1 DEF Done
  <2>2. CASE O(o) \in DOMAIN y
    <3>1. ~Done(d, o) /\ O(o) \notin DOMAIN x
      BY <2>2 DEF Writes
    <3> QED BY <1>1, <2>2, <3>1 DEF Done
  <2>3. CASE O(o) \notin DOMAIN x /\ O(o) \notin DOMAIN y
    BY <1>1, <2>3 DEF Done
  <2> QED BY <2>1, <2>2, <2>3
\* A subscription has the same config for everybody who sees it.
<1>7. ASSUME NEW r \in Subs(w)
      PROVE  /\ r \in DOMAIN v => w[r].config = v[r].config
             /\ r \in DOMAIN e => w[r].config = e[r].config
             /\ r \in DOMAIN v \/ r \in DOMAIN e
  <2>1. r[1] = "subscription" /\ r \in DOMAIN w
    BY <1>7 DEF Subs
  <2>2. r \in DOMAIN x => r \in Subs(x)
    BY <2>1 DEF Subs
  <2>3. r \in DOMAIN y => r \in Subs(y)
    BY <2>1 DEF Subs
  <2>4. r \in DOMAIN x /\ r \in DOMAIN d => x[r].config = d[r].config
    BY <2>2 DEF Writes
  <2>5. r \in DOMAIN y /\ r \in DOMAIN d => y[r].config = d[r].config
    BY <2>3 DEF Writes
  <2>6. CASE r \in DOMAIN x
    BY <1>1, <2>1, <2>4, <2>6
  <2>7. CASE r \notin DOMAIN x
    BY <1>1, <2>1, <2>5, <2>7
  <2> QED BY <2>6, <2>7
<1>8. ASSUME NEW r \in Subs(w)
      PROVE  r[2] \in Order /\ Done(w, r[2])
  <2>1. r \in DOMAIN v => r \in Subs(v)
    BY <1>8 DEF Subs
  <2>2. r \in DOMAIN e => r \in Subs(e)
    BY <1>8 DEF Subs
  <2>3. r[2] \in Order /\ (Done(v, r[2]) \/ Done(e, r[2]))
    BY <1>2, <1>7, <1>8, <2>1, <2>2 DEF Settled
  <2> QED BY <1>6, <2>3
<1>9. Subs(v) \subseteq Subs(w) /\ Subs(e) \subseteq Subs(w)
  BY <1>1 DEF Subs
<1>10. ASSUME NEW c \in Config
       PROVE  /\ w[C(c)].status = "sold" <=> \E r \in Subs(w) : w[r].config = c
              /\ \A r, k \in Subs(w) : w[r].config = c /\ w[k].config = c => r = k
  <2>1. CASE C(c) \notin DOMAIN y
    <3>1. w[C(c)] = v[C(c)]
      BY <1>1, <1>3, <2>1
    <3>2. ASSUME NEW r \in Subs(w), w[r].config = c
          PROVE  r \in Subs(v)
      <4>1. CASE r \in DOMAIN v
        BY <3>2, <4>1 DEF Subs
      <4>2. CASE r \notin DOMAIN v
        <5>1. r \in Subs(y) /\ r \notin DOMAIN d /\ y[r].config = c
          BY <1>1, <3>2, <4>2 DEF Subs
        <5> QED BY <2>1, <5>1 DEF Writes
      <4> QED BY <4>1, <4>2
    <3>3. \A r \in Subs(v) : w[r].config = v[r].config
      BY <1>7, <1>9 DEF Subs
    <3>4. /\ v[C(c)].status = "sold" <=> \E r \in Subs(v) : v[r].config = c
          /\ \A r, k \in Subs(v) : v[r].config = c /\ v[k].config = c => r = k
      BY <1>2 DEF Settled
    <3> QED BY <1>9, <3>1, <3>2, <3>3, <3>4
  <2>2. CASE C(c) \in DOMAIN y
    <3>0. C(c) \notin DOMAIN x
      BY <2>2
    <3>1. w[C(c)] = e[C(c)]
      BY <1>1, <3>0
    <3>2. ASSUME NEW r \in Subs(w), w[r].config = c
          PROVE  r \in Subs(e)
      <4>1. CASE r \in DOMAIN e
        BY <3>2, <4>1 DEF Subs
      <4>2. CASE r \notin DOMAIN e
        <5>1. r \in Subs(x) /\ r \notin DOMAIN d /\ x[r].config = c
          BY <1>1, <3>2, <4>2 DEF Subs
        <5> QED BY <3>0, <5>1 DEF Writes
      <4> QED BY <4>1, <4>2
    <3>3. \A r \in Subs(e) : w[r].config = e[r].config
      BY <1>7, <1>9 DEF Subs
    <3>4. /\ e[C(c)].status = "sold" <=> \E r \in Subs(e) : e[r].config = c
          /\ \A r, k \in Subs(e) : e[r].config = c /\ e[k].config = c => r = k
      BY <1>2 DEF Settled
    <3> QED BY <1>9, <3>1, <3>2, <3>3, <3>4
  <2> QED BY <2>1, <2>2
<1>11. Settled(w)
  BY <1>5, <1>8, <1>10 DEF Settled
<1>12. Writes(x, e)
  <2>1. ASSUME NEW o \in Order, O(o) \in DOMAIN x
        PROVE  ~Done(e, o)
    <3>1. ~Done(d, o) /\ O(o) \notin DOMAIN y
      BY <2>1 DEF Writes
    <3> QED BY <1>1, <3>1 DEF Done
  <2>2. ASSUME NEW r \in Subs(x)
        PROVE  IF r \in DOMAIN e THEN x[r].config = e[r].config
               ELSE x[r].config \in Config => C(x[r].config) \in DOMAIN x
    <3>1. r \in DOMAIN x /\ r \notin DOMAIN y
      BY <2>2 DEF Subs
    <3> QED BY <1>1, <2>2, <3>1 DEF Writes
  <2> QED BY <2>1, <2>2 DEF Writes
<1> QED BY <1>11, <1>12 DEF w

\* What session u knows remains true when session t commits.
LEMMA KnownCommitted ==
    ASSUME Inv, SoldInv, OneAtAnOrder, NEW t \in Tx, NEW u \in Tx, u # t
    PROVE  Knows(sess[u], Over(ws[u], Over(ws[t], db)))
<1> DEFINE s == sess[u]
           x == ws[u]
           y == ws[t]
           d == db
           v == Over(x, d)
           w == Over(x, Over(y, d))
<1>1. s \in Session /\ Knows(s, v) /\ \A c \in Config : C(c) \in DOMAIN d
  BY Sold0
<1>2. \A q \in Order : q \in WorksOn(u) => q \notin WorksOn(t)
  BY DEF OneAtAnOrder
<1>3. \A q \in Order : q \in WorksOn(u) => O(q) \notin DOMAIN y /\ P(q) \notin DOMAIN y
  BY <1>2 DEF WorksOn
<1>4. \A c \in Config : d[C(c)].order \in Order /\ d[C(c)].order \in WorksOn(u) => C(c) \notin DOMAIN y
  BY <1>2 DEF WorksOn
<1>5. /\ DOMAIN v = DOMAIN x \cup DOMAIN d
      /\ \A r \in DOMAIN v : r \notin DOMAIN y \/ r \in DOMAIN x => r \in DOMAIN w /\ w[r] = v[r]
      /\ \A r \in DOMAIN w : r \notin DOMAIN y => r \in DOMAIN v
      /\ \A r \in DOMAIN d : r \notin DOMAIN x => v[r] = d[r]
  BY DEF Over
<1>6. \A q \in Order : q \in WorksOn(u) => (Done(w, q) <=> Done(v, q)) /\ (PaidFor(v, q) => PaidFor(w, q))
  <2> HIDE DEF v, w, x, y
  <2> QED BY <1>3, <1>5 DEF Done, PaidFor
<1>7. Loaded(s) => s.order \in Order /\ s.order \in WorksOn(u)
  BY LoadedHere DEF WorksOn
<1>8. s.pc \in {"cancel", "release"} => \A q \in s.todo : q \in Order /\ q \in WorksOn(u)
  <2>1. s.pc \in {"cancel", "release"} => \A q \in s.todo : Open(db, q)
    BY Here DEF Aware
  <2> QED BY <2>1 DEF Open, WorksOn
<1>9. ASSUME NEW c \in Config, v[C(c)].order \in Order,
             v[C(c)].order \in WorksOn(u) \/ (s.pc = "free" /\ c \in s.todo)
      PROVE  w[C(c)] = v[C(c)]
  <2>1. CASE C(c) \in DOMAIN x
    BY <1>5, <2>1
  <2>2. CASE C(c) \notin DOMAIN x
    <3>1. v[C(c)] = d[C(c)] /\ C(c) \in DOMAIN v
      BY <1>1, <1>5, <2>2
    <3>2. d[C(c)].order \in Order /\ d[C(c)].order \in WorksOn(u)
      BY <1>9, <3>1 DEF WorksOn, At
    <3>3. C(c) \notin DOMAIN y
      BY <1>4, <3>2
    <3> QED BY <1>5, <3>1, <3>3
  <2> QED BY <2>1, <2>2
<1> HIDE DEF v, w, x, y, d
<1>10. s.pc = "sell" \/ (s.pc = "release" /\ s.config # None) => w[C(s.config)].order = s.order
  <2> SUFFICES ASSUME s.pc = "sell" \/ (s.pc = "release" /\ s.config # None)
               PROVE  w[C(s.config)].order = s.order
    OBVIOUS
  <2>1. Loaded(s)
    BY DEF Loaded, Delivering
  <2>2. s.config \in Config
    BY <1>1, Here DEF Session, Aware
  <2>3. v[C(s.config)].order = s.order
    BY <1>1 DEF Knows
  <2> QED BY <1>7, <1>9, <2>1, <2>2, <2>3
<1>11. s.pc = "free" => \A c \in s.todo : w[C(c)].status = "reserved"
  <2> SUFFICES ASSUME s.pc = "free", NEW c \in s.todo
               PROVE  w[C(c)].status = "reserved"
    OBVIOUS
  <2>1. c \in Config /\ v[C(c)].status = "reserved"
    BY <1>1, Here DEF Aware, Knows
  <2>2. v[C(c)].order \in Order
    <3>1. Row(u, C(c)) = v[C(c)] /\ Row(u, C(c)).order # None
      BY <2>1, Sold0 DEF v, x, d
    <3>2. Exists(u, C(c)) /\ C(c)[1] = "config"
      BY <1>1, <2>1, Keys DEF Exists, d
    <3>3. Row(u, C(c)) \in RowType["config"]
      BY <3>2, Seen
    <3> QED BY <3>1, <3>3, RowTypes
  <2> QED BY <1>9, <2>1, <2>2
<1>12. s.pc \in Delivering => Loaded(s)
  BY DEF Loaded
<1>13. Knows(s, w)
  BY <1>1, <1>6, <1>7, <1>8, <1>10, <1>11, <1>12 DEF Knows
<1> QED BY <1>13 DEF w, x, y, d

\* A slot that is free.
LEMMA SoldIdle ==
    ASSUME NEW d, d = [r \in DOMAIN d |-> d[r]], Settled(d)
    PROVE  Single(Idle, NoRows, d)
<1>1. Over(NoRows, d) = d /\ DOMAIN NoRows = {}
  BY Nothing
<1>2. Knows(Idle, d)
  BY DEF Knows, Idle, Loaded, Delivering
<1>3. Writes(NoRows, d)
  BY <1>1 DEF Writes, Subs
<1> QED BY <1>1, <1>2, <1>3 DEF Single

\* The transaction of t ends.
LEMMA EndSold ==
    ASSUME Inv, SoldInv, OneAtAnOrder, NEW t \in Tx, Close(t), Rollback(t) \/ Commit(t)
    PROVE  SoldInv'
<1> DEFINE e == Over(ws[t], db)
<1>1. sess'[t] = Idle /\ \A u \in Tx \ {t} : sess'[u] = sess[u]
  BY DEF Close, Inv, Types
<1>2. ws'[t] = NoRows /\ \A u \in Tx \ {t} : ws'[u] = ws[u]
  BY EndEffect DEF Inv, StoreInv
<1>3. StoreOk(db) /\ Settled(db) /\ \A u \in Tx : Single(sess[u], ws[u], db)
  BY DEF Inv, StoreInv, SoldInv
<1>4. CASE Rollback(t)
  <2>1. db' = db
    BY <1>4 DEF Rollback
  <2>2. Single(Idle, NoRows, db)
    BY <1>3, SoldIdle DEF StoreOk
  <2> QED BY <1>1, <1>2, <1>3, <2>1, <2>2 DEF SoldInv
<1>5. CASE Commit(t)
  <2>1. db' = e /\ e = [r \in DOMAIN e |-> e[r]]
    BY <1>5 DEF Commit, Visible, Over
  <2>2. Settled(e)
    BY <1>3 DEF Single
  <2> HIDE DEF e
  <2>3. Single(Idle, NoRows, e)
    BY <2>1, <2>2, SoldIdle
  <2>4. ASSUME NEW u \in Tx, u # t
        PROVE  Single(sess[u], ws[u], e)
    <3>1. DOMAIN ws[u] \cap DOMAIN ws[t] = {}
      BY <2>4 DEF Inv, StoreInv, Exclusive
    <3>2. \A o \in Order : {O(o), P(o)} \cap DOMAIN ws[u] = {} \/ {O(o), P(o)} \cap DOMAIN ws[t] = {}
      <4>1. WorksOn(t) \cap WorksOn(u) = {}
        BY <2>4 DEF OneAtAnOrder
      <4> QED BY <4>1 DEF WorksOn
    <3>3. \A c \in Config : C(c) \in DOMAIN db
      BY <1>3 DEF StoreOk
    <3>4. Settled(Over(ws[u], e)) /\ Writes(ws[u], e)
      BY <1>3, <2>2, <3>1, <3>2, <3>3, SoldCommitted DEF Single, e
    <3>5. Knows(sess[u], Over(ws[u], e))
      BY <2>4, KnownCommitted DEF e
    <3> QED BY <3>4, <3>5 DEF Single
  <2>5. ASSUME NEW u \in Tx
        PROVE  Single(sess'[u], ws'[u], db')
    <3>1. CASE u = t
      BY <1>1, <1>2, <2>1, <2>3, <3>1
    <3>2. CASE u # t
      BY <1>1, <1>2, <2>1, <2>4, <3>2
    <3> QED BY <3>1, <3>2
  <2> QED BY <2>1, <2>2, <2>5 DEF SoldInv
<1> QED BY <1>4, <1>5

\* Nothing is sold at the start.
LEMMA InitSold == Init => SoldInv
<1> SUFFICES ASSUME Init PROVE SoldInv
  OBVIOUS
<1>1. db = Over([r \in {C(c) : c \in Config} |-> [status |-> "available", order |-> None]],
           Over([r \in {W(u) : u \in User} |-> Funds[r[2]]],
           Over([r \in {R(u) : u \in {v \in User : Referrer[v] # None}} |-> "pending"],
                Is(K, 0))))
  BY DEF Init
<1>2. \A c \in Config : db[C(c)].status = "available"
  BY <1>1 DEF Over
<1>3. \A r \in DOMAIN db : \/ \E c \in Config : r = C(c)
                           \/ \E u \in User : r = W(u) \/ r = R(u)
                           \/ r = K
  BY <1>1 DEF Over, Is
<1>4. \A r \in DOMAIN db : r[1] \in {"config", "wallet", "referral", "coupon"}
  BY <1>3, Keys
<1>5. Settled(db)
  <2>1. Subs(db) = {}
    BY <1>4 DEF Subs
  <2>2. \A o \in Order : ~Done(db, o)
    BY <1>4, Keys DEF Done
  <2> QED BY <1>2, <2>1, <2>2 DEF Settled
<1>6. db = [r \in DOMAIN db |-> db[r]]
  BY <1>1 DEF Over
<1>7. \A t \in Tx : sess[t] = Idle /\ ws[t] = NoRows
  BY DEF Init
<1> QED BY <1>5, <1>6, <1>7, SoldIdle DEF SoldInv

\* Every step keeps orders, payments, subscriptions and configs in agreement, while no
\* two sessions work on the same order.
LEMMA SoldStep ==
    ASSUME Inv, SoldInv, OneAtAnOrder, [Next]_vars
    PROVE  SoldInv'
<1>1. ASSUME NEW t \in Tx, Take(t)
      PROVE  SoldInv'
  BY <1>1, CreateSold, TakeSold DEF Take
<1>2. ASSUME NEW t \in Tx, Pay(t)
      PROVE  SoldInv'
  BY <1>2, ReserveSold, PaySold, EndingSold, LoadSold DEF Pay
<1>3. ASSUME NEW t \in Tx, Settle(t)
      PROVE  SoldInv'
  BY <1>3, FindSold, FlushSold, DeliverSold DEF Settle
<1>4. ASSUME NEW t \in Tx, Expire(t)
      PROVE  SoldInv'
  BY <1>4, TurnSold, FreeSold DEF Expire
<1>5. ASSUME NEW t \in Tx, End(t)
      PROVE  SoldInv'
  <2>1. CASE CancelOrder(t) \/ ReleaseConfig(t) \/ FlushAtCommit(t)
    BY <2>1, TurnSold, ReleaseSold, FlushSold
  <2>2. CASE DomainError(t)
    BY <2>2, EndingSold, EndSold DEF DomainError
  <2>3. CASE Finish(t)
    BY <2>3, EndSold DEF Finish
  <2> QED BY <1>5, <2>1, <2>2, <2>3 DEF End
<1>6. ASSUME NEW t \in Tx, Crash(t)
      PROVE  SoldInv'
  BY <1>6, EndSold DEF Crash
<1>7. ASSUME UNCHANGED <<db, ws, sess>>
      PROVE  SoldInv'
  BY <1>7 DEF SoldInv
<1>8. CASE (\E o \in Order : Tick(o) \/ PayAtGateway(o)) \/ UNCHANGED vars
  BY <1>7, <1>8 DEF Tick, PayAtGateway, vars
<1> QED BY <1>1, <1>2, <1>3, <1>4, <1>5, <1>6, <1>8 DEF Next, Handle

-----------------------------------------------------------------------------
\* The committed rows change when a transaction commits and not otherwise.
LEMMA OnlyCommits ==
    ASSUME [Next]_vars
    PROVE  db' = db \/ \E t \in Tx : Commit(t)
<1>1. ASSUME NEW t \in Tx, Take(t)
      PROVE  db' = db
  <2>1. CASE Buy(t)
    BY <2>1 DEF Buy, CreateOrder, Write
  <2>2. CASE \E u \in Customer : ReceiveReceipt(t, u)
    BY <2>2 DEF ReceiveReceipt, Write
  <2>3. CASE \E op \in {"approve", "reject"}, o \in Order, via \in {"bot", "api"} :
                 ReviewPayment(t, op, o, via)
    BY <2>3 DEF ReviewPayment, store
  <2>4. CASE \E o \in Order : VerifyPayment(t, o)
    BY <2>4 DEF VerifyPayment, store
  <2> QED BY <1>1, <2>1, <2>2, <2>3, <2>4 DEF Take
<1>2. ASSUME NEW t \in Tx, Pay(t)
      PROVE  db' = db
  <2>1. CASE Reserve(t)
    BY <2>1 DEF Reserve, Flush, Write, store
  <2>2. CASE PayWithWallet(t)
    BY <2>2 DEF PayWithWallet, Debit, LockRow, Write, store
  <2>3. CASE RequestGateway(t) \/ ShowCard(t) \/ AskGateway(t)
    BY <2>3 DEF RequestGateway, ShowCard, AskGateway, Write, store
  <2>4. CASE Declined(t) \/ LoadOrder(t)
    BY <2>4 DEF Declined, LoadOrder, Write, store
  <2> QED BY <1>2, <2>1, <2>2, <2>3, <2>4 DEF Pay
<1>3. ASSUME NEW t \in Tx, Settle(t)
      PROVE  db' = db
  <2>1. CASE LoadCoupon(t) \/ FindSubscription(t) \/ FindReservation(t) \/ FindReferral(t)
    BY <2>1 DEF LoadCoupon, FindSubscription, FindReservation, FindReferral, store
  <2>2. CASE RedeemCoupon(t) \/ SellConfig(t) \/ Provision(t) \/ RewardReferrer(t)
    BY <2>2 DEF RedeemCoupon, SellConfig, Provision, RewardReferrer, Flush, Write, store
  <2> QED BY <1>3, <2>1, <2>2 DEF Settle
<1>4. ASSUME NEW t \in Tx, Expire(t)
      PROVE  db' = db
  BY <1>4 DEF Expire, FindExpired, FreeExpired, FindStale, Write, store
<1>5. ASSUME NEW t \in Tx, End(t)
      PROVE  db' = db \/ Commit(t)
  <2>1. CASE CancelOrder(t) \/ ReleaseConfig(t) \/ FlushAtCommit(t)
    BY <2>1 DEF CancelOrder, ReleaseConfig, FlushAtCommit, Flush, Write, store
  <2>2. CASE DomainError(t) \/ Finish(t)
    BY <2>2 DEF DomainError, Finish, Rollback, store
  <2> QED BY <1>5, <2>1, <2>2 DEF End
<1>6. ASSUME NEW t \in Tx, Crash(t)
      PROVE  db' = db
  BY <1>6 DEF Crash, Rollback
<1>7. CASE (\E o \in Order : Tick(o) \/ PayAtGateway(o)) \/ UNCHANGED vars
  BY <1>7 DEF Tick, PayAtGateway, vars
<1> QED BY <1>1, <1>2, <1>3, <1>4, <1>5, <1>6, <1>7 DEF Next, Handle

\* A commit leaves a delivered order as it is.
LEMMA DoneForGood ==
    ASSUME SoldInv, [Next]_vars, NEW o \in Order, Done(db, o)
    PROVE  Done(db', o)
<1>1. CASE db' = db
  BY <1>1
<1>2. ASSUME NEW t \in Tx, Commit(t)
      PROVE  Done(db', o)
  <2>1. O(o) \notin DOMAIN ws[t]
    BY DEF SoldInv, Single, Writes
  <2> QED BY <1>2, <2>1 DEF Commit, Visible, Over, Done
<1> QED BY <1>1, <1>2, OnlyCommits

\* "A config can be sold once" (docs/DATABASE.md), among any number of orders, reviews,
\* callbacks and runs of the housekeeping job at the same time, as long as no two of
\* them work on the same order.
THEOREM ConfigSoldOnce == Spec /\ []OneAtAnOrder => []SoldOnce
<1>1. SoldInv => SoldOnce
  <2> SUFFICES ASSUME SoldInv, NEW c \in Config
               PROVE  Cardinality({r \in Table("subscription") : db[r].config = c}) <= 1
    BY DEF SoldOnce
  <2> DEFINE sold == {r \in Table("subscription") : db[r].config = c}
  <2>1. \A r, k \in sold : r = k
    BY DEF SoldInv, Settled, Subs, Table
  <2>2. CASE sold = {}
    BY <2>2, FS_EmptySet
  <2>3. ASSUME NEW r \in sold
        PROVE  Cardinality(sold) <= 1
    <3>1. sold = {r}
      BY <2>1
    <3> HIDE DEF sold
    <3>2. Cardinality(sold) = 1
      BY <3>1, FS_Singleton, Zenon
    <3> QED BY <3>2
  <2> QED BY <2>2, <2>3
<1> QED BY <1>1, InitSold, SoldStep, Invariance, PTL DEF Spec

\* A config is somebody's subscription exactly when it is sold, in the same conditions:
\* none is sold to nobody and none goes back on sale.
THEOREM SoldMeansDelivered == Spec /\ []OneAtAnOrder => []SoldIsDelivered
<1>1. SoldInv => SoldIsDelivered
  BY DEF SoldInv, Settled, Subs, Table, SoldIsDelivered
<1> QED BY <1>1, InitSold, SoldStep, Invariance, PTL DEF Spec

\* In the same conditions the order, its payment and its subscription agree: what was
\* delivered was paid for and stays so, what was not has no subscription.
THEOREM DeliveryIsPaidFor == Spec /\ []OneAtAnOrder => []PaymentMatchesDelivery
<1>1. Inv /\ SoldInv => PaymentMatchesDelivery
  <2> SUFFICES ASSUME Inv, SoldInv, NEW o \in Orders
               PROVE  /\ Status(o) = "delivered" => PaymentStatus(o) = "approved"
                      /\ Status(o) # "delivered" => Subscriptions(o) = {}
    BY DEF PaymentMatchesDelivery
  <2>1. o \in Order /\ O(o) \in DOMAIN db
    BY DEF Orders
  <2>2. Status(o) = "delivered" => PaymentStatus(o) = "approved"
    BY <2>1 DEF SoldInv, Settled, Done, PaidFor, Status, PaymentStatus
  <2>3. ASSUME NEW r \in Subscriptions(o)
        PROVE  Status(o) = "delivered"
    <3>1. r \in Subs(db) /\ r[2] = o
      BY DEF Subscriptions, Rows, Subs
    <3> QED BY <2>1, <3>1 DEF SoldInv, Settled, Done, Status
  <2> QED BY <2>2, <2>3
<1> QED BY <1>1, InitSold, SoldStep, Invariance, PTL DEF Spec

\* In the same conditions delivery is final: no late callback, second review or run of
\* the job takes an order out of "delivered".
THEOREM DeliveryIsFinal == Spec /\ []OneAtAnOrder => DeliveredIsFinal
<1> DEFINE Final == \A o \in Orders : Status(o) = "delivered" => Status(o)' = "delivered"
<1>1. SoldInv /\ [Next]_vars => [Final]_vars
  <2> SUFFICES ASSUME SoldInv, [Next]_vars, NEW o \in Orders, Status(o) = "delivered"
               PROVE  Status(o)' = "delivered"
    OBVIOUS
  <2>1. o \in Order /\ Done(db, o)
    BY DEF Orders, Done, Status
  <2> QED BY <2>1, DoneForGood DEF Done, Status
<1> QED BY <1>1, InitSold, SoldStep, Invariance, PTL DEF Spec, DeliveredIsFinal
-----------------------------------------------------------------------------
\* The statements before a coupon is redeemed.
Before == {"reserve", "wallet", "gateway", "card", "ask", "declined", "order", "coupon", "redeem"}

\* Session s, with the rows x, will write the coupon's counter from what it has read.
Counting(s, x) ==
    \/ s.pc = "redeem"
    \/ s.op = "wallet" /\ s.pc \in {"reserve", "wallet"} /\ x[O(s.order)].coupon

\* Session t has the coupon's counter in hand; the users whose referral it has.
CountsUses(t) == K \in DOMAIN ws[t] \/ Counting(sess[t], ws[t])
Refers(t) == {u \in User : R(u) \in DOMAIN ws[t] \/ (At(t, "credit") /\ Mine(t).user = u)}

\* No two sessions count the coupon's uses or reward the same referral at the same
\* time, as if redeem and on_qualifying_purchase locked the row when they read it.  The
\* code does not: it reads both plainly and writes what it read, plus one or "rewarded".
OneAtAPromotion ==
    \A t, u \in Tx : t # u => /\ ~(CountsUses(t) /\ CountsUses(u))
                              /\ Refers(t) \cap Refers(u) = {}

Uses(v) == {r \in DOMAIN v : r[1] = "redemption"}

\* As d has it, the counter is the number of redemptions, and a referral has one reward,
\* which is what "rewarded" says.
Counted(d) ==
    /\ IsFiniteSet(Uses(d)) /\ d[K] = Cardinality(Uses(d))
    /\ \A u \in User, i, j \in Copy : Rew(u, i) \in DOMAIN d =>
          /\ R(u) \in DOMAIN d /\ d[R(u)] = "rewarded"
          /\ Rew(u, j) \in DOMAIN d => i = j

\* What session s, with the rows x, has added to that: at most one redemption, counted,
\* and no second reward.  What it is about to write is still true of the committed rows.
Promoted(s, x, d) ==
    /\ K \notin DOMAIN x => Uses(x) = {}
    /\ K \in DOMAIN x => /\ s.pc \notin Before /\ x[K] = d[K] + 1
                         /\ \E r \in DOMAIN x \ DOMAIN d : Uses(x) = {r}
    /\ Counting(s, x) => s.uses = d[K]
    /\ s.pc = "credit" => d[R(Of(x, d, O(s.order)).user)] = "pending"
    /\ \A u \in User, i, j \in Copy : Rew(u, i) \in DOMAIN x => Rew(u, j) \notin DOMAIN d

PromoInv == Counted(db) /\ \A t \in Tx : Promoted(sess[t], ws[t], db)
-----------------------------------------------------------------------------
\* The rows of coupons and referrals are the same in x and y.
SamePromo(x, y) ==
    \A r : r[1] \in {"coupon", "redemption", "reward"} =>
        /\ r \in DOMAIN y <=> r \in DOMAIN x
        /\ r \in DOMAIN x => y[r] = x[r]

\* A statement of t that leaves the committed rows alone.
LEMMA PromoDone ==
    ASSUME Inv, PromoInv, NEW t \in Tx, NEW z, NEW y, sess' = [sess EXCEPT ![t] = z], db' = db,
           ws' = [ws EXCEPT ![t] = y], Promoted(z, y, db)
    PROVE  PromoInv'
<1>1. /\ sess'[t] = z /\ \A u \in Tx \ {t} : sess'[u] = sess[u]
      /\ ws'[t] = y /\ \A u \in Tx \ {t} : ws'[u] = ws[u]
  BY DEF Inv, Types, StoreInv
<1>2. ASSUME NEW u \in Tx
      PROVE  Promoted(sess'[u], ws'[u], db')
  <2>1. CASE u = t
    BY <1>1, <2>1
  <2>2. CASE u # t
    BY <1>1, <2>2 DEF PromoInv
  <2> QED BY <2>1, <2>2
<1> QED BY <1>2 DEF PromoInv

\* One that has nothing to do with coupons and referrals.
LEMMA PromoOther ==
    ASSUME Inv, PromoInv, NEW t \in Tx, NEW z, NEW y, sess' = [sess EXCEPT ![t] = z], db' = db,
           ws' = [ws EXCEPT ![t] = y], SamePromo(ws[t], y),
           z.pc \in Before => sess[t].pc \in Before \cup {"idle"},
           Counting(z, y) => z.uses = db[K],
           z.pc # "credit"
    PROVE  PromoInv'
<1> DEFINE x == ws[t]
<1>1. Promoted(sess[t], x, db)
  BY DEF PromoInv
<1>2. K \in DOMAIN x => z.pc \notin Before
  <2>1. sess[t].pc = "idle" => DOMAIN x = {}
    BY RestOp DEF At
  <2> QED BY <1>1, <2>1 DEF Promoted
<1>3. (K \in DOMAIN y <=> K \in DOMAIN x) /\ (K \in DOMAIN x => y[K] = x[K])
  BY Keys DEF SamePromo
<1>4. Uses(y) = Uses(x)
  BY DEF Uses, SamePromo
<1>5. \A u \in User, i \in Copy : Rew(u, i) \in DOMAIN y <=> Rew(u, i) \in DOMAIN x
  BY Keys DEF SamePromo
<1>6. \A r : Uses(x) = {r} => (r \in DOMAIN y <=> r \in DOMAIN x)
  BY <1>4 DEF Uses
<1> HIDE DEF x
<1>7. Promoted(z, y, db)
  BY <1>1, <1>2, <1>3, <1>4, <1>5, <1>6 DEF Promoted
<1> QED BY <1>7, PromoDone DEF x

\* What a session still has to flush has nothing to do with them.
LEMMA PromoPending ==
    ASSUME Inv, NEW t \in Tx
    PROVE  SamePromo(ws[t], Pending(t))
<1>1. \A r \in DOMAIN Unflushed(t) : r[1] \in {"order", "payment"}
  <2>1. CASE sess[t].dirty = "no"
    <3>1. DOMAIN Unflushed(t) = {}
      BY <2>1, Nothing DEF Unflushed
    <3> QED BY <3>1
  <2>2. CASE sess[t].dirty # "no"
    <3>1. DOMAIN Unflushed(t) \subseteq {O(sess[t].order), P(sess[t].order)}
      BY <2>2, UnflushedRows
    <3> QED BY <3>1, Keys
  <2> QED BY <2>1, <2>2
<1> QED BY <1>1 DEF Pending, SamePromo, Over

\* Rows of other tables.
Elsewhere(f) == \A r \in DOMAIN f : r[1] \notin {"coupon", "redemption", "reward"}

\* A statement that flushes such rows, and one that writes them.
LEMMA PromoFlush ==
    ASSUME Inv, PromoInv, NEW t \in Tx, NEW z, NEW f, sess' = [sess EXCEPT ![t] = z], Flush(t, f),
           Elsewhere(f),
           z.pc \in Before => sess[t].pc \in Before \cup {"idle"},
           Counting(z, Over(f, Pending(t))) => z.uses = db[K],
           z.pc # "credit"
    PROVE  PromoInv'
<1> DEFINE y == Over(f, Pending(t))
<1>1. Write(t, Over(f, Unflushed(t)))
  BY DEF Flush
<1>2. Over(Over(f, Unflushed(t)), ws[t]) = y
  BY OverAssoc DEF Pending
<1>3. SamePromo(ws[t], y)
  BY PromoPending DEF SamePromo, Elsewhere, Over
<1> HIDE DEF y
<1>4. db' = db /\ ws' = [ws EXCEPT ![t] = y]
  BY <1>1, <1>2 DEF Write
<1>5. Counting(z, y) => z.uses = db[K]
  BY DEF y
<1> QED BY <1>3, <1>4, <1>5, PromoOther

LEMMA PromoWrite ==
    ASSUME Inv, PromoInv, NEW t \in Tx, NEW z, NEW f, sess' = [sess EXCEPT ![t] = z], Write(t, f),
           Elsewhere(f),
           z.pc \in Before => sess[t].pc \in Before \cup {"idle"},
           Counting(z, Over(f, ws[t])) => z.uses = db[K],
           z.pc # "credit"
    PROVE  PromoInv'
<1> DEFINE y == Over(f, ws[t])
<1>1. SamePromo(ws[t], y)
  BY DEF SamePromo, Elsewhere, Over
<1>2. db' = db /\ ws' = [ws EXCEPT ![t] = y]
  BY DEF Write
<1> HIDE DEF y
<1>3. Counting(z, y) => z.uses = db[K]
  BY DEF y
<1> QED BY <1>1, <1>2, <1>3, PromoOther

\* A statement that writes nothing.
LEMMA PromoQuiet ==
    ASSUME Inv, PromoInv, NEW t \in Tx, NEW z, sess' = [sess EXCEPT ![t] = z], UNCHANGED store,
           z.pc \in Before => sess[t].pc \in Before \cup {"idle"},
           Counting(z, ws[t]) => z.uses = db[K],
           z.pc # "credit"
    PROVE  PromoInv'
<1>1. db' = db /\ ws' = [ws EXCEPT ![t] = ws[t]]
  BY DEF store, Inv, StoreInv, Shaped
<1> QED BY <1>1, PromoOther DEF SamePromo

\* A session that goes past the coupon, whatever it flushes.
LEMMA PromoPast ==
    ASSUME Inv, PromoInv, NEW t \in Tx, NEW z, sess' = [sess EXCEPT ![t] = z],
           z.pc \notin Before \cup {"credit"},
           \/ UNCHANGED store
           \/ \E f : Elsewhere(f) /\ (Flush(t, f) \/ Write(t, f))
    PROVE  PromoInv'
<1>1. \A y : ~Counting(z, y)
  BY DEF Counting, Before
<1> QED BY <1>1, PromoQuiet, PromoFlush, PromoWrite

\* In particular when it only goes to another statement.
LEMMA PromoGoto ==
    ASSUME Inv, PromoInv, NEW t \in Tx, NEW pc \in PCs \ (Before \cup {"credit"}),
           Goto(t, pc) \/ Flushed(t, pc),
           \/ UNCHANGED store
           \/ \E f : Elsewhere(f) /\ (Flush(t, f) \/ Write(t, f))
    PROVE  PromoInv'
<1>1. sess[t] \in Session
  BY Here
<1>2. CASE Goto(t, pc)
  <2> DEFINE z == [sess[t] EXCEPT !.pc = pc]
  <2>1. sess' = [sess EXCEPT ![t] = z] /\ z.pc = pc
    BY <1>1, <1>2, Gone DEF Goto
  <2> HIDE DEF z
  <2> QED BY <2>1, PromoPast
<1>3. CASE Flushed(t, pc)
  <2> DEFINE z == [sess[t] EXCEPT !.pc = pc, !.dirty = "no"]
  <2>1. sess' = [sess EXCEPT ![t] = z] /\ z.pc = pc
    BY <1>1, <1>3, GoneFlushed DEF Flushed
  <2> HIDE DEF z
  <2> QED BY <2>1, PromoPast
<1> QED BY <1>2, <1>3
-----------------------------------------------------------------------------
\* A slot takes up an operation.
LEMMA TakePromo ==
    ASSUME Inv, PromoInv, NEW t \in Tx, Take(t)
    PROVE  PromoInv'
<1>1. ASSUME NEW u, NEW method, NEW mode, NEW coupon, NEW renew,
             CreateOrder(t, u, method, mode, coupon, renew), method \in Method
      PROVE  PromoInv'
  <2> DEFINE o == issued + 1
             f == Is(O(o), [user |-> u, mode |-> mode, coupon |-> coupon, renew |-> renew,
                            status |-> IF mode = "manual" THEN "pending" ELSE "awaiting_payment"])
             pc == IF mode = "manual" THEN "reserve" ELSE method
             z == [Idle EXCEPT !.op = method, !.order = o, !.uses = Row(t, K), !.pc = pc]
  <2>1. sess' = [sess EXCEPT ![t] = z] /\ Write(t, f) /\ At(t, "idle")
    BY <1>1 DEF CreateOrder, Begin
  <2>2. Row(t, K) = db[K]
    BY <2>1, RestOp DEF Row
  <2>3. z.uses = db[K] /\ z.pc # "credit"
    BY <1>1, <2>2 DEF Idle, Method
  <2>4. Elsewhere(f)
    BY Keys DEF Elsewhere, Is
  <2> HIDE DEF z, f
  <2> QED BY <2>1, <2>3, <2>4, PromoWrite DEF At
<1>2. ASSUME NEW u, ReceiveReceipt(t, u)
      PROVE  PromoInv'
  <2> DEFINE f == Is(P(fsm[u]), [method |-> "card", status |-> "pending", authority |-> FALSE])
             z == [Idle EXCEPT !.op = "receipt", !.pc = "commit", !.order = fsm[u]]
  <2>1. sess' = [sess EXCEPT ![t] = z] /\ Write(t, f)
    BY <1>2 DEF ReceiveReceipt
  <2>2. z.pc = "commit"
    BY DEF Idle
  <2>3. Elsewhere(f)
    BY Keys DEF Elsewhere, Is
  <2> HIDE DEF z, f
  <2> QED BY <2>1, <2>2, <2>3, PromoPast DEF Before
<1>3. ASSUME NEW z, sess' = [sess EXCEPT ![t] = z], z.pc \in {"order", "ask"}, z.op # "wallet",
             At(t, "idle"), UNCHANGED store
      PROVE  PromoInv'
  BY <1>3, PromoQuiet DEF Counting, At
<1>4. ASSUME NEW op \in {"approve", "reject"}, NEW o, NEW via, ReviewPayment(t, op, o, via)
      PROVE  PromoInv'
  <2> DEFINE z == [Idle EXCEPT !.op = op, !.pc = "order", !.via = via, !.order = o,
                               !.dirty = IF op = "approve" THEN "approved" ELSE "rejected"]
  <2>1. At(t, "idle") /\ UNCHANGED store /\ sess' = [sess EXCEPT ![t] = z]
    BY <1>4 DEF ReviewPayment, Begin
  <2>2. z.op # "wallet" /\ z.pc = "order"
    BY DEF Idle
  <2> HIDE DEF z
  <2> QED BY <1>3, <2>1, <2>2
<1>5. ASSUME NEW o, VerifyPayment(t, o)
      PROVE  PromoInv'
  <2> DEFINE z == [Idle EXCEPT !.op = "verify", !.pc = "ask", !.via = "api", !.order = o,
                               !.again = (Row(t, P(o)).status = "failed")]
  <2>1. At(t, "idle") /\ UNCHANGED store /\ sess' = [sess EXCEPT ![t] = z]
    BY <1>5 DEF VerifyPayment, Begin
  <2>2. z.op # "wallet" /\ z.pc = "ask"
    BY DEF Idle
  <2> HIDE DEF z
  <2> QED BY <1>3, <2>1, <2>2
<1> QED BY <1>1, <1>2, <1>4, <1>5 DEF Take, Buy, Method

\* The statements from the order to its payment.
LEMMA PayPromo ==
    ASSUME Inv, PromoInv, NEW t \in Tx, Pay(t)
    PROVE  PromoInv'
<1> DEFINE s == sess[t]
           o == sess[t].order
<1>1. s \in Session /\ Aware(s, ws[t], db) /\ Promoted(s, ws[t], db)
  BY Here DEF PromoInv
<1>2. CASE Reserve(t)
  <2> DEFINE c == FirstOf(Stock(t))
             held == Is(C(c), [status |-> "reserved", order |-> o])
             row == [Mine(t) EXCEPT !.status = "awaiting_payment"]
             f == Over(held, Is(O(o), row))
  <2>1. Elsewhere(held) /\ Elsewhere(f)
    BY Keys DEF Elsewhere, Over, Is
  <2>2. CASE s.pc = "reserve" /\ Flush(t, f) /\ Flushed(t, s.op)
    <3> DEFINE z == [s EXCEPT !.pc = s.op, !.dirty = "no"]
               y == Over(f, Pending(t))
    <3>1. s.op \in Method /\ O(o) \in DOMAIN ws[t] /\ Mine(t) \in OrderType
      BY <1>1, <2>2, Buys DEF Buying
    <3>2. sess' = [sess EXCEPT ![t] = z]
      BY <2>2 DEF Flushed
    <3>3. z.pc = s.op /\ z.op = s.op /\ z.uses = s.uses /\ z.order = o
      BY <1>1, <3>1 DEF Session
    <3>4. row.coupon = Mine(t).coupon
      BY <3>1, RowTypes DEF OrderType
    <3>5. y[O(o)].coupon = ws[t][O(o)].coupon
      <4>1. y[O(o)] = row
        BY Keys DEF Over, Is
      <4>2. Mine(t) = ws[t][O(o)]
        BY <3>1 DEF Mine, Row
      <4> QED BY <3>4, <4>1, <4>2
    <3> HIDE DEF z, f, y
    <3>6. Counting(z, y) => z.uses = db[K]
      BY <1>1, <2>2, <3>1, <3>3, <3>5 DEF Counting, Promoted, Method
    <3>7. z.pc # "credit"
      BY <3>1, <3>3 DEF Method
    <3>8. s.pc \in Before
      BY <2>2 DEF Before
    <3> QED BY <2>1, <2>2, <3>2, <3>6, <3>7, <3>8, PromoFlush DEF y
  <2>3. CASE Flush(t, held) /\ sess' = [sess EXCEPT ![t].pc = "sell", ![t].config = c, ![t].dirty = "no"]
    <3> DEFINE z == [s EXCEPT !.pc = "sell", !.config = c, !.dirty = "no"]
    <3>1. sess' = [sess EXCEPT ![t] = z] /\ z.pc = "sell"
      BY <1>1, <2>3 DEF Session
    <3> HIDE DEF z, held
    <3> QED BY <2>1, <2>3, <3>1, PromoPast DEF Before
  <2>4. CASE Goto(t, "refused") /\ UNCHANGED store
    BY <2>4, PromoGoto DEF Before, PCs
  <2> QED BY <1>2, <2>2, <2>3, <2>4 DEF Reserve, At
<1>3. CASE PayWithWallet(t)
  <2> DEFINE due == FinalPrice(Mine(t))
             w == W(Mine(t).user)
  <2>1. s.op = "wallet" /\ s.pc = "wallet" /\ O(o) \in DOMAIN ws[t]
    BY <1>1, <1>3, Buys DEF PayWithWallet, At, Buying, Method
  <2>2. \A x : Elsewhere(Is(w, x))
    BY Keys DEF Elsewhere, Is
  <2>3. CASE Goto(t, "refused") /\ (UNCHANGED store \/ LockRow(t, w))
    BY <2>2, <2>3, PromoGoto DEF LockRow, Before, PCs
  <2>4. CASE Debit(t, w, due) /\ sess' = [sess EXCEPT ![t].dirty = "settled",
                                             ![t].pc = IF Mine(t).coupon THEN "redeem" ELSE "find"]
    <3> DEFINE pc == IF Mine(t).coupon THEN "redeem" ELSE "find"
               z == [s EXCEPT !.dirty = "settled", !.pc = pc]
               f == Is(w, Row(t, w) - due)
    <3>1. sess' = [sess EXCEPT ![t] = z] /\ Write(t, f)
      BY <2>4 DEF Debit
    <3>2. z.pc = pc /\ z.op = s.op /\ z.uses = s.uses
      BY <1>1 DEF Session
    <3>3. Mine(t) = ws[t][O(o)]
      BY <2>1 DEF Mine, Row
    <3> HIDE DEF z, f
    <3>4. \A y : Counting(z, y) => z.uses = db[K]
      BY <1>1, <2>1, <3>2, <3>3 DEF Counting, Promoted
    <3>5. z.pc # "credit" /\ s.pc \in Before
      BY <2>1, <3>2 DEF Before
    <3> QED BY <2>2, <3>1, <3>4, <3>5, PromoWrite DEF f
  <2> QED BY <1>3, <2>3, <2>4 DEF PayWithWallet
<1>4. CASE RequestGateway(t) \/ ShowCard(t) \/ Declined(t)
  <2>1. \A x : Elsewhere(Is(P(o), x))
    BY Keys DEF Elsewhere, Is
  <2>2. \A pc \in {"commit", "refused"} : pc \in PCs \ (Before \cup {"credit"})
    BY DEF PCs, Before
  <2> QED BY <1>4, <2>1, <2>2, PromoGoto DEF RequestGateway, ShowCard, Declined, store
<1>5. CASE AskGateway(t)
  <2>1. s.op = "verify" /\ s.pc = "ask" /\ UNCHANGED store
    BY <1>1, <1>5 DEF AskGateway, At, Aware, Runs, Method, Delivering, Delivered, Ending
  <2>2. PICK z : sess' = [sess EXCEPT ![t] = z] /\ z.pc \in {"order", "declined"}
    <3>1. [s EXCEPT !.pc = "order", !.dirty = "approved"].pc = "order"
      BY <1>1 DEF Session
    <3>2. [s EXCEPT !.pc = "declined"].pc = "declined"
      BY <1>1 DEF Session
    <3>3. CASE sess' = [sess EXCEPT ![t].pc = "order", ![t].dirty = "approved"]
      BY <3>1, <3>3
    <3>4. CASE Goto(t, "declined")
      BY <3>2, <3>4 DEF Goto
    <3> QED BY <1>5, <3>3, <3>4 DEF AskGateway
  <2> QED BY <2>1, <2>2, PromoQuiet DEF Counting, Before
<1>6. CASE LoadOrder(t)
  <2>1. s.pc = "order" /\ UNCHANGED store
    BY <1>6 DEF LoadOrder, At
  <2>2. PICK z : sess' = [sess EXCEPT ![t] = z] /\ z.pc \in {"coupon", "find", "commit", "refused", "cancel"}
    <3>1. \A d : LET z == [s EXCEPT !.pc = IF Mine(t).coupon THEN "coupon" ELSE "find", !.dirty = d]
                 IN z.pc \in {"coupon", "find"}
      BY <1>1 DEF Session
    <3>2. \A pc : [s EXCEPT !.pc = pc].pc = pc
      BY <1>1 DEF Session
    <3>3. [s EXCEPT !.pc = "cancel", !.todo = {o}].pc = "cancel"
      BY <1>1 DEF Session
    <3>4. CASE sess' = [sess EXCEPT ![t].pc = IF Mine(t).coupon THEN "coupon" ELSE "find",
                                    ![t].dirty = IF Mine(t).status = "paid" THEN @ ELSE "settled"]
      <4>1. sess' = [sess EXCEPT ![t] =
               [s EXCEPT !.pc = IF Mine(t).coupon THEN "coupon" ELSE "find",
                         !.dirty = IF Mine(t).status = "paid" THEN s.dirty ELSE "settled"]]
        BY <3>4
      <4> QED BY <3>1, <4>1
    <3>5. CASE Goto(t, "commit") \/ Goto(t, "refused")
      BY <3>2, <3>5 DEF Goto
    <3>6. CASE sess' = [sess EXCEPT ![t].pc = "cancel", ![t].todo = {o}]
      BY <3>3, <3>6
    <3> QED BY <1>6, <3>4, <3>5, <3>6 DEF LoadOrder
  <2>3. \A y : ~Counting(z, y)
    BY <2>2 DEF Counting
  <2> QED BY <2>1, <2>2, <2>3, PromoQuiet DEF Before
<1> QED BY <1>2, <1>3, <1>4, <1>5, <1>6 DEF Pay

\* The statements between the payment and the end that do not promote anything.
LEMMA SettlePromo ==
    ASSUME Inv, PromoInv, NEW t \in Tx,
           \/ FindSubscription(t) \/ FindReservation(t) \/ SellConfig(t) \/ Provision(t)
           \/ FindExpired(t) \/ FreeExpired(t) \/ FindStale(t)
           \/ CancelOrder(t) \/ ReleaseConfig(t) \/ FlushAtCommit(t)
    PROVE  PromoInv'
<1> DEFINE s == sess[t]
           o == sess[t].order
<1>1. s \in Session /\ Aware(s, ws[t], db)
  BY Here
<1>2. \A pc \in {"reward", "stock", "provision", "restock", "refused", "commit", "stale", "cancel"} :
         pc \in PCs \ (Before \cup {"credit"})
  BY DEF PCs, Before
<1>3. \A pc \in {"sell", "free", "commit", "cancel", "release"} : pc \notin Before \cup {"credit"}
  BY DEF Before
<1>4. CASE FindSubscription(t)
  <2>1. UNCHANGED store /\ \E pc \in {"reward", "stock", "provision"} : Goto(t, pc)
    <3> DEFINE n == Cardinality(Rows(Visible(t), "subscription", o))
               pc == CASE n = 1 -> "reward"
                       [] n = 0 /\ Mine(t).mode = "manual" -> "stock"
                       [] n = 0 /\ Mine(t).mode = "panel"  -> "provision"
    <3>1. Goto(t, pc) /\ n <= 1 /\ UNCHANGED store /\ s.pc = "find"
      BY <1>4 DEF FindSubscription, At
    <3>2. IsFiniteSet(Rows(Visible(t), "subscription", o))
      BY RowsFinite
    <3>3. n \in Nat
      BY <3>2, FS_CardinalityType
    <3>4. Mine(t).mode \in {"manual", "panel"}
      BY <3>1, Settles, RowTypes DEF Settling, Delivering, OrderType
    <3> HIDE DEF n
    <3>5. pc \in {"reward", "stock", "provision"}
      BY <3>1, <3>3, <3>4
    <3> QED BY <3>1, <3>5
  <2> QED BY <1>2, <2>1, PromoGoto
<1>5. CASE FindReservation(t)
  <2>1. CASE Goto(t, "restock") /\ UNCHANGED store
    BY <1>2, <2>1, PromoGoto
  <2>2. ASSUME NEW c, sess' = [sess EXCEPT ![t].pc = "sell", ![t].config = c], UNCHANGED store
        PROVE  PromoInv'
    <3> DEFINE z == [s EXCEPT !.pc = "sell", !.config = c]
    <3>1. sess' = [sess EXCEPT ![t] = z] /\ z.pc = "sell"
      BY <1>1, <2>2 DEF Session
    <3> HIDE DEF z
    <3> QED BY <1>3, <2>2, <3>1, PromoPast
  <2> QED BY <1>5, <2>1, <2>2 DEF FindReservation
<1>6. ASSUME NEW config \in Config \cup {None}, s.pc \in {"sell", "provision"},
             Room("subscription", o)
      PROVE  Elsewhere(Delivery(t, config))
  <2> DEFINE g == Delivery(t, config)
  <2>1. /\ g[O(o)] = [Mine(t) EXCEPT !.status = "delivered"]
        /\ \A r \in DOMAIN g : r # O(o) => \E q \in Order, i \in Copy : r = S(q, i)
    BY <1>6, DeliveryRows
  <2> QED BY <2>1, Keys DEF Elsewhere
<1>7. CASE SellConfig(t)
  <2> DEFINE g == Delivery(t, s.config)
             sold == Is(C(s.config), [status |-> "sold", order |-> None])
  <2>1. Flush(t, Over(sold, g)) /\ Flushed(t, "reward") /\ Room("subscription", o) /\ s.pc = "sell"
    BY <1>7 DEF SellConfig, At
  <2>2. s.config \in Config
    BY <1>1, <2>1 DEF Aware
  <2>3. Elsewhere(g)
    BY <1>6, <2>1, <2>2
  <2> HIDE DEF g
  <2>4. Elsewhere(Over(sold, g))
    BY <2>3, Keys DEF Elsewhere, Over, Is
  <2> QED BY <1>2, <2>1, <2>4, PromoGoto
<1>8. CASE Provision(t)
  <2>1. CASE Goto(t, "refused") /\ UNCHANGED store
    BY <1>2, <2>1, PromoGoto
  <2>2. CASE Room("subscription", o) /\ Flush(t, Delivery(t, None)) /\ Flushed(t, "reward")
    <3>1. s.pc = "provision"
      BY <1>8 DEF Provision, At
    <3> QED BY <1>2, <1>6, <2>2, <3>1, PromoGoto
  <2> QED BY <1>8, <2>1, <2>2 DEF Provision
<1>9. CASE FindExpired(t)
  <2> DEFINE z == [Idle EXCEPT !.op = "expire", !.pc = "free", !.via = "api",
                       !.todo = {c \in Config : /\ Row(t, C(c)).status = "reserved"
                                                /\ age[Row(t, C(c)).order] >= 1}]
  <2>1. UNCHANGED store /\ sess' = [sess EXCEPT ![t] = z]
    BY <1>9 DEF FindExpired
  <2>2. z.pc = "free"
    BY DEF Idle
  <2> HIDE DEF z
  <2> QED BY <1>3, <2>1, <2>2, PromoPast
<1>10. CASE FreeExpired(t)
  <2> DEFINE f == [r \in {C(c) : c \in s.todo} |-> [status |-> "available", order |-> None]]
  <2>1. Goto(t, "stale") /\ Write(t, f)
    BY <1>10 DEF FreeExpired
  <2>2. Elsewhere(f)
    BY Keys DEF Elsewhere
  <2> HIDE DEF f
  <2> QED BY <1>2, <2>1, <2>2, PromoGoto
<1>11. CASE FindStale(t)
  <2> DEFINE z == [s EXCEPT !.pc = IF Stale(t) = {} THEN "commit" ELSE "cancel", !.todo = Stale(t)]
  <2>1. UNCHANGED store /\ sess' = [sess EXCEPT ![t] = z]
    BY <1>11 DEF FindStale
  <2>2. z.pc \in {"commit", "cancel"}
    BY <1>1 DEF Session
  <2> HIDE DEF z
  <2> QED BY <1>3, <2>1, <2>2, PromoPast
<1>12. CASE CancelOrder(t)
  <2>1. PICK q, c : /\ UNCHANGED store
                    /\ sess' = [sess EXCEPT ![t].pc = "release", ![t].order = q,
                                            ![t].config = c, ![t].todo = @ \ {q}]
    BY <1>12 DEF CancelOrder
  <2> DEFINE z == [s EXCEPT !.pc = "release", !.order = q, !.config = c, !.todo = s.todo \ {q}]
  <2>2. sess' = [sess EXCEPT ![t] = z] /\ z.pc = "release"
    BY <1>1, <2>1 DEF Session
  <2> HIDE DEF z
  <2> QED BY <1>3, <2>1, <2>2, PromoPast
<1>13. CASE ReleaseConfig(t)
  <2> DEFINE row == [Mine(t) EXCEPT !.status = IF s.op = "expire" THEN "expired" ELSE "cancelled"]
             g == Freed(t, s.config)
             f == Over(g, Is(O(o), row))
  <2>1. Flush(t, f) /\ Flushed(t, IF s.todo = {} THEN "commit" ELSE "cancel")
    BY <1>13 DEF ReleaseConfig
  <2>2. \A r \in DOMAIN g : r[1] = "config"
    BY Nothing, Keys DEF Freed, Is
  <2> HIDE DEF g
  <2>3. Elsewhere(f)
    BY <2>2, Keys DEF Elsewhere, Over, Is
  <2> HIDE DEF f
  <2> QED BY <1>2, <2>1, <2>3, PromoGoto
<1>14. CASE FlushAtCommit(t)
  <2>1. Elsewhere(NoRows)
    BY Nothing DEF Elsewhere
  <2> QED BY <1>2, <1>14, <2>1, PromoGoto DEF FlushAtCommit
<1> QED BY <1>4, <1>5, <1>7, <1>8, <1>9, <1>10, <1>11, <1>12, <1>13, <1>14

\* The coupon: the counter is written with what was read, plus one.
LEMMA RedeemPromo ==
    ASSUME Inv, PromoInv, NEW t \in Tx, LoadCoupon(t) \/ RedeemCoupon(t)
    PROVE  PromoInv'
<1> DEFINE s == sess[t]
           o == sess[t].order
           x == ws[t]
<1>1. s \in Session /\ Aware(s, x, db) /\ Promoted(s, x, db)
  BY Here DEF PromoInv
<1>2. CASE LoadCoupon(t)
  <2> DEFINE z == [s EXCEPT !.pc = "redeem", !.uses = Row(t, K)]
  <2>1. UNCHANGED store /\ sess' = [sess EXCEPT ![t] = z] /\ s.pc = "coupon"
    BY <1>2 DEF LoadCoupon, At
  <2>2. z.pc = "redeem" /\ z.uses = Row(t, K)
    BY <1>1 DEF Session
  <2>3. s.pc \in Before /\ K \notin DOMAIN x
    BY <1>1, <2>1 DEF Before, Promoted
  <2>4. z.uses = db[K]
    BY <2>2, <2>3 DEF Row
  <2> HIDE DEF z
  <2> QED BY <2>1, <2>2, <2>3, <2>4, PromoQuiet
<1>3. CASE RedeemCoupon(t)
  <2> DEFINE k == NewKey("redemption", o)
             f == Over(Is(K, s.uses + 1), Is(k, Mine(t).user))
             p == Pending(t)
             y == Over(f, p)
             z == [s EXCEPT !.pc = "find", !.dirty = "no"]
  <2>1. /\ s.pc = "redeem" /\ Room("redemption", o)
        /\ Flush(t, f) /\ sess' = [sess EXCEPT ![t] = z]
    BY <1>3 DEF RedeemCoupon, Flushed, At
  <2>2. z.pc = "find" /\ s.pc \in Before
    BY <1>1, <2>1 DEF Session, Before
  <2>3. K \notin DOMAIN x /\ Uses(x) = {} /\ s.uses = db[K]
    BY <1>1, <2>1, <2>2 DEF Promoted, Counting
  <2>4. SamePromo(x, p)
    BY PromoPending
  <2>5. k[1] = "redemption" /\ k \notin Taken
    BY <2>1, NewKeys
  <2>6. DOMAIN f = {K, k} /\ f[K] = s.uses + 1
    BY DEF Over, Is
  <2> HIDE DEF f, k, p, z
  <2>7. db' = db /\ ws' = [ws EXCEPT ![t] = y]
    <3>1. Write(t, Over(f, Unflushed(t)))
      BY <2>1 DEF Flush
    <3>2. Over(Over(f, Unflushed(t)), x) = y
      BY OverAssoc DEF Pending, p
    <3> QED BY <3>1, <3>2 DEF Write
  <2>8. /\ DOMAIN y = {K, k} \cup DOMAIN p
        /\ y[K] = db[K] + 1
    BY <2>3, <2>6 DEF Over
  <2> HIDE DEF y
  <2>9. Uses(y) = {k} /\ k \in DOMAIN y \ DOMAIN db
    <3>1. Uses(p) = {}
      BY <2>3, <2>4 DEF Uses, SamePromo
    <3>2. k \notin DOMAIN db
      BY <2>5 DEF Taken
    <3> QED BY <2>5, <2>8, <3>1, <3>2, Keys DEF Uses
  <2>10. \A u \in User, i \in Copy : Rew(u, i) \in DOMAIN y => Rew(u, i) \in DOMAIN x
    BY <2>4, <2>5, <2>8, Keys DEF SamePromo
  <2>11. ~Counting(z, y) /\ z.pc \notin Before \cup {"credit"}
    BY <2>2 DEF Counting, Before
  <2> HIDE DEF x
  <2>12. Promoted(z, y, db)
    BY <1>1, <2>8, <2>9, <2>10, <2>11 DEF Promoted
  <2> QED BY <2>1, <2>7, <2>12, PromoDone
<1> QED BY <1>2, <1>3

-----------------------------------------------------------------------------
\* A referral that is found pending is so in the committed rows.
LEMMA FindReferralPromo ==
    ASSUME Inv, PromoInv, NEW t \in Tx, FindReferral(t)
    PROVE  PromoInv'
<1> DEFINE s == sess[t]
           x == ws[t]
           u == Mine(t).user
<1>1. s \in Session /\ Aware(s, x, db) /\ Promoted(s, x, db)
  BY Here DEF PromoInv
<1>2. s.pc = "reward" /\ UNCHANGED store
  BY DEF FindReferral, At
<1>3. CASE Qualifies(t, u) /\ Goto(t, "credit")
  <2> DEFINE z == [s EXCEPT !.pc = "credit"]
  <2>1. sess' = [sess EXCEPT ![t] = z]
    BY <1>3 DEF Goto
  <2>2. z.pc = "credit" /\ z.order = s.order
    BY <1>1, Gone DEF PCs
  <2> HIDE DEF z
  <2>3. Mine(t) = Of(x, db, O(s.order)) /\ u \in User
    BY <1>2, Settles, RowTypes DEF Settling, Delivered, OrderType
  <2>4. R(u) \notin DOMAIN x
    BY <1>1, <1>2, <2>3 DEF Aware
  <2>5. db[R(u)] = "pending"
    BY <1>3, <2>4 DEF Qualifies, Row
  <2>6. K \in DOMAIN x => z.pc \notin Before
    BY <2>2 DEF Before
  <2>7. ~Counting(z, x)
    BY <2>2 DEF Counting
  <2>8. db[R(Of(x, db, O(z.order)).user)] = "pending"
    BY <2>2, <2>3, <2>5
  <2>9. Promoted(z, x, db)
    BY <1>1, <2>6, <2>7, <2>8 DEF Promoted
  <2>10. db' = db /\ ws' = [ws EXCEPT ![t] = x]
    BY <1>2 DEF store, Inv, StoreInv, Shaped
  <2> HIDE DEF x
  <2> QED BY <2>1, <2>9, <2>10, PromoDone
<1>4. CASE Goto(t, "commit")
  BY <1>2, <1>4, PromoGoto DEF Before, PCs
<1> QED BY <1>3, <1>4 DEF FindReferral

\* It gets its only reward.
LEMMA RewardPromo ==
    ASSUME Inv, PromoInv, NEW t \in Tx, RewardReferrer(t)
    PROVE  PromoInv'
<1> DEFINE s == sess[t]
           x == ws[t]
           u == Mine(t).user
           w == W(Referrer[u])
           k == NewKey("reward", u)
           f == Rewarded(t, u)
           p == Pending(t)
           y == Over(f, p)
           z == [s EXCEPT !.pc = "commit", !.dirty = "no"]
<1>1. s \in Session /\ Promoted(s, x, db) /\ Counted(db)
  BY Here DEF PromoInv
<1>2. s.pc = "credit" /\ Flush(t, f) /\ sess' = [sess EXCEPT ![t] = z]
  BY DEF RewardReferrer, Flushed, At
<1>3. z.pc = "commit"
  BY <1>1, GoneFlushed DEF PCs
<1> HIDE DEF z
<1>4. /\ u \in User
      /\ \A q \in User : R(q) \notin DOMAIN x
      /\ \E i \in Copy : k = Rew(u, i)
      /\ DOMAIN f = IF Reward = 0 THEN {R(u)} ELSE {R(u), w, k}
  BY RewardRows
<1>5. db[R(u)] = "pending"
  <2>1. Mine(t) = Of(x, db, O(s.order))
    BY <1>2, Settles DEF Settling, Delivered
  <2> QED BY <1>1, <1>2, <2>1 DEF Promoted
<1>6. SamePromo(x, p)
  BY PromoPending
<1>7. db' = db /\ ws' = [ws EXCEPT ![t] = y]
  <2>1. Write(t, Over(f, Unflushed(t)))
    BY <1>2 DEF Flush
  <2>2. Over(Over(f, Unflushed(t)), x) = y
    BY OverAssoc DEF Pending
  <2> QED BY <2>1, <2>2 DEF Write
<1>8. PICK i \in Copy : k = Rew(u, i)
  BY <1>4
<1> HIDE DEF u, k, f, p
<1>9. \A r \in DOMAIN f : r[1] \in {"referral", "wallet"} \/ r = Rew(u, i)
  BY <1>4, <1>8, Keys
<1>10. \A q \in User, j \in Copy : Rew(q, j) \notin DOMAIN x
  <2>1. \A q \in User : UserKept(db, x, Over(x, db), q)
    BY Seen DEF TxOk
  <2> QED BY <1>4, <2>1 DEF UserKept
<1>11. /\ DOMAIN y = DOMAIN f \cup DOMAIN p
       /\ \A r \in DOMAIN p : r \notin DOMAIN f => y[r] = p[r]
  BY DEF Over
<1> HIDE DEF x, y
<1>12. (K \in DOMAIN y <=> K \in DOMAIN x) /\ (K \in DOMAIN x => y[K] = x[K])
  BY <1>6, <1>9, <1>11, Keys DEF SamePromo
<1>13. Uses(y) = Uses(x)
  <2>1. \A r : r[1] = "redemption" => (r \in DOMAIN y <=> r \in DOMAIN x)
    BY <1>6, <1>9, <1>11, Keys DEF SamePromo
  <2> QED BY <2>1 DEF Uses
<1>14. ASSUME NEW q \in User, NEW a \in Copy, NEW b \in Copy, Rew(q, a) \in DOMAIN y
       PROVE  Rew(q, b) \notin DOMAIN db
  <2>1. Rew(q, a) \notin DOMAIN p
    BY <1>6, <1>10, Keys DEF SamePromo
  <2>2. q = u
    BY <1>9, <1>11, <1>14, <2>1, Keys
  <2> QED BY <1>1, <1>5, <2>2 DEF Counted
<1>15. ~Counting(z, y) /\ z.pc \notin Before \cup {"credit"}
  BY <1>3 DEF Counting, Before
<1>16. \A r : Uses(x) = {r} => r \in DOMAIN y
  BY <1>13 DEF Uses
<1>17. Promoted(z, y, db)
  BY <1>1, <1>12, <1>13, <1>14, <1>15, <1>16 DEF Promoted
<1> QED BY <1>2, <1>7, <1>17, PromoDone
-----------------------------------------------------------------------------
\* A commit adds its redemption to the counter, and its reward to a referral without.
LEMMA CountedCommitted ==
    ASSUME NEW d, NEW x, NEW s, StoreOk(d), TxOk(d, x), Counted(d), Promoted(s, x, d)
    PROVE  Counted(Over(x, d))
<1> DEFINE e == Over(x, d)
<1>1. /\ DOMAIN e = DOMAIN x \cup DOMAIN d
      /\ \A r \in DOMAIN x : e[r] = x[r]
      /\ \A r \in DOMAIN d : r \notin DOMAIN x => e[r] = d[r]
  BY DEF Over
<1> HIDE DEF e
<1>2. K \in DOMAIN d
  BY DEF StoreOk
<1>3. IsFiniteSet(Uses(e)) /\ e[K] = Cardinality(Uses(e))
  <2>1. CASE K \notin DOMAIN x
    <3>1. Uses(e) = Uses(d)
      BY <1>1, <2>1 DEF Promoted, Uses
    <3> QED BY <1>1, <1>2, <2>1, <3>1 DEF Counted
  <2>2. CASE K \in DOMAIN x
    <3>1. PICK r \in DOMAIN x \ DOMAIN d : Uses(x) = {r}
      BY <2>2 DEF Promoted
    <3>2. Uses(e) = Uses(d) \cup {r} /\ r \notin Uses(d)
      BY <1>1, <3>1 DEF Uses
    <3>3. IsFiniteSet(Uses(e)) /\ Cardinality(Uses(e)) = Cardinality(Uses(d)) + 1
      BY <3>2, OneElement DEF Counted
    <3>4. e[K] = d[K] + 1
      BY <1>1, <2>2 DEF Promoted
    <3> QED BY <3>3, <3>4 DEF Counted
  <2> QED BY <2>1, <2>2
<1>4. ASSUME NEW u \in User, NEW i \in Copy, NEW j \in Copy, Rew(u, i) \in DOMAIN e
      PROVE  /\ R(u) \in DOMAIN e /\ e[R(u)] = "rewarded"
             /\ Rew(u, j) \in DOMAIN e => i = j
  <2>1. UserKept(d, x, Over(x, d), u)
    BY DEF TxOk
  <2>2. R(u) \in DOMAIN x => x[R(u)] = "rewarded"
    BY <2>1 DEF UserKept
  <2>3. CASE Rew(u, i) \in DOMAIN x
    <3>1. R(u) \in DOMAIN x
      BY <2>1, <2>3 DEF UserKept
    <3>2. Rew(u, j) \notin DOMAIN d
      BY <2>3 DEF Promoted
    <3>3. Rew(u, j) \in DOMAIN x => i = j
      BY <2>3 DEF TxOk, OneReward
    <3> QED BY <1>1, <2>2, <3>1, <3>2, <3>3
  <2>4. CASE Rew(u, i) \in DOMAIN d
    <3>1. R(u) \in DOMAIN d /\ d[R(u)] = "rewarded" /\ (Rew(u, j) \in DOMAIN d => i = j)
      BY <2>4 DEF Counted
    <3>2. Rew(u, j) \notin DOMAIN x
      BY <2>4 DEF Promoted
    <3> QED BY <1>1, <2>2, <3>1, <3>2
  <2> QED BY <1>1, <1>4, <2>3, <2>4
<1> QED BY <1>3, <1>4 DEF Counted, e

\* Another session finds what it has read of them as it was.
LEMMA PromotedCommitted ==
    ASSUME Inv, PromoInv, OneAtAPromotion, NEW t \in Tx, NEW u \in Tx, t # u
    PROVE  Promoted(sess[u], ws[u], Over(ws[t], db))
<1> DEFINE s == sess[u]
           o == sess[u].order
           x == ws[u]
           y == ws[t]
           e == Over(y, db)
<1>1. Aware(s, x, db) /\ Promoted(s, x, db) /\ Promoted(sess[t], y, db)
  BY Here DEF PromoInv
<1>2. ~(CountsUses(t) /\ CountsUses(u)) /\ Refers(t) \cap Refers(u) = {}
  BY DEF OneAtAPromotion
<1>3. TxOk(db, x) /\ TxOk(db, y) /\ K \in DOMAIN db
  BY DEF Inv, StoreInv, StoreOk
<1>4. /\ DOMAIN e = DOMAIN y \cup DOMAIN db
      /\ \A r \in DOMAIN db : r \notin DOMAIN y => e[r] = db[r]
  BY DEF Over
<1>5. CountsUses(u) => e[K] = db[K] /\ Uses(y) = {}
  BY <1>1, <1>2, <1>3, <1>4 DEF CountsUses, Promoted
<1>6. ASSUME K \in DOMAIN x
      PROVE  /\ s.pc \notin Before /\ x[K] = e[K] + 1
             /\ \E r \in DOMAIN x \ DOMAIN e : Uses(x) = {r}
  <2>1. PICK r \in DOMAIN x \ DOMAIN db : Uses(x) = {r}
    BY <1>1, <1>6 DEF Promoted
  <2>2. r \notin DOMAIN y
    BY <1>5, <1>6, <2>1 DEF CountsUses, Uses
  <2> QED BY <1>1, <1>4, <1>5, <1>6, <2>1, <2>2 DEF Promoted, CountsUses
<1>7. Counting(s, x) => s.uses = e[K]
  BY <1>1, <1>5 DEF Promoted, CountsUses
<1>8. ASSUME s.pc = "credit"
      PROVE  e[R(Of(x, e, O(o)).user)] = "pending"
  <2> DEFINE w == Of(x, db, O(o)).user
  <2>1. Mine(u) = Of(x, db, O(o)) /\ w \in User /\ o \in Order
    BY <1>8, Settles, RowTypes DEF Settling, Delivered, OrderType
  <2>2. R(w) \in DOMAIN db /\ db[R(w)] = "pending"
    BY <1>1, <1>8 DEF Aware, Promoted
  <2>3. w \in Refers(u)
    BY <1>8, <2>1 DEF Refers, At
  <2>4. R(w) \notin DOMAIN y
    BY <1>2, <2>1, <2>3 DEF Refers
  <2>5. Of(x, e, O(o)).user = w
    <3>1. CASE O(o) \in DOMAIN x
      BY <3>1 DEF Of
    <3>2. CASE O(o) \notin DOMAIN x
      <4>1. s.op \in Method \cup {"approve", "verify", "reject"}
        BY <1>8, Settles DEF Settling, Delivered, Method
      <4>2. O(o) \in DOMAIN db
        BY <3>2, <4>1, OwnOrder DEF Exists
      <4>3. OrderKept(db, y, e, o)
        BY <1>3, <2>1 DEF TxOk
      <4> QED BY <3>2, <4>2, <4>3 DEF Of, OrderKept
    <3> QED BY <3>1, <3>2
  <2> QED BY <1>4, <2>2, <2>4, <2>5
<1>9. ASSUME NEW w \in User, NEW i \in Copy, NEW j \in Copy, Rew(w, i) \in DOMAIN x
      PROVE  Rew(w, j) \notin DOMAIN e
  <2>1. UserKept(db, x, Over(x, db), w) /\ UserKept(db, y, Over(y, db), w)
    BY <1>3 DEF TxOk
  <2>2. R(w) \in DOMAIN x
    BY <1>9, <2>1 DEF UserKept
  <2>3. R(w) \notin DOMAIN y
    BY <1>2, <2>2 DEF Refers
  <2>4. Rew(w, j) \notin DOMAIN y
    BY <2>1, <2>3 DEF UserKept
  <2> QED BY <1>1, <1>4, <1>9, <2>4 DEF Promoted
<1>10. K \notin DOMAIN x => Uses(x) = {}
  BY <1>1 DEF Promoted
<1> HIDE DEF e, x
<1>11. Promoted(s, x, e)
  BY <1>6, <1>7, <1>8, <1>9, <1>10 DEF Promoted
<1> QED BY <1>11 DEF e, x

\* A transaction ends.
LEMMA EndPromo ==
    ASSUME Inv, PromoInv, OneAtAPromotion, NEW t \in Tx, Close(t), Rollback(t) \/ Commit(t)
    PROVE  PromoInv'
<1> DEFINE e == Over(ws[t], db)
<1>1. sess'[t] = Idle /\ \A u \in Tx \ {t} : sess'[u] = sess[u]
  BY OneSession DEF Close
<1>2. ws'[t] = NoRows /\ \A u \in Tx \ {t} : ws'[u] = ws[u]
  BY EndEffect DEF Inv, StoreInv
<1>3. \A d : Promoted(Idle, NoRows, d)
  <2>1. DOMAIN NoRows = {} /\ Uses(NoRows) = {} /\ ~Counting(Idle, NoRows) /\ Idle.pc # "credit"
    BY Nothing DEF Uses, Counting, Idle
  <2> QED BY <2>1 DEF Promoted
<1>4. CASE Rollback(t)
  <2>1. db' = db
    BY <1>4 DEF Rollback
  <2> QED BY <1>1, <1>2, <1>3, <2>1 DEF PromoInv
<1>5. CASE Commit(t)
  <2>1. db' = e
    BY <1>5 DEF Commit, Visible
  <2>2. Counted(e)
    BY CountedCommitted DEF Inv, StoreInv, PromoInv
  <2>3. \A u \in Tx \ {t} : Promoted(sess[u], ws[u], e)
    BY PromotedCommitted
  <2> HIDE DEF e
  <2> QED BY <1>1, <1>2, <1>3, <2>1, <2>2, <2>3 DEF PromoInv
<1> QED BY <1>4, <1>5

\* At the start nothing is redeemed or rewarded.
LEMMA InitPromo == Init => PromoInv
<1> SUFFICES ASSUME Init PROVE PromoInv
  OBVIOUS
<1>1. db = Over([r \in {C(c) : c \in Config} |-> [status |-> "available", order |-> None]],
           Over([r \in {W(u) : u \in User} |-> Funds[r[2]]],
           Over([r \in {R(u) : u \in {v \in User : Referrer[v] # None}} |-> "pending"],
                Is(K, 0))))
  BY DEF Init
<1>2. \A r \in DOMAIN db : r[1] \in {"config", "wallet", "referral", "coupon"}
  BY <1>1, Keys DEF Over, Is
<1>3. db[K] = 0
  <2>1. (\A c : K # C(c)) /\ (\A u : K # W(u) /\ K # R(u))
    BY Keys
  <2> QED BY <1>1, <2>1 DEF Over, Is
<1>4. Uses(db) = {} /\ \A u, i : Rew(u, i) \notin DOMAIN db
  BY <1>2, Keys DEF Uses
<1>5. Counted(db)
  BY <1>3, <1>4, FS_EmptySet DEF Counted
<1>6. ASSUME NEW t \in Tx
      PROVE  Promoted(sess[t], ws[t], db)
  <2>1. ws[t] = NoRows /\ sess[t] = Idle
    BY DEF Init
  <2>2. DOMAIN NoRows = {} /\ Uses(NoRows) = {} /\ ~Counting(Idle, NoRows) /\ Idle.pc # "credit"
    BY Nothing DEF Uses, Counting, Idle
  <2> QED BY <2>1, <2>2 DEF Promoted
<1> QED BY <1>5, <1>6 DEF PromoInv

\* Every step keeps the counts, while no two sessions promote the same thing.
LEMMA PromoStep ==
    ASSUME Inv, PromoInv, OneAtAPromotion, [Next]_vars
    PROVE  PromoInv'
<1>1. ASSUME NEW t \in Tx, Settle(t)
      PROVE  PromoInv'
  BY <1>1, SettlePromo, RedeemPromo, FindReferralPromo, RewardPromo DEF Settle
<1>2. ASSUME NEW t \in Tx, Expire(t)
      PROVE  PromoInv'
  BY <1>2, SettlePromo DEF Expire
<1>3. ASSUME NEW t \in Tx, End(t)
      PROVE  PromoInv'
  <2>1. CASE DomainError(t)
    BY <2>1, EndPromo, PromoGoto DEF DomainError, Before, PCs
  <2>2. CASE Finish(t)
    BY <2>2, EndPromo DEF Finish
  <2> QED BY <1>3, <2>1, <2>2, SettlePromo DEF End
<1>4. ASSUME NEW t \in Tx, Crash(t)
      PROVE  PromoInv'
  BY <1>4, EndPromo DEF Crash
<1>5. ASSUME UNCHANGED <<db, ws, sess>>
      PROVE  PromoInv'
  BY <1>5 DEF PromoInv
<1>6. CASE (\E o \in Order : Tick(o) \/ PayAtGateway(o)) \/ UNCHANGED vars
  BY <1>5, <1>6 DEF Tick, PayAtGateway, vars
<1> QED BY TakePromo, PayPromo, <1>1, <1>2, <1>3, <1>4, <1>6 DEF Next, Handle

\* The referrer is rewarded once per referred user, and the coupon's counter is the
\* number of its redemptions, whatever else the sessions do at the same time, as long
\* as no two of them redeem the coupon or reward the same referral at once.
THEOREM PromotionsAreCounted == Spec /\ []OneAtAPromotion => []PromotionsCounted
<1>1. PromoInv => PromotionsCounted
  <2> SUFFICES ASSUME PromoInv
               PROVE  PromotionsCounted
    OBVIOUS
  <2>1. db[K] = Cardinality(Table("redemption"))
    BY DEF PromoInv, Counted, Uses, Table
  <2>2. ASSUME NEW u \in User
        PROVE  Cardinality(Rows(db, "reward", u)) <= 1
    <3> DEFINE rewards == Rows(db, "reward", u)
    <3>1. \A r, q \in rewards : r = q
      <4>1. \A r \in rewards : \E i \in Copy : r = Rew(u, i) /\ Rew(u, i) \in DOMAIN db
        BY DEF Rows, Rew
      <4> QED BY <4>1 DEF PromoInv, Counted
    <3> HIDE DEF rewards
    <3>2. CASE rewards = {}
      BY <3>2, FS_EmptySet DEF rewards
    <3>3. ASSUME NEW r \in rewards
          PROVE  Cardinality(rewards) <= 1
      <4>1. rewards = {r}
        BY <3>1
      <4>2. Cardinality(rewards) = 1
        BY <4>1, FS_Singleton, Zenon
      <4> QED BY <4>2
    <3> QED BY <3>2, <3>3 DEF rewards
  <2> QED BY <2>1, <2>2 DEF PromotionsCounted
<1> QED BY <1>1, InitPromo, PromoStep, Invariance, PTL DEF Spec
==============================================================================
