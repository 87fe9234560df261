---------------------------- MODULE TopUpsProofs ----------------------------
(***************************************************************************)
(* Proofs about TopUps for every set of transactions and payments, every    *)
(* deployment and any number of crashes.  The inductive invariant says of   *)
(* what each transaction sees (its own writes over the committed rows) what *)
(* the property says of the committed rows, and that a transaction never    *)
(* sees less money or fewer reviews than are committed.                     *)
(***************************************************************************)
EXTENDS TopUps, RowStoreProofs, FiniteSetTheorems

\* The rows of v are a wallet and payments; o are the payments of orders.
Rows(v, o) ==
    /\ W \in DOMAIN v
    /\ \A r \in DOMAIN v : v[r] \in IF r = W THEN [Payment -> Nat] ELSE PaymentRow
    /\ \A p \in Payment : P(p) \in DOMAIN v /\ v[P(p)].purpose = "topup" => p \notin o

\* A gateway in state g confirmed payment p, or an admin, as v has it.
Confirmed(v, g, p) == g[p] = "verified" \/ (P(p) \in DOMAIN v /\ v[P(p)].reviewed)

\* CreditIsBacked, of the rows v.
Backed(v, g) ==
    \A p \in Payment :
        /\ v[W][p] > 0 => Confirmed(v, g, p)
        /\ P(p) \in DOMAIN v /\ v[P(p)].purpose = "topup" /\ v[P(p)].status = "approved"
              => v[W][p] > 0

\* v has what w has: no money and no review is lost.
Keeps(w, v) ==
    /\ DOMAIN w \subseteq DOMAIN v
    /\ \A p \in Payment :
          /\ w[W][p] <= v[W][p]
          /\ P(p) \in DOMAIN w /\ w[P(p)].reviewed => v[P(p)].reviewed

Sound(v, g, o) == Rows(v, o) /\ Backed(v, g)

StoreInv ==
    /\ DOMAIN ws = Tx /\ Shaped /\ Exclusive
    /\ db = [r \in DOMAIN db |-> db[r]]
    /\ Sound(db, gw, setup.orders)
    /\ \A t \in Tx : Sound(Visible(t), gw, setup.orders) /\ Keeps(db, Visible(t))

\* A payment that was not created is nowhere.
Fresh ==
    \A p \in Payment \ issued :
        /\ gw[p] = "none"
        /\ P(p) \notin DOMAIN db
        /\ \A t \in Tx : P(p) \notin DOMAIN ws[t]

Session == [op : {"none", "receipt", "charge", "approve", "reject", "callback", "poll"},
            pc : {"idle", "clear", "request", "authority", "next", "ask", "fail", "settle",
                  "lock", "credit", "commit"},
            p : Payment \cup {Null}, todo : SUBSET Payment]

\* What a handler knows of its payment at each statement.
Knows(t) ==
    LET p == sess[t].p
    IN /\ \A q \in sess[t].todo : Exists(t, P(q))
       /\ sess[t].pc \notin {"idle", "next", "commit"} => p \in Payment /\ Exists(t, P(p))
       /\ At(t, "request") => gw[p] = "none" /\ P(p) \in DOMAIN ws[t]
       /\ At(t, "authority") => gw[p] = "open" /\ P(p) \in DOMAIN ws[t]
       /\ At(t, "settle") => p \in setup.orders
       /\ At(t, "lock") \/ At(t, "credit") => gw[p] = "verified" \/ sess[t].op = "approve"
       /\ At(t, "credit") => W \in DOMAIN ws[t]

Types ==
    /\ setup \in Setup
    /\ issued \subseteq Payment
    /\ gw \in [Payment -> {"none", "open", "linked", "paid", "verified"}]
    /\ sess \in [Tx -> Session]
    /\ transfers \in 0..MaxTransfers

Inv == Types /\ StoreInv /\ Fresh /\ \A t \in Tx : Knows(t)
-----------------------------------------------------------------------------
\* The keys of the store are different.
LEMMA Keys ==
    /\ \A p : P(p) # W
    /\ \A p, q : P(p) = P(q) => p = q
    BY DEF P, W

\* What t sees of a row.
LEMMA Seen ==
    ASSUME NEW t \in Tx
    PROVE  /\ DOMAIN Visible(t) = DOMAIN ws[t] \cup DOMAIN db
           /\ \A r : Exists(t, r) <=> r \in DOMAIN Visible(t)
           /\ \A r \in DOMAIN ws[t] : Visible(t)[r] = ws[t][r]
           /\ \A r \in DOMAIN db \ DOMAIN ws[t] : Visible(t)[r] = db[r]
           /\ \A r : Exists(t, r) => Row(t, r) = Visible(t)[r]
    BY DEF Visible, Over, Exists, Row

\* A write adds rows to what its transaction sees.
LEMMA WriteSeen ==
    ASSUME NEW t \in Tx, NEW f, Shaped, DOMAIN ws = Tx, Write(t, f)
    PROVE  /\ db' = db
           /\ Visible(t)' = Over(f, Visible(t))
           /\ DOMAIN ws'[t] = DOMAIN f \cup DOMAIN ws[t]
           /\ \A u \in Tx \ {t} : ws'[u] = ws[u] /\ Visible(u)' = Visible(u)
           /\ DOMAIN ws' = Tx /\ Shaped'
<1>1. /\ db' = db
      /\ ws'[t] = Over(f, ws[t])
      /\ \A u \in Tx \ {t} : ws'[u] = ws[u]
      /\ DOMAIN ws' = Tx
  BY WriteEffect
<1>2. Visible(t)' = Over(f, Visible(t))
  BY <1>1 DEF Visible, Over
<1>3. \A u \in Tx \ {t} : Visible(u)' = Visible(u)
  BY <1>1 DEF Visible
<1>4. DOMAIN ws'[t] = DOMAIN f \cup DOMAIN ws[t]
  BY <1>1 DEF Over
<1>5. Shaped'
  BY DEF Write, Shaped
<1> QED BY <1>1, <1>2, <1>3, <1>4, <1>5

\* Keeping is transitive.
LEMMA KeepsTrans ==
    ASSUME NEW o, NEW u, NEW v, NEW w, Rows(u, o), Rows(v, o), Rows(w, o),
           Keeps(u, v), Keeps(v, w)
    PROVE  Keeps(u, w)
<1>1. ASSUME NEW p \in Payment
      PROVE  u[W][p] \in Nat /\ v[W][p] \in Nat /\ w[W][p] \in Nat
  BY DEF Rows
<1> QED BY <1>1 DEF Keeps

\* What no step does: to forget that a gateway verified a payment.
Remembers(g, h) == \A p \in Payment : g[p] = "verified" => h[p] = "verified"

\* Rows that were sound stay so, as the gateway forgets nothing.
LEMMA SoundStays ==
    ASSUME NEW v, NEW o, NEW g, NEW h, Sound(v, g, o), Remembers(g, h)
    PROVE  Sound(v, h, o)
    BY DEF Sound, Rows, Backed, Confirmed, Remembers

\* Another payment row: it may not lose a review, and it may be approved only
\* with the money in the wallet.
LEMMA PaymentWrite ==
    ASSUME NEW v, NEW g, NEW o, Sound(v, g, o), NEW p \in Payment, NEW row \in PaymentRow,
           row.purpose = "topup" => p \notin o,
           P(p) \in DOMAIN v /\ v[P(p)].reviewed => row.reviewed,
           row.purpose = "topup" /\ row.status = "approved" => v[W][p] > 0
    PROVE  /\ Sound(Over(Is(P(p), row), v), g, o)
           /\ Keeps(v, Over(Is(P(p), row), v))
<1> DEFINE n == Over(Is(P(p), row), v)
<1>1. /\ DOMAIN n = {P(p)} \cup DOMAIN v
      /\ n[P(p)] = row
      /\ \A r \in DOMAIN v \ {P(p)} : n[r] = v[r]
  BY DEF Over, Is
<1>2. n[W] = v[W] /\ W \in DOMAIN v /\ v[W] \in [Payment -> Nat]
  BY <1>1, Keys DEF Sound, Rows
<1>3. \A q \in Payment : q # p => /\ P(q) \in DOMAIN n <=> P(q) \in DOMAIN v
                                  /\ P(q) \in DOMAIN v => n[P(q)] = v[P(q)]
  BY <1>1, Keys
<1> HIDE DEF n
<1>4. Rows(n, o)
  <2>1. \A r \in DOMAIN n : n[r] \in IF r = W THEN [Payment -> Nat] ELSE PaymentRow
    BY <1>1, Keys DEF Sound, Rows
  <2>2. \A q \in Payment : P(q) \in DOMAIN n /\ n[P(q)].purpose = "topup" => q \notin o
    BY <1>1, <1>3 DEF Sound, Rows
  <2> QED BY <1>1, <1>2, <2>1, <2>2 DEF Rows
<1>5. Backed(n, g)
  <2> SUFFICES ASSUME NEW q \in Payment
               PROVE  /\ n[W][q] > 0 => Confirmed(n, g, q)
                      /\ P(q) \in DOMAIN n /\ n[P(q)].purpose = "topup" /\ n[P(q)].status = "approved"
                            => n[W][q] > 0
    BY DEF Backed
  <2>1. CASE q = p
    BY <1>1, <1>2, <2>1 DEF Sound, Backed, Confirmed
  <2>2. CASE q # p
    BY <1>2, <1>3, <2>2 DEF Sound, Backed, Confirmed
  <2> QED BY <2>1, <2>2
<1>6. Keeps(v, n)
  <2>1. \A q \in Payment : P(q) \in DOMAIN v /\ v[P(q)].reviewed => n[P(q)].reviewed
    BY <1>1, <1>3
  <2> QED BY <1>1, <1>2, <2>1 DEF Keeps
<1> QED BY <1>4, <1>5, <1>6 DEF n, Sound

\* Money in the wallet for a confirmed payment, and the payment approved.
LEMMA CreditWrite ==
    ASSUME NEW v, NEW g, NEW o, Sound(v, g, o), NEW p \in Payment, NEW row \in PaymentRow,
           row.purpose = "topup" => p \notin o,
           P(p) \in DOMAIN v /\ v[P(p)].reviewed => row.reviewed,
           g[p] = "verified" \/ row.reviewed,
           NEW f, f = Over(Is(W, [v[W] EXCEPT ![p] = @ + 1]), Is(P(p), row))
    PROVE  Sound(Over(f, v), g, o) /\ Keeps(v, Over(f, v))
<1> DEFINE w == [v[W] EXCEPT ![p] = @ + 1]
           n == Over(f, v)
<1>1. /\ v[W] \in [Payment -> Nat] /\ W \in DOMAIN v
      /\ w \in [Payment -> Nat]
      /\ w[p] = v[W][p] + 1
      /\ \A q \in Payment \ {p} : w[q] = v[W][q]
  BY DEF Sound, Rows
<1>2. /\ DOMAIN n = {W, P(p)} \cup DOMAIN v
      /\ n[W] = w
      /\ n[P(p)] = row
      /\ \A r \in DOMAIN v \ {W, P(p)} : n[r] = v[r]
  BY Keys DEF Over, Is
<1>3. \A q \in Payment : q # p => /\ P(q) \in DOMAIN n <=> P(q) \in DOMAIN v
                                  /\ P(q) \in DOMAIN v => n[P(q)] = v[P(q)]
  BY <1>2, Keys
<1> HIDE DEF n, w
<1>4. Rows(n, o)
  <2>1. \A r \in DOMAIN n : n[r] \in IF r = W THEN [Payment -> Nat] ELSE PaymentRow
    BY <1>1, <1>2, Keys DEF Sound, Rows
  <2>2. \A q \in Payment : P(q) \in DOMAIN n /\ n[P(q)].purpose = "topup" => q \notin o
    BY <1>2, <1>3 DEF Sound, Rows
  <2> QED BY <1>2, <2>1, <2>2 DEF Rows
<1>5. Backed(n, g)
  <2> SUFFICES ASSUME NEW q \in Payment
               PROVE  /\ n[W][q] > 0 => Confirmed(n, g, q)
                      /\ P(q) \in DOMAIN n /\ n[P(q)].purpose = "topup" /\ n[P(q)].status = "approved"
                            => n[W][q] > 0
    BY DEF Backed
  <2>1. CASE q = p
    <3>1. v[W][p] \in Nat
      BY <1>1
    <3> QED BY <1>1, <1>2, <2>1, <3>1 DEF Confirmed
  <2>2. CASE q # p
    BY <1>1, <1>2, <1>3, <2>2 DEF Sound, Backed, Confirmed
  <2> QED BY <2>1, <2>2
<1>6. Keeps(v, n)
  <2>1. \A q \in Payment : P(q) \in DOMAIN v /\ v[P(q)].reviewed => n[P(q)].reviewed
    BY <1>2, <1>3
  <2>2. \A q \in Payment : v[W][q] \in Nat /\ v[W][q] <= n[W][q]
    BY <1>1, <1>2
  <2> QED BY <1>2, <2>1, <2>2 DEF Keeps
<1> QED BY <1>4, <1>5, <1>6 DEF n, Sound

\* A lock changes nothing that its transaction sees.
LEMMA LockWrite ==
    ASSUME NEW t \in Tx, NEW r, Exists(t, r)
    PROVE  Over(Is(r, Row(t, r)), Visible(t)) = Visible(t)
<1>1. r \in DOMAIN Visible(t) /\ Row(t, r) = Visible(t)[r]
  BY Seen
<1>2. Visible(t) = [s \in DOMAIN Visible(t) |-> Visible(t)[s]]
  BY DEF Visible, Over
<1> QED BY <1>1, <1>2 DEF Over, Is

\* Everything keeps itself.
LEMMA KeepsRefl ==
    ASSUME NEW v, NEW o, Rows(v, o)
    PROVE  Keeps(v, v)
<1>1. \A p \in Payment : v[W][p] \in Nat
  BY DEF Rows
<1> QED BY <1>1 DEF Keeps

Outside == setup' = setup /\ Remembers(gw, gw')

\* A new statement of a transaction keeps the store sound, if what it sees is.
LEMMA WriteInv ==
    ASSUME StoreInv, Outside, NEW t \in Tx, NEW f, Write(t, f),
           Sound(Over(f, Visible(t)), gw, setup.orders), Keeps(Visible(t), Over(f, Visible(t)))
    PROVE  StoreInv'
<1>1. /\ db' = db
      /\ Visible(t)' = Over(f, Visible(t))
      /\ \A u \in Tx \ {t} : Visible(u)' = Visible(u)
      /\ DOMAIN ws' = Tx /\ Shaped'
  BY WriteSeen DEF StoreInv
<1>2. Exclusive'
  BY WriteExclusive DEF StoreInv
<1>3. Sound(db', gw', setup'.orders)
  BY <1>1, SoundStays DEF StoreInv, Outside
<1>4. ASSUME NEW u \in Tx
      PROVE  Sound(Visible(u)', gw', setup'.orders) /\ Keeps(db', Visible(u)')
  <2>1. CASE u = t
    <3>1. Keeps(db, Over(f, Visible(t)))
      BY KeepsTrans DEF StoreInv, Sound
    <3> QED BY <1>1, <2>1, <3>1, SoundStays DEF Outside
  <2>2. CASE u # t
    BY <1>1, <2>2, SoundStays DEF StoreInv, Outside
  <2> QED BY <2>1, <2>2
<1> QED BY <1>1, <1>2, <1>3, <1>4 DEF StoreInv

\* What u sees after another transaction, which holds none of its rows,
\* committed what v has.
LEMMA Merge ==
    ASSUME NEW d, NEW v, NEW x, NEW n, NEW g, NEW o,
           Sound(d, g, o), Sound(v, g, o), Keeps(d, v),
           Sound(Over(x, d), g, o), Keeps(d, Over(x, d)),
           \A r \in DOMAIN x : r \in DOMAIN v => r \in DOMAIN d /\ v[r] = d[r],
           n = Over(x, v)
    PROVE  Sound(n, g, o) /\ Keeps(v, n)
<1> DEFINE m == Over(x, d)
<1>1. /\ DOMAIN n = DOMAIN x \cup DOMAIN v
      /\ \A r \in DOMAIN x : n[r] = m[r]
      /\ \A r \in DOMAIN v \ DOMAIN x : n[r] = v[r]
      /\ DOMAIN m = DOMAIN x \cup DOMAIN d
      /\ \A r \in DOMAIN d \ DOMAIN x : m[r] = d[r]
  BY DEF Over
<1> HIDE DEF m
<1>2. Rows(d, o) /\ Rows(v, o) /\ Rows(m, o)
  BY DEF m, Sound
<1>3. Rows(n, o)
  <2>1. \A r \in DOMAIN n : n[r] \in IF r = W THEN [Payment -> Nat] ELSE PaymentRow
    BY <1>1, <1>2 DEF Rows
  <2>2. \A q \in Payment : P(q) \in DOMAIN n /\ n[P(q)].purpose = "topup" => q \notin o
    BY <1>1, <1>2 DEF Rows
  <2> QED BY <1>1, <1>2, <2>1, <2>2 DEF Rows
<1>4. ASSUME NEW p \in Payment
      PROVE  /\ d[W][p] \in Nat /\ v[W][p] \in Nat /\ m[W][p] \in Nat
             /\ d[W][p] <= v[W][p] /\ d[W][p] <= m[W][p]
             /\ n[W][p] = IF W \in DOMAIN x THEN m[W][p] ELSE v[W][p]
             /\ W \in DOMAIN x => v[W][p] = d[W][p]
             /\ P(p) \in DOMAIN d /\ d[P(p)].reviewed => v[P(p)].reviewed /\ m[P(p)].reviewed
  <2>1. W \in DOMAIN d /\ W \in DOMAIN v /\ W \in DOMAIN m
    BY <1>2 DEF Rows
  <2>2. d[W] \in [Payment -> Nat] /\ v[W] \in [Payment -> Nat] /\ m[W] \in [Payment -> Nat]
    BY <1>2, <2>1 DEF Rows
  <2>3. W \in DOMAIN x => v[W] = d[W]
    BY <2>1
  <2>4. n[W] = IF W \in DOMAIN x THEN m[W] ELSE v[W]
    BY <1>1, <2>1
  <2> QED BY <2>2, <2>3, <2>4 DEF Keeps, m
<1>5. Backed(n, g)
  <2> SUFFICES ASSUME NEW p \in Payment
               PROVE  /\ n[W][p] > 0 => Confirmed(n, g, p)
                      /\ P(p) \in DOMAIN n /\ n[P(p)].purpose = "topup" /\ n[P(p)].status = "approved"
                            => n[W][p] > 0
    BY DEF Backed
  <2>1. Backed(v, g) /\ Backed(m, g) /\ Backed(d, g)
    BY DEF Sound, m
  <2>2. CASE P(p) \in DOMAIN x
    <3>1. P(p) \in DOMAIN n /\ P(p) \in DOMAIN m /\ n[P(p)] = m[P(p)]
      BY <1>1, <2>2
    <3>2. n[W][p] > 0 => Confirmed(n, g, p)
      <4>1. CASE W \in DOMAIN x
        BY <1>4, <2>1, <3>1, <4>1 DEF Backed, Confirmed
      <4>2. CASE W \notin DOMAIN x
        <5>1. P(p) \in DOMAIN v => P(p) \in DOMAIN d /\ v[P(p)] = d[P(p)]
          BY <2>2
        <5>2. Confirmed(v, g, p) => Confirmed(n, g, p)
          BY <1>4, <3>1, <5>1 DEF Confirmed
        <5> QED BY <1>4, <2>1, <4>2, <5>2 DEF Backed
      <4> QED BY <4>1, <4>2
    <3>3. n[P(p)].purpose = "topup" /\ n[P(p)].status = "approved" => n[W][p] > 0
      <4>1. n[P(p)].purpose = "topup" /\ n[P(p)].status = "approved" => m[W][p] > 0
        BY <2>1, <3>1 DEF Backed
      <4>2. W \notin DOMAIN x => m[W] = d[W]
        BY <1>1, <1>2 DEF Rows
      <4> QED BY <1>4, <4>1, <4>2
    <3> QED BY <3>2, <3>3
  <2>3. CASE P(p) \notin DOMAIN x
    <3>1. /\ P(p) \in DOMAIN n <=> P(p) \in DOMAIN v
          /\ P(p) \in DOMAIN m <=> P(p) \in DOMAIN d
          /\ P(p) \in DOMAIN v => n[P(p)] = v[P(p)]
          /\ P(p) \in DOMAIN d => m[P(p)] = d[P(p)] /\ P(p) \in DOMAIN v
      BY <1>1, <2>3 DEF Keeps
    <3>2. n[W][p] > 0 => Confirmed(n, g, p)
      <4>1. CASE W \in DOMAIN x
        <5>1. Confirmed(m, g, p) => Confirmed(n, g, p)
          BY <1>4, <3>1 DEF Confirmed
        <5> QED BY <1>4, <2>1, <4>1, <5>1 DEF Backed
      <4>2. CASE W \notin DOMAIN x
        BY <1>4, <2>1, <3>1, <4>2 DEF Backed, Confirmed
      <4> QED BY <4>1, <4>2
    <3>3. P(p) \in DOMAIN n /\ n[P(p)].purpose = "topup" /\ n[P(p)].status = "approved"
             => n[W][p] > 0
      BY <1>4, <2>1, <3>1 DEF Backed
    <3> QED BY <3>2, <3>3
  <2> QED BY <2>2, <2>3
<1>6. Keeps(v, n)
  <2>1. ASSUME NEW p \in Payment
        PROVE  v[W][p] <= n[W][p]
    BY <1>4
  <2>2. ASSUME NEW p \in Payment, P(p) \in DOMAIN v, v[P(p)].reviewed
        PROVE  n[P(p)].reviewed
    <3>1. CASE P(p) \in DOMAIN x
      BY <1>1, <1>4, <2>2, <3>1
    <3>2. CASE P(p) \notin DOMAIN x
      BY <1>1, <2>2, <3>2
    <3> QED BY <3>1, <3>2
  <2> QED BY <1>1, <2>1, <2>2 DEF Keeps
<1> QED BY <1>3, <1>5, <1>6 DEF Sound

\* The end of a transaction keeps the store sound.
LEMMA EndInv ==
    ASSUME StoreInv, NEW t \in Tx, Commit(t) \/ Rollback(t), UNCHANGED <<gw, setup>>
    PROVE  /\ StoreInv'
           /\ DOMAIN db \subseteq DOMAIN db'
           /\ ws'[t] = NoRows
           /\ \A u \in Tx \ {t} : ws'[u] = ws[u]
<1>1. /\ ws'[t] = NoRows /\ DOMAIN ws'[t] = {}
      /\ \A u \in Tx \ {t} : ws'[u] = ws[u]
      /\ DOMAIN ws' = Tx
  BY EndEffect DEF StoreInv
<1>2. Exclusive'
  BY EndExclusive DEF StoreInv
<1>3. Shaped'
  BY DEF Commit, Rollback, Shaped, StoreInv
<1>4. db' = Visible(t) \/ db' = db
  BY DEF Commit, Rollback
<1>5. Sound(db', gw', setup'.orders) /\ Keeps(db, db')
  BY <1>4, KeepsRefl DEF StoreInv, Sound
<1>6. db' = [r \in DOMAIN db' |-> db'[r]]
  BY <1>4 DEF Visible, Over, StoreInv
<1>7. ASSUME NEW u \in Tx
      PROVE  Sound(Visible(u)', gw', setup'.orders) /\ Keeps(db', Visible(u)')
  <2>1. Visible(u)' = Over(ws'[u], db')
    BY DEF Visible
  <2>2. CASE u = t
    <3>1. Over(NoRows, db') = db'
      BY <1>6 DEF Over, NoRows
    <3> QED BY <1>1, <1>5, <2>1, <2>2, <3>1, KeepsRefl DEF Sound
  <2>3. CASE u # t
    <3>1. Sound(Over(ws[u], db), gw, setup.orders) /\ Keeps(db, Over(ws[u], db))
      BY DEF StoreInv, Visible
    <3>2. ASSUME NEW r \in DOMAIN ws[u], r \in DOMAIN db'
          PROVE  r \in DOMAIN db /\ db'[r] = db[r]
      <4>1. r \notin DOMAIN ws[t]
        BY <2>3 DEF StoreInv, Exclusive
      <4> QED BY <1>4, <3>2, <4>1, Seen, ZenonT(30)
    <3> QED BY <1>1, <1>5, <2>1, <2>3, <3>1, <3>2, Merge DEF StoreInv
  <2> QED BY <2>2, <2>3
<1> QED BY <1>1, <1>2, <1>3, <1>5, <1>6, <1>7 DEF StoreInv, Keeps

\* A step of the world outside keeps the store sound.
LEMMA OutsideInv ==
    ASSUME StoreInv, Outside, UNCHANGED store
    PROVE  StoreInv'
<1>1. \A u \in Tx : Visible(u)' = Visible(u)
  BY DEF Visible, store
<1>2. Sound(db', gw', setup'.orders)
  BY SoundStays DEF StoreInv, Outside, store
<1>3. \A u \in Tx : Sound(Visible(u)', gw', setup'.orders)
  BY <1>1, SoundStays DEF StoreInv, Outside
<1>4. Exclusive' /\ Shaped' /\ DOMAIN ws' = Tx
  BY DEF StoreInv, store, Exclusive, Shaped
<1> QED BY <1>1, <1>2, <1>3, <1>4 DEF StoreInv, store
-----------------------------------------------------------------------------
\* What a handler knows of its payment survives the steps of others.
LEMMA OthersKnow ==
    ASSUME NEW u \in Tx, Knows(u), Outside, sess'[u] = sess[u], ws'[u] = ws[u],
           DOMAIN db \subseteq DOMAIN db',
           \A p \in Payment : P(p) \in DOMAIN ws[u] /\ gw[p] \in {"none", "open"} => gw'[p] = gw[p]
    PROVE  Knows(u)'
<1>1. \A r : Exists(u, r) => Exists(u, r)'
  BY DEF Exists
<1> QED BY <1>1 DEF Knows, At, Outside, Remembers

\* What the steps of a handler have in common: a sound store, and what the other
\* handlers know.
StepOf(t) ==
    /\ StoreInv'
    /\ Fresh'
    /\ \A u \in Tx \ {t} : Knows(u)'

\* What a step of t may do at the gateway: nothing to payments that do not exist, or
\* that another handler has just created, and to verified ones.
AtGateway(t) ==
    /\ Outside
    /\ \A p \in Payment \ issued : gw'[p] = gw[p]
    /\ \A u \in Tx \ {t}, p \in Payment :
          P(p) \in DOMAIN ws[u] /\ gw[p] \in {"none", "open"} => gw'[p] = gw[p]

\* It may do nothing there.
LEMMA NotAtGateway ==
    ASSUME NEW t \in Tx, UNCHANGED <<gw, setup>>
    PROVE  AtGateway(t)
    BY DEF AtGateway, Outside, Remembers

\* The payment of a session, as the transaction sees it.
LEMMA PayRow ==
    ASSUME Inv, NEW t \in Tx, NEW p \in Payment, Exists(t, P(p))
    PROVE  /\ Row(t, P(p)) = Visible(t)[P(p)]
           /\ Row(t, P(p)) \in PaymentRow
           /\ Row(t, P(p)).purpose = "topup" => p \notin setup.orders
           /\ P(p) \in DOMAIN Visible(t)
           /\ p \in issued
<1>1. P(p) \in DOMAIN Visible(t) /\ Row(t, P(p)) = Visible(t)[P(p)]
  BY Seen
<1>2. Rows(Visible(t), setup.orders)
  BY DEF Inv, StoreInv, Sound
<1>3. p \in issued
  BY DEF Inv, Fresh, Exists
<1> QED BY <1>1, <1>2, <1>3, Keys DEF Rows

\* A statement that writes rows of payments already created.
LEMMA WriteStep ==
    ASSUME Inv, NEW t \in Tx, NEW f, Write(t, f),
           Sound(Over(f, Visible(t)), gw, setup.orders), Keeps(Visible(t), Over(f, Visible(t))),
           \A p \in Payment : P(p) \in DOMAIN f => p \in issued',
           \A p \in Payment : P(p) \in DOMAIN ws[t] => p \in issued',
           issued \subseteq issued', issued' \subseteq Payment,
           AtGateway(t), \A u \in Tx \ {t} : sess'[u] = sess[u]
    PROVE  StepOf(t)
<1>1. Outside
  BY DEF AtGateway
<1>2. StoreInv'
  BY <1>1, WriteInv DEF Inv
<1>3. /\ db' = db
      /\ DOMAIN ws'[t] = DOMAIN f \cup DOMAIN ws[t]
      /\ \A u \in Tx \ {t} : ws'[u] = ws[u]
  BY WriteSeen DEF Inv, StoreInv
<1>4. Fresh'
  <2> SUFFICES ASSUME NEW p \in Payment \ issued'
               PROVE  /\ gw'[p] = "none"
                      /\ P(p) \notin DOMAIN db'
                      /\ \A u \in Tx : P(p) \notin DOMAIN ws'[u]
    BY DEF Fresh
  <2>1. p \in Payment \ issued /\ gw'[p] = "none" /\ P(p) \notin DOMAIN db'
    BY <1>3 DEF Inv, Fresh, AtGateway
  <2>2. ASSUME NEW u \in Tx
        PROVE  P(p) \notin DOMAIN ws'[u]
    BY <1>3, <2>1 DEF Inv, Fresh
  <2> QED BY <2>1, <2>2
<1>5. \A u \in Tx \ {t} : Knows(u)'
  <2> SUFFICES ASSUME NEW u \in Tx \ {t} PROVE Knows(u)'
    OBVIOUS
  <2>1. Knows(u) /\ sess'[u] = sess[u] /\ ws'[u] = ws[u] /\ DOMAIN db \subseteq DOMAIN db'
    BY <1>3 DEF Inv
  <2> QED BY <1>1, <2>1, OthersKnow DEF AtGateway
<1> QED BY <1>2, <1>4, <1>5 DEF StepOf

\* The end of a transaction.
LEMMA EndStep ==
    ASSUME Inv, NEW t \in Tx, Commit(t) \/ Rollback(t), Close(t), UNCHANGED <<gw, setup, issued>>
    PROVE  StepOf(t) /\ Knows(t)' /\ sess' \in [Tx -> Session]
<1>1. sess \in [Tx -> Session] /\ sess'[t] = Idle /\ \A u \in Tx \ {t} : sess'[u] = sess[u]
  BY DEF Inv, Types, Close
<1>2. sess' \in [Tx -> Session]
  BY <1>1 DEF Close, Idle, Session
<1>3. /\ StoreInv'
      /\ DOMAIN db \subseteq DOMAIN db'
      /\ ws'[t] = NoRows
      /\ \A u \in Tx \ {t} : ws'[u] = ws[u]
  BY EndInv DEF Inv
<1>4. Outside
  BY DEF Outside, Remembers
<1>5. Fresh'
  <2> SUFFICES ASSUME NEW p \in Payment \ issued
               PROVE  /\ gw'[p] = "none"
                      /\ P(p) \notin DOMAIN db'
                      /\ \A u \in Tx : P(p) \notin DOMAIN ws'[u]
    BY DEF Fresh
  <2>1. gw[p] = "none" /\ P(p) \notin DOMAIN db /\ \A u \in Tx : P(p) \notin DOMAIN ws[u]
    BY DEF Inv, Fresh
  <2>2. P(p) \notin DOMAIN db'
    BY <2>1, Seen DEF Commit, Rollback
  <2>3. \A u \in Tx : P(p) \notin DOMAIN ws'[u]
    BY <1>3, <2>1 DEF NoRows
  <2> QED BY <2>1, <2>2, <2>3
<1>6. \A u \in Tx \ {t} : Knows(u)'
  <2> SUFFICES ASSUME NEW u \in Tx \ {t} PROVE Knows(u)'
    OBVIOUS
  <2>1. Knows(u) /\ sess'[u] = sess[u] /\ ws'[u] = ws[u] /\ gw' = gw
    BY <1>1, <1>3 DEF Inv
  <2> QED BY <1>3, <1>4, <2>1, OthersKnow
<1>7. Knows(t)'
  <2>1. sess'[t].todo = {} /\ sess'[t].pc = "idle"
    BY <1>1 DEF Idle
  <2> QED BY <2>1 DEF Knows, At
<1> QED BY <1>2, <1>3, <1>5, <1>6, <1>7 DEF StepOf

\* A statement that does not touch the store.
LEMMA QuietStep ==
    ASSUME Inv, NEW t \in Tx, UNCHANGED <<store, issued>>, AtGateway(t),
           \A u \in Tx \ {t} : sess'[u] = sess[u]
    PROVE  StepOf(t) /\ \A r : Exists(t, r)' <=> Exists(t, r)
<1>1. StoreInv'
  BY OutsideInv DEF Inv, AtGateway
<1>2. Fresh'
  BY DEF Inv, Fresh, store, AtGateway
<1>3. \A u \in Tx \ {t} : Knows(u)'
  <2> SUFFICES ASSUME NEW u \in Tx \ {t} PROVE Knows(u)'
    OBVIOUS
  <2>1. Knows(u) /\ sess'[u] = sess[u] /\ ws'[u] = ws[u] /\ DOMAIN db \subseteq DOMAIN db'
    BY DEF Inv, store
  <2> QED BY <2>1, OthersKnow DEF AtGateway
<1> QED BY <1>1, <1>2, <1>3 DEF StepOf, Exists, store

\* A change at the gateway to a payment that no other handler has just created.
LEMMA OnePayment ==
    ASSUME Inv, NEW t \in Tx, NEW p \in issued, setup' = setup,
           \A q \in Payment \ {p} : gw'[q] = gw[q],
           gw[p] = "verified" => gw'[p] = "verified",
           \A u \in Tx \ {t} : P(p) \in DOMAIN ws[u] /\ gw[p] \in {"none", "open"} => gw'[p] = gw[p]
    PROVE  AtGateway(t)
<1>1. Outside
  BY DEF Outside, Remembers
<1>2. ASSUME NEW u \in Tx \ {t}, NEW q \in Payment, P(q) \in DOMAIN ws[u], gw[q] \in {"none", "open"}
      PROVE  gw'[q] = gw[q]
  BY <1>2
<1> QED BY <1>1, <1>2 DEF AtGateway

\* A write of the session's own payment row.
LEMMA OwnWrite ==
    ASSUME Inv, NEW t \in Tx, NEW p \in Payment, Exists(t, P(p)), NEW row \in PaymentRow,
           row.purpose = Row(t, P(p)).purpose,
           Row(t, P(p)).reviewed => row.reviewed,
           row.purpose = "topup" /\ row.status = "approved" => Row(t, P(p)).status = "approved",
           Write(t, Is(P(p), row)),
           issued' = issued, AtGateway(t), \A u \in Tx \ {t} : sess'[u] = sess[u]
    PROVE  StepOf(t) /\ (\A r : Exists(t, r) => Exists(t, r)')
<1> DEFINE f == Is(P(p), row)
<1>1. /\ Row(t, P(p)) = Visible(t)[P(p)]
      /\ row.purpose = "topup" => p \notin setup.orders
      /\ P(p) \in DOMAIN Visible(t)
      /\ p \in issued
  BY PayRow
<1>2. Sound(Visible(t), gw, setup.orders)
  BY DEF Inv, StoreInv
<1>3. row.purpose = "topup" /\ row.status = "approved" => Visible(t)[W][p] > 0
  BY <1>1, <1>2 DEF Sound, Backed
<1>4. Sound(Over(f, Visible(t)), gw, setup.orders) /\ Keeps(Visible(t), Over(f, Visible(t)))
  BY <1>1, <1>2, <1>3, PaymentWrite
<1>5. DOMAIN f = {P(p)}
  BY DEF Is
<1>6. \A q \in Payment : P(q) \in DOMAIN f \/ P(q) \in DOMAIN ws[t] => q \in issued
  BY <1>1, <1>5, Keys DEF Inv, Fresh
<1>7. issued \subseteq Payment
  BY DEF Inv, Types
<1>8. StepOf(t)
  BY <1>4, <1>6, <1>7, WriteStep
<1>9. db' = db /\ DOMAIN ws'[t] = DOMAIN f \cup DOMAIN ws[t]
  BY WriteSeen DEF Inv, StoreInv
<1> QED BY <1>8, <1>9 DEF Exists

\* The first row of a new payment.
LEMMA NewPayment ==
    ASSUME Inv, NEW t \in Tx, NEW p \in setup.topups \ issued, NEW row \in {CardRow, GatewayRow},
           Write(t, Is(P(p), row)), issued' = issued \cup {p},
           UNCHANGED <<gw, setup>>, \A u \in Tx \ {t} : sess'[u] = sess[u]
    PROVE  /\ StepOf(t)
           /\ p \in Payment /\ issued' \subseteq Payment
           /\ gw[p] = "none"
           /\ P(p) \in DOMAIN ws'[t] /\ Exists(t, P(p))'
<1> DEFINE f == Is(P(p), row)
<1>1. /\ row \in PaymentRow
      /\ row.status = "pending"
  <2>1. CASE row = CardRow
    BY <2>1 DEF CardRow, PaymentRow
  <2>2. CASE row = GatewayRow
    BY <2>2 DEF GatewayRow, PaymentRow
  <2> QED BY <2>1, <2>2
<1>2. p \in Payment /\ p \notin setup.orders /\ issued' \subseteq Payment
  <2>1. setup \in Setup /\ issued \subseteq Payment
    BY DEF Inv, Types
  <2>2. setup.topups \subseteq Payment
    BY <2>1, PaymentAssumption DEF SetupType
  <2>3. setup.orders \subseteq setup.linked /\ setup.linked \cap setup.topups = {}
    BY <2>1, PaymentAssumption
  <2> QED BY <2>1, <2>2, <2>3
<1>3. gw[p] = "none" /\ P(p) \notin DOMAIN db /\ P(p) \notin DOMAIN ws[t]
  BY <1>2 DEF Inv, Fresh
<1>4. P(p) \notin DOMAIN Visible(t) /\ Sound(Visible(t), gw, setup.orders)
  BY <1>3, Seen, ZenonT(30) DEF Inv, StoreInv
<1>5. Sound(Over(f, Visible(t)), gw, setup.orders) /\ Keeps(Visible(t), Over(f, Visible(t)))
  BY <1>1, <1>2, <1>4, PaymentWrite
<1>6. DOMAIN f = {P(p)}
  BY DEF Is
<1>7. \A q \in Payment : P(q) \in DOMAIN f \/ P(q) \in DOMAIN ws[t] => q \in issued'
  BY <1>6, Keys DEF Inv, Fresh
<1>8. StepOf(t)
  BY <1>2, <1>5, <1>7, NotAtGateway, WriteStep
<1>9. DOMAIN ws'[t] = DOMAIN f \cup DOMAIN ws[t]
  BY WriteSeen DEF Inv, StoreInv
<1> QED BY <1>2, <1>3, <1>6, <1>8, <1>9 DEF Exists
-----------------------------------------------------------------------------
\* The invariant holds when the program starts.
LEMMA InitInv == Init => Inv
<1> SUFFICES ASSUME Init PROVE Inv
  OBVIOUS
<1> DEFINE L == {P(p) : p \in setup.linked}
           none == [p \in Payment |-> 0]
<1>1. /\ setup \in Setup
      /\ setup.linked \subseteq Payment
      /\ setup.orders \subseteq setup.linked
      /\ setup \in SetupType
  BY PaymentAssumption DEF Init, SetupType
<1>2. Types
  <2>1. issued \subseteq Payment /\ sess \in [Tx -> Session]
    BY <1>1 DEF Init, Idle, Session
  <2>2. gw \in [Payment -> {"none", "open", "linked", "paid", "verified"}]
    BY DEF Init
  <2> QED BY <1>1, <2>1, <2>2, PaymentAssumption DEF Init, Types
<1>3. /\ DOMAIN db = L \cup {W}
      /\ db = [r \in DOMAIN db |-> db[r]]
      /\ db[W] = none
      /\ \A p \in setup.linked : db[P(p)] = LinkedRow(p)
  <2>1. W \notin L
    BY Keys
  <2>2. \A p : P(p)[2] = p
    BY DEF P
  <2> QED BY <2>1, <2>2 DEF Init, Over, Is
<1>4. \A p \in setup.linked : LinkedRow(p) \in PaymentRow /\ LinkedRow(p).status = "pending"
                              /\ (LinkedRow(p).purpose = "topup" => p \notin setup.orders)
  BY DEF LinkedRow, GatewayRow, PaymentRow
<1>5. \A p \in Payment : P(p) \in DOMAIN db => p \in setup.linked
  BY <1>3, Keys
<1>6. Sound(db, gw, setup.orders)
  <2>1. \A r \in DOMAIN db : db[r] \in IF r = W THEN [Payment -> Nat] ELSE PaymentRow
    BY <1>3, <1>4, Keys
  <2>2. Rows(db, setup.orders)
    BY <1>3, <1>4, <1>5, <2>1 DEF Rows
  <2>3. Backed(db, gw)
    BY <1>3, <1>4, <1>5 DEF Backed
  <2> QED BY <2>2, <2>3 DEF Sound
<1>7. ASSUME NEW t \in Tx
      PROVE  ws[t] = NoRows /\ DOMAIN ws[t] = {} /\ Visible(t) = db
  <2>1. ws[t] = NoRows /\ DOMAIN ws[t] = {}
    BY DEF Init, NoRows
  <2> QED BY <1>3, <2>1 DEF Visible, Over
<1>8. StoreInv
  <2>1. DOMAIN ws = Tx /\ Shaped
    BY DEF Init, Shaped
  <2>2. Exclusive
    BY <1>7 DEF Exclusive
  <2>3. \A t \in Tx : Sound(Visible(t), gw, setup.orders) /\ Keeps(db, Visible(t))
    BY <1>6, <1>7, KeepsRefl DEF Sound
  <2> QED BY <1>3, <1>6, <2>1, <2>2, <2>3 DEF StoreInv
<1>9. Fresh
  BY <1>5, <1>7 DEF Init, Fresh
<1>10. \A t \in Tx : Knows(t)
  BY DEF Init, Idle, Knows, At
<1> QED BY <1>2, <1>8, <1>9, <1>10 DEF Inv

\* The steps of the customer and of time.
LEMMA OutsideSteps ==
    ASSUME Inv,
           \/ ChargeAmount \/ ChargeCard \/ ChargeTracking
           \/ \E p \in Payment : PayAtGateway(p) \/ Tick(p)
           \/ UNCHANGED vars
    PROVE  Inv'
<1>1. UNCHANGED <<store, setup, sess, issued>> /\ Remembers(gw, gw') /\ Types'
  <2>1. CASE ChargeAmount
    BY <2>1 DEF ChargeAmount, rest, Remembers, Inv, Types
  <2>2. CASE ChargeCard
    BY <2>2, PaymentAssumption DEF ChargeCard, rest, Remembers, Inv, Types
  <2>3. CASE ChargeTracking
    BY <2>3 DEF ChargeTracking, rest, Remembers, Inv, Types
  <2>4. ASSUME NEW p \in Payment, PayAtGateway(p)
        PROVE  UNCHANGED <<store, setup, sess, issued>> /\ Remembers(gw, gw') /\ Types'
    BY <2>4 DEF PayAtGateway, rest, Remembers, Inv, Types
  <2>5. ASSUME NEW p \in Payment, Tick(p)
        PROVE  UNCHANGED <<store, setup, sess, issued>> /\ Remembers(gw, gw') /\ Types'
    BY <2>5 DEF Tick, rest, Remembers, Inv, Types
  <2>6. CASE UNCHANGED vars
    BY <2>6 DEF vars, store, Remembers, Inv, Types
  <2> QED BY <2>1, <2>2, <2>3, <2>4, <2>5, <2>6
<1>2. \A p \in Payment : gw[p] \in {"none", "open"} => gw'[p] = gw[p]
  BY DEF ChargeAmount, ChargeCard, ChargeTracking, PayAtGateway, Tick, vars, Inv, Types
<1>3. StoreInv' /\ Outside
  BY <1>1, OutsideInv DEF Inv, Outside
<1>4. Fresh'
  BY <1>1, <1>2 DEF Inv, Fresh, store
<1>5. ASSUME NEW u \in Tx
      PROVE  Knows(u)'
  <2>1. Knows(u) /\ sess'[u] = sess[u] /\ ws'[u] = ws[u] /\ DOMAIN db \subseteq DOMAIN db'
    BY <1>1 DEF Inv, store
  <2> QED BY <1>2, <1>3, <2>1, OthersKnow
<1> QED BY <1>1, <1>3, <1>4, <1>5 DEF Inv

\* What remains to be shown of a handler's step.
LEMMA StepDone ==
    ASSUME NEW t \in Tx, Types', StepOf(t), Knows(t)'
    PROVE  Inv'
    BY DEF Inv, StepOf

\* The statements that begin a handler.
LEMMA BeginSteps ==
    ASSUME Inv, NEW t \in Tx, NEW p \in Payment,
           \/ CreateCardTopup(t, p) \/ CreateGatewayTopup(t, p)
           \/ Review(t, p) \/ Callback(t, p) \/ Poll(t)
    PROVE  Inv'
<1>1. /\ sess \in [Tx -> Session]
      /\ UNCHANGED <<setup, gw, transfers>>
      /\ \A u \in Tx \ {t} : sess'[u] = sess[u]
  BY DEF CreateCardTopup, CreateGatewayTopup, Review, Callback, Poll, rest, outside, Start,
         Inv, Types
<1>2. CASE CreateCardTopup(t, p)
  <2>1. /\ p \in setup.topups \ issued /\ issued' = issued \cup {p}
        /\ Write(t, Is(P(p), CardRow))
        /\ sess' = [sess EXCEPT ![t] = [Idle EXCEPT !.op = "receipt", !.p = p, !.pc = "clear"]]
    BY <1>2 DEF CreateCardTopup, Start
  <2>2. StepOf(t) /\ issued' \subseteq Payment /\ Exists(t, P(p))'
    BY <1>1, <2>1, NewPayment
  <2>3. Types'
    BY <1>1, <2>1, <2>2 DEF Inv, Types, Session, Idle
  <2>4. Knows(t)'
    BY <1>1, <2>1, <2>2 DEF Knows, At, Idle
  <2> QED BY <2>2, <2>3, <2>4, StepDone
<1>3. CASE CreateGatewayTopup(t, p)
  <2>1. /\ p \in setup.topups \ issued /\ issued' = issued \cup {p}
        /\ Write(t, Is(P(p), GatewayRow))
        /\ sess' = [sess EXCEPT ![t] = [Idle EXCEPT !.op = "charge", !.p = p, !.pc = "request"]]
    BY <1>3 DEF CreateGatewayTopup, Start
  <2>2. /\ StepOf(t) /\ issued' \subseteq Payment
        /\ Exists(t, P(p))' /\ P(p) \in DOMAIN ws'[t] /\ gw[p] = "none"
    BY <1>1, <2>1, NewPayment
  <2>3. Types'
    BY <1>1, <2>1, <2>2 DEF Inv, Types, Session, Idle
  <2>4. Knows(t)'
    BY <1>1, <2>1, <2>2 DEF Knows, At, Idle
  <2> QED BY <2>2, <2>3, <2>4, StepDone
<1>4. CASE Review(t, p)
  <2>1. StepOf(t) /\ Exists(t, P(p))'
    <3>1. UNCHANGED <<store, gw, setup, issued>> /\ Exists(t, P(p))
      BY <1>4 DEF Review, Reviewable, rest, outside
    <3> QED BY <1>1, <3>1, NotAtGateway, QuietStep
  <2>2. \/ sess' = [sess EXCEPT ![t] = [Idle EXCEPT !.op = "approve", !.p = p, !.pc = "lock"]]
        \/ sess' = [sess EXCEPT ![t] = [Idle EXCEPT !.op = "reject", !.p = p, !.pc = "fail"]]
    BY <1>4 DEF Review, Start
  <2>3. Types'
    <3>1. /\ [Idle EXCEPT !.op = "approve", !.p = p, !.pc = "lock"] \in Session
          /\ [Idle EXCEPT !.op = "reject", !.p = p, !.pc = "fail"] \in Session
      BY DEF Session, Idle
    <3>2. sess' \in [Tx -> Session]
      BY <1>1, <2>2, <3>1
    <3> QED BY <1>1, <1>4, <3>2 DEF Inv, Types, Review, outside
  <2>4. Knows(t)'
    BY <1>1, <2>1, <2>2, ZenonT(30) DEF Knows, At, Idle
  <2> QED BY <2>1, <2>3, <2>4, StepDone
<1>5. CASE Callback(t, p)
  <2>1. StepOf(t) /\ Exists(t, P(p))'
    <3>1. UNCHANGED <<store, gw, setup, issued>> /\ Exists(t, P(p))
      BY <1>5 DEF Callback, rest, outside
    <3> QED BY <1>1, <3>1, NotAtGateway, QuietStep
  <2>2. sess' = [sess EXCEPT ![t] = [Idle EXCEPT !.op = "callback", !.p = p, !.pc = "ask"]]
    BY <1>5 DEF Callback, Start
  <2>3. Types'
    BY <1>1, <1>5, <2>2 DEF Inv, Types, Callback, outside, Session, Idle
  <2>4. Knows(t)'
    BY <1>1, <2>1, <2>2 DEF Knows, At, Idle
  <2> QED BY <2>1, <2>3, <2>4, StepDone
<1>6. CASE Poll(t)
  <2> DEFINE batch == {q \in Payment : Pollable(t, q)}
  <2>1. StepOf(t) /\ \A q \in batch : Exists(t, P(q))'
    <3>1. UNCHANGED <<store, gw, setup, issued>> /\ \A q \in batch : Exists(t, P(q))
      BY <1>6 DEF Poll, Pollable, rest, outside
    <3> QED BY <1>1, <3>1, NotAtGateway, QuietStep
  <2>2. sess' = [sess EXCEPT ![t] = [Idle EXCEPT !.op = "poll", !.pc = "next", !.todo = batch]]
    BY <1>6 DEF Poll
  <2> HIDE DEF batch
  <2>3. batch \subseteq Payment
    BY DEF batch
  <2>4. Types'
    <3>1. [Idle EXCEPT !.op = "poll", !.pc = "next", !.todo = batch] \in Session
      BY <2>3 DEF Session, Idle
    <3>2. sess' \in [Tx -> Session] /\ issued' = issued
      BY <1>1, <1>6, <2>2, <3>1 DEF Poll, outside
    <3> QED BY <1>1, <3>2 DEF Inv, Types
  <2>5. Knows(t)'
    BY <1>1, <2>1, <2>2 DEF Knows, At, Idle
  <2> QED BY <2>1, <2>4, <2>5, StepDone
<1> QED BY <1>2, <1>3, <1>4, <1>5, <1>6

\* Moving on to another statement of the handler.
LEMMA GotoSession ==
    ASSUME Inv, NEW t \in Tx,
           NEW pc \in {"request", "authority", "next", "fail", "settle", "lock", "credit", "commit"},
           Goto(t, pc)
    PROVE  /\ sess' \in [Tx -> Session]
           /\ \A u \in Tx \ {t} : sess'[u] = sess[u]
           /\ sess'[t].pc = pc /\ sess'[t].p = sess[t].p
           /\ sess'[t].todo = sess[t].todo /\ sess'[t].op = sess[t].op
<1>1. sess \in [Tx -> Session] /\ sess[t] \in Session
  BY DEF Inv, Types
<1>2. [sess[t] EXCEPT !.pc = pc] \in Session
  BY <1>1 DEF Session
<1>3. sess' = [sess EXCEPT ![t] = [sess[t] EXCEPT !.pc = pc]]
  BY DEF Goto
<1>4. sess'[t] = [sess[t] EXCEPT !.pc = pc] /\ \A u \in Tx \ {t} : sess'[u] = sess[u]
  BY <1>1, <1>3
<1>5. sess' \in [Tx -> Session]
  BY <1>1, <1>2, <1>3
<1> QED BY <1>1, <1>4, <1>5 DEF Session

\* The dialogue is closed.
LEMMA ClearStep ==
    ASSUME Inv, NEW t \in Tx, ClearDialogue(t)
    PROVE  Inv'
<1>1. Goto(t, "commit") /\ UNCHANGED <<store, gw, setup, issued, transfers>>
  BY DEF ClearDialogue, rest
<1>2. /\ sess' \in [Tx -> Session] /\ \A u \in Tx \ {t} : sess'[u] = sess[u]
      /\ sess'[t].pc = "commit" /\ sess'[t].todo = sess[t].todo
  BY <1>1, GotoSession
<1>3. StepOf(t) /\ \A r : Exists(t, r)' <=> Exists(t, r)
  BY <1>1, <1>2, NotAtGateway, QuietStep
<1>4. Types'
  BY <1>1, <1>2 DEF Inv, Types
<1>5. Knows(t)'
  BY <1>2, <1>3 DEF Inv, Knows, At
<1> QED BY <1>3, <1>4, <1>5, StepDone

\* The next payment of the batch, or its end.
LEMMA NextStep ==
    ASSUME Inv, NEW t \in Tx, NextInBatch(t)
    PROVE  Inv'
<1>1. UNCHANGED <<store, gw, setup, issued, transfers>> /\ sess \in [Tx -> Session]
  BY DEF NextInBatch, rest, outside, Inv, Types
<1>2. CASE sess[t].todo = {} /\ Goto(t, "commit")
  <2>1. /\ sess' \in [Tx -> Session] /\ \A u \in Tx \ {t} : sess'[u] = sess[u]
        /\ sess'[t].pc = "commit" /\ sess'[t].todo = sess[t].todo
    BY <1>2, GotoSession
  <2>2. StepOf(t) /\ \A r : Exists(t, r)' <=> Exists(t, r)
    BY <1>1, <2>1, NotAtGateway, QuietStep
  <2>3. Types'
    BY <1>1, <2>1 DEF Inv, Types
  <2>4. Knows(t)'
    BY <2>1, <2>2 DEF Inv, Knows, At
  <2> QED BY <2>2, <2>3, <2>4, StepDone
<1>3. ASSUME NEW p \in sess[t].todo,
             sess' = [sess EXCEPT ![t].p = p, ![t].pc = "ask", ![t].todo = @ \ {p}]
      PROVE  Inv'
  <2>1. sess[t] \in Session /\ sess[t].todo \subseteq Payment /\ p \in Payment
    BY <1>1 DEF Session
  <2>2. sess' = [sess EXCEPT ![t] = [sess[t] EXCEPT !.p = p, !.pc = "ask", !.todo = @ \ {p}]]
    BY <1>1, <1>3
  <2>3. [sess[t] EXCEPT !.p = p, !.pc = "ask", !.todo = @ \ {p}] \in Session
    BY <2>1 DEF Session
  <2>4. sess' \in [Tx -> Session] /\ \A u \in Tx \ {t} : sess'[u] = sess[u]
    BY <1>1, <2>2, <2>3
  <2>5. sess'[t].pc = "ask" /\ sess'[t].p = p /\ sess'[t].todo \subseteq sess[t].todo
    BY <1>1, <2>1, <2>2 DEF Session
  <2>6. StepOf(t) /\ \A r : Exists(t, r)' <=> Exists(t, r)
    BY <1>1, <2>4, NotAtGateway, QuietStep
  <2>7. Types'
    BY <1>1, <2>4 DEF Inv, Types
  <2>8. Knows(t)'
    BY <1>3, <2>1, <2>5, <2>6 DEF Inv, Knows, At
  <2> QED BY <2>6, <2>7, <2>8, StepDone
<1> QED BY <1>2, <1>3 DEF NextInBatch

\* The gateway opens a payment.
LEMMA RequestStep ==
    ASSUME Inv, NEW t \in Tx, RequestPayment(t)
    PROVE  Inv'
<1> DEFINE p == sess[t].p
<1>1. UNCHANGED <<store, setup, issued, transfers>> /\ At(t, "request")
  BY DEF RequestPayment, rest
<1>2. p \in Payment /\ Exists(t, P(p)) /\ gw[p] = "none" /\ P(p) \in DOMAIN ws[t]
  BY <1>1 DEF Inv, Knows, At
<1>3. p \in issued /\ gw \in [Payment -> {"none", "open", "linked", "paid", "verified"}]
  BY <1>2, PayRow DEF Inv, Types
<1>4. CASE gw' = [gw EXCEPT ![p] = "open"] /\ Goto(t, "authority")
  <2>1. /\ sess' \in [Tx -> Session] /\ \A u \in Tx \ {t} : sess'[u] = sess[u]
        /\ sess'[t].pc = "authority" /\ sess'[t].p = p /\ sess'[t].todo = sess[t].todo
    BY <1>4, GotoSession
  <2>2. /\ gw'[p] = "open" /\ \A q \in Payment \ {p} : gw'[q] = gw[q]
        /\ gw' \in [Payment -> {"none", "open", "linked", "paid", "verified"}]
    BY <1>2, <1>3, <1>4
  <2>3. \A u \in Tx \ {t} : P(p) \notin DOMAIN ws[u]
    BY <1>2 DEF Inv, StoreInv, Exclusive
  <2>4. StepOf(t) /\ \A r : Exists(t, r)' <=> Exists(t, r)
    BY <1>1, <1>2, <1>3, <2>1, <2>2, <2>3, OnePayment, QuietStep
  <2>5. Types'
    BY <1>1, <2>1, <2>2 DEF Inv, Types
  <2>6. Knows(t)'
    BY <1>1, <1>2, <2>1, <2>2, <2>4 DEF Inv, Knows, At, store
  <2> QED BY <2>4, <2>5, <2>6, StepDone
<1>5. CASE gw' = gw /\ Goto(t, "commit")
  <2>1. /\ sess' \in [Tx -> Session] /\ \A u \in Tx \ {t} : sess'[u] = sess[u]
        /\ sess'[t].pc = "commit" /\ sess'[t].todo = sess[t].todo
    BY <1>5, GotoSession
  <2>2. StepOf(t) /\ \A r : Exists(t, r)' <=> Exists(t, r)
    BY <1>1, <1>5, <2>1, NotAtGateway, QuietStep
  <2>3. Types'
    BY <1>1, <1>5, <2>1 DEF Inv, Types
  <2>4. Knows(t)'
    BY <2>1, <2>2 DEF Inv, Knows, At
  <2> QED BY <2>2, <2>3, <2>4, StepDone
<1> QED BY <1>4, <1>5 DEF RequestPayment

\* The link is stored and shown.
LEMMA LinkStep ==
    ASSUME Inv, NEW t \in Tx, ShowLink(t)
    PROVE  Inv'
<1> DEFINE p == sess[t].p
           row == [Pay(t) EXCEPT !.authority = TRUE]
<1>1. /\ UNCHANGED <<setup, issued, transfers>> /\ At(t, "authority") /\ Goto(t, "commit")
      /\ gw' = [gw EXCEPT ![p] = "linked"]
      /\ Write(t, Is(P(p), row))
  BY DEF ShowLink, rest
<1>2. p \in Payment /\ Exists(t, P(p)) /\ gw[p] = "open" /\ P(p) \in DOMAIN ws[t]
  BY <1>1 DEF Inv, Knows, At
<1>3. /\ sess' \in [Tx -> Session] /\ \A u \in Tx \ {t} : sess'[u] = sess[u]
      /\ sess'[t].pc = "commit" /\ sess'[t].todo = sess[t].todo
  BY <1>1, GotoSession
<1>4. AtGateway(t) /\ Types'
  <2>1. p \in issued /\ gw \in [Payment -> {"none", "open", "linked", "paid", "verified"}]
    BY <1>2, PayRow DEF Inv, Types
  <2>2. /\ gw'[p] = "linked" /\ \A q \in Payment \ {p} : gw'[q] = gw[q]
        /\ gw' \in [Payment -> {"none", "open", "linked", "paid", "verified"}]
    BY <1>1, <1>2, <2>1
  <2>3. \A u \in Tx \ {t} : P(p) \notin DOMAIN ws[u]
    BY <1>2 DEF Inv, StoreInv, Exclusive
  <2>4. AtGateway(t)
    BY <1>1, <1>2, <2>1, <2>2, <2>3, OnePayment
  <2> QED BY <1>1, <1>3, <2>2, <2>4 DEF Inv, Types
<1>5. /\ Pay(t) = Row(t, P(p)) /\ Pay(t) \in PaymentRow
  BY <1>2, PayRow DEF Pay
<1>6. /\ row \in PaymentRow /\ row.purpose = Pay(t).purpose
      /\ row.status = Pay(t).status /\ row.reviewed = Pay(t).reviewed
  BY <1>5 DEF PaymentRow
<1> HIDE DEF row
<1>7. StepOf(t) /\ \A r : Exists(t, r) => Exists(t, r)'
  BY <1>1, <1>2, <1>3, <1>4, <1>5, <1>6, OwnWrite
<1>8. Knows(t)'
  BY <1>3, <1>7 DEF Inv, Knows, At
<1> QED BY <1>4, <1>7, <1>8, StepDone

\* The gateway answers: what it confirms is verified there.
LEMMA AskStep ==
    ASSUME Inv, NEW t \in Tx, AskGateway(t)
    PROVE  Inv'
<1> DEFINE p == sess[t].p
           pc == CASE ~Confirms(setup.provider, gw[p]) -> "fail"
                   [] p \in setup.orders -> "settle"
                   [] OTHER -> "lock"
<1>1. /\ UNCHANGED <<store, setup, issued, transfers>> /\ At(t, "ask") /\ Goto(t, pc)
      /\ gw' = [gw EXCEPT ![p] = IF @ = "paid" THEN "verified" ELSE @]
  BY DEF AskGateway, rest
<1>2. p \in Payment /\ Exists(t, P(p))
  BY <1>1 DEF Inv, Knows, At
<1>3. p \in issued /\ gw \in [Payment -> {"none", "open", "linked", "paid", "verified"}]
  BY <1>2, PayRow DEF Inv, Types
<1>4. /\ gw'[p] = IF gw[p] = "paid" THEN "verified" ELSE gw[p]
      /\ \A q \in Payment \ {p} : gw'[q] = gw[q]
      /\ gw' \in [Payment -> {"none", "open", "linked", "paid", "verified"}]
  BY <1>1, <1>2, <1>3
<1>5. /\ pc \in {"fail", "settle", "lock"}
      /\ pc = "settle" => p \in setup.orders
      /\ pc = "lock" => gw'[p] = "verified"
  BY <1>4 DEF Confirms
<1> HIDE DEF pc
<1>6. /\ sess' \in [Tx -> Session] /\ \A u \in Tx \ {t} : sess'[u] = sess[u]
      /\ sess'[t].pc = pc /\ sess'[t].p = p /\ sess'[t].todo = sess[t].todo
  BY <1>1, <1>5, GotoSession
<1>7. StepOf(t) /\ \A r : Exists(t, r)' <=> Exists(t, r)
  BY <1>1, <1>3, <1>4, <1>6, OnePayment, QuietStep
<1>8. Types'
  BY <1>1, <1>4, <1>6 DEF Inv, Types
<1>9. Knows(t)'
  BY <1>1, <1>2, <1>5, <1>6, <1>7 DEF Inv, Knows, At
<1> QED BY <1>7, <1>8, <1>9, StepDone

\* A payment fails or is rejected.
LEMMA FailStep ==
    ASSUME Inv, NEW t \in Tx, Fail(t)
    PROVE  Inv'
<1> DEFINE p == sess[t].p
           rejected == [Pay(t) EXCEPT !.status = "rejected", !.reviewed = TRUE]
           failed == [Pay(t) EXCEPT !.status = "failed"]
<1>1. /\ UNCHANGED <<gw, setup, issued, transfers>> /\ At(t, "fail") /\ Goto(t, "next")
      /\ Write(t, Is(P(p), rejected)) \/ Write(t, Is(P(p), failed))
  BY DEF Fail, rest, outside, Becomes
<1>2. p \in Payment /\ Exists(t, P(p)) /\ AtGateway(t)
  BY <1>1, NotAtGateway DEF Inv, Knows, At
<1>3. /\ sess' \in [Tx -> Session] /\ \A u \in Tx \ {t} : sess'[u] = sess[u]
      /\ sess'[t].pc = "next" /\ sess'[t].todo = sess[t].todo
  BY <1>1, GotoSession
<1>4. /\ Pay(t) = Row(t, P(p)) /\ Pay(t) \in PaymentRow
  BY <1>2, PayRow DEF Pay
<1>5. /\ rejected \in PaymentRow /\ rejected.purpose = Pay(t).purpose
      /\ rejected.status = "rejected" /\ rejected.reviewed = TRUE
      /\ failed \in PaymentRow /\ failed.purpose = Pay(t).purpose
      /\ failed.status = "failed" /\ failed.reviewed = Pay(t).reviewed
  BY <1>4 DEF PaymentRow
<1> HIDE DEF rejected, failed
<1>6. StepOf(t) /\ \A r : Exists(t, r) => Exists(t, r)'
  BY <1>1, <1>2, <1>3, <1>4, <1>5, OwnWrite
<1>7. Types'
  BY <1>1, <1>3 DEF Inv, Types
<1>8. Knows(t)'
  BY <1>3, <1>6 DEF Inv, Knows, At
<1> QED BY <1>6, <1>7, <1>8, StepDone

\* A payment settles an order, or rolls back the batch.
LEMMA SettleStep ==
    ASSUME Inv, NEW t \in Tx, SettleOrder(t)
    PROVE  Inv'
<1> DEFINE p == sess[t].p
           row == [Pay(t) EXCEPT !.status = "approved"]
<1>1. UNCHANGED <<gw, setup, issued, transfers>> /\ At(t, "settle")
  BY DEF SettleOrder, rest, outside
<1>2. p \in Payment /\ Exists(t, P(p)) /\ p \in setup.orders /\ AtGateway(t)
  BY <1>1, NotAtGateway DEF Inv, Knows, At
<1>3. CASE Rollback(t) /\ Close(t)
  BY <1>1, <1>3, EndStep, StepDone DEF Inv, Types
<1>4. CASE Write(t, Is(P(p), row)) /\ Goto(t, "next")
  <2>1. /\ sess' \in [Tx -> Session] /\ \A u \in Tx \ {t} : sess'[u] = sess[u]
        /\ sess'[t].pc = "next" /\ sess'[t].todo = sess[t].todo
    BY <1>4, GotoSession
  <2>2. /\ Pay(t) = Row(t, P(p)) /\ Pay(t) \in PaymentRow /\ Pay(t).purpose # "topup"
    BY <1>2, PayRow DEF Pay
  <2>3. row \in PaymentRow /\ row.purpose = Pay(t).purpose /\ row.reviewed = Pay(t).reviewed
    BY <2>2 DEF PaymentRow
  <2> HIDE DEF row
  <2>4. StepOf(t) /\ \A r : Exists(t, r) => Exists(t, r)'
    BY <1>1, <1>2, <1>4, <2>1, <2>2, <2>3, OwnWrite
  <2>5. Types'
    BY <1>1, <2>1 DEF Inv, Types
  <2>6. Knows(t)'
    BY <2>1, <2>4 DEF Inv, Knows, At
  <2> QED BY <2>4, <2>5, <2>6, StepDone
<1> QED BY <1>3, <1>4 DEF SettleOrder, Becomes

\* The wallet is locked.
LEMMA LockStep ==
    ASSUME Inv, NEW t \in Tx, LockWallet(t)
    PROVE  Inv'
<1> DEFINE f == Is(W, Row(t, W))
<1>1. /\ UNCHANGED <<gw, setup, issued, transfers>> /\ At(t, "lock") /\ Goto(t, "credit")
      /\ Write(t, f)
  BY DEF LockWallet, LockRow, rest, outside
<1>2. /\ sess' \in [Tx -> Session] /\ \A u \in Tx \ {t} : sess'[u] = sess[u]
      /\ sess'[t].pc = "credit" /\ sess'[t].p = sess[t].p
      /\ sess'[t].todo = sess[t].todo /\ sess'[t].op = sess[t].op
  BY <1>1, GotoSession
<1>3. Sound(Visible(t), gw, setup.orders)
  BY DEF Inv, StoreInv
<1>4. Exists(t, W)
  BY <1>3, Seen DEF Sound, Rows
<1>5. Sound(Over(f, Visible(t)), gw, setup.orders) /\ Keeps(Visible(t), Over(f, Visible(t)))
  BY <1>3, <1>4, LockWrite, KeepsRefl DEF Sound
<1>6. DOMAIN f = {W}
  BY DEF Is
<1>7. /\ issued \subseteq Payment
      /\ \A q \in Payment : P(q) \in DOMAIN f \/ P(q) \in DOMAIN ws[t] => q \in issued
  BY <1>6, Keys DEF Inv, Types, Fresh
<1> HIDE DEF f
<1>8. StepOf(t)
  BY <1>1, <1>2, <1>5, <1>7, NotAtGateway, WriteStep
<1>9. db' = db /\ DOMAIN ws'[t] = DOMAIN f \cup DOMAIN ws[t]
  BY <1>1, WriteSeen DEF Inv, StoreInv
<1>10. Types'
  BY <1>1, <1>2 DEF Inv, Types
<1>11. Knows(t)'
  <2>1. W \in DOMAIN ws'[t] /\ \A r : Exists(t, r) => Exists(t, r)'
    BY <1>6, <1>9 DEF Exists
  <2> QED BY <1>1, <1>2, <2>1 DEF Inv, Knows, At
<1> QED BY <1>8, <1>10, <1>11, StepDone

\* The money goes into the wallet.
LEMMA CreditStep ==
    ASSUME Inv, NEW t \in Tx, Credit(t)
    PROVE  Inv'
<1> DEFINE p == sess[t].p
           row == [Pay(t) EXCEPT !.status = "approved", !.reviewed = @ \/ sess[t].op = "approve"]
           f == Over(Is(W, [Row(t, W) EXCEPT ![p] = @ + 1]), Is(P(p), row))
<1>1. /\ UNCHANGED <<gw, setup, issued, transfers>> /\ At(t, "credit") /\ Goto(t, "next")
      /\ Write(t, f)
  BY DEF Credit, rest, outside
<1>2. /\ p \in Payment /\ Exists(t, P(p)) /\ W \in DOMAIN ws[t]
      /\ gw[p] = "verified" \/ sess[t].op = "approve"
  BY <1>1 DEF Inv, Knows, At
<1>3. /\ sess' \in [Tx -> Session] /\ \A u \in Tx \ {t} : sess'[u] = sess[u]
      /\ sess'[t].pc = "next" /\ sess'[t].todo = sess[t].todo
  BY <1>1, GotoSession
<1>4. /\ Pay(t) = Visible(t)[P(p)] /\ Pay(t) \in PaymentRow /\ p \in issued
      /\ Pay(t).purpose = "topup" => p \notin setup.orders
  BY <1>2, PayRow DEF Pay
<1>5. Sound(Visible(t), gw, setup.orders) /\ Row(t, W) = Visible(t)[W]
  BY <1>2, Seen DEF Inv, StoreInv, Exists
<1>6. /\ row \in PaymentRow /\ row.purpose = Pay(t).purpose
      /\ row.reviewed = (Pay(t).reviewed \/ sess[t].op = "approve")
  BY <1>4 DEF PaymentRow
<1>7. DOMAIN f = {W, P(p)}
  BY DEF Is, Over
<1> HIDE DEF row
<1>8. Sound(Over(f, Visible(t)), gw, setup.orders) /\ Keeps(Visible(t), Over(f, Visible(t)))
  BY <1>2, <1>4, <1>5, <1>6, CreditWrite, ZenonT(30)
<1>9. /\ issued \subseteq Payment
      /\ \A q \in Payment : P(q) \in DOMAIN f \/ P(q) \in DOMAIN ws[t] => q \in issued
  BY <1>4, <1>7, Keys DEF Inv, Types, Fresh
<1> HIDE DEF f
<1>10. StepOf(t)
  BY <1>1, <1>3, <1>8, <1>9, NotAtGateway, WriteStep
<1>11. db' = db /\ DOMAIN ws'[t] = DOMAIN f \cup DOMAIN ws[t]
  BY <1>1, WriteSeen DEF Inv, StoreInv
<1>12. Types'
  BY <1>1, <1>3 DEF Inv, Types
<1>13. Knows(t)'
  <2>1. \A r : Exists(t, r) => Exists(t, r)'
    BY <1>11 DEF Exists
  <2> QED BY <1>3, <2>1 DEF Inv, Knows, At
<1> QED BY <1>10, <1>12, <1>13, StepDone

\* The transaction commits, is killed, or is chosen to break a deadlock.
LEMMA EndSteps ==
    ASSUME Inv, NEW t \in Tx, Finish(t) \/ Crash(t) \/ DeadlockVictim(t)
    PROVE  Inv'
<1>1. /\ Commit(t) \/ Rollback(t)
      /\ Close(t)
      /\ UNCHANGED <<gw, setup, issued, transfers>>
  BY DEF Finish, Crash, DeadlockVictim, rest, outside
<1>2. StepOf(t) /\ Knows(t)' /\ sess' \in [Tx -> Session]
  BY <1>1, EndStep
<1>3. Types'
  BY <1>1, <1>2 DEF Inv, Types
<1> QED BY <1>2, <1>3, StepDone
-----------------------------------------------------------------------------
\* The invariant is inductive.
LEMMA StepInv == Inv /\ [Next]_vars => Inv'
<1> SUFFICES ASSUME Inv, [Next]_vars PROVE Inv'
  OBVIOUS
<1>1. CASE \/ ChargeAmount \/ ChargeCard \/ ChargeTracking
           \/ \E p \in Payment : PayAtGateway(p) \/ Tick(p)
           \/ UNCHANGED vars
  BY <1>1, OutsideSteps
<1>2. ASSUME NEW t \in Tx, NEW p \in Payment,
             CreateCardTopup(t, p) \/ CreateGatewayTopup(t, p) \/ Review(t, p) \/ Callback(t, p)
      PROVE  Inv'
  BY <1>2, BeginSteps
<1>3. ASSUME NEW t \in Tx, Poll(t)
      PROVE  Inv'
  <2>1. PICK p \in Payment : Pollable(t, p)
    BY <1>3 DEF Poll
  <2> QED BY <1>3, BeginSteps
<1>4. ASSUME NEW t \in Tx, Continue(t)
      PROVE  Inv'
  BY <1>4, ClearStep, RequestStep, LinkStep, NextStep, AskStep, FailStep, SettleStep, LockStep,
     CreditStep, EndSteps DEF Continue
<1>5. ASSUME NEW t \in Tx, Crash(t)
      PROVE  Inv'
  BY <1>5, EndSteps
<1> QED BY <1>1, <1>2, <1>3, <1>4, <1>5 DEF Next

\* The books of every deployment are as Inv says, at all times.
THEOREM TopUpsInv == Spec => []Inv
<1> QED BY InitInv, StepInv, PTL DEF Spec

\* Rows, sessions and the gateway are of their types, and a session that credits
\* has the wallet locked.
THEOREM TypeCorrect == Spec => []TypeOK
<1>1. Inv => TypeOK
  <2> SUFFICES ASSUME Inv PROVE TypeOK
    OBVIOUS
  <2>1. ASSUME NEW r \in DOMAIN db
        PROVE  db[r] \in IF r = W THEN [Payment -> Nat] ELSE PaymentRow
    BY DEF Inv, StoreInv, Sound, Rows
  <2>2. ASSUME NEW t \in Tx, NEW r \in DOMAIN ws[t]
        PROVE  ws[t][r] \in IF r = W THEN [Payment -> Nat] ELSE PaymentRow
    <3>1. r \in DOMAIN Visible(t) /\ Visible(t)[r] = ws[t][r]
      BY <2>2, Seen
    <3> QED BY <3>1 DEF Inv, StoreInv, Sound, Rows
  <2>3. ASSUME NEW t \in Tx
        PROVE  /\ sess[t].p \in Payment \cup {Null} /\ sess[t].todo \subseteq Payment
               /\ At(t, "credit") => W \in DOMAIN ws[t]
    BY DEF Inv, Types, Session, Knows
  <2> QED BY <2>1, <2>2, <2>3 DEF Inv, Types, TypeOK
<1> QED BY <1>1, TopUpsInv, PTL

\* Whatever handlers overlap and crash: a top-up is approved only with its money
\* in the wallet, and no money is there that neither gateway nor admin confirmed.
THEOREM MoneyIsBacked == Spec => []CreditIsBacked
<1>1. Inv => CreditIsBacked
  BY DEF Inv, StoreInv, Sound, Backed, Confirmed, CreditIsBacked, TopUp, Known, Status
<1> QED BY <1>1, TopUpsInv, PTL
-----------------------------------------------------------------------------
(***************************************************************************)
(* One handler for each payment.  Nothing of payment_service keeps two of  *)
(* them from the same payment (the status is a plain read), and then a     *)
(* top-up can be credited twice or fail after its credit; but handlers of  *)
(* different payments overlap as they like, in the same wallet.            *)
(***************************************************************************)

\* CreditedOnce and CreditedStays, of the rows v.
Once(v) ==
    \A p \in Payment : v[W][p] > 0 =>
        v[W][p] = 1 /\ P(p) \in DOMAIN v /\ v[P(p)].status = "approved"

\* The payments t has decided nothing about yet.
Undecided(t) ==
    sess[t].todo \cup (IF sess[t].pc \in {"ask", "fail", "settle", "lock", "credit"}
                       THEN {sess[t].p} ELSE {})

\* t sees no payment credited twice; in a wallet it has locked only its own
\* payments differ from the committed one; and what it has not decided about is
\* not approved.
OnceOf(t) ==
    /\ Once(Visible(t))
    /\ W \in DOMAIN ws[t] =>
          \A q \in Payment : P(q) \notin DOMAIN ws[t] => ws[t][W][q] = db[W][q]
    /\ sess[t].p \notin sess[t].todo
    /\ \A q \in Undecided(t) : Row(t, P(q)).status # "approved"

OnceInv == Once(db) /\ \A t \in Tx : OnceOf(t)

\* The wallet, committed and as a transaction sees it.
LEMMA Wallets ==
    ASSUME Inv
    PROVE  /\ W \in DOMAIN db /\ db[W] \in [Payment -> Nat]
           /\ \A t \in Tx : /\ Exists(t, W) /\ Row(t, W) = Visible(t)[W]
                            /\ Visible(t)[W] \in [Payment -> Nat]
<1>1. W \in DOMAIN db /\ db[W] \in [Payment -> Nat]
  BY DEF Inv, StoreInv, Sound, Rows
<1>2. ASSUME NEW t \in Tx
      PROVE  /\ Exists(t, W) /\ Row(t, W) = Visible(t)[W]
             /\ Visible(t)[W] \in [Payment -> Nat]
  <2>1. Exists(t, W)
    BY <1>1 DEF Exists
  <2> QED BY <2>1, Seen DEF Inv, StoreInv, Sound, Rows
<1> QED BY <1>1, <1>2

\* What a transaction has not decided about are payments it sees.
LEMMA UndecidedSeen ==
    ASSUME Inv, NEW t \in Tx, NEW q \in Undecided(t)
    PROVE  q \in Payment /\ Exists(t, P(q)) /\ q \in WorksOn(t)
<1>1. sess[t] \in Session /\ Knows(t)
  BY DEF Inv, Types
<1>2. q \in Payment /\ Exists(t, P(q))
  BY <1>1 DEF Undecided, Knows, Session
<1>3. q # Null
  BY <1>2, PaymentAssumption
<1> QED BY <1>2, <1>3 DEF WorksOn, Undecided

\* A step of t that commits nothing leaves the others as they are.
LEMMA OnceOthers ==
    ASSUME OnceInv, NEW t \in Tx, db' = db,
           \A u \in Tx \ {t} : ws'[u] = ws[u] /\ sess'[u] = sess[u],
           OnceOf(t)'
    PROVE  OnceInv'
<1>1. Once(db)'
  BY DEF OnceInv, Once
<1>2. ASSUME NEW u \in Tx \ {t}
      PROVE  OnceOf(u)'
  <2>1. OnceOf(u) /\ Visible(u)' = Visible(u) /\ Undecided(u)' = Undecided(u)
    BY DEF OnceInv, Visible, Undecided
  <2>2. \A r : Row(u, r)' = Row(u, r)
    BY DEF Row
  <2>3. Once(Visible(u)')
    BY <2>1 DEF OnceOf
  <2> QED BY <2>1, <2>2, <2>3 DEF OnceOf, Once
<1> QED BY <1>1, <1>2 DEF OnceInv

\* A step that leaves the store alone, and may load payments that are not
\* approved.
LEMMA OnceQuiet ==
    ASSUME OnceInv, NEW t \in Tx, UNCHANGED store,
           \A u \in Tx \ {t} : sess'[u] = sess[u],
           sess'[t].p \notin sess'[t].todo,
           \A q \in Undecided(t)' : Row(t, P(q)).status # "approved"
    PROVE  OnceInv'
<1>1. /\ db' = db /\ ws' = ws
      /\ Visible(t)' = Visible(t)
      /\ \A r : Row(t, r)' = Row(t, r)
  BY DEF store, Visible, Row
<1>2. OnceOf(t)
  BY DEF OnceInv
<1>3. Once(Visible(t)')
  BY <1>1, <1>2 DEF OnceOf
<1>4. OnceOf(t)'
  BY <1>1, <1>2, <1>3 DEF OnceOf, Once
<1> QED BY <1>1, <1>4, OnceOthers

\* A payment is written whose money is not in the wallet, or which is approved;
\* the handler goes on to the next one.
LEMMA OncePayment ==
    ASSUME Inv, OnceInv, NEW t \in Tx, NEW p \in Payment, NEW row,
           Write(t, Is(P(p), row)),
           Visible(t)[W][p] > 0 => row.status = "approved",
           \A u \in Tx \ {t} : sess'[u] = sess[u],
           sess'[t].p \notin sess'[t].todo,
           sess'[t].pc \notin {"ask", "fail", "settle", "lock", "credit"},
           sess'[t].todo \subseteq sess[t].todo \ {p}
    PROVE  OnceInv'
<1> DEFINE f == Is(P(p), row)
<1>1. /\ db' = db /\ ws'[t] = Over(f, ws[t])
      /\ \A u \in Tx \ {t} : ws'[u] = ws[u]
      /\ Visible(t)' = Over(f, Visible(t))
  BY WriteEffect, WriteSeen DEF Inv, StoreInv
<1>2. /\ DOMAIN f = {P(p)} /\ f[P(p)] = row
  BY DEF Is
<1> HIDE DEF f
<1>3. /\ DOMAIN ws'[t] = {P(p)} \cup DOMAIN ws[t]
      /\ ws'[t][P(p)] = row
      /\ \A r \in DOMAIN ws[t] \ {P(p)} : ws'[t][r] = ws[t][r]
  BY <1>1, <1>2 DEF Over
<1>4. /\ DOMAIN Visible(t)' = {P(p)} \cup DOMAIN Visible(t)
      /\ Visible(t)'[P(p)] = row
      /\ \A r \in DOMAIN Visible(t) \ {P(p)} : Visible(t)'[r] = Visible(t)[r]
  BY <1>1, <1>2 DEF Over
<1>5. OnceOf(t) /\ W \in DOMAIN Visible(t) /\ Visible(t)[W] \in [Payment -> Nat]
  BY Wallets, Seen DEF OnceInv
<1>6. Visible(t)'[W] = Visible(t)[W]
  BY <1>4, <1>5, Keys
<1>7. Once(Visible(t)')
  <2> SUFFICES ASSUME NEW q \in Payment, Visible(t)[W][q] > 0
               PROVE  /\ Visible(t)[W][q] = 1 /\ P(q) \in DOMAIN Visible(t)'
                      /\ Visible(t)'[P(q)].status = "approved"
    BY <1>6 DEF Once
  <2>1. /\ Visible(t)[W][q] = 1 /\ P(q) \in DOMAIN Visible(t)
        /\ Visible(t)[P(q)].status = "approved"
    BY <1>5 DEF OnceOf, Once
  <2>2. CASE q = p
    BY <1>4, <2>1, <2>2
  <2>3. CASE q # p
    BY <1>4, <2>1, <2>3, Keys
  <2> QED BY <2>2, <2>3
<1>8. ASSUME W \in DOMAIN ws'[t], NEW q \in Payment, P(q) \notin DOMAIN ws'[t]
      PROVE  ws'[t][W][q] = db'[W][q]
  BY <1>1, <1>3, <1>5, <1>8, Keys DEF OnceOf
<1>9. ASSUME NEW q \in Undecided(t)'
      PROVE  Row(t, P(q))'.status # "approved"
  <2>1. q \in sess[t].todo /\ q # p
    BY <1>9 DEF Undecided
  <2>2. Row(t, P(q)).status # "approved"
    BY <1>5, <2>1 DEF OnceOf, Undecided
  <2>3. P(q) # P(p)
    BY <2>1, Keys
  <2>4. Row(t, P(q))' = Row(t, P(q))
    BY <1>1, <1>3, <2>3 DEF Row
  <2> QED BY <2>2, <2>4
<1>10. OnceOf(t)'
  BY <1>7, <1>8, <1>9 DEF OnceOf, Once
<1> QED BY <1>1, <1>10, OnceOthers

\* The wallet is locked.
LEMMA OnceLock ==
    ASSUME Inv, OnceInv, NEW t \in Tx, LockWallet(t)
    PROVE  OnceInv'
<1> DEFINE f == Is(W, Row(t, W))
<1>1. /\ Write(t, f) /\ Goto(t, "credit") /\ At(t, "lock")
  BY DEF LockWallet, LockRow
<1>2. /\ db' = db /\ ws'[t] = Over(f, ws[t])
      /\ \A u \in Tx \ {t} : ws'[u] = ws[u]
      /\ Visible(t)' = Over(f, Visible(t))
  BY <1>1, WriteEffect, WriteSeen DEF Inv, StoreInv
<1>3. Visible(t)' = Visible(t)
  BY <1>2, Wallets, LockWrite
<1>4. /\ DOMAIN ws'[t] = {W} \cup DOMAIN ws[t]
      /\ ws'[t][W] = Row(t, W)
      /\ \A r \in DOMAIN ws[t] \ {W} : ws'[t][r] = ws[t][r]
  BY <1>2 DEF Over, Is
<1> HIDE DEF f
<1>5. /\ \A u \in Tx \ {t} : sess'[u] = sess[u]
      /\ sess'[t].pc = "credit" /\ sess'[t].p = sess[t].p /\ sess'[t].todo = sess[t].todo
  BY <1>1, GotoSession
<1>6. Undecided(t)' = Undecided(t)
  BY <1>1, <1>5 DEF Undecided, At
<1>7. OnceOf(t)
  BY DEF OnceInv
<1>8. Once(Visible(t)')
  BY <1>3, <1>7 DEF OnceOf
<1>9. ASSUME NEW q \in Payment, P(q) \notin DOMAIN ws'[t]
      PROVE  ws'[t][W][q] = db'[W][q]
  BY <1>2, <1>4, <1>7, <1>9, Keys DEF OnceOf, Row
<1>10. \A r : Row(t, r)' = Row(t, r)
  BY <1>2, <1>4 DEF Row
<1>11. OnceOf(t)'
  BY <1>5, <1>6, <1>7, <1>8, <1>9, <1>10 DEF OnceOf, Once
<1> QED BY <1>2, <1>5, <1>11, OnceOthers

\* The money goes into the wallet, for the first time.
LEMMA OnceCredit ==
    ASSUME Inv, OnceInv, NEW t \in Tx, Credit(t)
    PROVE  OnceInv'
<1> DEFINE p == sess[t].p
           w == [Row(t, W) EXCEPT ![p] = @ + 1]
           row == [Pay(t) EXCEPT !.status = "approved", !.reviewed = @ \/ sess[t].op = "approve"]
           f == Over(Is(W, w), Is(P(p), row))
<1>1. /\ Write(t, f) /\ Goto(t, "next") /\ At(t, "credit")
  BY DEF Credit
<1>2. /\ \A u \in Tx \ {t} : sess'[u] = sess[u]
      /\ sess'[t].pc = "next" /\ sess'[t].p = p /\ sess'[t].todo = sess[t].todo
  BY <1>1, GotoSession
<1>3. /\ OnceOf(t) /\ p \in Undecided(t) /\ p \in Payment /\ Exists(t, P(p))
  BY <1>1, UndecidedSeen DEF OnceInv, Undecided, At
<1>4. /\ Pay(t) = Visible(t)[P(p)] /\ Pay(t) \in PaymentRow /\ Pay(t).status # "approved"
  BY <1>3, PayRow DEF Pay, OnceOf
<1>5. row.status = "approved"
  BY <1>4 DEF PaymentRow
<1>6. /\ Visible(t)[W] \in [Payment -> Nat] /\ Row(t, W) = Visible(t)[W]
      /\ W \in DOMAIN Visible(t) /\ W \in DOMAIN ws[t]
  BY <1>1, Wallets, Seen DEF Inv, Knows
<1>7. Visible(t)[W][p] = 0
  BY <1>3, <1>4, <1>6 DEF OnceOf, Once
<1>8. w[p] = 1 /\ \A q \in Payment \ {p} : w[q] = Visible(t)[W][q]
  BY <1>3, <1>6, <1>7
<1>9. /\ DOMAIN f = {W, P(p)} /\ f[W] = w /\ f[P(p)] = row
  BY Keys DEF Over, Is
<1> HIDE DEF f, w, row
<1>10. /\ db' = db /\ ws'[t] = Over(f, ws[t])
       /\ \A u \in Tx \ {t} : ws'[u] = ws[u]
       /\ Visible(t)' = Over(f, Visible(t))
  BY <1>1, WriteEffect, WriteSeen DEF Inv, StoreInv
<1>11. /\ DOMAIN ws'[t] = {W, P(p)} \cup DOMAIN ws[t]
       /\ ws'[t][W] = w
       /\ \A r \in DOMAIN ws[t] \ {W, P(p)} : ws'[t][r] = ws[t][r]
  BY <1>9, <1>10 DEF Over
<1>12. /\ DOMAIN Visible(t)' = {W, P(p)} \cup DOMAIN Visible(t)
       /\ Visible(t)'[W] = w /\ Visible(t)'[P(p)] = row
       /\ \A r \in DOMAIN Visible(t) \ {W, P(p)} : Visible(t)'[r] = Visible(t)[r]
  BY <1>9, <1>10 DEF Over
<1>13. Once(Visible(t)')
  <2> SUFFICES ASSUME NEW q \in Payment, w[q] > 0
               PROVE  /\ w[q] = 1 /\ P(q) \in DOMAIN Visible(t)'
                      /\ Visible(t)'[P(q)].status = "approved"
    BY <1>12 DEF Once
  <2>1. CASE q = p
    BY <1>5, <1>8, <1>12, <2>1
  <2>2. CASE q # p
    <3>1. /\ Visible(t)[W][q] = 1 /\ P(q) \in DOMAIN Visible(t)
          /\ Visible(t)[P(q)].status = "approved"
      BY <1>3, <1>8, <2>2 DEF OnceOf, Once
    <3>2. P(q) # P(p) /\ P(q) # W
      BY <2>2, Keys
    <3> QED BY <1>8, <1>12, <2>2, <3>1, <3>2
  <2> QED BY <2>1, <2>2
<1>14. ASSUME NEW q \in Payment, P(q) \notin DOMAIN ws'[t]
       PROVE  ws'[t][W][q] = db'[W][q]
  <2>1. q # p /\ P(q) \notin DOMAIN ws[t]
    BY <1>11, <1>14
  <2>2. ws[t][W][q] = db[W][q] /\ Row(t, W) = ws[t][W]
    BY <1>3, <1>6, <2>1 DEF OnceOf, Row
  <2> QED BY <1>6, <1>8, <1>10, <1>11, <2>1, <2>2
<1>15. ASSUME NEW q \in Undecided(t)'
       PROVE  Row(t, P(q))'.status # "approved"
  <2>1. q \in sess[t].todo /\ q # p
    BY <1>2, <1>3, <1>15 DEF Undecided, OnceOf
  <2>2. Row(t, P(q)).status # "approved"
    BY <1>3, <2>1 DEF OnceOf, Undecided
  <2>3. P(q) # P(p) /\ P(q) # W
    BY <2>1, Keys
  <2>4. Row(t, P(q))' = Row(t, P(q))
    BY <1>10, <1>11, <2>3 DEF Row
  <2> QED BY <2>2, <2>4
<1>16. sess'[t].p \notin sess'[t].todo
  BY <1>2, <1>3 DEF OnceOf
<1>17. OnceOf(t)'
  BY <1>13, <1>14, <1>15, <1>16 DEF OnceOf, Once
<1> QED BY <1>2, <1>10, <1>17, OnceOthers

\* What u sees after t committed payments u does not work on.
LEMMA OnceEnd ==
    ASSUME Inv, OnceInv, OneAtAPayment, NEW t \in Tx, Commit(t) \/ Rollback(t), Close(t)
    PROVE  OnceInv'
<1>1. /\ DOMAIN ws'[t] = {} /\ ws'[t] = NoRows
      /\ \A u \in Tx \ {t} : ws'[u] = ws[u] /\ sess'[u] = sess[u]
      /\ sess'[t] = Idle
  BY EndEffect DEF Inv, Types, StoreInv, Close
<1>2. db' = db \/ db' = Visible(t)
  BY DEF Commit, Rollback
<1>3. Once(db)'
  BY <1>2 DEF OnceInv, OnceOf, Once
<1>4. OnceOf(t)'
  <2>1. Visible(t)' = db'
    <3>1. db' = [r \in DOMAIN db' |-> db'[r]]
      BY <1>2 DEF Inv, StoreInv, Visible, Over
    <3> QED BY <1>1, <3>1 DEF Visible, Over, NoRows
  <2>2. Once(Visible(t)')
    BY <1>3, <2>1 DEF Once
  <2>3. Undecided(t)' = {} /\ sess'[t].p \notin sess'[t].todo
    BY <1>1 DEF Undecided, Idle
  <2> QED BY <1>1, <2>2, <2>3 DEF OnceOf, Once
<1>5. ASSUME NEW u \in Tx \ {t}
      PROVE  OnceOf(u)'
  <2>1. OnceOf(u) /\ OnceOf(t) /\ Once(db) /\ DOMAIN ws[u] \cap DOMAIN ws[t] = {}
    BY DEF OnceInv, Inv, StoreInv, Exclusive
  <2>2. \A r : r \in DOMAIN db \ DOMAIN ws[t] => r \in DOMAIN db' /\ db'[r] = db[r]
    BY <1>2 DEF Visible, Over
  <2>3. ASSUME NEW q \in Payment
        PROVE  /\ db[W][q] \in Nat /\ Visible(t)[W][q] \in Nat /\ Visible(u)[W][q] \in Nat
    BY Wallets
  <2>4. /\ W \in DOMAIN db /\ W \in DOMAIN db'
        /\ Visible(t)[W] = IF W \in DOMAIN ws[t] THEN ws[t][W] ELSE db[W]
        /\ Visible(u)[W] = IF W \in DOMAIN ws[u] THEN ws[u][W] ELSE db[W]
        /\ Visible(u)'[W] = IF W \in DOMAIN ws[u] THEN ws[u][W] ELSE db'[W]
    BY <1>1, <1>2, Wallets DEF Visible, Over
  <2>5. \A r : /\ r \in DOMAIN Visible(u)' <=> r \in DOMAIN ws[u] \cup DOMAIN db'
               /\ r \in DOMAIN ws[u] => Visible(u)'[r] = ws[u][r]
               /\ r \in DOMAIN db' \ DOMAIN ws[u] => Visible(u)'[r] = db'[r]
    BY <1>1 DEF Visible, Over
  <2>6. Once(Visible(u)')
    <3> SUFFICES ASSUME NEW q \in Payment, Visible(u)'[W][q] > 0
                 PROVE  /\ Visible(u)'[W][q] = 1 /\ P(q) \in DOMAIN Visible(u)'
                        /\ Visible(u)'[P(q)].status = "approved"
      BY DEF Once
    <3>1. CASE P(q) \in DOMAIN ws[u]
      <4>1. P(q) \notin DOMAIN ws[t]
        BY <2>1, <3>1
      <4>2. db'[W][q] = db[W][q]
        BY <1>2, <2>1, <2>2, <2>4, <4>1 DEF OnceOf
      <4>3. Visible(u)'[W][q] = Visible(u)[W][q]
        BY <2>4, <4>2
      <4>4. Visible(u)[P(q)] = ws[u][P(q)]
        BY <3>1, Seen
      <4> QED BY <2>1, <2>5, <3>1, <4>3, <4>4 DEF OnceOf, Once
    <3>2. CASE P(q) \notin DOMAIN ws[u]
      <4>1. CASE W \in DOMAIN ws[u]
        <5>1. db'[W] = db[W] /\ Visible(u)'[W][q] = db[W][q]
          BY <2>1, <2>2, <2>4, <3>2, <4>1 DEF OnceOf
        <5>2. db'[W][q] = 1 /\ P(q) \in DOMAIN db' /\ db'[P(q)].status = "approved"
          BY <1>3, <5>1 DEF Once
        <5> QED BY <2>5, <3>2, <5>1, <5>2
      <4>2. CASE W \notin DOMAIN ws[u]
        <5>1. db'[W][q] = 1 /\ P(q) \in DOMAIN db' /\ db'[P(q)].status = "approved"
          BY <1>3, <2>4, <4>2 DEF Once
        <5> QED BY <2>4, <2>5, <3>2, <4>2, <5>1
      <4> QED BY <4>1, <4>2
    <3> QED BY <3>1, <3>2
  <2>7. ASSUME W \in DOMAIN ws'[u], NEW q \in Payment, P(q) \notin DOMAIN ws'[u]
        PROVE  ws'[u][W][q] = db'[W][q]
    <3>1. W \notin DOMAIN ws[t] /\ db'[W] = db[W]
      BY <1>1, <2>1, <2>2, <2>4, <2>7
    <3> QED BY <1>1, <2>1, <2>7, <3>1 DEF OnceOf
  <2>8. ASSUME NEW q \in Undecided(u)'
        PROVE  Row(u, P(q))'.status # "approved"
    <3>1. q \in Undecided(u)
      BY <1>1 DEF Undecided
    <3>2. q \in WorksOn(u) /\ q \in Payment /\ q # Null /\ Exists(u, P(q))
      BY <3>1, UndecidedSeen, PaymentAssumption
    <3>3. q \notin WorksOn(t)
      BY <3>2 DEF OneAtAPayment
    <3>4. P(q) \notin DOMAIN ws[t]
      BY <3>2, <3>3 DEF WorksOn
    <3>5. Row(u, P(q))' = Row(u, P(q))
      BY <1>1, <2>2, <3>2, <3>4 DEF Row, Exists
    <3> QED BY <2>1, <3>1, <3>5 DEF OnceOf
  <2>9. sess'[u].p \notin sess'[u].todo
    BY <1>1, <2>1 DEF OnceOf
  <2> QED BY <2>6, <2>7, <2>8, <2>9 DEF OnceOf, Once
<1> QED BY <1>3, <1>4, <1>5 DEF OnceInv

\* The statements that load or create payments.
LEMMA OnceBegin ==
    ASSUME Inv, OnceInv, NEW t \in Tx, NEW p \in Payment,
           \/ CreateCardTopup(t, p) \/ CreateGatewayTopup(t, p)
           \/ Review(t, p) \/ Callback(t, p) \/ Poll(t)
    PROVE  OnceInv'
<1>1. /\ sess \in [Tx -> Session] /\ Null \notin Payment
      /\ \A u \in Tx \ {t} : sess'[u] = sess[u]
  BY PaymentAssumption DEF CreateCardTopup, CreateGatewayTopup, Review, Callback, Poll, Start, Inv, Types
<1>2. ASSUME NEW row, Write(t, Is(P(p), row)), p \notin issued, NEW op,
             NEW pc \in {"clear", "request"}, Start(t, op, p, pc)
      PROVE  OnceInv'
  <2>1. sess'[t] = [Idle EXCEPT !.op = op, !.p = p, !.pc = pc]
    BY <1>1, <1>2 DEF Start
  <2>2. sess'[t].p = p /\ sess'[t].todo = {} /\ sess'[t].pc = pc
    BY <2>1 DEF Idle
  <2>3. P(p) \notin DOMAIN Visible(t)
    <3>1. P(p) \notin DOMAIN db /\ P(p) \notin DOMAIN ws[t]
      BY <1>2 DEF Inv, Fresh
    <3> QED BY <3>1 DEF Visible, Over
  <2>4. ~(Visible(t)[W][p] > 0)
    BY <2>3 DEF OnceInv, OnceOf, Once
  <2> QED BY <1>1, <1>2, <2>2, <2>4, OncePayment
<1>3. CASE CreateCardTopup(t, p)
  BY <1>2, <1>3 DEF CreateCardTopup
<1>4. CASE CreateGatewayTopup(t, p)
  BY <1>2, <1>4 DEF CreateGatewayTopup
<1>5. ASSUME NEW op, NEW pc \in {"lock", "fail", "ask"}, Start(t, op, p, pc), UNCHANGED store,
             Row(t, P(p)).status # "approved"
      PROVE  OnceInv'
  <2>1. sess'[t] = [Idle EXCEPT !.op = op, !.p = p, !.pc = pc]
    BY <1>1, <1>5 DEF Start
  <2>2. sess'[t].p \notin sess'[t].todo /\ Undecided(t)' = {p}
    BY <2>1 DEF Idle, Undecided
  <2> QED BY <1>1, <1>5, <2>2, OnceQuiet
<1>6. CASE Review(t, p)
  BY <1>5, <1>6 DEF Review, Reviewable
<1>7. CASE Callback(t, p)
  BY <1>5, <1>7 DEF Callback
<1>8. CASE Poll(t)
  <2> DEFINE batch == {q \in Payment : Pollable(t, q)}
  <2>1. sess'[t] = [Idle EXCEPT !.op = "poll", !.pc = "next", !.todo = batch] /\ UNCHANGED store
    BY <1>1, <1>8 DEF Poll
  <2>2. Null \notin batch /\ \A q \in batch : Row(t, P(q)).status # "approved"
    BY <1>1 DEF Pollable, Polls
  <2> HIDE DEF batch
  <2>3. sess'[t].p \notin sess'[t].todo /\ Undecided(t)' = batch
    BY <2>1, <2>2 DEF Idle, Undecided
  <2> QED BY <1>1, <2>1, <2>2, <2>3, OnceQuiet
<1> QED BY <1>3, <1>4, <1>6, <1>7, <1>8

\* The statements that read the gateway's answer or the batch.
LEMMA OnceRead ==
    ASSUME Inv, OnceInv, NEW t \in Tx,
           ClearDialogue(t) \/ RequestPayment(t) \/ NextInBatch(t) \/ AskGateway(t)
    PROVE  OnceInv'
<1>1. /\ sess \in [Tx -> Session] /\ sess[t] \in Session
      /\ UNCHANGED store /\ OnceOf(t)
  BY DEF ClearDialogue, RequestPayment, NextInBatch, AskGateway, Inv, Types, OnceInv
<1>2. ASSUME \A u \in Tx \ {t} : sess'[u] = sess[u],
             sess'[t].p \notin sess'[t].todo, Undecided(t)' \subseteq Undecided(t)
      PROVE  OnceInv'
  BY <1>1, <1>2, OnceQuiet DEF OnceOf
<1>3. ASSUME NEW pc \in {"commit", "authority", "fail", "settle", "lock"}, Goto(t, pc),
             pc \in {"commit", "authority"} \/ At(t, "ask")
      PROVE  OnceInv'
  <2>1. /\ \A u \in Tx \ {t} : sess'[u] = sess[u]
        /\ sess'[t].pc = pc /\ sess'[t].p = sess[t].p /\ sess'[t].todo = sess[t].todo
    BY <1>3, GotoSession
  <2>2. Undecided(t)' \subseteq Undecided(t)
    BY <1>3, <2>1 DEF Undecided, At
  <2> QED BY <1>1, <1>2, <2>1, <2>2 DEF OnceOf
<1>4. CASE ClearDialogue(t) \/ RequestPayment(t)
  BY <1>3, <1>4 DEF ClearDialogue, RequestPayment
<1>5. CASE AskGateway(t)
  BY <1>3, <1>5 DEF AskGateway
<1>6. CASE NextInBatch(t)
  <2>1. CASE Goto(t, "commit")
    BY <1>3, <2>1
  <2>2. ASSUME NEW p \in sess[t].todo,
               sess' = [sess EXCEPT ![t].p = p, ![t].pc = "ask", ![t].todo = @ \ {p}]
        PROVE  OnceInv'
    <3>1. sess'[t] = [sess[t] EXCEPT !.p = p, !.pc = "ask", !.todo = @ \ {p}]
      BY <1>1, <2>2
    <3>2. sess'[t].p = p /\ sess'[t].pc = "ask" /\ sess'[t].todo = sess[t].todo \ {p}
      BY <1>1, <3>1 DEF Session
    <3>3. Undecided(t)' \subseteq Undecided(t)
      BY <3>2 DEF Undecided
    <3>4. \A u \in Tx \ {t} : sess'[u] = sess[u]
      BY <1>1, <2>2
    <3> QED BY <1>2, <3>2, <3>3, <3>4
  <2> QED BY <1>6, <2>1, <2>2 DEF NextInBatch
<1> QED BY <1>4, <1>5, <1>6

\* The statements that write one payment.
LEMMA OnceStatus ==
    ASSUME Inv, OnceInv, NEW t \in Tx,
           \/ ShowLink(t) \/ Fail(t)
           \/ SettleOrder(t) /\ Goto(t, "next")
    PROVE  OnceInv'
<1> DEFINE p == sess[t].p
<1>1. /\ p \in Payment /\ Exists(t, P(p)) /\ OnceOf(t)
      /\ sess[t].pc \in {"authority", "fail", "settle"}
  BY DEF ShowLink, Fail, SettleOrder, At, Inv, Knows, OnceInv
<1>2. /\ Pay(t) = Visible(t)[P(p)] /\ Pay(t) = Row(t, P(p)) /\ Pay(t) \in PaymentRow
  BY <1>1, PayRow DEF Pay
<1>3. ASSUME NEW row, Write(t, Is(P(p), row)), NEW pc \in {"next", "commit"}, Goto(t, pc),
             \/ row.status = Pay(t).status \/ row.status = "approved" \/ At(t, "fail")
      PROVE  OnceInv'
  <2>1. /\ \A u \in Tx \ {t} : sess'[u] = sess[u]
        /\ sess'[t].pc = pc /\ sess'[t].p = sess[t].p /\ sess'[t].todo = sess[t].todo
    BY <1>3, GotoSession
  <2>2. p \notin sess[t].todo
    BY <1>1 DEF OnceOf
  <2>3. Visible(t)[W][p] > 0 => row.status = "approved"
    <3>1. Visible(t)[W][p] > 0 => Pay(t).status = "approved"
      BY <1>1, <1>2 DEF OnceOf, Once
    <3>2. At(t, "fail") => Pay(t).status # "approved"
      BY <1>1, <1>2 DEF OnceOf, Undecided, At
    <3> QED BY <1>3, <3>1, <3>2
  <2> QED BY <1>1, <1>3, <2>1, <2>2, <2>3, OncePayment
<1>4. CASE ShowLink(t)
  <2>1. [Pay(t) EXCEPT !.authority = TRUE].status = Pay(t).status
    BY <1>2 DEF PaymentRow
  <2> QED BY <1>3, <1>4, <2>1 DEF ShowLink
<1>5. CASE Fail(t)
  <2>1. /\ At(t, "fail") /\ Goto(t, "next")
        /\ \/ Write(t, Is(P(p), [Pay(t) EXCEPT !.status = "rejected", !.reviewed = TRUE]))
           \/ Write(t, Is(P(p), [Pay(t) EXCEPT !.status = "failed"]))
    BY <1>5 DEF Fail, Becomes
  <2> QED BY <1>3, <2>1
<1>6. CASE SettleOrder(t) /\ Goto(t, "next")
  <2>1. CASE Write(t, Is(P(p), [Pay(t) EXCEPT !.status = "approved"]))
    <3>1. [Pay(t) EXCEPT !.status = "approved"].status = "approved"
      BY <1>2 DEF PaymentRow
    <3> QED BY <1>3, <1>6, <2>1, <3>1
  <2>2. CASE Close(t)
    <3>1. sess'[t].pc = "next" /\ sess'[t].pc = "idle"
      BY <1>6, <2>2, GotoSession DEF Close, Idle, Inv, Types
    <3> QED BY <3>1
  <2> QED BY <1>6, <2>1, <2>2 DEF SettleOrder, Becomes
<1> QED BY <1>4, <1>5, <1>6

\* Handlers of different payments keep what each of them relies on.
LEMMA OnceStep ==
    ASSUME Inv, OnceInv, OneAtAPayment, [Next]_vars
    PROVE  OnceInv'
<1>1. CASE \/ ChargeAmount \/ ChargeCard \/ ChargeTracking
           \/ \E p \in Payment : PayAtGateway(p) \/ Tick(p)
           \/ UNCHANGED vars
  <2>1. db' = db /\ ws' = ws /\ sess' = sess
    BY <1>1 DEF ChargeAmount, ChargeCard, ChargeTracking, PayAtGateway, Tick, vars, store
  <2>2. \A t \in Tx : /\ Visible(t)' = Visible(t) /\ Undecided(t)' = Undecided(t)
                      /\ \A r : Row(t, r)' = Row(t, r)
    BY <2>1 DEF Visible, Undecided, Row
  <2>3. \A t \in Tx : OnceOf(t)'
    BY <2>1, <2>2 DEF OnceInv, OnceOf, Once
  <2> QED BY <2>1, <2>3 DEF OnceInv, Once
<1>2. ASSUME NEW t \in Tx, NEW p \in Payment,
             CreateCardTopup(t, p) \/ CreateGatewayTopup(t, p) \/ Review(t, p) \/ Callback(t, p)
      PROVE  OnceInv'
  BY <1>2, OnceBegin
<1>3. ASSUME NEW t \in Tx, Poll(t)
      PROVE  OnceInv'
  <2>1. PICK p \in Payment : Pollable(t, p)
    BY <1>3 DEF Poll
  <2> QED BY <1>3, OnceBegin
<1>4. ASSUME NEW t \in Tx, Finish(t) \/ Crash(t) \/ DeadlockVictim(t)
      PROVE  OnceInv'
  BY <1>4, OnceEnd DEF Finish, Crash, DeadlockVictim
<1>5. ASSUME NEW t \in Tx, SettleOrder(t)
      PROVE  OnceInv'
  BY <1>5, OnceEnd, OnceStatus DEF SettleOrder
<1>6. ASSUME NEW t \in Tx, Continue(t)
      PROVE  OnceInv'
  BY <1>4, <1>5, <1>6, OnceRead, OnceStatus, OnceLock, OnceCredit DEF Continue
<1> QED BY <1>1, <1>2, <1>3, <1>4, <1>6 DEF Next

\* What handlers of different payments keep, at all times.
LEMMA OnceAlways == Spec /\ []OneAtAPayment => []OnceInv
<1>1. Init => OnceInv
  <2> SUFFICES ASSUME Init PROVE OnceInv
    OBVIOUS
  <2>1. Once(db)
    <3>1. db[W] = [p \in Payment |-> 0]
      <4>1. W \notin {P(p) : p \in setup.linked}
        BY Keys
      <4> QED BY <4>1 DEF Init, Over, Is
    <3> QED BY <3>1 DEF Once
  <2>2. ASSUME NEW t \in Tx
        PROVE  OnceOf(t)
    <3>1. DOMAIN ws[t] = {} /\ sess[t] = Idle
      BY DEF Init, NoRows
    <3>2. W \in DOMAIN db /\ Visible(t)[W] = db[W]
      BY <3>1, InitInv, Wallets, Seen
    <3>3. Once(Visible(t))
      BY <2>1, <3>1, <3>2, Seen DEF Once
    <3>4. Undecided(t) = {} /\ sess[t].p \notin sess[t].todo
      BY <3>1 DEF Undecided, Idle
    <3> QED BY <3>1, <3>3, <3>4 DEF OnceOf
  <2> QED BY <2>1, <2>2 DEF OnceInv
<1>2. Inv /\ OnceInv /\ OneAtAPayment /\ [Next]_vars => OnceInv'
  BY OnceStep
<1> QED BY <1>1, <1>2, TopUpsInv, PTL DEF Spec

\* While no two handlers work on the same payment, whatever else overlaps and
\* crashes: no top-up is credited twice.
THEOREM NoTopUpTwice == Spec /\ []OneAtAPayment => []CreditedOnce
<1>1. Inv /\ OnceInv => CreditedOnce
  <2> SUFFICES ASSUME Inv, OnceInv, NEW p \in Payment PROVE db[W][p] <= 1
    BY DEF CreditedOnce
  <2>1. db[W][p] \in Nat
    BY Wallets
  <2> QED BY <2>1 DEF OnceInv, Once
<1> QED BY <1>1, OnceAlways, TopUpsInv, PTL

\* Under the same premise, which the property carries, at every gateway: a top-up
\* whose money is in the wallet is approved, and no poll, callback or review that
\* comes later changes that.  (Without it, a callback and the poller that overlap at
\* IDPay break it: the one whose confirmation is refused writes failed last.)
THEOREM CreditStaysApproved == Spec => CreditedIsApproved
<1>1. OnceInv => CreditedStays
  BY DEF OnceInv, Once, CreditedStays, TopUp, Known, Status
<1> QED BY <1>1, OnceAlways, PTL DEF CreditedIsApproved

-----------------------------------------------------------------------------
(***************************************************************************)
(* The dialogue is cleared before the payment is committed, and by itself  *)
(* nothing keeps two messages of it apart: what is counted here holds      *)
(* while the customer's receipts are handled one after the other, and      *)
(* whatever else overlaps and crashes.                                     *)
(***************************************************************************)
OneReceipt ==
    \A t, u \in Tx : sess[t].op = "receipt" /\ sess[u].op = "receipt" => t = u

\* f has a card payment p.
CardIn(f, p) == P(p) \in DOMAIN f /\ f[P(p)].method = "card"

\* The card payments, committed or not.
CardPayments == {p \in Payment : CardIn(db, p) \/ \E t \in Tx : CardIn(ws[t], p)}

\* The dialogue can still make a payment of the last transfer.
Due == fsm.step \in {"tracking", "receipt"} /\ \A t \in Tx : ~At(t, "clear")

\* A handler that has yet to clear the dialogue has written a new payment.
Clearing(t) ==
    At(t, "clear") => /\ sess[t].op = "receipt" /\ sess[t].p \in Payment
                      /\ CardIn(ws[t], sess[t].p) /\ P(sess[t].p) \notin DOMAIN db

\* Every transfer has made a payment, or can make one, but not both.
Counted == /\ IsFiniteSet(CardPayments)
           /\ Cardinality(CardPayments) + (IF Due THEN 1 ELSE 0) <= transfers

CardInv == Counted /\ \A t \in Tx : Clearing(t)

\* With no more payments, and no new hope for one, the count holds.
LEMMA CountedStays ==
    ASSUME Inv, Counted, CardPayments' \subseteq CardPayments, Due' => Due,
           transfers' = transfers
    PROVE  Counted'
<1>1. /\ IsFiniteSet(CardPayments')
      /\ Cardinality(CardPayments') <= Cardinality(CardPayments)
      /\ Cardinality(CardPayments) \in Nat /\ Cardinality(CardPayments') \in Nat
  BY FS_Subset, FS_CardinalityType DEF Counted
<1>2. transfers \in Nat
  BY PaymentAssumption DEF Inv, Types
<1> QED BY <1>1, <1>2 DEF Counted

\* A step of t that commits nothing and writes no new card payment.
LEMMA CardWrites ==
    ASSUME Inv, CardInv, NEW t \in Tx, db' = db,
           \A u \in Tx \ {t} : ws'[u] = ws[u] /\ sess'[u] = sess[u],
           \A p \in Payment : CardIn(ws[t], p)' => p \in CardPayments,
           ~At(t, "clear"), ~At(t, "clear")',
           fsm' = fsm \/ fsm' = NoDialogue, transfers' = transfers
    PROVE  CardInv'
<1>1. CardPayments' \subseteq CardPayments
  BY DEF CardPayments, CardIn
<1>2. Due' => Due
  BY DEF Due, At, NoDialogue
<1>3. \A u \in Tx : Clearing(u)'
  BY DEF CardInv, Clearing, CardIn, At
<1> QED BY <1>1, <1>2, <1>3, CountedStays DEF CardInv

\* It leaves the store alone.
LEMMA CardQuiet ==
    ASSUME Inv, CardInv, NEW t \in Tx, UNCHANGED store,
           \A u \in Tx \ {t} : sess'[u] = sess[u],
           ~At(t, "clear"), ~At(t, "clear")', fsm' = fsm, transfers' = transfers
    PROVE  CardInv'
<1>1. /\ db' = db /\ ws' = ws
      /\ \A p \in Payment : CardIn(ws[t], p)' => p \in CardPayments
  BY DEF store, CardPayments, CardIn
<1> QED BY <1>1, CardWrites

\* It writes a row of a payment that exists, with the method it has, or no payment.
LEMMA CardRewrites ==
    ASSUME Inv, CardInv, NEW t \in Tx, NEW f, Write(t, f),
           \A p \in Payment : CardIn(f, p) => Exists(t, P(p)) /\ Row(t, P(p)).method = "card",
           \A u \in Tx \ {t} : sess'[u] = sess[u],
           ~At(t, "clear"), ~At(t, "clear")',
           fsm' = fsm \/ fsm' = NoDialogue, transfers' = transfers
    PROVE  CardInv'
<1>1. /\ db' = db /\ ws'[t] = Over(f, ws[t])
      /\ \A u \in Tx \ {t} : ws'[u] = ws[u]
  BY WriteEffect DEF Inv, StoreInv
<1>2. ASSUME NEW p \in Payment, CardIn(ws[t], p)'
      PROVE  p \in CardPayments
  <2>1. CardIn(f, p) \/ CardIn(ws[t], p)
    BY <1>1, <1>2 DEF CardIn, Over
  <2>2. CASE CardIn(ws[t], p)
    BY <2>2 DEF CardPayments
  <2>3. CASE CardIn(f, p)
    <3>1. Exists(t, P(p)) /\ Row(t, P(p)).method = "card"
      BY <2>3
    <3>2. CardIn(ws[t], p) \/ CardIn(db, p)
      BY <3>1 DEF Exists, Row, CardIn
    <3> QED BY <3>2 DEF CardPayments
  <2> QED BY <2>1, <2>2, <2>3
<1> QED BY <1>1, <1>2, CardWrites

\* A transaction ends: one that had yet to clear the dialogue takes its payment
\* with it.
LEMMA CardEnd ==
    ASSUME Inv, CardInv, NEW t \in Tx,
           (Commit(t) /\ ~At(t, "clear")) \/ Rollback(t), Close(t),
           fsm' = fsm, transfers' = transfers
    PROVE  CardInv'
<1>1. /\ DOMAIN ws'[t] = {}
      /\ \A u \in Tx \ {t} : ws'[u] = ws[u] /\ sess'[u] = sess[u]
      /\ sess'[t].pc = "idle"
  BY EndEffect DEF Inv, Types, StoreInv, Close, Idle
<1>2. db' = db \/ (db' = Visible(t) /\ ~At(t, "clear"))
  BY DEF Commit, Rollback
<1>3. \A p \in Payment : CardIn(db', p) => p \in CardPayments
  BY <1>2 DEF Visible, Over, CardIn, CardPayments
<1>4. CardPayments' \subseteq CardPayments
  <2> SUFFICES ASSUME NEW p \in CardPayments' PROVE p \in CardPayments
    OBVIOUS
  <2>1. p \in Payment /\ (CardIn(db', p) \/ \E u \in Tx : CardIn(ws'[u], p))
    BY DEF CardPayments, CardIn
  <2>2. ASSUME NEW u \in Tx, CardIn(ws'[u], p)
        PROVE  u # t /\ CardIn(ws[u], p)
    BY <1>1, <2>2 DEF CardIn
  <2> QED BY <1>3, <2>1, <2>2 DEF CardPayments
<1>5. ASSUME NEW u \in Tx
      PROVE  Clearing(u)'
  <2>1. CASE u = t
    BY <1>1, <2>1 DEF Clearing, At
  <2>2. CASE u # t
    <3>1. Clearing(u) /\ DOMAIN ws[u] \cap DOMAIN ws[t] = {}
      BY <2>2 DEF CardInv, Inv, StoreInv, Exclusive
    <3>2. At(u, "clear") => P(sess[u].p) \notin DOMAIN db'
      BY <1>2, <3>1 DEF Clearing, CardIn, Visible, Over
    <3> QED BY <1>1, <2>2, <3>1, <3>2 DEF Clearing, CardIn, At
  <2> QED BY <2>1, <2>2
<1>6. CASE ~At(t, "clear")
  <2>1. Due' => Due
    BY <1>1, <1>6 DEF Due, At
  <2> QED BY <1>4, <1>5, <2>1, CountedStays DEF CardInv
<1>7. CASE At(t, "clear")
  <2> DEFINE p == sess[t].p
  <2>1. /\ p \in Payment /\ CardIn(ws[t], p) /\ P(p) \notin DOMAIN db /\ db' = db
    BY <1>2, <1>7 DEF CardInv, Clearing
  <2>2. p \in CardPayments
    BY <2>1 DEF CardPayments
  <2>3. \A u \in Tx : P(p) \notin DOMAIN ws'[u]
    BY <1>1, <2>1 DEF Inv, StoreInv, Exclusive, CardIn
  <2>4. p \notin CardPayments'
    BY <2>1, <2>3 DEF CardPayments, CardIn
  <2>5. CardPayments' \subseteq CardPayments \ {p}
    BY <1>4, <2>4
  <2>6. /\ IsFiniteSet(CardPayments \ {p})
        /\ Cardinality(CardPayments \ {p}) = Cardinality(CardPayments) - 1
        /\ Cardinality(CardPayments) \in Nat
    BY <2>2, FS_RemoveElement, FS_CardinalityType DEF CardInv, Counted
  <2>7. /\ IsFiniteSet(CardPayments')
        /\ Cardinality(CardPayments') <= Cardinality(CardPayments \ {p})
        /\ Cardinality(CardPayments') \in Nat
    BY <2>5, <2>6, FS_Subset, FS_CardinalityType
  <2>8. Cardinality(CardPayments) <= transfers /\ transfers \in Nat
    <3>1. transfers \in Nat
      BY PaymentAssumption DEF Inv, Types
    <3>2. ~Due
      BY <1>7 DEF Due
    <3>3. Cardinality(CardPayments) + 0 <= transfers
      BY <3>2 DEF CardInv, Counted
    <3> QED BY <2>6, <3>1, <3>3
  <2>9. Cardinality(CardPayments') + 1 <= transfers
    BY <2>6, <2>7, <2>8
  <2>10. Counted'
    BY <2>7, <2>8, <2>9 DEF Counted
  <2> QED BY <1>5, <2>10 DEF CardInv
<1> QED BY <1>6, <1>7

\* The receipt of a transfer makes the payment the dialogue was good for.
LEMMA CardReceipt ==
    ASSUME Inv, CardInv, OneReceipt', NEW t \in Tx, NEW p \in Payment, CreateCardTopup(t, p)
    PROVE  CardInv'
<1>1. /\ Write(t, Is(P(p), CardRow)) /\ fsm.step = "receipt" /\ fsm' = fsm
      /\ transfers' = transfers /\ p \notin issued
      /\ sess' = [sess EXCEPT ![t] = [Idle EXCEPT !.op = "receipt", !.p = p, !.pc = "clear"]]
  BY DEF CreateCardTopup, Start
<1>2. /\ sess'[t].op = "receipt" /\ sess'[t].pc = "clear" /\ sess'[t].p = p
      /\ \A u \in Tx \ {t} : sess'[u] = sess[u]
      /\ At(t, "idle")
  BY <1>1 DEF Inv, Types, Idle, CreateCardTopup, Begin
<1>3. Due
  <2>1. ASSUME NEW u \in Tx PROVE ~At(u, "clear")
    BY <1>2 DEF OneReceipt, CardInv, Clearing, At
  <2> QED BY <1>1, <2>1 DEF Due
<1>4. ~Due'
  BY <1>2 DEF Due, At
<1>5. /\ db' = db /\ ws'[t] = Over(Is(P(p), CardRow), ws[t])
      /\ \A u \in Tx \ {t} : ws'[u] = ws[u]
  BY <1>1, WriteEffect DEF Inv, StoreInv
<1>6. CardIn(ws'[t], p) /\ \A q \in Payment \ {p} : CardIn(ws'[t], q) <=> CardIn(ws[t], q)
  BY <1>5, Keys DEF CardIn, Over, Is, CardRow
<1>7. P(p) \notin DOMAIN db /\ \A u \in Tx : P(p) \notin DOMAIN ws[u]
  BY <1>1 DEF Inv, Fresh
<1>8. CardPayments' = CardPayments \cup {p} /\ p \notin CardPayments
  <2>1. \A q \in Payment \ {p} : \A u \in Tx : CardIn(ws'[u], q) <=> CardIn(ws[u], q)
    BY <1>5, <1>6
  <2>2. CardPayments' = {q \in Payment : CardIn(db', q) \/ \E u \in Tx : CardIn(ws'[u], q)}
    BY DEF CardPayments, CardIn
  <2>3. \A q \in Payment \ {p} : q \in CardPayments' <=> q \in CardPayments
    BY <1>5, <2>1, <2>2 DEF CardPayments
  <2>4. p \in CardPayments' /\ p \notin CardPayments
    BY <1>6, <1>7, <2>2 DEF CardPayments, CardIn
  <2>5. CardPayments' \subseteq Payment /\ CardPayments \subseteq Payment
    BY <2>2 DEF CardPayments
  <2> QED BY <2>3, <2>4, <2>5
<1>9. Counted'
  <2>1. /\ IsFiniteSet(CardPayments') /\ Cardinality(CardPayments') = Cardinality(CardPayments) + 1
        /\ Cardinality(CardPayments) \in Nat
    BY <1>8, FS_AddElement, FS_CardinalityType DEF CardInv, Counted
  <2>2. Cardinality(CardPayments) + 1 <= transfers /\ transfers \in Nat
    BY <1>3, PaymentAssumption DEF CardInv, Counted, Inv, Types
  <2> QED BY <1>1, <1>4, <2>1, <2>2 DEF Counted
<1>10. ASSUME NEW u \in Tx PROVE Clearing(u)'
  <2>1. CASE u = t
    BY <1>2, <1>5, <1>6, <1>7, <2>1 DEF Clearing
  <2>2. CASE u # t
    BY <1>2, <1>5, <2>2 DEF CardInv, Clearing, CardIn, At
  <2> QED BY <2>1, <2>2
<1> QED BY <1>9, <1>10 DEF CardInv

\* The handler clears the dialogue.
LEMMA CardClear ==
    ASSUME Inv, CardInv, NEW t \in Tx, ClearDialogue(t)
    PROVE  CardInv'
<1>1. /\ db' = db /\ ws' = ws /\ fsm' = NoDialogue /\ transfers' = transfers
      /\ Goto(t, "commit")
  BY DEF ClearDialogue, store
<1>2. sess'[t].pc = "commit" /\ \A u \in Tx \ {t} : sess'[u] = sess[u]
  BY <1>1, GotoSession
<1>3. CardPayments' = CardPayments /\ ~Due'
  BY <1>1 DEF CardPayments, CardIn, Due, NoDialogue
<1>4. \A u \in Tx : Clearing(u)'
  BY <1>1, <1>2 DEF CardInv, Clearing, CardIn, At
<1> QED BY <1>1, <1>3, <1>4, CountedStays DEF CardInv

\* The other statements of a handler.
LEMMA CardContinue ==
    ASSUME Inv, CardInv, NEW t \in Tx,
           \/ RequestPayment(t) \/ ShowLink(t) \/ NextInBatch(t) \/ AskGateway(t) \/ Fail(t)
           \/ SettleOrder(t) /\ ~Close(t)
           \/ LockWallet(t) \/ Credit(t)
    PROVE  CardInv'
<1> DEFINE p == sess[t].p
<1>1. sess \in [Tx -> Session] /\ sess[t] \in Session /\ transfers' = transfers
  BY DEF RequestPayment, ShowLink, NextInBatch, AskGateway, Fail, SettleOrder, LockWallet, Credit,
         outside, Inv, Types
<1>2. ASSUME NEW pc \in {"authority", "next", "fail", "settle", "lock", "credit", "commit"}, Goto(t, pc)
      PROVE  ~At(t, "clear")' /\ \A u \in Tx \ {t} : sess'[u] = sess[u]
  BY <1>2, GotoSession DEF At
<1>3. CASE RequestPayment(t)
  BY <1>1, <1>2, <1>3, CardQuiet DEF RequestPayment, At
<1>4. CASE AskGateway(t)
  BY <1>1, <1>2, <1>4, CardQuiet DEF AskGateway, At
<1>5. CASE NextInBatch(t)
  <2>1. \A u \in Tx \ {t} : sess'[u] = sess[u]
    BY <1>1, <1>5 DEF NextInBatch, Goto
  <2>2. sess'[t].pc \in {"commit", "ask"}
    <3>1. CASE Goto(t, "commit")
      BY <3>1, GotoSession
    <3>2. ASSUME NEW q \in sess[t].todo,
                 sess' = [sess EXCEPT ![t].p = q, ![t].pc = "ask", ![t].todo = @ \ {q}]
          PROVE  sess'[t].pc = "ask"
      <4>1. sess'[t] = [sess[t] EXCEPT !.p = q, !.pc = "ask", !.todo = @ \ {q}]
        BY <1>1, <3>2
      <4> QED BY <1>1, <4>1 DEF Session
    <3> QED BY <1>5, <3>1, <3>2 DEF NextInBatch
  <2> QED BY <1>1, <1>5, <2>1, <2>2, CardQuiet DEF NextInBatch, At, outside
<1>6. ASSUME sess[t].pc \in {"authority", "fail", "settle", "credit"}
      PROVE  /\ p \in Payment /\ Exists(t, P(p)) /\ Pay(t) = Row(t, P(p)) /\ Pay(t) \in PaymentRow
             /\ ~At(t, "clear")
  <2>1. p \in Payment /\ Exists(t, P(p))
    BY <1>6 DEF Inv, Knows
  <2> QED BY <1>6, <2>1, PayRow DEF Pay, At
<1>7. ASSUME NEW f, Write(t, f), NEW pc \in {"next", "commit", "credit"}, Goto(t, pc), ~At(t, "clear"),
             \A q \in Payment : CardIn(f, q) => Exists(t, P(q)) /\ Row(t, P(q)).method = "card",
             fsm' = fsm \/ fsm' = NoDialogue
      PROVE  CardInv'
  BY <1>1, <1>2, <1>7, CardRewrites
<1>8. ASSUME NEW row, row.method = Pay(t).method,
             sess[t].pc \in {"authority", "fail", "settle", "credit"}
      PROVE  \A q \in Payment : CardIn(Is(P(p), row), q) =>
                Exists(t, P(q)) /\ Row(t, P(q)).method = "card"
  BY <1>6, <1>8, Keys DEF CardIn, Is
<1>9. CASE ShowLink(t)
  <2>1. At(t, "authority") /\ sess[t].pc \in {"authority", "fail", "settle", "credit"}
    BY <1>9 DEF ShowLink, At
  <2>2. [Pay(t) EXCEPT !.authority = TRUE].method = Pay(t).method
    BY <1>6, <2>1 DEF PaymentRow
  <2> QED BY <1>6, <1>7, <1>8, <1>9, <2>1, <2>2 DEF ShowLink
<1>10. CASE Fail(t)
  <2>1. At(t, "fail") /\ sess[t].pc \in {"authority", "fail", "settle", "credit"}
    BY <1>10 DEF Fail, At
  <2>2. /\ [Pay(t) EXCEPT !.status = "rejected", !.reviewed = TRUE].method = Pay(t).method
        /\ [Pay(t) EXCEPT !.status = "failed"].method = Pay(t).method
    BY <1>6, <2>1 DEF PaymentRow
  <2>3. /\ Goto(t, "next") /\ fsm' = fsm
        /\ \/ Write(t, Is(P(p), [Pay(t) EXCEPT !.status = "rejected", !.reviewed = TRUE]))
           \/ Write(t, Is(P(p), [Pay(t) EXCEPT !.status = "failed"]))
    BY <1>10 DEF Fail, Becomes, outside
  <2> QED BY <1>6, <1>7, <1>8, <2>1, <2>2, <2>3
<1>11. CASE SettleOrder(t) /\ ~Close(t)
  <2>1. At(t, "settle") /\ sess[t].pc \in {"authority", "fail", "settle", "credit"}
    BY <1>11 DEF SettleOrder, At
  <2>2. [Pay(t) EXCEPT !.status = "approved"].method = Pay(t).method
    BY <1>6, <2>1 DEF PaymentRow
  <2>3. /\ Goto(t, "next") /\ fsm' = fsm
        /\ Write(t, Is(P(p), [Pay(t) EXCEPT !.status = "approved"]))
    BY <1>11 DEF SettleOrder, Becomes, outside
  <2> QED BY <1>6, <1>7, <1>8, <2>1, <2>2, <2>3
<1>12. CASE LockWallet(t)
  <2>1. /\ At(t, "lock") /\ ~At(t, "clear") /\ Goto(t, "credit") /\ fsm' = fsm
        /\ Write(t, Is(W, Row(t, W)))
    BY <1>12 DEF LockWallet, LockRow, At, outside
  <2>2. \A q \in Payment : ~CardIn(Is(W, Row(t, W)), q)
    BY Keys DEF CardIn, Is
  <2> QED BY <1>7, <2>1, <2>2
<1>13. CASE Credit(t)
  <2> DEFINE row == [Pay(t) EXCEPT !.status = "approved",
                                   !.reviewed = @ \/ sess[t].op = "approve"]
             w == [Row(t, W) EXCEPT ![p] = @ + 1]
  <2>1. At(t, "credit") /\ sess[t].pc \in {"authority", "fail", "settle", "credit"}
    BY <1>13 DEF Credit, At
  <2>2. row.method = Pay(t).method
    BY <1>6, <2>1 DEF PaymentRow
  <2>3. Goto(t, "next") /\ fsm' = fsm /\ Write(t, Over(Is(W, w), Is(P(p), row)))
    BY <1>13 DEF Credit, outside
  <2> HIDE DEF row, w
  <2>4. \A q \in Payment : CardIn(Over(Is(W, w), Is(P(p), row)), q) => CardIn(Is(P(p), row), q)
    BY Keys DEF CardIn, Is, Over
  <2> QED BY <1>6, <1>7, <1>8, <2>1, <2>2, <2>3, <2>4
<1> QED BY <1>3, <1>4, <1>5, <1>9, <1>10, <1>11, <1>12, <1>13

\* The steps of the customer and of time; a transfer is one more to be counted.
LEMMA CardOutside ==
    ASSUME Inv, CardInv,
           \/ ChargeAmount \/ ChargeCard \/ ChargeTracking
           \/ \E p \in Payment : PayAtGateway(p) \/ Tick(p)
           \/ UNCHANGED vars
    PROVE  CardInv'
<1>1. db' = db /\ ws' = ws /\ sess' = sess
  BY DEF ChargeAmount, ChargeCard, ChargeTracking, PayAtGateway, Tick, vars, store
<1>2. CardPayments' = CardPayments /\ \A u \in Tx : Clearing(u)'
  BY <1>1 DEF CardInv, CardPayments, Clearing, CardIn, At
<1>3. CASE ChargeCard
  <2>1. transfers' = transfers + 1 /\ transfers \in Nat
    BY <1>3, PaymentAssumption DEF ChargeCard, Inv, Types
  <2>2. Cardinality(CardPayments) <= transfers /\ Cardinality(CardPayments) \in Nat
    BY <2>1, FS_CardinalityType DEF CardInv, Counted
  <2>3. Counted'
    BY <1>2, <2>1, <2>2 DEF CardInv, Counted
  <2> QED BY <1>2, <2>3 DEF CardInv
<1>4. CASE ~ChargeCard
  <2>1. transfers' = transfers
    BY <1>4 DEF ChargeAmount, ChargeTracking, PayAtGateway, Tick, vars
  <2>2. Due' => Due
    <3>1. ASSUME ChargeAmount, fsm'.step \in {"tracking", "receipt"}
          PROVE  fsm.step \in {"tracking", "receipt"}
      <4>1. CASE fsm' = [fsm EXCEPT !.step = "amount"]
        <5>1. CASE "step" \in DOMAIN fsm
          BY <3>1, <4>1, <5>1
        <5>2. CASE "step" \notin DOMAIN fsm
          BY <3>1, <4>1, <5>2
        <5> QED BY <5>1, <5>2
      <4>2. CASE fsm' = [fsm EXCEPT !.amount = 1]
        BY <3>1, <4>2
      <4> QED BY <3>1, <4>1, <4>2 DEF ChargeAmount
    <3>2. ~ChargeAmount => fsm' = fsm \/ fsm.step = "tracking"
      BY <1>4 DEF ChargeTracking, PayAtGateway, Tick, vars
    <3> QED BY <1>1, <3>1, <3>2 DEF Due, At
  <2> QED BY <1>2, <2>1, <2>2, CountedStays DEF CardInv
<1> QED BY <1>3, <1>4

\* Receipts that are handled one after the other keep the count.
LEMMA CardStep ==
    ASSUME Inv, CardInv, OneReceipt', [Next]_vars
    PROVE  CardInv'
<1>1. CASE \/ ChargeAmount \/ ChargeCard \/ ChargeTracking
           \/ \E p \in Payment : PayAtGateway(p) \/ Tick(p)
           \/ UNCHANGED vars
  BY <1>1, CardOutside
<1>2. ASSUME NEW t \in Tx, NEW p \in Payment, CreateCardTopup(t, p)
      PROVE  CardInv'
  BY <1>2, CardReceipt
<1>3. ASSUME NEW t \in Tx, NEW p \in Payment, CreateGatewayTopup(t, p)
      PROVE  CardInv'
  <2>1. /\ Write(t, Is(P(p), GatewayRow)) /\ At(t, "idle") /\ fsm' = fsm /\ transfers' = transfers
        /\ sess' = [sess EXCEPT ![t] = [Idle EXCEPT !.op = "charge", !.p = p, !.pc = "request"]]
    BY <1>3 DEF CreateGatewayTopup, Begin, Start
  <2>2. sess'[t].pc = "request" /\ \A u \in Tx \ {t} : sess'[u] = sess[u]
    BY <2>1 DEF Inv, Types, Idle
  <2>3. \A q \in Payment : ~CardIn(Is(P(p), GatewayRow), q)
    BY Keys DEF CardIn, Is, GatewayRow
  <2> QED BY <2>1, <2>2, <2>3, CardRewrites DEF At
<1>4. ASSUME NEW t \in Tx, NEW p \in Payment, Review(t, p) \/ Callback(t, p) \/ Poll(t)
      PROVE  CardInv'
  <2>1. /\ At(t, "idle") /\ UNCHANGED store /\ fsm' = fsm /\ transfers' = transfers
    BY <1>4 DEF Review, Callback, Poll, Begin, outside
  <2>2. /\ sess \in [Tx -> Session]
        /\ \A u \in Tx \ {t} : sess'[u] = sess[u]
    BY <1>4 DEF Review, Callback, Poll, Start, Inv, Types
  <2>3. sess'[t].pc \in {"lock", "fail", "ask", "next"}
    BY <1>4, <2>2 DEF Review, Callback, Poll, Start, Idle
  <2> QED BY <2>1, <2>2, <2>3, CardQuiet DEF At
<1>5. ASSUME NEW t \in Tx, Poll(t)
      PROVE  CardInv'
  <2>1. PICK p \in Payment : Pollable(t, p)
    BY <1>5 DEF Poll
  <2> QED BY <1>4, <1>5
<1>6. ASSUME NEW t \in Tx, \/ Finish(t) \/ Crash(t) \/ DeadlockVictim(t)
                           \/ SettleOrder(t) /\ Close(t)
      PROVE  CardInv'
  <2>1. /\ (Commit(t) /\ ~At(t, "clear")) \/ Rollback(t)
        /\ Close(t) /\ fsm' = fsm /\ transfers' = transfers
    <3>1. CASE SettleOrder(t) /\ Close(t)
      <4>1. CASE Goto(t, "next")
        <5>1. sess'[t].pc = "next" /\ sess'[t].pc = "idle"
          BY <3>1, <4>1, GotoSession DEF Close, Idle, Inv, Types
        <5> QED BY <5>1
      <4> QED BY <3>1, <4>1 DEF SettleOrder, outside
    <3> QED BY <1>6, <3>1 DEF Finish, Crash, DeadlockVictim, outside, At
  <2> QED BY <1>6, <2>1, CardEnd
<1>7. ASSUME NEW t \in Tx, Continue(t)
      PROVE  CardInv'
  BY <1>6, <1>7, CardClear, CardContinue DEF Continue
<1>8. ASSUME NEW t \in Tx, Crash(t)
      PROVE  CardInv'
  BY <1>6, <1>8
<1> QED BY <1>1, <1>2, <1>3, <1>4, <1>5, <1>7, <1>8 DEF Next

\* While receipts are handled one at a time, one card transfer makes one payment
\* for the admin to approve, wherever a handler dies between the end of the
\* dialogue and its commit.
THEOREM ReceiptsAreTransfers == Spec /\ []OneReceipt => []OnePaymentPerTransfer
<1>1. Init => CardInv
  <2> SUFFICES ASSUME Init PROVE CardInv
    OBVIOUS
  <2>1. \A t \in Tx : DOMAIN ws[t] = {} /\ sess[t].pc = "idle"
    BY DEF Init, NoRows, Idle
  <2>2. \A p \in Payment : ~CardIn(db, p)
    <3> SUFFICES ASSUME NEW p \in Payment, P(p) \in DOMAIN db
                 PROVE  db[P(p)].method = "gateway"
      BY DEF CardIn
    <3>1. p \in setup.linked /\ db[P(p)] = LinkedRow(p)
      <4>1. \A q : P(q)[2] = q
        BY DEF P
      <4> QED BY <4>1, Keys DEF Init, Over, Is
    <3> QED BY <3>1 DEF LinkedRow, GatewayRow
  <2>3. CardPayments = {}
    BY <2>1, <2>2 DEF CardPayments, CardIn
  <2>4. ~Due /\ transfers = 0
    BY DEF Due, Init, NoDialogue
  <2>5. Counted
    BY <2>3, <2>4, FS_EmptySet DEF Counted
  <2> QED BY <2>1, <2>5 DEF CardInv, Clearing, At
<1>2. Inv /\ CardInv /\ OneReceipt' /\ [Next]_vars => CardInv'
  BY CardStep
<1>3. Inv /\ CardInv => OnePaymentPerTransfer
  <2> SUFFICES ASSUME Inv, CardInv PROVE OnePaymentPerTransfer
    OBVIOUS
  <2> DEFINE S == {p \in TopUp : db[P(p)].method = "card"}
  <2>1. S \subseteq CardPayments
    BY DEF TopUp, Known, CardPayments, CardIn
  <2>2. /\ Cardinality(S) <= Cardinality(CardPayments)
        /\ Cardinality(CardPayments) \in Nat /\ Cardinality(S) \in Nat
    BY <2>1, FS_Subset, FS_CardinalityType DEF CardInv, Counted
  <2>3. Cardinality(CardPayments) <= transfers /\ transfers \in Nat
    <3>1. transfers \in Nat
      BY PaymentAssumption DEF Inv, Types
    <3> QED BY <2>2, <3>1 DEF CardInv, Counted
  <2> HIDE DEF S
  <2>4. Cardinality(S) <= transfers
    BY <2>2, <2>3
  <2> QED BY <2>4 DEF OnePaymentPerTransfer, S
<1> QED BY <1>1, <1>2, <1>3, TopUpsInv, PTL DEF Spec
=============================================================================
