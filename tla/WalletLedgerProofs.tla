------------------------- MODULE WalletLedgerProofs -------------------------
(***************************************************************************)
(* Proofs about WalletLedger for every set of users, transactions and      *)
(* amounts.  The inductive invariant adds to the checked properties what   *)
(* makes them survive a step: row locks are exclusive, uncommitted rows    *)
(* reconcile too and only continue the committed ones, and the balance a   *)
(* call computes with is the one of the row it holds.                      *)
(***************************************************************************)
EXTENDS WalletLedger, RowStoreProofs

\* Committed and uncommitted rows are wallets.
StoreType ==
    /\ DOMAIN db \subseteq User /\ db \in [DOMAIN db -> Wallet]
    /\ DOMAIN ws = Tx /\ Shaped
    /\ \A t \in Tx : DOMAIN ws[t] \subseteq User /\ ws[t] \in [DOMAIN ws[t] -> Wallet]

\* A row in a write set reconciles and continues the committed row.
Pending ==
    \A t \in Tx : \A u \in DOMAIN ws[t] :
        /\ Reconciled(ws[t][u])
        /\ u \in DOMAIN db => L!Continues(db[u].log, ws[t][u].log)

StoreInv == StoreType /\ Exclusive /\ LedgerReconciles /\ Pending

\* The balance a locked call remembers is the one of the row it locked.
Locked ==
    \A t \in Tx : sess[t].pc = "apply" =>
        /\ sess[t].user \in DOMAIN ws[t]
        /\ sess[t].seen = ws[t][sess[t].user].balance

\* A call that is about to lock its wallet has found or inserted it.
Found == \A t \in Tx : sess[t].pc = "lock" => Exists(t, sess[t].user)

SessInv == sess \in [Tx -> Session] /\ Locked /\ Found

Inv == StoreInv /\ SessInv
-----------------------------------------------------------------------------
\* A log continues itself.
LEMMA ContinuesRefl ==
    ASSUME NEW s \in Seq(Entry)
    PROVE  L!Continues(s, s)
    BY DEF L!Continues

\* A log that continues a continuation of s continues s.
LEMMA ContinuesTrans ==
    ASSUME NEW r \in Seq(Entry), NEW s \in Seq(Entry), NEW q \in Seq(Entry),
           L!Continues(s, r), L!Continues(r, q)
    PROVE  L!Continues(s, q)
<1>1. \A i \in 1..Len(s) : i \in 1..Len(r)
  BY DEF L!Continues
<1> QED BY <1>1 DEF L!Continues

\* A new wallet reconciles.
LEMMA NewWallet ==
    /\ [balance |-> 0, log |-> <<>>] \in Wallet
    /\ Reconciled([balance |-> 0, log |-> <<>>])
    BY DEF Wallet, Reconciled, L!Adds, L!Closing

\* Posting an amount the balance allows: the wallet still reconciles and its
\* log continues.
LEMMA Posting ==
    ASSUME NEW w \in Wallet, Reconciled(w), NEW a \in Int, w.balance + a >= 0,
           NEW v, v = [balance |-> w.balance + a,
                       log |-> Append(w.log, [amount |-> a, after |-> w.balance + a])]
    PROVE  v \in Wallet /\ Reconciled(v) /\ L!Continues(w.log, v.log)
<1> DEFINE e == [amount |-> a, after |-> w.balance + a]
           n == Len(w.log)
<1>1. w.log \in Seq(Entry) /\ w.balance \in Nat /\ n \in Nat
  BY DEF Wallet
<1>2. e \in Entry
  BY <1>1 DEF Entry
<1>3. v \in Wallet
  BY <1>1, <1>2 DEF Wallet
<1>4. /\ v.log = Append(w.log, e) /\ v.balance = w.balance + a
      /\ Len(v.log) = n + 1
      /\ v.log[n + 1] = e
      /\ \A i \in 1..n : v.log[i] = w.log[i]
  BY <1>1, <1>2
<1>5. L!Continues(w.log, v.log)
  BY <1>1, <1>4 DEF L!Continues
<1>6. w.balance = IF n = 0 THEN 0 ELSE w.log[n].after
  BY <1>1 DEF Reconciled, L!Closing
<1>7. L!Adds(v.log)
  <2> SUFFICES ASSUME NEW i \in 1..(n + 1)
               PROVE  v.log[i].after = L!Before(v.log, i) + v.log[i].amount
    BY <1>4 DEF L!Adds
  <2>1. CASE i \in 1..n
    <3>1. v.log[i] = w.log[i] /\ L!Before(v.log, i) = L!Before(w.log, i)
      BY <1>1, <1>4, <2>1 DEF L!Before
    <3> QED BY <2>1, <3>1 DEF Reconciled, L!Adds
  <2>2. CASE i = n + 1
    <3>1. L!Before(v.log, n + 1) = w.balance
      BY <1>1, <1>4, <1>6 DEF L!Before
    <3> QED BY <1>1, <1>4, <2>2, <3>1
  <2> QED BY <1>1, <2>1, <2>2
<1>8. v.balance = L!Closing(v.log)
  <2>1. v.log # <<>> /\ Len(v.log) = n + 1
    BY <1>1, <1>4
  <2>2. v.log[n + 1].after = v.balance
    BY <1>4
  <2> QED BY <2>1, <2>2 DEF L!Closing
<1> QED BY <1>3, <1>5, <1>7, <1>8 DEF Reconciled
-----------------------------------------------------------------------------
\* Writing one wallet keeps the books, if the new row reconciles and continues
\* the row the transaction sees.
LEMMA WriteBooks ==
    ASSUME StoreInv, NEW t \in Tx, NEW u \in User, NEW v \in Wallet,
           Reconciled(v),
           Exists(t, u) => L!Continues(Row(t, u).log, v.log),
           Write(t, Is(u, v))
    PROVE  /\ StoreInv'
           /\ db' = db
           /\ u \in DOMAIN ws'[t] /\ ws'[t][u] = v
           /\ \A x \in Tx \ {t} : ws'[x] = ws[x]
<1>1. /\ db' = db
      /\ ws'[t] = Over(Is(u, v), ws[t])
      /\ \A x \in Tx \ {t} : ws'[x] = ws[x]
      /\ DOMAIN ws' = Tx
  BY WriteEffect DEF StoreInv, StoreType
<1>2. /\ DOMAIN Over(Is(u, v), ws[t]) = {u} \cup DOMAIN ws[t]
      /\ Over(Is(u, v), ws[t])[u] = v
      /\ \A r \in DOMAIN ws[t] \ {u} : Over(Is(u, v), ws[t])[r] = ws[t][r]
  BY DEF Is, Over
<1>3. /\ DOMAIN ws'[t] = {u} \cup DOMAIN ws[t]
      /\ ws'[t][u] = v
      /\ \A r \in DOMAIN ws[t] \ {u} : ws'[t][r] = ws[t][r]
  BY <1>1, <1>2
<1>4. StoreType'
  <2>1. ws'[t] \in [DOMAIN ws'[t] -> Wallet]
    <3>1. Is(u, v) \in [DOMAIN Is(u, v) -> Wallet]
      BY DEF Is
    <3>2. ws[t] \in [DOMAIN ws[t] -> Wallet]
      BY DEF StoreInv, StoreType
    <3>3. Over(Is(u, v), ws[t]) \in [DOMAIN Over(Is(u, v), ws[t]) -> Wallet]
      BY <3>1, <3>2, OverType
    <3> QED BY <1>1, <3>3
  <2>2. Shaped'
    BY <1>1 DEF Write, Shaped, StoreInv, StoreType
  <2> QED BY <1>1, <1>3, <2>1, <2>2 DEF StoreInv, StoreType
<1>5. Exclusive'
  BY WriteExclusive DEF StoreInv, StoreType
<1>6. LedgerReconciles'
  BY <1>1 DEF StoreInv, LedgerReconciles, Reconciled
<1>7. Pending'
  <2> SUFFICES ASSUME NEW x \in Tx, NEW r \in DOMAIN ws'[x]
               PROVE  /\ Reconciled(ws'[x][r])
                      /\ r \in DOMAIN db => L!Continues(db[r].log, ws'[x][r].log)
    BY <1>1 DEF Pending, Reconciled
  <2>1. CASE x # t \/ r # u
    <3>1. r \in DOMAIN ws[x] /\ ws'[x][r] = ws[x][r]
      BY <1>1, <1>3, <2>1
    <3> QED BY <3>1 DEF StoreInv, Pending
  <2>2. CASE x = t /\ r = u
    <3>1. ws'[x][r] = v
      BY <1>3, <2>2
    <3>2. ASSUME u \in DOMAIN db
          PROVE  L!Continues(db[u].log, v.log)
      <4>1. Exists(t, u) /\ Row(t, u) = IF u \in DOMAIN ws[t] THEN ws[t][u] ELSE db[u]
        BY <3>2 DEF Exists, Row, Visible, Over
      <4>2. CASE u \in DOMAIN ws[t]
        <5>1. L!Continues(db[u].log, ws[t][u].log)
          BY <3>2, <4>2 DEF StoreInv, Pending
        <5>2. L!Continues(ws[t][u].log, v.log)
          BY <4>1, <4>2
        <5>3. db[u].log \in Seq(Entry) /\ ws[t][u].log \in Seq(Entry) /\ v.log \in Seq(Entry)
          BY <3>2, <4>2 DEF StoreInv, StoreType, Wallet
        <5> QED BY <5>1, <5>2, <5>3, ContinuesTrans
      <4>3. CASE u \notin DOMAIN ws[t]
        BY <4>1, <4>3
      <4> QED BY <4>2, <4>3
    <3> QED BY <2>2, <3>1, <3>2
  <2> QED BY <2>1, <2>2
<1> QED BY <1>1, <1>3, <1>4, <1>5, <1>6, <1>7 DEF StoreInv

\* Ending a transaction keeps the books, whether it commits or rolls back.
LEMMA EndBooks ==
    ASSUME StoreInv, NEW t \in Tx, Commit(t) \/ Rollback(t)
    PROVE  /\ StoreInv'
           /\ \A x \in Tx \ {t} : ws'[x] = ws[x]
           /\ DOMAIN db \subseteq DOMAIN db'
<1>1. /\ DOMAIN ws'[t] = {}
      /\ \A x \in Tx \ {t} : ws'[x] = ws[x]
      /\ DOMAIN ws' = Tx
      /\ ws'[t] = NoRows
  BY EndEffect DEF StoreInv, StoreType
<1>2. \A u \in DOMAIN db' : \/ u \in DOMAIN ws[t] /\ db'[u] = ws[t][u]
                            \/ u \in DOMAIN db \ DOMAIN ws[t] /\ db'[u] = db[u]
                            \/ db' = db
  BY DEF Commit, Rollback, Visible, Over
<1>3. StoreType'
  <2>1. db' \in [DOMAIN db' -> Wallet] /\ DOMAIN db' \subseteq User
    <3>1. CASE Commit(t)
      <4>1. /\ ws[t] \in [DOMAIN ws[t] -> Wallet] /\ db \in [DOMAIN db -> Wallet]
            /\ DOMAIN ws[t] \subseteq User /\ DOMAIN db \subseteq User
        BY DEF StoreInv, StoreType
      <4>2. /\ DOMAIN Over(ws[t], db) = DOMAIN ws[t] \cup DOMAIN db
            /\ Over(ws[t], db) \in [DOMAIN Over(ws[t], db) -> Wallet]
        BY <4>1, OverType, OverRows
      <4> QED BY <3>1, <4>1, <4>2 DEF Commit, Visible
    <3>2. CASE Rollback(t)
      BY <3>2 DEF Rollback, StoreInv, StoreType
    <3> QED BY <3>1, <3>2
  <2>2. Shaped'
    BY <1>1 DEF Commit, Rollback, Shaped, StoreInv, StoreType
  <2>3. \A x \in Tx : DOMAIN ws'[x] \subseteq User /\ ws'[x] \in [DOMAIN ws'[x] -> Wallet]
    BY <1>1 DEF StoreInv, StoreType, NoRows
  <2> QED BY <1>1, <2>1, <2>2, <2>3 DEF StoreType
<1>4. Exclusive'
  BY EndExclusive DEF StoreInv, StoreType
<1>5. LedgerReconciles'
  BY <1>2 DEF StoreInv, LedgerReconciles, Pending, Reconciled
<1>6. Pending'
  <2> SUFFICES ASSUME NEW x \in Tx, NEW r \in DOMAIN ws'[x]
               PROVE  /\ Reconciled(ws'[x][r])
                      /\ r \in DOMAIN db' => L!Continues(db'[r].log, ws'[x][r].log)
    BY DEF Pending, Reconciled
  <2>1. x # t /\ ws'[x] = ws[x] /\ r \in DOMAIN ws[x]
    BY <1>1
  <2>2. r \notin DOMAIN ws[t]
    BY <2>1 DEF StoreInv, Exclusive
  <2>3. r \in DOMAIN db' => r \in DOMAIN db /\ db'[r] = db[r]
    BY <1>2, <2>2
  <2> QED BY <2>1, <2>3 DEF StoreInv, Pending
<1>7. DOMAIN db \subseteq DOMAIN db'
  BY DEF Commit, Rollback, Visible, Over
<1> QED BY <1>1, <1>3, <1>4, <1>5, <1>6, <1>7 DEF StoreInv
-----------------------------------------------------------------------------
\* A session between two calls is well typed.
LEMMA OpenType ==
    ASSUME NEW n \in Nat
    PROVE  Open(n) \in Session /\ Open(n).pc = "open"
<1>1. (CHOOSE u \in User : TRUE) \in User
  BY UserAssumption
<1> QED BY <1>1 DEF Open, Session, PC

\* Replacing the session of one transaction, the write sets of the others
\* staying as they are.
LEMMA SessionStep ==
    ASSUME SessInv, NEW t \in Tx, NEW s \in Session,
           sess' = [sess EXCEPT ![t] = s],
           \A x \in Tx \ {t} : ws'[x] = ws[x],
           DOMAIN db \subseteq DOMAIN db',
           s.pc = "apply" => s.user \in DOMAIN ws'[t] /\ s.seen = ws'[t][s.user].balance,
           s.pc = "lock" => s.user \in DOMAIN ws'[t] \cup DOMAIN db'
    PROVE  SessInv'
<1>1. /\ sess'[t] = s
      /\ \A x \in Tx \ {t} : sess'[x] = sess[x]
      /\ sess' \in [Tx -> Session]
  BY DEF SessInv
<1>2. ASSUME NEW x \in Tx, sess'[x].pc = "apply"
      PROVE  /\ sess'[x].user \in DOMAIN ws'[x]
             /\ sess'[x].seen = ws'[x][sess'[x].user].balance
  BY <1>1, <1>2 DEF SessInv, Locked
<1>3. ASSUME NEW x \in Tx, sess'[x].pc = "lock"
      PROVE  sess'[x].user \in DOMAIN ws'[x] \cup DOMAIN db'
  BY <1>1, <1>3 DEF SessInv, Found, Exists, Visible, Over
<1>4. Found'
  BY <1>3 DEF Found, Exists, Visible, Over
<1> QED BY <1>1, <1>2, <1>4 DEF SessInv, Locked

\* The books hold before the first call.
LEMMA InitInv == Init => Inv
<1> SUFFICES ASSUME Init PROVE Inv
  OBVIOUS
<1>1. DOMAIN db = {} /\ \A t \in Tx : DOMAIN ws[t] = {}
  BY DEF Init, NoRows
<1>2. StoreType
  BY <1>1 DEF Init, NoRows, StoreType, Shaped
<1>3. Exclusive /\ LedgerReconciles /\ Pending
  BY <1>1 DEF Exclusive, LedgerReconciles, Pending
<1>4. SessInv
  BY OpenType DEF Init, SessInv, Locked, Found
<1> QED BY <1>2, <1>3, <1>4 DEF Inv, StoreInv

\* Every step keeps the books.
LEMMA StepInv == Inv /\ [Next]_vars => Inv'
<1> SUFFICES ASSUME Inv, [Next]_vars PROVE Inv'
  OBVIOUS
<1>1. ASSUME UNCHANGED store
      PROVE  /\ StoreInv' /\ DOMAIN db \subseteq DOMAIN db'
             /\ \A t \in Tx : ws'[t] = ws[t]
  BY <1>1 DEF Inv, StoreInv, StoreType, Shaped, Exclusive, LedgerReconciles, Pending,
              Reconciled, store
<1>2. \A t \in Tx : /\ sess[t] \in Session
                    /\ sess[t].calls \in Nat /\ sess[t].user \in User
                    /\ sess[t].amount \in Int
  BY DEF Inv, SessInv, Session
<1>3. ASSUME NEW t \in Tx, NEW u \in User, NEW a \in Amount, Call(t, u, a)
      PROVE  Inv'
  <2> DEFINE calls == sess[t].calls + 1
             s == IF a = 0 THEN Open(calls)
                  ELSE [pc |-> "find", user |-> u, amount |-> a, seen |-> 0, calls |-> calls]
  <2>1. s \in Session /\ s.pc # "apply" /\ s.pc # "lock"
    <3>1. sess[t].calls \in Nat /\ a \in Int
      BY <1>2, AmountAssumption
    <3>2. calls \in Nat
      BY <3>1
    <3> HIDE DEF calls
    <3> QED BY <3>1, <3>2, OpenType DEF Session, PC
  <2>2. sess' = [sess EXCEPT ![t] = s] /\ UNCHANGED store
    BY <1>3 DEF Call
  <2> QED BY <1>1, <2>1, <2>2, SessionStep DEF Inv
<1>4. ASSUME NEW t \in Tx, Find(t)
      PROVE  Inv'
  <2> DEFINE s == [sess[t] EXCEPT !.pc = IF Exists(t, sess[t].user) THEN "lock" ELSE "insert"]
  <2>1. s \in Session /\ s.pc # "apply" /\ s.user = sess[t].user
    BY <1>2 DEF Session, PC
  <2>2. sess' = [sess EXCEPT ![t] = s] /\ UNCHANGED store
    BY <1>4 DEF Find, Goto
  <2>3. s.pc = "lock" => s.user \in DOMAIN ws'[t] \cup DOMAIN db'
    BY <1>2, <2>2 DEF Exists, Visible, Over, Session, store
  <2> QED BY <1>1, <2>1, <2>2, <2>3, SessionStep DEF Inv
<1>5. ASSUME NEW t \in Tx, Insert(t)
      PROVE  Inv'
  <2> DEFINE s == [sess[t] EXCEPT !.pc = "lock"]
             v == [balance |-> 0, log |-> <<>>]
  <2>1. /\ s \in Session /\ s.pc # "apply" /\ s.user = sess[t].user
        /\ sess' = [sess EXCEPT ![t] = s]
    BY <1>2, <1>5 DEF Session, PC, Insert, Goto
  <2>2. /\ StoreInv' /\ db' = db
        /\ s.user \in DOMAIN ws'[t]
        /\ \A x \in Tx \ {t} : ws'[x] = ws[x]
    <3>1. ~Exists(t, sess[t].user) /\ Write(t, Is(sess[t].user, v))
      BY <1>5 DEF Insert
    <3> QED BY <1>2, <2>1, <3>1, NewWallet, WriteBooks DEF Inv
  <2> QED BY <2>1, <2>2, SessionStep DEF Inv
<1>6. ASSUME NEW t \in Tx, Lock(t)
      PROVE  Inv'
  <2> DEFINE u == sess[t].user
             v == Row(t, u)
             s1 == [sess[t] EXCEPT !.pc = "apply"]
             s == [s1 EXCEPT !.seen = v.balance]
  <2>1. v \in Wallet /\ Reconciled(v)
    <3>1. Exists(t, u)
      BY <1>6 DEF Lock, At, Inv, SessInv, Found
    <3> QED BY <3>1 DEF Exists, Row, Visible, Over, Inv, StoreInv, StoreType, Pending,
                        LedgerReconciles
  <2>2. v.log \in Seq(Entry) /\ v.balance \in Nat
    BY <2>1 DEF Wallet
  <2>3. /\ StoreInv' /\ db' = db
        /\ u \in DOMAIN ws'[t] /\ ws'[t][u] = v
        /\ \A x \in Tx \ {t} : ws'[x] = ws[x]
    <3>1. Write(t, Is(u, v)) /\ L!Continues(v.log, v.log)
      BY <1>6, <2>2, ContinuesRefl DEF Lock, LockRow
    <3> QED BY <1>2, <2>1, <3>1, WriteBooks DEF Inv
  <2>4. sess' = [sess EXCEPT ![t] = s]
    BY <1>6 DEF Lock
  <2>5. s \in Session /\ s.pc = "apply" /\ s.user = u /\ s.seen = v.balance
    <3>1. s1 \in Session /\ s1.pc = "apply" /\ s1.user = u
      BY <1>2 DEF Session, PC
    <3> HIDE DEF v, s1
    <3> QED BY <3>1, <2>2 DEF Session
  <2> QED BY <2>3, <2>4, <2>5, SessionStep DEF Inv
<1>7. ASSUME NEW t \in Tx, Apply(t)
      PROVE  Inv'
  <2> DEFINE u == sess[t].user
             a == sess[t].amount
             w == Row(t, u)
             v == [balance |-> w.balance + a,
                   log |-> Append(w.log, [amount |-> a, after |-> w.balance + a])]
  <2>1. u \in DOMAIN ws[t] /\ sess[t].seen = ws[t][u].balance
    BY <1>7 DEF Apply, At, Inv, SessInv, Locked
  <2>2. w = ws[t][u] /\ w \in Wallet /\ Reconciled(w)
    BY <2>1 DEF Row, Visible, Over, Inv, StoreInv, StoreType, Pending
  <2>3. /\ w.balance + a >= 0
        /\ Write(t, Is(u, v))
        /\ Return(t)
    BY <1>7, <2>1, <2>2 DEF Apply
  <2>4. v \in Wallet /\ Reconciled(v) /\ L!Continues(w.log, v.log)
    BY <1>2, <2>2, <2>3, Posting
  <2>5. StoreInv' /\ db' = db /\ \A x \in Tx \ {t} : ws'[x] = ws[x]
    BY <1>2, <2>3, <2>4, WriteBooks DEF Inv
  <2>6. Open(sess[t].calls) \in Session /\ Open(sess[t].calls).pc = "open"
    BY <1>2, OpenType
  <2> QED BY <2>3, <2>5, <2>6, SessionStep DEF Inv, Return
<1>8. ASSUME NEW t \in Tx, Refuse(t)
      PROVE  Inv'
  <2>1. Open(sess[t].calls) \in Session /\ Open(sess[t].calls).pc = "open"
    BY <1>2, OpenType
  <2>2. UNCHANGED store /\ Return(t)
    BY <1>8 DEF Refuse
  <2> QED BY <1>1, <2>1, <2>2, SessionStep DEF Inv, Return
<1>9. ASSUME NEW t \in Tx, Commit(t) \/ Rollback(t), Close(t)
      PROVE  Inv'
  <2>1. /\ StoreInv' /\ \A x \in Tx \ {t} : ws'[x] = ws[x]
        /\ DOMAIN db \subseteq DOMAIN db'
    BY <1>9, EndBooks DEF Inv
  <2>2. Open(0) \in Session /\ Open(0).pc = "open"
    BY OpenType
  <2> QED BY <1>9, <2>1, <2>2, SessionStep DEF Inv, Close
<1>10. CASE UNCHANGED vars
  <2>1. UNCHANGED store /\ sess' = sess
    BY <1>10 DEF vars, store
  <2> QED BY <1>1, <2>1 DEF Inv, SessInv, Locked, Found, Exists, Visible, Over, store
<1>11. ASSUME NEW t \in Tx, Finish(t) \/ Abort(t) \/ Duplicate(t) \/ DeadlockVictim(t)
       PROVE  Inv'
  BY <1>9, <1>11 DEF Finish, Abort, Duplicate, DeadlockVictim
<1> QED BY <1>3, <1>4, <1>5, <1>6, <1>7, <1>8, <1>10, <1>11 DEF Next, Step
-----------------------------------------------------------------------------
\* The inductive invariant holds in every reachable state.
THEOREM BooksAreKept == Spec => []Inv
<1> QED BY InitInv, StepInv, PTL DEF Spec

\* Type correctness: in particular no balance, committed or not, is ever
\* negative, whatever wallet.py's callers do concurrently.
THEOREM TypeCorrect == Spec => []TypeOK
<1>1. Inv => TypeOK
  BY DEF Inv, StoreInv, StoreType, SessInv, TypeOK
<1> QED BY <1>1, BooksAreKept, PTL

\* credit, debit and adjust lose no amount: every committed wallet is the sum
\* of its ledger, for any number of concurrent transactions.
THEOREM WalletsReconcile == Spec => []LedgerReconciles
<1>1. Inv => LedgerReconciles
  BY DEF Inv, StoreInv
<1> QED BY <1>1, BooksAreKept, PTL

\* The wallet service implements the atomic ledger of module Ledger: every
\* step is a continuation of statements or leaves them unchanged.
THEOREM LedgerIsImplemented == Spec => ImplementsLedger
<1> DEFINE b == [u \in User |-> IF u \in DOMAIN db THEN db[u].balance ELSE 0]
           l == [u \in User |-> IF u \in DOMAIN db THEN db[u].log ELSE <<>>]
<1>1. Init => L!Init
  BY DEF Init, L!Init, NoRows
<1>2. ASSUME Inv, Inv', [Next]_vars
      PROVE  [L!Post]_(L!ledger)
  <2>1. ASSUME db' = db
        PROVE  UNCHANGED L!ledger
    BY <2>1 DEF L!ledger
  <2>2. ASSUME NEW t \in Tx, Commit(t)
        PROVE  L!Post
    <3> SUFFICES ASSUME NEW u \in User
                 PROVE  /\ l'[u] \in Seq(Entry)
                        /\ L!Continues(l[u], l'[u])
                        /\ L!Adds(l'[u])
                        /\ b'[u] = L!Closing(l'[u])
      BY DEF L!Post, Entry, L!Entry
    <3>1. CASE u \in DOMAIN db'
      <4>1. db'[u] \in Wallet /\ Reconciled(db'[u])
        BY <1>2, <3>1 DEF Inv, StoreInv, StoreType, LedgerReconciles, Reconciled
      <4>2. L!Continues(l[u], db'[u].log)
        <5>1. CASE u \in DOMAIN ws[t]
          <6>1. db'[u] = ws[t][u]
            BY <2>2, <5>1 DEF Commit, Visible, Over
          <6>2. CASE u \in DOMAIN db
            BY <1>2, <5>1, <6>1, <6>2 DEF Inv, StoreInv, Pending
          <6>3. CASE u \notin DOMAIN db
            BY <4>1, <6>3 DEF L!Continues, Wallet
          <6> QED BY <6>2, <6>3
        <5>2. CASE u \notin DOMAIN ws[t]
          <6>1. u \in DOMAIN db /\ db'[u] = db[u]
            BY <2>2, <3>1, <5>2 DEF Commit, Visible, Over
          <6> QED BY <4>1, <6>1, ContinuesRefl DEF Wallet
        <5> QED BY <5>1, <5>2
      <4> QED BY <3>1, <4>1, <4>2 DEF Wallet, Reconciled
    <3>2. CASE u \notin DOMAIN db'
      <4>1. u \notin DOMAIN db
        BY <2>2, <3>2 DEF Commit, Visible, Over
      <4> QED BY <3>2, <4>1 DEF L!Continues, L!Adds, L!Closing
    <3> QED BY <3>1, <3>2
  <2>3. db' = db \/ \E t \in Tx : Commit(t)
    BY <1>2 DEF Next, Step, Call, Find, Insert, Lock, LockRow, Apply, Refuse, Finish, Abort,
                Duplicate, DeadlockVictim, Write, Rollback, store, vars
  <2> QED BY <2>1, <2>2, <2>3
<1> QED BY <1>1, <1>2, BooksAreKept, PTL DEF Spec, ImplementsLedger, L!Spec
=============================================================================
