-------------------------- MODULE BackOfficeProofs --------------------------
(***************************************************************************)
(* Proofs about Access and BackOffice, for every set of admins, tokens,    *)
(* users, tickets, broadcasts and transactions, and every deployment.      *)
(*                                                                         *)
(* The inductive invariant says what the committed rows d satisfy          *)
(* (StoreOk), what the rows x of a transaction make of them (TxOk, for     *)
(* Over(x, d), which it sees and which its commit leaves), and what a      *)
(* handler s relies on at each of its statements (Aware).                  *)
(***************************************************************************)
EXTENDS BackOffice, RowStoreProofs, FiniteSetTheorems

Typed(f) == \A r \in DOMAIN f : f[r] \in RowType[r[1]]

\* Token n of v fits the others: it is linked to a token it was exchanged for, and
\* revoked, or not linked; and the one it was exchanged for is linked, unless n is new.
TokenOk(v, par, new, n) ==
    /\ v[RT(n)].replaced # Null => /\ v[RT(n)].revoked
                                   /\ RT(v[RT(n)].replaced) \in DOMAIN v
                                   /\ par[v[RT(n)].replaced] = n
    /\ par[n] # Null /\ n # new => /\ RT(par[n]) \in DOMAIN v
                                   /\ v[RT(par[n])].replaced # Null

TokensOk(v, par, new) == \A n \in Token : RT(n) \in DOMAIN v => TokenOk(v, par, new, n)

\* No transaction takes back a link it found.
KeepsLinks(d, x) ==
    \A n \in Token : RT(n) \in DOMAIN x \cap DOMAIN d /\ d[RT(n)].replaced # Null =>
        x[RT(n)].replaced # Null

StoreOk(d, par) ==
    /\ d = [r \in DOMAIN d |-> d[r]]
    /\ Typed(d)
    /\ \A u \in User : U(u) \in DOMAIN d => W(u) \in DOMAIN d
    /\ \A b \in Broadcast : B(b) \in DOMAIN d => d[B(b)].status # "sending"
    /\ TokensOk(d, par, Null)

\* No handler changes an admin it found.
TxOk(d, x, par, new) ==
    /\ Typed(x)
    /\ \A a \in Admin : A(a) \in DOMAIN x \cap DOMAIN d => x[A(a)] = d[A(a)]
    /\ \A u \in User : U(u) \in DOMAIN x => W(u) \in DOMAIN x \cup DOMAIN d
    /\ TokensOk(Over(x, d), par, new)
    /\ KeepsLinks(d, x)

\* The token that session s has inserted and not linked yet.
New(s) == IF s.pc = "rotate" THEN s.n ELSE Null

StoreInv ==
    /\ DOMAIN ws = Tx /\ Shaped /\ Exclusive
    /\ StoreOk(db, parent)
    /\ \A t \in Tx : TxOk(db, ws[t], parent, New(sess[t]))
-----------------------------------------------------------------------------
Ops == {"none", "start", "ticket", "dispatch"} \cup AuthOp \cup {"api", "bot", "answer"}

PCs == {"idle", "issue", "rotate", "revoke", "insert admin", "insert user", "refer",
        "ensure referral", "create ticket", "post", "set status", "publish", "enqueue",
        "audience", "send", "commit"} \cup Act

Session ==
    [op : Ops, pc : PCs, who : Admin \cup User \cup {Null},
     arg : Admin \cup Token \cup User \cup Ticket \cup Broadcast \cup {Null},
     n : Token \cup Nat \cup {Null},
     seen : User \cup {"open", "pending", "answered", "closed"} \cup {Null},
     late : BOOLEAN, todo : SUBSET User]

\* The operations of an admin past the check.
Staff == {"api", "bot", "answer"}

\* Which statements an operation runs.
Runs(op, pc) ==
    \/ op = "none" /\ pc = "idle"
    \/ op = "login" /\ pc \in {"issue", "commit"}
    \/ op = "refresh" /\ pc \in {"issue", "rotate", "commit"}
    \/ op = "logout" /\ pc \in {"revoke", "commit"}
    \/ op = "create admin" /\ pc \in {"insert admin", "commit"}
    \/ op \in Staff /\ pc \in Act \cup {"post", "set status", "publish", "enqueue", "commit"}
    \/ op = "start" /\ pc \in {"insert user", "refer", "ensure referral", "commit"}
    \/ op = "ticket" /\ pc \in {"create ticket", "reply", "post", "commit"}
    \/ op = "dispatch" /\ pc \in {"audience", "send", "commit"}

\* The statements before which nothing is written.
Unwritten == {"idle", "issue", "revoke", "insert admin", "insert user", "create ticket",
              "post", "set status", "enqueue"} \cup Act

\* The admin of session s has passed the check, by the rows d.
Entered(s, d) ==
    /\ s.who \in Admin /\ A(s.who) \in DOMAIN d
    /\ s.late \/ d[A(s.who)].active

\* What session s with the rows x knows: of admins and tokens,
AwareOfAccess(s, x, d, par) ==
    /\ s.pc = "issue" => /\ Entered(s, d)
                         /\ s.op = "login" => s.arg = Null
                         /\ s.op = "refresh" => s.arg \in Token /\ RT(s.arg) \in DOMAIN d
    /\ s.pc = "rotate" => /\ s.who \in Admin
                          /\ s.n \in Token /\ RT(s.n) \in DOMAIN x /\ par[s.n] = s.arg
                          /\ s.arg \in Token /\ RT(s.arg) \in DOMAIN d
    /\ s.pc = "revoke" => s.arg \in Token /\ RT(s.arg) \in DOMAIN d
    /\ s.op \in {"login", "refresh"} /\ s.pc = "commit" =>
          s.who \in Admin /\ s.n \in Token /\ RT(s.n) \in DOMAIN x
    /\ s.pc = "insert admin" => s.arg \in Admin
    /\ s.op \in Staff /\ s.pc \in Act =>
          /\ Entered(s, d)
          /\ \/ s.op = "answer" \/ s.late
             \/ Permission[s.pc] \in RolePermissions[d[A(s.who)].role]
    /\ s.pc = "ban" => s.arg \in User

\* of users and tickets,
AwareOfUsers(s, x, d) ==
    /\ s.op = "start" => /\ s.who \in User /\ s.arg \in User \cup {Null}
                         /\ s.pc # "insert user" => U(s.who) \in DOMAIN x \cup DOMAIN d
                         /\ s.pc = "ensure referral" => s.arg \in User
    /\ s.pc = "create ticket" => s.who \in User
    /\ s.pc \in {"post", "set status"} => T(s.arg) \in DOMAIN d

\* and of broadcasts.
AwareOfBroadcasts(s, x, d) ==
    /\ \A b \in Broadcast : B(b) \in DOMAIN x =>
          s.arg = b /\ (s.op = "dispatch" \/ s.pc = "publish")
    /\ s.pc = "publish" => /\ s.arg \in Broadcast /\ B(s.arg) \notin DOMAIN d
                           /\ B(s.arg) \in DOMAIN x /\ x[B(s.arg)] = NewBroadcast
    /\ s.pc = "enqueue" => s.arg \in Broadcast /\ B(s.arg) \in DOMAIN d
    /\ s.op = "dispatch" => /\ s.arg \in Broadcast /\ B(s.arg) \in DOMAIN x
                            /\ s.pc = "commit" => x[B(s.arg)].status = "done"
                            /\ s.pc = "send" => /\ s.n \in Nat /\ s.todo \subseteq User
                                                /\ s.n <= Cardinality(User \ s.todo)

Aware(s, x, d, par) ==
    /\ Runs(s.op, s.pc)
    /\ s.op = "none" => s = Idle
    /\ s.pc \in Unwritten => x = NoRows
    /\ AwareOfAccess(s, x, d, par)
    /\ AwareOfUsers(s, x, d)
    /\ AwareOfBroadcasts(s, x, d)

World ==
    /\ setup \in Setup
    /\ dialogue \in [Admin -> {NoDialogue} \cup [act : {"reply", "broadcast"}, arg : Ticket \cup {Null}]]
    /\ crashes \in Nat
    /\ inbox \in [Broadcast -> [User -> Nat]]
    /\ held \in [Admin -> SUBSET Token]
    /\ queue \subseteq Broadcast

\* What clients hold and workers are given is committed.
Given ==
    /\ \A a \in Admin : \A n \in held[a] : RT(n) \in DOMAIN db
    /\ \A b \in queue : B(b) \in DOMAIN db

Inv ==
    /\ World /\ Given
    /\ sess \in [Tx -> Session] /\ parent \in [Token -> Token \cup {Null}]
    /\ StoreInv
    /\ \A t \in Tx : Aware(sess[t], ws[t], db, parent)
-----------------------------------------------------------------------------
\* The keys of different tables differ, and so do those of one table.
LEMMA Keys ==
    /\ \A a : A(a)[1] = "admin"
    /\ \A n : RT(n)[1] = "token"
    /\ \A u : U(u)[1] = "user" /\ W(u)[1] = "wallet" /\ R(u)[1] = "referral"
    /\ \A k : T(k)[1] = "ticket"
    /\ \A b : B(b)[1] = "broadcast"
    /\ \A a, b : /\ A(a) = A(b) => a = b
                 /\ RT(a) = RT(b) => a = b
                 /\ U(a) = U(b) => a = b
                 /\ W(a) = W(b) => a = b
                 /\ R(a) = R(b) => a = b
                 /\ T(a) = T(b) => a = b
                 /\ B(a) = B(b) => a = b
    BY DEF A, RT, U, W, R, T, B

\* The tables and their rows.
LEMMA RowTypes ==
    /\ RowType["admin"] = [role : Role, active : BOOLEAN, password : BOOLEAN, telegram : BOOLEAN]
    /\ RowType["token"] = [admin : Admin, revoked : BOOLEAN, replaced : Token \cup {Null}]
    /\ RowType["user"] = [banned : BOOLEAN, referrer : User \cup {Null}]
    /\ RowType["wallet"] = {0} /\ RowType["referral"] = User
    /\ RowType["ticket"] = [user : User, status : {"open", "pending", "answered", "closed"},
                            last : {"user", "admin"}]
    /\ RowType["broadcast"] = [status : {"queued", "sending", "done"}, sent : 0..Cardinality(User)]
    BY DEF RowType, TicketStatus

\* Typed rows can be written over typed rows.
LEMMA OverTyped ==
    ASSUME NEW f, NEW g, Typed(f), Typed(g)
    PROVE  Typed(Over(f, g))
    BY DEF Typed, Over

\* One row of its table's type.
LEMMA OneRow ==
    ASSUME NEW r, NEW row
    PROVE  /\ DOMAIN Is(r, row) = {r} /\ Is(r, row)[r] = row
           /\ row \in RowType[r[1]] => Typed(Is(r, row))
    BY DEF Is, Typed

\* No rows.
LEMMA Nothing ==
    /\ DOMAIN NoRows = {} /\ Typed(NoRows)
    /\ \A g : g = [r \in DOMAIN g |-> g[r]] => Over(NoRows, g) = g
    /\ \A f : f = [r \in DOMAIN f |-> f[r]] => Over(f, NoRows) = f
    BY DEF NoRows, Typed, Over

\* A row as a transaction sees it.
LEMMA Seen ==
    ASSUME NEW t \in Tx, NEW r, Typed(db), Typed(ws[t]), Exists(t, r)
    PROVE  /\ Row(t, r) \in RowType[r[1]]
           /\ r \in DOMAIN Over(ws[t], db) /\ Over(ws[t], db)[r] = Row(t, r)
           /\ ws[t] = NoRows => r \in DOMAIN db /\ Row(t, r) = db[r]
    BY DEF Exists, Row, Typed, Over, NoRows

\* The link of a token is a token.
LEMMA Links ==
    ASSUME NEW f, Typed(f), NEW n \in Token, RT(n) \in DOMAIN f
    PROVE  f[RT(n)].replaced \in Token \cup {Null} /\ f[RT(n)].revoked \in BOOLEAN
<1>1. f[RT(n)] \in RowType["token"]
  BY Keys DEF Typed
<1> QED BY <1>1, RowTypes

\* The tokens of v are all that TokensOk is about.
LEMMA TokensFrame ==
    ASSUME NEW v, NEW w, NEW par, NEW new, Typed(v), TokensOk(v, par, new),
           par \in [Token -> Token \cup {Null}],
           \A n \in Token : /\ RT(n) \in DOMAIN w <=> RT(n) \in DOMAIN v
                            /\ RT(n) \in DOMAIN v => w[RT(n)] = v[RT(n)]
    PROVE  TokensOk(w, par, new)
<1> SUFFICES ASSUME NEW n \in Token, RT(n) \in DOMAIN w
             PROVE  TokenOk(w, par, new, n)
  BY DEF TokensOk
<1>1. RT(n) \in DOMAIN v /\ w[RT(n)] = v[RT(n)] /\ TokenOk(v, par, new, n)
  BY DEF TokensOk
<1>2. v[RT(n)].replaced \in Token \cup {Null} /\ par[n] \in Token \cup {Null}
  BY <1>1, Links
<1> QED BY <1>1, <1>2 DEF TokenOk

\* A statement that writes no token, and no admin but new ones or as they are.
LEMMA PlainWrite ==
    ASSUME NEW d, NEW x, NEW f, NEW par, NEW new, Typed(d), TxOk(d, x, par, new), Typed(f),
           par \in [Token -> Token \cup {Null}],
           \A n \in Token : RT(n) \notin DOMAIN f,
           \A a \in Admin : A(a) \in DOMAIN f \cap DOMAIN d => f[A(a)] = d[A(a)],
           \A u \in User : U(u) \in DOMAIN f => W(u) \in DOMAIN f \cup DOMAIN x \cup DOMAIN d
    PROVE  TxOk(d, Over(f, x), par, new)
<1> DEFINE y == Over(f, x)
           v == Over(x, d)
           w == Over(y, d)
<1>1. Typed(y) /\ Typed(v)
  BY OverTyped DEF TxOk
<1>2. /\ DOMAIN y = DOMAIN f \cup DOMAIN x
      /\ \A r \in DOMAIN f : y[r] = f[r]
      /\ \A r \in DOMAIN x \ DOMAIN f : y[r] = x[r]
  BY DEF Over
<1>3. \A n \in Token : /\ RT(n) \in DOMAIN w <=> RT(n) \in DOMAIN v
                       /\ RT(n) \in DOMAIN v => w[RT(n)] = v[RT(n)]
  BY DEF Over
<1> HIDE DEF y, v, w
<1>4. TokensOk(w, par, new)
  BY <1>1, <1>3, TokensFrame DEF TxOk, v
<1>5. \A a \in Admin : A(a) \in DOMAIN y \cap DOMAIN d => y[A(a)] = d[A(a)]
  BY <1>2 DEF TxOk
<1>6. \A u \in User : U(u) \in DOMAIN y => W(u) \in DOMAIN y \cup DOMAIN d
  BY <1>2 DEF TxOk
<1>7. KeepsLinks(d, y)
  BY <1>2 DEF TxOk, KeepsLinks
<1> QED BY <1>1, <1>4, <1>5, <1>6, <1>7 DEF TxOk, y, w

\* A transaction with nothing written.
LEMMA Untouched ==
    ASSUME NEW d, NEW par, StoreOk(d, par)
    PROVE  TxOk(d, NoRows, par, Null)
<1>1. Over(NoRows, d) = d /\ DOMAIN NoRows = {} /\ Typed(NoRows)
  BY Nothing DEF StoreOk
<1> QED BY <1>1 DEF StoreOk, TxOk, KeepsLinks

\* What a transaction leaves when it commits: it has linked what it has inserted,
\* and has no broadcast half sent.
LEMMA Committed ==
    ASSUME NEW d, NEW x, NEW par, StoreOk(d, par), TxOk(d, x, par, Null),
           \A b \in Broadcast : B(b) \in DOMAIN x => x[B(b)].status # "sending"
    PROVE  StoreOk(Over(x, d), par)
<1>1. Typed(Over(x, d))
  BY OverTyped DEF StoreOk, TxOk
<1>2. /\ DOMAIN Over(x, d) = DOMAIN x \cup DOMAIN d
      /\ Over(x, d) = [r \in DOMAIN Over(x, d) |-> Over(x, d)[r]]
      /\ \A r \in DOMAIN x : Over(x, d)[r] = x[r]
      /\ \A r \in DOMAIN d \ DOMAIN x : Over(x, d)[r] = d[r]
  BY DEF Over
<1>3. \A u \in User : U(u) \in DOMAIN Over(x, d) => W(u) \in DOMAIN Over(x, d)
  BY <1>2 DEF StoreOk, TxOk
<1>4. \A b \in Broadcast : B(b) \in DOMAIN Over(x, d) => Over(x, d)[B(b)].status # "sending"
  BY <1>2 DEF StoreOk
<1> QED BY <1>1, <1>2, <1>3, <1>4 DEF StoreOk, TxOk

\* The rows x of one transaction after the commit of the rows y of another: a link
\* that either has made, or found, stays.
LEMMA MergeTokens ==
    ASSUME NEW d, NEW x, NEW y, NEW par, NEW new,
           Typed(d), Typed(x), Typed(y), DOMAIN x \cap DOMAIN y = {},
           par \in [Token -> Token \cup {Null}],
           TokensOk(Over(x, d), par, new), KeepsLinks(d, x),
           TokensOk(Over(y, d), par, Null), KeepsLinks(d, y)
    PROVE  TokensOk(Over(x, Over(y, d)), par, new) /\ KeepsLinks(Over(y, d), x)
<1> DEFINE v == Over(x, d)
           e == Over(y, d)
           m == Over(x, e)
<1>1. /\ DOMAIN v = DOMAIN x \cup DOMAIN d
      /\ DOMAIN e = DOMAIN y \cup DOMAIN d
      /\ DOMAIN m = DOMAIN x \cup DOMAIN y \cup DOMAIN d
  BY DEF Over
<1>2. /\ \A r \in DOMAIN x : v[r] = x[r] /\ m[r] = x[r]
      /\ \A r \in DOMAIN d \ DOMAIN x : v[r] = d[r]
      /\ \A r \in DOMAIN y : e[r] = y[r]
      /\ \A r \in DOMAIN d \ DOMAIN y : e[r] = d[r]
      /\ \A r \in DOMAIN e \ DOMAIN x : m[r] = e[r]
  BY DEF Over
<1>3. Typed(v) /\ Typed(e)
  BY OverTyped
<1> HIDE DEF v, e, m
<1>4. KeepsLinks(e, x)
  BY <1>1, <1>2 DEF KeepsLinks
\* A token linked in either view is linked in both together.
<1>5. ASSUME NEW p \in Token, \/ RT(p) \in DOMAIN v /\ v[RT(p)].replaced # Null
                              \/ RT(p) \in DOMAIN e /\ e[RT(p)].replaced # Null
      PROVE  RT(p) \in DOMAIN m /\ m[RT(p)].replaced # Null
  <2>1. CASE RT(p) \in DOMAIN x
    BY <1>1, <1>2, <1>4, <1>5, <2>1 DEF KeepsLinks
  <2>2. CASE RT(p) \in DOMAIN y
    BY <1>1, <1>2, <1>5, <2>2 DEF KeepsLinks
  <2>3. CASE RT(p) \notin DOMAIN x \cup DOMAIN y
    BY <1>1, <1>2, <1>5, <2>3
  <2> QED BY <2>1, <2>2, <2>3
<1>6. ASSUME NEW n \in Token, RT(n) \in DOMAIN m
      PROVE  TokenOk(m, par, new, n)
  <2>1. par[n] \in Token \cup {Null}
    OBVIOUS
  <2>2. CASE RT(n) \in DOMAIN x
    <3>1. TokenOk(v, par, new, n) /\ m[RT(n)] = v[RT(n)]
      BY <1>1, <1>2, <2>2 DEF TokensOk, v
    <3>2. DOMAIN v \subseteq DOMAIN m
      BY <1>1
    <3> QED BY <1>5, <2>1, <3>1, <3>2 DEF TokenOk
  <2>3. CASE RT(n) \notin DOMAIN x
    <3>1. TokenOk(e, par, Null, n) /\ m[RT(n)] = e[RT(n)]
      BY <1>1, <1>2, <1>6, <2>3 DEF TokensOk, e
    <3>2. DOMAIN e \subseteq DOMAIN m
      BY <1>1
    <3>3. par[n] # Null => n # Null
      BY AccessAssumption
    <3> QED BY <1>5, <2>1, <3>1, <3>2, <3>3 DEF TokenOk
  <2> QED BY <2>2, <2>3
<1> QED BY <1>4, <1>6 DEF TokensOk, m, e

\* All of it.
LEMMA Merge ==
    ASSUME NEW d, NEW x, NEW y, NEW par, NEW new,
           StoreOk(d, par), par \in [Token -> Token \cup {Null}], DOMAIN x \cap DOMAIN y = {},
           TxOk(d, x, par, new), TxOk(d, y, par, Null)
    PROVE  TxOk(Over(y, d), x, par, new)
<1> DEFINE e == Over(y, d)
<1>1. /\ DOMAIN e = DOMAIN y \cup DOMAIN d
      /\ \A r \in DOMAIN d \ DOMAIN y : e[r] = d[r]
  BY DEF Over
<1>2. TokensOk(Over(x, e), par, new) /\ KeepsLinks(e, x)
  BY MergeTokens DEF StoreOk, TxOk
<1> HIDE DEF e
<1>3. \A a \in Admin : A(a) \in DOMAIN x \cap DOMAIN e => x[A(a)] = e[A(a)]
  BY <1>1 DEF TxOk
<1>4. \A u \in User : U(u) \in DOMAIN x => W(u) \in DOMAIN x \cup DOMAIN e
  BY <1>1 DEF TxOk
<1>5. TxOk(e, x, par, new)
  BY <1>2, <1>3, <1>4 DEF TxOk
<1> QED BY <1>5 DEF e
-----------------------------------------------------------------------------
\* What the commits of others do to the committed rows d, for a transaction with the
\* rows x: they keep what is there, and the admins, and do not touch x.
Onward(d, e, x) ==
    /\ DOMAIN d \subseteq DOMAIN e
    /\ \A a \in Admin : A(a) \in DOMAIN d => e[A(a)] = d[A(a)]
    /\ \A r \in DOMAIN x : r \in DOMAIN e => r \in DOMAIN d

\* What a handler knows survives the commits of others.
LEMMA OthersKnow ==
    ASSUME NEW s, NEW x, NEW d, NEW e, NEW par, Aware(s, x, d, par), Onward(d, e, x)
    PROVE  Aware(s, x, e, par)
<1>1. AwareOfAccess(s, x, e, par)
  BY DEF Aware, AwareOfAccess, Entered, Onward
<1>2. AwareOfUsers(s, x, e)
  BY DEF Aware, AwareOfUsers, Onward
<1>3. AwareOfBroadcasts(s, x, e)
  BY DEF Aware, AwareOfBroadcasts, Onward
<1> QED BY <1>1, <1>2, <1>3 DEF Aware

\* A statement of t that writes.
LEMMA WriteDone ==
    ASSUME Inv, NEW t \in Tx, NEW z \in Session, sess' = [sess EXCEPT ![t] = z], NEW f,
           Write(t, f), TxOk(db, Over(f, ws[t]), parent, New(z)),
           Aware(z, Over(f, ws[t]), db, parent), UNCHANGED <<parent, held, queue>>, World'
    PROVE  Inv'
<1>1. /\ db' = db
      /\ ws'[t] = Over(f, ws[t])
      /\ \A u \in Tx \ {t} : ws'[u] = ws[u]
      /\ DOMAIN ws' = Tx
  BY WriteEffect DEF Inv, StoreInv
<1>2. /\ sess' \in [Tx -> Session] /\ sess'[t] = z
      /\ \A u \in Tx \ {t} : sess'[u] = sess[u]
  BY DEF Inv
<1>3. Exclusive'
  BY WriteExclusive DEF Inv, StoreInv
<1>4. Shaped'
  BY DEF Write, Shaped, Inv, StoreInv
<1>5. ASSUME NEW u \in Tx
      PROVE  TxOk(db', ws'[u], parent', New(sess'[u])) /\ Aware(sess'[u], ws'[u], db', parent')
  <2>1. CASE u = t
    BY <1>1, <1>2, <2>1
  <2>2. CASE u # t
    BY <1>1, <1>2, <2>2 DEF Inv, StoreInv
  <2> QED BY <2>1, <2>2
<1>6. Given'
  BY <1>1 DEF Inv, Given
<1>7. StoreOk(db', parent')
  BY <1>1 DEF Inv, StoreInv
<1> QED BY <1>1, <1>2, <1>3, <1>4, <1>5, <1>6, <1>7 DEF Inv, StoreInv

\* One that writes nothing.
LEMMA QuietDone ==
    ASSUME Inv, NEW t \in Tx, NEW z \in Session, sess' = [sess EXCEPT ![t] = z],
           UNCHANGED store, sess[t].pc # "rotate", z.pc # "rotate",
           Aware(z, ws[t], db, parent), UNCHANGED parent, World', Given'
    PROVE  Inv'
<1>1. db' = db /\ ws' = ws
  BY DEF store
<1>2. /\ sess' \in [Tx -> Session] /\ sess'[t] = z
      /\ \A u \in Tx \ {t} : sess'[u] = sess[u]
  BY DEF Inv
<1>3. ASSUME NEW u \in Tx
      PROVE  TxOk(db', ws'[u], parent', New(sess'[u])) /\ Aware(sess'[u], ws'[u], db', parent')
  <2>1. CASE u = t
    BY <1>1, <1>2, <2>1 DEF Inv, StoreInv, New
  <2>2. CASE u # t
    BY <1>1, <1>2, <2>2 DEF Inv, StoreInv
  <2> QED BY <2>1, <2>2
<1>4. StoreInv'
  BY <1>1, <1>3 DEF Inv, StoreInv, Shaped, Exclusive
<1> QED BY <1>2, <1>3, <1>4 DEF Inv

\* One that changes neither rows nor sessions.
LEMMA Outside ==
    ASSUME Inv, UNCHANGED <<db, ws, sess, parent>>, World', Given'
    PROVE  Inv'
<1>1. StoreInv'
  BY DEF Inv, StoreInv, Shaped, Exclusive
<1> QED BY <1>1 DEF Inv

\* The rows of a transaction that may commit.
Whole(s, x) ==
    /\ s.pc # "rotate"
    /\ \A b \in Broadcast : B(b) \in DOMAIN x => x[B(b)].status # "sending"

\* The end of a transaction.
LEMMA EndDone ==
    ASSUME Inv, NEW t \in Tx, NEW z \in Session, sess' = [sess EXCEPT ![t] = z],
           \/ Rollback(t)
           \/ Commit(t) /\ Whole(sess[t], ws[t]),
           z.pc # "rotate", Aware(z, NoRows, db', parent), UNCHANGED parent, World', Given'
    PROVE  Inv'
<1>1. /\ ws'[t] = NoRows
      /\ \A u \in Tx \ {t} : ws'[u] = ws[u]
      /\ DOMAIN ws' = Tx
  BY EndEffect DEF Inv, StoreInv
<1>2. /\ sess' \in [Tx -> Session] /\ sess'[t] = z
      /\ \A u \in Tx \ {t} : sess'[u] = sess[u]
  BY DEF Inv
<1>3. Exclusive'
  BY EndExclusive DEF Inv, StoreInv
<1>4. Shaped'
  BY DEF Commit, Rollback, Shaped, Inv, StoreInv
<1>5. db' = db \/ (db' = Over(ws[t], db) /\ Whole(sess[t], ws[t]))
  BY DEF Commit, Rollback, Visible
<1>6. /\ StoreOk(db, parent) /\ TxOk(db, ws[t], parent, New(sess[t]))
      /\ parent \in [Token -> Token \cup {Null}]
      /\ Whole(sess[t], ws[t]) => New(sess[t]) = Null
  BY DEF Inv, StoreInv, Whole, New
<1>7. StoreOk(db', parent)
  BY <1>5, <1>6, Committed DEF Whole
<1>8. ASSUME NEW u \in Tx
      PROVE  TxOk(db', ws'[u], parent, New(sess'[u])) /\ Aware(sess'[u], ws'[u], db', parent)
  <2>1. CASE u = t
    BY <1>1, <1>2, <1>7, <2>1, Untouched DEF New
  <2>2. CASE u # t /\ db' = db
    BY <1>1, <1>2, <2>2 DEF Inv, StoreInv
  <2>3. CASE u # t /\ db' = Over(ws[t], db) /\ Whole(sess[t], ws[t])
    <3>1. /\ TxOk(db, ws[u], parent, New(sess[u])) /\ DOMAIN ws[u] \cap DOMAIN ws[t] = {}
          /\ Aware(sess[u], ws[u], db, parent)
      BY <2>3 DEF Inv, StoreInv, Exclusive
    <3>2. TxOk(db', ws[u], parent, New(sess[u]))
      BY <1>6, <2>3, <3>1, Merge
    <3>3. Onward(db, db', ws[u])
      <4>1. /\ DOMAIN db' = DOMAIN ws[t] \cup DOMAIN db
            /\ \A r \in DOMAIN ws[t] : db'[r] = ws[t][r]
            /\ \A r \in DOMAIN db \ DOMAIN ws[t] : db'[r] = db[r]
        BY <2>3 DEF Over
      <4>2. \A a \in Admin : A(a) \in DOMAIN ws[t] \cap DOMAIN db => ws[t][A(a)] = db[A(a)]
        BY <1>6 DEF TxOk
      <4> QED BY <3>1, <4>1, <4>2 DEF Onward
    <3> QED BY <1>1, <1>2, <2>3, <3>1, <3>2, <3>3, OthersKnow
  <2> QED BY <1>5, <2>1, <2>2, <2>3
<1> QED BY <1>1, <1>2, <1>3, <1>4, <1>7, <1>8 DEF Inv, StoreInv

\* What is committed stays.
LEMMA EndGrows ==
    ASSUME NEW t \in Tx, Commit(t) \/ Rollback(t)
    PROVE  /\ DOMAIN db \subseteq DOMAIN db'
           /\ Commit(t) => DOMAIN db' = DOMAIN ws[t] \cup DOMAIN db
    BY DEF Commit, Rollback, Visible, Over

\* What session t is and knows.
LEMMA Here ==
    ASSUME Inv, NEW t \in Tx
    PROVE  /\ sess[t] \in Session /\ Aware(sess[t], ws[t], db, parent)
           /\ TxOk(db, ws[t], parent, New(sess[t])) /\ StoreOk(db, parent)
           /\ Typed(db) /\ Typed(ws[t])
           /\ parent \in [Token -> Token \cup {Null}]
    BY DEF Inv, StoreInv, StoreOk, TxOk

\* The idle session.
LEMMA AtRest ==
    /\ Idle \in Session /\ Idle.pc = "idle" /\ Idle.op = "none"
    /\ \A d, par : Aware(Idle, NoRows, d, par)
<1>1. Idle \in Session
  BY DEF Idle, Session, Ops, PCs, Act
<1>2. Idle.pc = "idle" /\ Idle.op = "none"
  BY DEF Idle
<1> QED BY <1>1, <1>2, Nothing
    DEF Aware, AwareOfAccess, AwareOfUsers, AwareOfBroadcasts, Runs, Unwritten, Staff, Act

\* A transaction that ends with its session, and gives nothing away.
LEMMA CloseStep ==
    ASSUME Inv, NEW t \in Tx, Close(t), UNCHANGED <<parent, held, queue>>, World',
           \/ Rollback(t)
           \/ Commit(t) /\ Whole(sess[t], ws[t])
    PROVE  Inv'
<1>1. sess' = [sess EXCEPT ![t] = Idle]
  BY DEF Close
<1>2. Given'
  BY EndGrows DEF Inv, Given
<1> QED BY <1>1, <1>2, AtRest, EndDone

\* A session that has only gone on to another statement.
LEMMA Gone ==
    ASSUME NEW s \in Session, NEW pc \in PCs
    PROVE  LET z == [s EXCEPT !.pc = pc]
           IN /\ z \in Session /\ z.pc = pc /\ z.op = s.op /\ z.who = s.who /\ z.arg = s.arg
              /\ z.n = s.n /\ z.seen = s.seen /\ z.late = s.late /\ z.todo = s.todo
    BY DEF Session

\* A session that has begun.
Begun(op, who, arg, pc) == [Idle EXCEPT !.op = op, !.who = who, !.arg = arg, !.pc = pc]

\* It is a session.
LEMMA Entering ==
    ASSUME NEW op \in Ops, NEW who \in Admin \cup User \cup {Null}, NEW pc \in PCs,
           NEW arg \in Admin \cup Token \cup User \cup Ticket \cup Broadcast \cup {Null}
    PROVE  LET z == Begun(op, who, arg, pc)
           IN /\ z \in Session /\ z.pc = pc /\ z.op = op /\ z.who = who /\ z.arg = arg
              /\ z.n = Null /\ z.seen = Null /\ ~z.late /\ z.todo = {}
    BY DEF Begun, Session, Idle

\* The rest of the state after a step that leaves it alone.
LEMMA SameWorld ==
    ASSUME Inv, UNCHANGED <<setup, dialogue, crashes, inbox, held, queue>>
    PROVE  World'
    BY DEF Inv, World
-----------------------------------------------------------------------------
\* The first statement of a handler, which reads.
LEMMA BeginStep ==
    ASSUME Inv, NEW t \in Tx, NEW z \in Session, sess' = [sess EXCEPT ![t] = z],
           At(t, "idle"), UNCHANGED store, UNCHANGED <<parent, held, queue>>, World',
           z.pc \in Unwritten \cup {"refer"}, z.pc # "enqueue", z.op \notin {"none", "dispatch"},
           Runs(z.op, z.pc), AwareOfAccess(z, NoRows, db, parent), AwareOfUsers(z, NoRows, db)
    PROVE  Inv'
<1>1. sess[t].pc = "idle" /\ ws[t] = NoRows
  BY Here DEF At, Aware, Unwritten
<1>2. z.pc # "rotate" /\ z.pc # "publish"
  BY DEF Unwritten, Act
<1>3. AwareOfBroadcasts(z, NoRows, db)
  BY <1>2, Nothing DEF AwareOfBroadcasts
<1>4. Aware(z, ws[t], db, parent)
  BY <1>1, <1>3 DEF Aware
<1>5. Given'
  BY DEF Inv, Given, store
<1> QED BY <1>1, <1>2, <1>4, <1>5, QuietDone

\* A statement that writes, in a handler of neither tokens nor broadcasts.
LEMMA WriteOn ==
    ASSUME Inv, NEW t \in Tx, NEW pc \in {"commit", "refer", "ensure referral"}, NEW f,
           Write(t, f), Goto(t, pc), UNCHANGED rest,
           TxOk(db, Over(f, ws[t]), parent, Null),
           \A b \in Broadcast : B(b) \notin DOMAIN f,
           sess[t].op \notin {"none", "login", "refresh", "dispatch"},
           sess[t].pc \notin {"publish", "rotate"}, Runs(sess[t].op, pc),
           sess[t].op = "start" =>
              /\ U(sess[t].who) \in DOMAIN f \cup DOMAIN ws[t] \cup DOMAIN db
              /\ pc = "ensure referral" => sess[t].arg \in User
    PROVE  Inv'
<1> DEFINE s == sess[t]
           z == [s EXCEPT !.pc = pc]
           y == Over(f, ws[t])
<1>1. s \in Session /\ pc \in PCs /\ Aware(s, ws[t], db, parent)
  BY Here DEF PCs
<1>2. /\ z \in Session /\ z.pc = pc /\ z.op = s.op /\ z.who = s.who /\ z.arg = s.arg
      /\ sess' = [sess EXCEPT ![t] = z]
  BY <1>1, Gone DEF Goto
<1>3. DOMAIN y = DOMAIN f \cup DOMAIN ws[t]
  BY OverRows
<1> HIDE DEF z, y
<1>4. New(z) = Null
  BY <1>2 DEF New
<1>5. pc \notin Unwritten \cup Act \cup {"publish", "enqueue"}
  BY DEF Unwritten, Act
<1>6. AwareOfAccess(z, y, db, parent)
  BY <1>2, <1>5 DEF AwareOfAccess, Act
<1>7. AwareOfUsers(z, y, db)
  BY <1>1, <1>2, <1>3 DEF Aware, AwareOfUsers
<1>8. AwareOfBroadcasts(z, y, db)
  BY <1>1, <1>2, <1>3, <1>5 DEF Aware, AwareOfBroadcasts
<1>9. Aware(z, y, db, parent)
  BY <1>2, <1>5, <1>6, <1>7, <1>8 DEF Aware
<1>10. World' /\ UNCHANGED <<parent, held, queue>>
  BY SameWorld DEF rest, accessVars
<1> QED BY <1>2, <1>4, <1>9, <1>10, WriteDone DEF y

\* The same without the rows of tokens and admins.
LEMMA WritePlain ==
    ASSUME Inv, NEW t \in Tx, NEW pc \in {"commit", "refer", "ensure referral"}, NEW f,
           Write(t, f), Goto(t, pc), UNCHANGED rest, Typed(f),
           \A r \in DOMAIN f : r[1] \in {"admin", "user", "wallet", "referral", "ticket"},
           \A a \in Admin : A(a) \in DOMAIN f => A(a) \notin DOMAIN db,
           \A u \in User : U(u) \in DOMAIN f =>
              W(u) \in DOMAIN f \/ U(u) \in DOMAIN ws[t] \cup DOMAIN db,
           sess[t].op \notin {"none", "login", "refresh", "dispatch"},
           sess[t].pc \notin {"publish", "rotate"}, Runs(sess[t].op, pc),
           sess[t].op = "start" =>
              /\ U(sess[t].who) \in DOMAIN f \cup DOMAIN ws[t] \cup DOMAIN db
              /\ pc = "ensure referral" => sess[t].arg \in User
    PROVE  Inv'
<1>1. /\ TxOk(db, ws[t], parent, Null) /\ StoreOk(db, parent) /\ Typed(db)
      /\ parent \in [Token -> Token \cup {Null}]
  BY Here DEF New
<1>2. /\ \A n \in Token : RT(n) \notin DOMAIN f
      /\ \A b \in Broadcast : B(b) \notin DOMAIN f
  BY Keys
<1>3. \A u \in User : U(u) \in DOMAIN f => W(u) \in DOMAIN f \cup DOMAIN ws[t] \cup DOMAIN db
  BY <1>1 DEF TxOk, StoreOk
<1>4. TxOk(db, Over(f, ws[t]), parent, Null)
  BY <1>1, <1>2, <1>3, PlainWrite
<1> QED BY <1>2, <1>4, WriteOn
-----------------------------------------------------------------------------
\* Login, refresh and logout: what they have read.
LEMMA LoginStep ==
    ASSUME Inv, NEW t \in Tx, NEW a \in Admin, Login(t, a), UNCHANGED <<queue, inbox>>
    PROVE  Inv'
<1> DEFINE z == Begun("login", a, Null, "issue")
<1>1. /\ z \in Session /\ z.pc = "issue" /\ z.op = "login" /\ z.who = a /\ z.arg = Null
      /\ sess' = [sess EXCEPT ![t] = z]
  <2>1. "login" \in Ops /\ "issue" \in PCs
    BY DEF Ops, PCs, AuthOp
  <2>2. /\ a \in Admin \cup User \cup {Null}
        /\ Null \in Admin \cup Token \cup User \cup Ticket \cup Broadcast \cup {Null}
    OBVIOUS
  <2>3. sess' = [sess EXCEPT ![t] = z]
    BY DEF Login, Enter, Begun
  <2> QED BY <2>1, <2>2, <2>3, Entering
<1> HIDE DEF z
<1>2. At(t, "idle") /\ UNCHANGED store /\ UNCHANGED <<parent, held, queue>> /\ World'
  BY SameWorld DEF Login, Begin, accessVars
<1>3. ws[t] = NoRows /\ Typed(db) /\ Typed(ws[t])
  BY <1>2, Here DEF At, Aware, Unwritten
<1>4. A(a) \in DOMAIN db /\ db[A(a)].active
  BY <1>3, Seen DEF Login, Active
<1>5. AwareOfAccess(z, NoRows, db, parent) /\ AwareOfUsers(z, NoRows, db) /\ Runs(z.op, z.pc)
  BY <1>1, <1>4 DEF AwareOfAccess, AwareOfUsers, Runs, Entered, Staff
<1>6. z.pc \in Unwritten
  BY <1>1 DEF Unwritten
<1> QED BY <1>1, <1>2, <1>5, <1>6, BeginStep

\* A refresh has found a token that is not revoked, and its admin.
LEMMA RefreshStep ==
    ASSUME Inv, NEW t \in Tx, NEW a \in Admin, NEW n \in Token, Refresh(t, a, n),
           UNCHANGED <<queue, inbox>>
    PROVE  Inv'
<1> DEFINE z == Begun("refresh", a, n, "issue")
<1>1. /\ z \in Session /\ z.pc = "issue" /\ z.op = "refresh" /\ z.who = a /\ z.arg = n
      /\ sess' = [sess EXCEPT ![t] = z]
  <2>1. "refresh" \in Ops /\ "issue" \in PCs
    BY DEF Ops, PCs, AuthOp
  <2>2. /\ a \in Admin \cup User \cup {Null}
        /\ n \in Admin \cup Token \cup User \cup Ticket \cup Broadcast \cup {Null}
    OBVIOUS
  <2>3. sess' = [sess EXCEPT ![t] = z]
    BY DEF Refresh, Enter, Begun
  <2> QED BY <2>1, <2>2, <2>3, Entering
<1> HIDE DEF z
<1>2. At(t, "idle") /\ UNCHANGED store /\ UNCHANGED <<parent, held, queue>> /\ World'
  BY SameWorld DEF Refresh, Begin, accessVars
<1>3. ws[t] = NoRows /\ Typed(db) /\ Typed(ws[t])
  BY <1>2, Here DEF At, Aware, Unwritten
<1>4. A(a) \in DOMAIN db /\ db[A(a)].active /\ RT(n) \in DOMAIN db
  BY <1>3, Seen DEF Refresh, Active, Usable
<1>5. AwareOfAccess(z, NoRows, db, parent) /\ AwareOfUsers(z, NoRows, db) /\ Runs(z.op, z.pc)
  BY <1>1, <1>4 DEF AwareOfAccess, AwareOfUsers, Runs, Entered, Staff
<1>6. z.pc \in Unwritten
  BY <1>1 DEF Unwritten
<1> QED BY <1>1, <1>2, <1>5, <1>6, BeginStep

\* A logout has found the token.
LEMMA LogoutStep ==
    ASSUME Inv, NEW t \in Tx, NEW a \in Admin, NEW n \in Token, Logout(t, a, n),
           UNCHANGED <<queue, inbox>>
    PROVE  Inv'
<1> DEFINE z == Begun("logout", a, n, "revoke")
<1>1. /\ z \in Session /\ z.pc = "revoke" /\ z.op = "logout" /\ z.who = a /\ z.arg = n
      /\ sess' = [sess EXCEPT ![t] = z]
  <2>1. "logout" \in Ops /\ "revoke" \in PCs
    BY DEF Ops, PCs, AuthOp
  <2>2. /\ a \in Admin \cup User \cup {Null}
        /\ n \in Admin \cup Token \cup User \cup Ticket \cup Broadcast \cup {Null}
    OBVIOUS
  <2>3. sess' = [sess EXCEPT ![t] = z]
    BY DEF Logout, Enter, Begun
  <2> QED BY <2>1, <2>2, <2>3, Entering
<1> HIDE DEF z
<1>2. At(t, "idle") /\ UNCHANGED store /\ UNCHANGED <<parent, held, queue>> /\ World'
  BY SameWorld DEF Logout, Begin, accessVars
<1>3. ws[t] = NoRows /\ Typed(db) /\ Typed(ws[t])
  BY <1>2, Here DEF At, Aware, Unwritten
<1>4. RT(n) \in DOMAIN db
  BY <1>3, Seen DEF Logout
<1>5. AwareOfAccess(z, NoRows, db, parent) /\ AwareOfUsers(z, NoRows, db) /\ Runs(z.op, z.pc)
  BY <1>1, <1>4 DEF AwareOfAccess, AwareOfUsers, Runs, Staff
<1>6. z.pc \in Unwritten
  BY <1>1 DEF Unwritten
<1> QED BY <1>1, <1>2, <1>5, <1>6, BeginStep

\* create-admin, before its insert.
LEMMA CreateAdminStep ==
    ASSUME Inv, NEW t \in Tx, NEW a \in Admin, CreateAdmin(t, a), UNCHANGED <<queue, inbox>>
    PROVE  Inv'
<1> DEFINE z == Begun("create admin", Null, a, "insert admin")
<1>1. /\ z \in Session /\ z.pc = "insert admin" /\ z.op = "create admin" /\ z.arg = a
      /\ sess' = [sess EXCEPT ![t] = z]
  <2>1. "create admin" \in Ops /\ "insert admin" \in PCs
    BY DEF Ops, PCs, AuthOp
  <2>2. sess' = [sess EXCEPT ![t] = z]
    BY DEF CreateAdmin, Enter, Begun
  <2>3. z \in Session /\ z.pc = "insert admin" /\ z.op = "create admin" /\ z.arg = a
    BY <2>1 DEF Begun, Session, Idle
  <2> QED BY <2>2, <2>3
<1> HIDE DEF z
<1>2. At(t, "idle") /\ UNCHANGED store /\ UNCHANGED <<parent, held, queue>> /\ World'
  BY SameWorld DEF CreateAdmin, Begin, accessVars
<1>3. AwareOfAccess(z, NoRows, db, parent) /\ AwareOfUsers(z, NoRows, db) /\ Runs(z.op, z.pc)
  BY <1>1 DEF AwareOfAccess, AwareOfUsers, Runs, Staff
<1>4. z.pc \in Unwritten
  BY <1>1 DEF Unwritten
<1> QED BY <1>1, <1>2, <1>3, <1>4, BeginStep

\* The insert of an admin who was not there, or no longer is not.
LEMMA InsertAdminStep ==
    ASSUME Inv, NEW t \in Tx, InsertAdmin(t), UNCHANGED <<queue, inbox>>
    PROVE  Inv'
<1> DEFINE a == sess[t].arg
<1>1. At(t, "insert admin") /\ UNCHANGED rest
  BY DEF InsertAdmin, rest
<1>2. /\ a \in Admin /\ sess[t].op = "create admin"
      /\ Typed(db) /\ Typed(ws[t])
  BY <1>1, Here DEF At, Aware, AwareOfAccess, Runs, Act
<1>3. CASE Exists(t, A(a))
  <2>1. Rollback(t) /\ Close(t)
    BY <1>3 DEF InsertAdmin
  <2>2. World' /\ UNCHANGED <<parent, held, queue>>
    BY <1>1, SameWorld DEF rest, accessVars
  <2> QED BY <2>1, <2>2, CloseStep
<1>4. CASE ~Exists(t, A(a))
  <2>1. PICK role \in Role : Write(t, Is(A(a), NewAdmin(role))) /\ Goto(t, "commit")
    BY <1>4 DEF InsertAdmin
  <2> DEFINE f == Is(A(a), NewAdmin(role))
  <2>2. NewAdmin(role) \in RowType[A(a)[1]]
    BY Keys, RowTypes, ZenonT(30) DEF NewAdmin
  <2>3. DOMAIN f = {A(a)} /\ Typed(f)
    BY <2>2, OneRow
  <2> HIDE DEF f
  <2>4. A(a) \notin DOMAIN db
    BY <1>4 DEF Exists
  <2>5. Runs(sess[t].op, "commit")
    BY <1>2 DEF Runs
  <2>6. sess[t].pc \notin {"publish", "rotate"}
    BY <1>1 DEF At
  <2>7. /\ \A r \in DOMAIN f : r[1] \in {"admin", "user", "wallet", "referral", "ticket"}
        /\ \A u \in User : U(u) \notin DOMAIN f
        /\ \A b \in Admin : A(b) \in DOMAIN f => A(b) \notin DOMAIN db
    BY <2>3, <2>4, Keys
  <2>8. Write(t, f)
    BY <2>1 DEF f
  <2> QED BY <1>1, <1>2, <2>1, <2>3, <2>5, <2>6, <2>7, <2>8, WritePlain
<1> QED BY <1>3, <1>4
-----------------------------------------------------------------------------
\* A token nobody has may be given a parent.
LEMMA ParentFrame ==
    ASSUME NEW v, NEW par \in [Token -> Token \cup {Null}], NEW new, NEW n \in Token,
           NEW p \in Token \cup {Null}, Typed(v), TokensOk(v, par, new), RT(n) \notin DOMAIN v
    PROVE  TokensOk(v, [par EXCEPT ![n] = p], new)
<1> DEFINE q == [par EXCEPT ![n] = p]
<1>1. \A m \in Token \ {n} : q[m] = par[m]
  OBVIOUS
<1> HIDE DEF q
<1>2. ASSUME NEW m \in Token, RT(m) \in DOMAIN v
      PROVE  TokenOk(v, q, new, m)
  <2>1. m # n /\ TokenOk(v, par, new, m)
    BY <1>2 DEF TokensOk
  <2>2. v[RT(m)].replaced \in Token \cup {Null}
    BY <1>2, Links
  <2>3. v[RT(m)].replaced # Null => v[RT(m)].replaced # n
    BY <2>1 DEF TokenOk
  <2> QED BY <1>1, <2>1, <2>2, <2>3 DEF TokenOk
<1> QED BY <1>2 DEF TokensOk, q

\* The rows of a transaction that has inserted the token n, exchanged for p or nothing.
LEMMA NewToken ==
    ASSUME NEW d, NEW f, NEW par \in [Token -> Token \cup {Null}], NEW new, NEW n \in Token,
           NEW p \in Token \cup {Null}, StoreOk(d, par), Typed(f), RT(n) \notin DOMAIN d,
           RT(n) \in DOMAIN f, f[RT(n)].replaced = Null,
           \A m \in Token \ {n} : RT(m) \notin DOMAIN f,
           \A a \in Admin : A(a) \in DOMAIN f \cap DOMAIN d => f[A(a)] = d[A(a)],
           \A u \in User : U(u) \notin DOMAIN f, p # Null => new = n
    PROVE  TxOk(d, f, [par EXCEPT ![n] = p], new)
<1> DEFINE q == [par EXCEPT ![n] = p]
           w == Over(f, d)
<1>1. q[n] = p
  OBVIOUS
<1>2. TokensOk(d, q, Null)
  BY ParentFrame DEF StoreOk
<1>3. /\ DOMAIN w = DOMAIN f \cup DOMAIN d
      /\ w[RT(n)] = f[RT(n)]
      /\ \A m \in Token \ {n} : /\ RT(m) \in DOMAIN w <=> RT(m) \in DOMAIN d
                               /\ RT(m) \in DOMAIN d => w[RT(m)] = d[RT(m)]
  BY DEF Over
<1> HIDE DEF q, w
<1>4. ASSUME NEW m \in Token, RT(m) \in DOMAIN w
      PROVE  TokenOk(w, q, new, m)
  <2>1. CASE m = n
    BY <1>1, <1>3, <2>1 DEF TokenOk
  <2>2. CASE m # n
    <3>1. RT(m) \in DOMAIN d /\ w[RT(m)] = d[RT(m)] /\ TokenOk(d, q, Null, m) /\ m # Null
      BY <1>2, <1>3, <1>4, <2>2, AccessAssumption DEF TokensOk
    <3>2. d[RT(m)].replaced \in Token \cup {Null}
      BY <3>1, Links DEF StoreOk
    <3>3. q[m] \in Token \cup {Null}
      BY DEF q
    <3>4. d[RT(m)].replaced # Null => RT(d[RT(m)].replaced) \in DOMAIN w
      BY <1>3, <3>1 DEF TokenOk
    <3>5. q[m] # Null => /\ RT(q[m]) \in DOMAIN w /\ w[RT(q[m])].replaced # Null
      <4>1. SUFFICES ASSUME q[m] # Null
                     PROVE  RT(q[m]) \in DOMAIN w /\ w[RT(q[m])].replaced # Null
        OBVIOUS
      <4>2. q[m] \in Token /\ RT(q[m]) \in DOMAIN d /\ d[RT(q[m])].replaced # Null
        BY <3>1, <3>3, <4>1 DEF TokenOk
      <4> QED BY <1>3, <4>2
    <3> QED BY <3>1, <3>4, <3>5 DEF TokenOk
  <2> QED BY <2>1, <2>2
<1>5. KeepsLinks(d, f)
  BY DEF KeepsLinks
<1> QED BY <1>4, <1>5 DEF TxOk, TokensOk, q, w

\* The insert of a token.
LEMMA IssueStep ==
    ASSUME Inv, NEW t \in Tx, Issue(t), UNCHANGED <<queue, inbox>>
    PROVE  Inv'
<1> DEFINE s == sess[t]
<1>1. PICK n \in setup.tokens \ Issued :
         LET token == Is(RT(n), [admin |-> s.who, revoked |-> FALSE, replaced |-> Null])
             admin == Is(A(s.who), Row(t, A(s.who)))
         IN /\ Write(t, IF s.op = "login" THEN Over(token, admin) ELSE token)
            /\ parent' = [parent EXCEPT ![n] = s.arg]
            /\ sess' = [sess EXCEPT ![t].n = n, ![t].pc = IF s.op = "login" THEN "commit" ELSE "rotate"]
  BY DEF Issue
<1> DEFINE token == Is(RT(n), [admin |-> s.who, revoked |-> FALSE, replaced |-> Null])
           admin == Is(A(s.who), Row(t, A(s.who)))
           f == IF s.op = "login" THEN Over(token, admin) ELSE token
           pc == IF s.op = "login" THEN "commit" ELSE "rotate"
           z == [[s EXCEPT !.n = n] EXCEPT !.pc = pc]
           q == [parent EXCEPT ![n] = s.arg]
<1>2. Write(t, f) /\ parent' = q
  BY <1>1
<1>3. /\ s \in Session /\ Aware(s, ws[t], db, parent) /\ StoreOk(db, parent)
      /\ Typed(db) /\ Typed(ws[t]) /\ parent \in [Token -> Token \cup {Null}]
  BY Here
<1>4. /\ s.pc = "issue" /\ ws[t] = NoRows /\ Entered(s, db)
      /\ s.op \in {"login", "refresh"}
      /\ s.op = "login" => s.arg = Null
      /\ s.op = "refresh" => s.arg \in Token /\ RT(s.arg) \in DOMAIN db
  <2>1. s.pc = "issue"
    BY DEF Issue, At
  <2> QED BY <1>3, <2>1 DEF Aware, AwareOfAccess, Runs, Unwritten, Act
<1>5. n \in Token /\ RT(n) \notin DOMAIN db /\ \A u \in Tx : RT(n) \notin DOMAIN ws[u]
  <2>1. setup.tokens \subseteq Token
    BY AccessAssumption DEF Inv, World, AccessSetup
  <2> QED BY <1>1, <2>1 DEF Issued
<1>6. sess' = [sess EXCEPT ![t] = z]
  BY <1>1, <1>3 DEF Inv
<1>7. z \in Session /\ z.pc = pc /\ z.n = n /\ z.op = s.op /\ z.who = s.who /\ z.arg = s.arg
  <2> DEFINE y == [s EXCEPT !.n = n]
  <2>1. y \in Session /\ y.n = n /\ y.op = s.op /\ y.who = s.who /\ y.arg = s.arg
    BY <1>3, <1>5 DEF Session
  <2> HIDE DEF y
  <2>2. pc \in PCs
    BY DEF PCs
  <2> HIDE DEF pc
  <2> QED BY <2>1, <2>2, Gone DEF y
<1>8. /\ DOMAIN token = {RT(n)} /\ token[RT(n)].replaced = Null /\ Typed(token)
  <2> DEFINE row == [admin |-> s.who, revoked |-> FALSE, replaced |-> Null]
  <2>1. row \in [admin : Admin, revoked : BOOLEAN, replaced : Token \cup {Null}] /\ row.replaced = Null
    BY <1>4 DEF Entered
  <2>2. RT(n)[1] = "token"
    BY Keys
  <2> HIDE DEF row
  <2>3. row \in RowType[RT(n)[1]]
    BY <2>1, <2>2, RowTypes
  <2>4. DOMAIN Is(RT(n), row) = {RT(n)} /\ Is(RT(n), row)[RT(n)] = row /\ Typed(Is(RT(n), row))
    BY <2>3, OneRow
  <2> QED BY <2>1, <2>4 DEF row
<1>9. DOMAIN admin = {A(s.who)} /\ admin[A(s.who)] = db[A(s.who)] /\ Typed(admin)
  <2>1. Exists(t, A(s.who)) /\ A(s.who) \in DOMAIN db
    BY <1>4 DEF Exists, Entered
  <2>2. Row(t, A(s.who)) \in RowType[A(s.who)[1]] /\ Row(t, A(s.who)) = db[A(s.who)]
    BY <1>3, <1>4, <2>1, Seen
  <2> QED BY <2>2, OneRow
<1> HIDE DEF token, admin, z
<1>10. /\ Typed(f) /\ RT(n) \in DOMAIN f /\ f[RT(n)].replaced = Null
       /\ DOMAIN f \subseteq {RT(n), A(s.who)}
       /\ A(s.who) \in DOMAIN f => f[A(s.who)] = db[A(s.who)]
  <2>1. CASE s.op = "login"
    <3>1. /\ DOMAIN f = {RT(n), A(s.who)} /\ f[RT(n)] = token[RT(n)]
      BY <1>8, <1>9, <2>1 DEF Over
    <3>2. f[A(s.who)] = db[A(s.who)]
      BY <1>8, <1>9, <2>1, Keys DEF Over
    <3>3. Typed(f)
      BY <1>8, <1>9, <2>1, OverTyped
    <3> QED BY <1>8, <3>1, <3>2, <3>3
  <2>2. CASE s.op # "login"
    BY <1>8, <2>2, Keys
  <2> QED BY <2>1, <2>2
<1> HIDE DEF f
<1>11. /\ \A m \in Token \ {n} : RT(m) \notin DOMAIN f
       /\ \A a \in Admin : A(a) \in DOMAIN f \cap DOMAIN db => f[A(a)] = db[A(a)]
       /\ \A u \in User : U(u) \notin DOMAIN f
       /\ \A b \in Broadcast : B(b) \notin DOMAIN f
  BY <1>10, Keys
<1>12. s.arg \in Token \cup {Null} /\ (s.arg # Null => New(z) = n)
  BY <1>4, <1>7 DEF New
<1>13. TxOk(db, f, q, New(z))
  BY <1>3, <1>5, <1>10, <1>11, <1>12, NewToken
<1>14. q \in [Token -> Token \cup {Null}] /\ q[n] = s.arg /\ \A m \in Token \ {n} : q[m] = parent[m]
  BY <1>3, <1>5, <1>12
<1> HIDE DEF q
<1>15. Aware(z, f, db, q)
  <2>1. z.pc \notin Unwritten /\ z.pc \notin {"publish", "enqueue", "ban", "create ticket", "issue"}
    BY <1>7 DEF Unwritten, Act
  <2>2. Runs(z.op, z.pc) /\ z.op \notin {"none", "start", "dispatch"} \cup Staff
    BY <1>4, <1>7 DEF Runs, Staff
  <2>3. AwareOfAccess(z, f, db, q)
    BY <1>4, <1>5, <1>7, <1>10, <1>14, <2>1, <2>2 DEF AwareOfAccess, Entered
  <2>4. AwareOfUsers(z, f, db)
    BY <1>4, <1>7, <2>2 DEF AwareOfUsers
  <2>5. AwareOfBroadcasts(z, f, db)
    BY <1>11, <2>1, <2>2 DEF AwareOfBroadcasts
  <2> QED BY <2>1, <2>2, <2>3, <2>4, <2>5 DEF Aware
<1>16. /\ db' = db /\ ws'[t] = f /\ DOMAIN ws' = Tx
       /\ \A u \in Tx \ {t} : ws'[u] = ws[u]
  <2>1. f = [r \in DOMAIN f |-> f[r]]
    BY DEF f, Over, token, Is
  <2>2. Over(f, NoRows) = f
    BY <2>1, Nothing
  <2> QED BY <1>2, <1>4, <2>2, WriteEffect DEF Inv, StoreInv
<1>17. /\ sess' \in [Tx -> Session] /\ sess'[t] = z
       /\ \A u \in Tx \ {t} : sess'[u] = sess[u]
  BY <1>6, <1>7 DEF Inv
<1>18. ASSUME NEW u \in Tx
       PROVE  TxOk(db', ws'[u], parent', New(sess'[u])) /\ Aware(sess'[u], ws'[u], db', parent')
  <2>1. CASE u = t
    BY <1>2, <1>13, <1>15, <1>16, <1>17, <2>1
  <2>2. CASE u # t
    <3>1. TxOk(db, ws[u], parent, New(sess[u])) /\ Aware(sess[u], ws[u], db, parent)
      BY DEF Inv, StoreInv
    <3>2. RT(n) \notin DOMAIN Over(ws[u], db) /\ Typed(Over(ws[u], db))
      BY <1>3, <1>5, <3>1, OverTyped DEF Over, TxOk
    <3>3. TxOk(db, ws[u], q, New(sess[u]))
      BY <1>3, <1>5, <1>12, <3>1, <3>2, ParentFrame DEF TxOk, q
    <3>4. AwareOfAccess(sess[u], ws[u], db, q)
      BY <1>5, <1>14, <3>1 DEF Aware, AwareOfAccess
    <3>5. Aware(sess[u], ws[u], db, q)
      BY <3>1, <3>4 DEF Aware
    <3> QED BY <1>2, <1>16, <1>17, <2>2, <3>3, <3>5
  <2> QED BY <2>1, <2>2
<1>19. StoreOk(db', parent')
  BY <1>2, <1>3, <1>5, <1>12, <1>16, ParentFrame DEF StoreOk, q
<1>20. Exclusive' /\ Shaped'
  BY <1>2, WriteExclusive DEF Inv, StoreInv, Write, Shaped
<1>21. World' /\ Given'
  BY <1>16 DEF Inv, World, Given, Issue, clients
<1> QED BY <1>2, <1>14, <1>16, <1>17, <1>18, <1>19, <1>20, <1>21 DEF Inv, StoreInv
\* A token the transaction sees is revoked, and perhaps linked to its new one.
LEMMA TokenWrite ==
    ASSUME NEW d, NEW x, NEW par \in [Token -> Token \cup {Null}], NEW new, NEW then,
           NEW p \in Token, NEW row \in RowType["token"],
           StoreOk(d, par), TxOk(d, x, par, new), RT(p) \in DOMAIN Over(x, d), row.revoked,
           \/ row.replaced = Over(x, d)[RT(p)].replaced /\ then = new
           \/ /\ row.replaced = new /\ then = Null
              /\ new \in Token /\ par[new] = p /\ RT(new) \in DOMAIN Over(x, d)
    PROVE  TxOk(d, Over(Is(RT(p), row), x), par, then)
<1> DEFINE f == Is(RT(p), row)
           y == Over(f, x)
           v == Over(x, d)
           w == Over(y, d)
<1>1. DOMAIN f = {RT(p)} /\ f[RT(p)] = row /\ Typed(f)
  <2>1. row \in RowType[RT(p)[1]]
    BY Keys
  <2> QED BY <2>1, OneRow
<1> HIDE DEF f
<1>2. Typed(y) /\ Typed(v)
  BY <1>1, OverTyped DEF TxOk, StoreOk
<1>3. /\ DOMAIN y = {RT(p)} \cup DOMAIN x
      /\ y[RT(p)] = row /\ \A r \in DOMAIN x \ {RT(p)} : y[r] = x[r]
  BY <1>1 DEF Over
<1>4. /\ DOMAIN w = DOMAIN v
      /\ w[RT(p)] = row
      /\ \A r \in DOMAIN v \ {RT(p)} : w[r] = v[r]
  BY <1>1 DEF Over
<1>5. /\ \A r \in DOMAIN x : v[r] = x[r]
      /\ \A r \in DOMAIN d \ DOMAIN x : v[r] = d[r]
  BY DEF Over
<1>6. TokensOk(v, par, new) /\ RT(p) \in DOMAIN v
  BY DEF TxOk
<1>7. Null \notin Token
  BY AccessAssumption
<1> HIDE DEF y, v, w
\* What is linked stays linked.
<1>8. ASSUME NEW m \in Token, RT(m) \in DOMAIN v, v[RT(m)].replaced # Null
      PROVE  w[RT(m)].replaced # Null
  <2>1. CASE m = p
    BY <1>4, <1>7, <1>8, <2>1 DEF v
  <2>2. CASE m # p
    BY <1>4, <1>8, <2>2, Keys
  <2> QED BY <2>1, <2>2
<1>9. ASSUME NEW m \in Token, RT(m) \in DOMAIN w
      PROVE  TokenOk(w, par, then, m)
  <2>1. TokenOk(v, par, new, m) /\ par[m] \in Token \cup {Null}
    BY <1>4, <1>6, <1>9 DEF TokensOk
  <2>2. w[RT(m)].replaced # Null => /\ w[RT(m)].revoked
                                    /\ RT(w[RT(m)].replaced) \in DOMAIN w
                                    /\ par[w[RT(m)].replaced] = m
    <3>1. CASE m = p
      BY <1>4, <2>1, <3>1 DEF TokenOk, v
    <3>2. CASE m # p
      BY <1>4, <1>9, <2>1, <3>2, Keys DEF TokenOk
    <3> QED BY <3>1, <3>2
  <2>3. ASSUME par[m] # Null, m # then
        PROVE  RT(par[m]) \in DOMAIN w /\ w[RT(par[m])].replaced # Null
    <3>1. CASE m # new
      BY <1>4, <1>8, <2>1, <2>3, <3>1 DEF TokenOk
    <3>2. CASE m = new
      <4>1. row.replaced = new /\ par[m] = p
        BY <2>3, <3>2
      <4> QED BY <1>4, <1>6, <1>7, <3>2, <4>1
    <3> QED BY <3>1, <3>2
  <2> QED BY <2>2, <2>3 DEF TokenOk
<1>10. KeepsLinks(d, y)
  <2>1. KeepsLinks(d, x)
    BY DEF TxOk
  <2>2. ASSUME NEW m \in Token, RT(m) \in DOMAIN y \cap DOMAIN d, d[RT(m)].replaced # Null
        PROVE  y[RT(m)].replaced # Null
    <3>1. CASE m = p
      <4>1. v[RT(p)].replaced # Null
        BY <1>5, <2>1, <2>2, <3>1 DEF KeepsLinks
      <4> QED BY <1>3, <1>7, <3>1, <4>1 DEF v
    <3>2. CASE m # p
      BY <1>3, <2>1, <2>2, <3>2, Keys DEF KeepsLinks
    <3> QED BY <3>1, <3>2
  <2> QED BY <2>2 DEF KeepsLinks
<1>11. /\ \A a \in Admin : A(a) \in DOMAIN y \cap DOMAIN d => y[A(a)] = d[A(a)]
       /\ \A u \in User : U(u) \in DOMAIN y => W(u) \in DOMAIN y \cup DOMAIN d
  BY <1>3, Keys DEF TxOk
<1>12. TokensOk(w, par, then)
  BY <1>9 DEF TokensOk
<1>13. TxOk(d, y, par, then)
  BY <1>2, <1>10, <1>11, <1>12 DEF TxOk, w
<1> QED BY <1>13 DEF y, f

\* The new row of a token that is revoked.
LEMMA RevokedRow ==
    ASSUME NEW row \in RowType["token"], NEW n \in Token
    PROVE  /\ [row EXCEPT !.revoked = TRUE] \in RowType["token"]
           /\ [row EXCEPT !.revoked = TRUE].revoked
           /\ [row EXCEPT !.revoked = TRUE].replaced = row.replaced
           /\ [row EXCEPT !.revoked = TRUE, !.replaced = n] \in RowType["token"]
           /\ [row EXCEPT !.revoked = TRUE, !.replaced = n].revoked
           /\ [row EXCEPT !.revoked = TRUE, !.replaced = n].replaced = n
<1> DEFINE rows == [admin : Admin, revoked : BOOLEAN, replaced : Token \cup {Null}]
           y == [row EXCEPT !.revoked = TRUE]
           z == [y EXCEPT !.replaced = n]
<1>1. RowType["token"] = rows
  BY RowTypes
<1>2. y \in rows /\ y.revoked = TRUE /\ y.replaced = row.replaced
  <2>1. row \in rows
    BY <1>1
  <2> QED BY <2>1
<1>3. [row EXCEPT !.revoked = TRUE, !.replaced = n] = z
  OBVIOUS
<1> HIDE DEF y
<1>4. z \in rows /\ z.revoked = TRUE /\ z.replaced = n
  BY <1>2
<1> QED BY <1>1, <1>2, <1>3, <1>4 DEF y

\* The old token is linked and revoked.
LEMMA RotateStep ==
    ASSUME Inv, NEW t \in Tx, Rotate(t), UNCHANGED <<queue, inbox>>
    PROVE  Inv'
<1> DEFINE s == sess[t]
           p == s.arg
           row == [Row(t, RT(p)) EXCEPT !.revoked = TRUE, !.replaced = s.n]
           f == Is(RT(p), row)
           z == [s EXCEPT !.pc = "commit"]
           y == Over(f, ws[t])
<1>1. At(t, "rotate") /\ Write(t, f) /\ Goto(t, "commit") /\ UNCHANGED rest
  BY DEF Rotate, rest
<1>2. /\ s \in Session /\ Aware(s, ws[t], db, parent) /\ TxOk(db, ws[t], parent, New(s))
      /\ StoreOk(db, parent) /\ Typed(db) /\ Typed(ws[t])
      /\ parent \in [Token -> Token \cup {Null}]
  BY Here
<1>3. /\ s.pc = "rotate" /\ s.op = "refresh" /\ New(s) = s.n
      /\ s.who \in Admin /\ s.n \in Token /\ RT(s.n) \in DOMAIN ws[t] /\ parent[s.n] = p
      /\ p \in Token /\ RT(p) \in DOMAIN db
  BY <1>1, <1>2 DEF At, Aware, AwareOfAccess, Runs, New, Act
<1>4. Exists(t, RT(p)) /\ RT(s.n) \in DOMAIN Over(ws[t], db)
  BY <1>3 DEF Exists, Over
<1>5. Row(t, RT(p)) \in RowType["token"] /\ RT(p) \in DOMAIN Over(ws[t], db)
  BY <1>2, <1>4, Seen, Keys
<1>6. row \in RowType["token"] /\ row.revoked /\ row.replaced = s.n
  BY <1>3, <1>5, RevokedRow
<1>7. /\ z \in Session /\ z.pc = "commit" /\ z.op = "refresh" /\ z.who = s.who /\ z.n = s.n
      /\ sess' = [sess EXCEPT ![t] = z]
  <2>1. "commit" \in PCs
    BY DEF PCs
  <2> QED BY <1>1, <1>2, <1>3, <2>1, Gone DEF Goto
<1>8. DOMAIN f = {RT(p)}
  BY OneRow
<1> HIDE DEF row, z
<1>9. TxOk(db, y, parent, New(z))
  <2>1. New(z) = Null
    BY <1>7 DEF New
  <2> QED BY <1>2, <1>3, <1>4, <1>5, <1>6, <2>1, TokenWrite
<1>10. DOMAIN y = {RT(p)} \cup DOMAIN ws[t]
  BY <1>8 DEF Over
<1> HIDE DEF f, y
<1>11. Aware(z, y, db, parent)
  <2>1. AwareOfAccess(z, y, db, parent)
    BY <1>3, <1>7, <1>10 DEF AwareOfAccess, Staff
  <2>2. AwareOfUsers(z, y, db)
    BY <1>7 DEF AwareOfUsers
  <2>3. AwareOfBroadcasts(z, y, db)
    BY <1>2, <1>3, <1>7, <1>10, Keys DEF Aware, AwareOfBroadcasts
  <2> QED BY <1>7, <2>1, <2>2, <2>3 DEF Aware, Runs, Unwritten, Act
<1>12. World' /\ UNCHANGED <<parent, held, queue>>
  BY <1>1, SameWorld DEF rest, accessVars
<1> QED BY <1>1, <1>7, <1>9, <1>11, <1>12, WriteDone DEF y

\* A logout revokes the token.
LEMMA RevokeStep ==
    ASSUME Inv, NEW t \in Tx, Revoke(t), UNCHANGED <<queue, inbox>>
    PROVE  Inv'
<1> DEFINE s == sess[t]
           p == s.arg
           row == [Row(t, RT(p)) EXCEPT !.revoked = TRUE]
           f == Is(RT(p), row)
<1>1. At(t, "revoke") /\ Write(t, f) /\ Goto(t, "commit") /\ UNCHANGED rest
  BY DEF Revoke, rest
<1>2. /\ Aware(s, ws[t], db, parent) /\ TxOk(db, ws[t], parent, New(s))
      /\ StoreOk(db, parent) /\ Typed(db) /\ Typed(ws[t])
      /\ parent \in [Token -> Token \cup {Null}]
  BY Here
<1>3. /\ s.pc = "revoke" /\ s.op = "logout" /\ New(s) = Null
      /\ p \in Token /\ RT(p) \in DOMAIN db
  BY <1>1, <1>2 DEF At, Aware, AwareOfAccess, Runs, New, Act
<1>4. Exists(t, RT(p))
  BY <1>3 DEF Exists
<1>5. /\ Row(t, RT(p)) \in RowType["token"]
      /\ RT(p) \in DOMAIN Over(ws[t], db) /\ Over(ws[t], db)[RT(p)] = Row(t, RT(p))
  BY <1>2, <1>4, Seen, Keys
<1>6. row \in RowType["token"] /\ row.revoked /\ row.replaced = Row(t, RT(p)).replaced
  BY <1>3, <1>5, RevokedRow
<1>7. DOMAIN f = {RT(p)}
  BY OneRow
<1> HIDE DEF row
<1>8. TxOk(db, Over(f, ws[t]), parent, Null)
  BY <1>2, <1>3, <1>5, <1>6, TokenWrite
<1>9. \A b \in Broadcast : B(b) \notin DOMAIN f
  BY <1>7, Keys
<1> HIDE DEF f
<1>10. Runs(s.op, "commit")
  BY <1>3 DEF Runs
<1> QED BY <1>1, <1>3, <1>8, <1>9, <1>10, WriteOn

\* The end of all three, after which the client may have the token.
LEMMA FinishAuthStep ==
    ASSUME Inv, NEW t \in Tx, FinishAuth(t), UNCHANGED <<queue, inbox>>
    PROVE  Inv'
<1> DEFINE s == sess[t]
<1>1. /\ s.pc = "commit" /\ s.op \in {"login", "refresh", "logout"}
      /\ Commit(t) /\ sess' = [sess EXCEPT ![t] = Idle]
      /\ UNCHANGED <<setup, parent, dialogue, crashes, queue, inbox>>
      /\ \/ s.op # "logout" /\ held' = [held EXCEPT ![s.who] = @ \cup {s.n}]
         \/ held' = held
  BY DEF FinishAuth, At, Close
<1>2. Aware(s, ws[t], db, parent)
  BY Here
<1>3. s.op # "logout" => s.who \in Admin /\ s.n \in Token /\ RT(s.n) \in DOMAIN ws[t]
  BY <1>1, <1>2 DEF Aware, AwareOfAccess
<1>4. Whole(s, ws[t])
  BY <1>1, <1>2 DEF Aware, AwareOfBroadcasts, Whole
<1>5. DOMAIN db' = DOMAIN ws[t] \cup DOMAIN db
  BY <1>1, EndGrows
<1>6. Given'
  BY <1>1, <1>3, <1>5 DEF Inv, World, Given
<1>7. World'
  BY <1>1, <1>3 DEF Inv, World
<1> QED BY <1>1, <1>4, <1>6, <1>7, AtRest, EndDone
-----------------------------------------------------------------------------
\* What the acts are about.
LEMMA Objects ==
    ASSUME NEW act \in Act, NEW arg \in Object(act)
    PROVE  /\ arg \in Admin \cup Token \cup User \cup Ticket \cup Broadcast \cup {Null}
           /\ act = "ban" => arg \in User
           /\ act \in {"reply", "broadcast"} => arg \in Ticket \cup {Null}
           /\ act \in PCs /\ act \in Unwritten /\ act # "enqueue"
<1>1. act \in {"ban", "reply", "close", "broadcast"}
  BY DEF Act
<1>2. act = "ban" => Object(act) = User
  BY DEF Object
<1>3. act \in {"reply", "close"} => Object(act) = Ticket
  BY DEF Object
<1>4. act = "broadcast" => Object(act) = {Null}
  BY DEF Object
<1> QED BY <1>1, <1>2, <1>3, <1>4 DEF PCs, Unwritten, Act

\* A handler of the staff past the check.
LEMMA EnterStaff ==
    ASSUME Inv, NEW t \in Tx, NEW a \in Admin, NEW act \in Act, NEW op \in Staff,
           NEW arg \in Admin \cup Token \cup User \cup Ticket \cup Broadcast \cup {Null},
           act = "ban" => arg \in User,
           At(t, "idle"), MayEnter(t, a), op = "answer" \/ Permission[act] \in Held(t, a),
           sess' = [sess EXCEPT ![t] = Begun(op, a, arg, act)],
           UNCHANGED store, UNCHANGED <<parent, held, queue>>, World'
    PROVE  Inv'
<1> DEFINE z == Begun(op, a, arg, act)
<1>1. z \in Session /\ z.pc = act /\ z.op = op /\ z.who = a /\ z.arg = arg
  <2>1. op \in Ops /\ act \in PCs /\ a \in Admin \cup User \cup {Null}
    BY DEF Ops, PCs, Staff
  <2> QED BY <2>1, Entering
<1>2. sess' = [sess EXCEPT ![t] = z]
  OBVIOUS
<1> HIDE DEF z
<1>3. ws[t] = NoRows /\ Typed(db) /\ Typed(ws[t])
  BY Here DEF At, Aware, Unwritten
<1>4. Exists(t, A(a)) /\ Row(t, A(a)).active
  BY DEF MayEnter, Active
<1>5. A(a) \in DOMAIN db /\ Row(t, A(a)) = db[A(a)]
  BY <1>3, <1>4, Seen
<1>6. op = "answer" \/ Permission[act] \in RolePermissions[db[A(a)].role]
  BY <1>5 DEF Held
<1>7. act \notin {"issue", "rotate", "revoke", "commit", "insert admin", "create ticket", "post",
                  "set status", "enqueue"}
  BY DEF Act
<1>8. AwareOfAccess(z, NoRows, db, parent)
  BY <1>1, <1>4, <1>5, <1>6, <1>7 DEF AwareOfAccess, Entered
<1>9. AwareOfUsers(z, NoRows, db)
  BY <1>1, <1>7 DEF AwareOfUsers, Staff
<1>10. Runs(z.op, z.pc) /\ z.pc \in Unwritten /\ z.op \notin {"none", "dispatch"}
  BY <1>1 DEF Runs, Unwritten, Staff
<1>11. z.pc # "enqueue"
  BY <1>1, <1>7
<1> QED BY <1>1, <1>2, <1>8, <1>9, <1>10, <1>11, BeginStep

\* A request of the API.
LEMMA RequestStep ==
    ASSUME Inv, NEW t \in Tx, NEW a \in Admin, NEW act \in Act, NEW arg \in Object(act),
           Request(t, a, act, arg), UNCHANGED <<queue, inbox>>
    PROVE  Inv'
<1>1. /\ At(t, "idle") /\ MayEnter(t, a) /\ Permission[act] \in Held(t, a)
      /\ sess' = [sess EXCEPT ![t] = Begun("api", a, arg, act)]
      /\ UNCHANGED store /\ UNCHANGED <<parent, held, queue>>
  BY DEF Request, Begin, Enter, Begun, accessVars
<1>2. World'
  BY SameWorld DEF Request, accessVars
<1>3. "api" \in Staff
  BY DEF Staff
<1> QED BY <1>1, <1>2, <1>3, Objects, EnterStaff

\* A button of the bot.
LEMMA PressStep ==
    ASSUME Inv, NEW t \in Tx, NEW a \in Admin, NEW act \in Act, NEW arg \in Object(act),
           Press(t, a, act, arg), UNCHANGED <<queue, inbox>>
    PROVE  Inv'
<1>1. /\ At(t, "idle") /\ MayEnter(t, a) /\ Permission[act] \in Held(t, a)
      /\ UNCHANGED store /\ UNCHANGED <<setup, crashes, inbox, parent, held, queue>>
  BY DEF Press, Begin
<1>2. CASE act \in {"reply", "broadcast"}
  <2>1. sess' = sess /\ dialogue' = [dialogue EXCEPT ![a] = [act |-> act, arg |-> arg]]
    BY <1>2 DEF Press
  <2>2. World' /\ Given'
    BY <1>1, <1>2, <2>1, Objects DEF Inv, World, Given, store
  <2> QED BY <1>1, <2>1, <2>2, Outside DEF store
<1>3. CASE act \notin {"reply", "broadcast"}
  <2>1. sess' = [sess EXCEPT ![t] = Begun("bot", a, arg, act)] /\ dialogue' = dialogue
    BY <1>3 DEF Press, Enter, Begun
  <2>2. World'
    BY <1>1, <2>1, SameWorld
  <2>3. "bot" \in Staff
    BY DEF Staff
  <2> QED BY <1>1, <2>1, <2>2, <2>3, Objects, EnterStaff
<1> QED BY <1>2, <1>3

\* The text the bot has asked for.
LEMMA AnswerStep ==
    ASSUME Inv, NEW t \in Tx, NEW a \in Admin, Answer(t, a), UNCHANGED <<queue, inbox>>
    PROVE  Inv'
<1> DEFINE act == dialogue[a].act
           arg == dialogue[a].arg
<1>1. /\ At(t, "idle") /\ MayEnter(t, a) /\ dialogue[a] # NoDialogue
      /\ UNCHANGED store /\ UNCHANGED <<setup, crashes, inbox, parent, held, queue>>
      /\ sess' = [sess EXCEPT ![t] = Begun("answer", a, arg, act)]
      /\ dialogue' = [dialogue EXCEPT ![a] = NoDialogue]
  BY DEF Answer, Begin, Enter, Begun
<1>2. World'
  BY <1>1 DEF Inv, World
<1>3. act \in {"reply", "broadcast"} /\ arg \in Ticket \cup {Null}
  BY <1>1 DEF Inv, World
<1>4. /\ act \in Act /\ act # "ban"
      /\ arg \in Admin \cup Token \cup User \cup Ticket \cup Broadcast \cup {Null}
  BY <1>3 DEF Act
<1>5. "answer" \in Staff
  BY DEF Staff
<1> QED BY <1>1, <1>2, <1>4, <1>5, EnterStaff

\* The operator changes an admin whom no transaction has written.
LEMMA OperatorStep ==
    ASSUME Inv, NEW a \in Admin, NEW row \in RowType["admin"], A(a) \in DOMAIN db,
           \A t \in Tx : A(a) \notin DOMAIN ws[t], db' = [db EXCEPT ![A(a)] = row],
           sess' = [t \in Tx |-> IF sess[t].who = a THEN [sess[t] EXCEPT !.late = TRUE] ELSE sess[t]],
           UNCHANGED <<ws, accessVars>>, UNCHANGED <<queue, inbox>>
    PROVE  Inv'
<1>1. /\ StoreOk(db, parent) /\ Typed(db)
      /\ parent \in [Token -> Token \cup {Null}]
  BY DEF Inv, StoreInv, StoreOk
<1>2. /\ DOMAIN db' = DOMAIN db
      /\ db'[A(a)] = row
      /\ \A r \in DOMAIN db \ {A(a)} : db'[r] = db[r]
      /\ db' = [r \in DOMAIN db' |-> db'[r]]
  BY <1>1 DEF StoreOk
<1>3. parent' = parent /\ ws' = ws /\ held' = held /\ queue' = queue
  BY DEF accessVars
<1>4. Typed(db')
  BY <1>1, <1>2, Keys DEF Typed
<1>5. \A n \in Token : RT(n) \in DOMAIN db => db'[RT(n)] = db[RT(n)]
  BY <1>2, Keys
<1>6. StoreOk(db', parent')
  <2>1. TokensOk(db', parent, Null)
    BY <1>1, <1>2, <1>5, TokensFrame DEF StoreOk
  <2> QED BY <1>1, <1>2, <1>3, <1>4, <2>1, Keys DEF StoreOk
<1>7. ASSUME NEW t \in Tx
      PROVE  /\ TxOk(db', ws'[t], parent', New(sess'[t]))
             /\ Aware(sess'[t], ws'[t], db', parent')
             /\ sess'[t] \in Session
  <2> DEFINE s == sess[t]
             z == sess'[t]
  <2>1. /\ s \in Session /\ Aware(s, ws[t], db, parent) /\ TxOk(db, ws[t], parent, New(s))
    BY DEF Inv, StoreInv
  <2>2. /\ z \in Session /\ z.op = s.op /\ z.pc = s.pc /\ z.who = s.who /\ z.arg = s.arg
        /\ z.n = s.n /\ z.todo = s.todo
        /\ z = s \/ (z.late /\ s.who = a)
        /\ s.who = a => z.late
    BY <2>1 DEF Session
  <2> HIDE DEF z
  <2>3. A(a) \notin DOMAIN ws[t]
    OBVIOUS
  <2>4. TxOk(db', ws[t], parent, New(z))
    <3>1. New(z) = New(s)
      BY <2>2 DEF New
    <3>2. /\ \A n \in Token :
                /\ RT(n) \in DOMAIN Over(ws[t], db') <=> RT(n) \in DOMAIN Over(ws[t], db)
                /\ RT(n) \in DOMAIN Over(ws[t], db) => Over(ws[t], db')[RT(n)] = Over(ws[t], db)[RT(n)]
      BY <1>2, <1>5 DEF Over
    <3>3. Typed(Over(ws[t], db))
      BY <1>1, <2>1, OverTyped DEF TxOk
    <3>4. TokensOk(Over(ws[t], db'), parent, New(s))
      BY <1>1, <2>1, <3>2, <3>3, TokensFrame DEF TxOk
    <3>5. KeepsLinks(db', ws[t])
      BY <1>2, <1>5, <2>1 DEF TxOk, KeepsLinks
    <3>6. \A b \in Admin : A(b) \in DOMAIN ws[t] \cap DOMAIN db' => ws[t][A(b)] = db'[A(b)]
      BY <1>2, <2>1, <2>3 DEF TxOk
    <3> QED BY <1>2, <2>1, <3>1, <3>4, <3>5, <3>6 DEF TxOk
  <2>5. s.who # a => A(s.who) # A(a)
    BY Keys
  <2>6. AwareOfAccess(z, ws[t], db', parent)
    <3>1. AwareOfAccess(s, ws[t], db, parent)
      BY <2>1 DEF Aware
    <3>2. Entered(s, db) => Entered(z, db')
      BY <1>2, <2>2, <2>5 DEF Entered
    <3>3. Entered(s, db) /\ ~z.late => db'[A(s.who)] = db[A(s.who)] /\ z = s
      BY <1>2, <2>2, <2>5 DEF Entered
    <3> QED BY <1>2, <2>2, <3>1, <3>2, <3>3 DEF AwareOfAccess
  <2>7. AwareOfUsers(z, ws[t], db') /\ AwareOfBroadcasts(z, ws[t], db')
    BY <1>2, <2>1, <2>2 DEF Aware, AwareOfUsers, AwareOfBroadcasts
  <2>8. s.op = "none" => z = Idle
    <3>1. s.op = "none" => s.who = Null
      BY <2>1 DEF Aware, Idle
    <3> QED BY <2>1, <2>2, <3>1, AccessAssumption DEF Aware
  <2>9. Aware(z, ws[t], db', parent)
    BY <2>1, <2>2, <2>6, <2>7, <2>8 DEF Aware
  <2> QED BY <1>3, <2>2, <2>4, <2>9 DEF z
<1>8. Given' /\ World'
  BY <1>2, <1>3 DEF Inv, Given, World, accessVars
<1>9. sess' \in [Tx -> Session]
  BY <1>7
<1>10. DOMAIN ws' = Tx /\ Shaped' /\ Exclusive'
  BY <1>3 DEF Inv, StoreInv, Shaped, Exclusive
<1> QED BY <1>1, <1>3, <1>6, <1>7, <1>8, <1>9, <1>10 DEF Inv, StoreInv

\* Dismissed or demoted, by the operator.
LEMMA DismissStep ==
    ASSUME Inv, NEW a \in Admin, Dismiss(a) \/ Demote(a), UNCHANGED <<queue, inbox>>
    PROVE  Inv'
<1>1. A(a) \in DOMAIN db /\ \A t \in Tx : A(a) \notin DOMAIN ws[t]
  BY DEF Dismiss, Demote
<1>2. db[A(a)] \in [role : Role, active : BOOLEAN, password : BOOLEAN, telegram : BOOLEAN]
  <2>1. db[A(a)] \in RowType["admin"]
    BY <1>1, Keys DEF Inv, StoreInv, StoreOk, Typed
  <2> QED BY <2>1, RowTypes
<1>3. PICK row \in [role : Role, active : BOOLEAN, password : BOOLEAN, telegram : BOOLEAN] :
         db' = [db EXCEPT ![A(a)] = row]
  <2>1. CASE Dismiss(a)
    <3>1. [db[A(a)] EXCEPT !.active = FALSE] \in
             [role : Role, active : BOOLEAN, password : BOOLEAN, telegram : BOOLEAN]
      BY <1>2
    <3>2. db' = [db EXCEPT ![A(a)] = [db[A(a)] EXCEPT !.active = FALSE]]
      BY <2>1 DEF Dismiss
    <3> QED BY <3>1, <3>2
  <2>2. CASE Demote(a)
    <3>1. [db[A(a)] EXCEPT !.role = "accountant"] \in
             [role : Role, active : BOOLEAN, password : BOOLEAN, telegram : BOOLEAN]
      BY <1>2 DEF Role
    <3>2. db' = [db EXCEPT ![A(a)] = [db[A(a)] EXCEPT !.role = "accountant"]]
      BY <2>2 DEF Demote
    <3> QED BY <3>1, <3>2
  <2> QED BY <2>1, <2>2
<1>4. row \in RowType["admin"]
  BY <1>3, RowTypes
<1>5. /\ sess' = [t \in Tx |-> IF sess[t].who = a THEN [sess[t] EXCEPT !.late = TRUE] ELSE sess[t]]
      /\ UNCHANGED <<ws, accessVars>>
  BY DEF Dismiss, Demote
<1> QED BY <1>1, <1>3, <1>4, <1>5, OperatorStep

\* Tokens that expire.
LEMMA LapseStep ==
    ASSUME Inv, (\E a \in Admin : ExpireAccess(a)) \/ (\E n \in Token : Lapse(n)),
           UNCHANGED <<queue, inbox>>
    PROVE  Inv'
<1>1. UNCHANGED <<db, ws, sess, parent, setup, dialogue, crashes, inbox, held, queue>>
  BY DEF ExpireAccess, Lapse, store
<1>2. World' /\ Given'
  BY <1>1, SameWorld DEF Inv, Given
<1> QED BY <1>1, <1>2, Outside
-----------------------------------------------------------------------------
\* A user has written, and is there.
LEMMA ContactStep ==
    ASSUME Inv, NEW t \in Tx, NEW u \in User, NEW op, NEW arg, NEW pc, Contact(t, u, op, arg, pc),
           \/ op = "start" /\ arg \in User \cup {Null} /\ pc = "refer"
           \/ op = "ticket" /\ arg \in Ticket \cup {Null} /\ pc \in {"create ticket", "reply"}
    PROVE  Inv'
<1>1. At(t, "idle") /\ UNCHANGED store /\ UNCHANGED <<parent, held, queue>> /\ World'
  BY SameWorld DEF Contact, Begin, rest, accessVars
<1>2. ws[t] = NoRows /\ Typed(db) /\ Typed(ws[t])
  BY <1>1, Here DEF At, Aware, Unwritten
<1>3. /\ op \in Ops /\ u \in Admin \cup User \cup {Null}
      /\ arg \in Admin \cup Token \cup User \cup Ticket \cup Broadcast \cup {Null}
      /\ pc \in PCs /\ "insert user" \in PCs
  BY DEF Ops, PCs, Act
<1>4. CASE Exists(t, U(u)) /\ sess' = [sess EXCEPT ![t] =
                [Idle EXCEPT !.op = op, !.who = u, !.arg = arg, !.pc = pc,
                             !.seen = Row(t, U(u)).referrer]]
  <2> DEFINE y == Begun(op, u, arg, pc)
             z == [y EXCEPT !.seen = Row(t, U(u)).referrer]
  <2>1. U(u) \in DOMAIN db /\ Row(t, U(u)) \in RowType["user"]
    BY <1>2, <1>4, Seen, Keys
  <2>2. Row(t, U(u)).referrer \in User \cup {Null}
    <3>1. Row(t, U(u)) \in [banned : BOOLEAN, referrer : User \cup {Null}]
      BY <2>1, RowTypes
    <3> QED BY <3>1
  <2>3. sess' = [sess EXCEPT ![t] = z]
    BY <1>4 DEF Begun, Idle
  <2>4. y \in Session /\ y.pc = pc /\ y.op = op /\ y.who = u /\ y.arg = arg
    BY <1>3 DEF Begun, Session, Idle
  <2> HIDE DEF y
  <2>5. z \in Session /\ z.pc = pc /\ z.op = op /\ z.who = u /\ z.arg = arg
    BY <2>2, <2>4 DEF Session
  <2> HIDE DEF z
  <2>6. Runs(z.op, z.pc) /\ z.pc \in Unwritten \cup {"refer"} /\ z.pc # "enqueue"
    BY <2>5 DEF Runs, Unwritten, Act
  <2>7. AwareOfAccess(z, NoRows, db, parent) /\ AwareOfUsers(z, NoRows, db)
    BY <2>1, <2>5 DEF AwareOfAccess, AwareOfUsers, Staff
  <2> QED BY <1>1, <2>3, <2>5, <2>6, <2>7, BeginStep
<1>5. CASE pc = "refer" /\ Enter(t, op, u, arg, "insert user")
  <2> DEFINE z == Begun(op, u, arg, "insert user")
  <2>1. sess' = [sess EXCEPT ![t] = z]
    BY <1>5 DEF Enter, Begun
  <2>2. z \in Session /\ z.pc = "insert user" /\ z.op = op /\ z.who = u /\ z.arg = arg
    BY <1>3 DEF Begun, Session, Idle
  <2> HIDE DEF z
  <2>3. op = "start" /\ arg \in User \cup {Null}
    BY <1>5
  <2>4. Runs(z.op, z.pc) /\ z.pc \in Unwritten
    BY <2>2, <2>3 DEF Runs, Unwritten
  <2>5. AwareOfAccess(z, NoRows, db, parent) /\ AwareOfUsers(z, NoRows, db)
    BY <2>2, <2>3 DEF AwareOfAccess, AwareOfUsers, Staff
  <2> QED BY <1>1, <2>1, <2>2, <2>3, <2>4, <2>5, BeginStep
<1> QED BY <1>4, <1>5 DEF Contact

\* A refusal.
LEMMA RefusedStep ==
    ASSUME Inv, NEW t \in Tx, Refused(t), UNCHANGED rest
    PROVE  Inv'
  BY SameWorld, CloseStep DEF Refused, rest, accessVars

\* The user and its wallet are inserted together.
LEMMA InsertUserStep ==
    ASSUME Inv, NEW t \in Tx, InsertUser(t)
    PROVE  Inv'
<1> DEFINE u == sess[t].who
           f == NewUser(u)
<1>1. sess[t].pc = "insert user" /\ UNCHANGED rest
  BY DEF InsertUser, At
<1>2. sess[t].op = "start" /\ u \in User
  BY <1>1, Here DEF Aware, AwareOfUsers, Runs, Act
<1>3. CASE Exists(t, U(u))
  BY <1>1, <1>3, RefusedStep DEF InsertUser
<1>4. CASE ~Exists(t, U(u))
  <2>1. Write(t, f) /\ Goto(t, "refer")
    BY <1>4 DEF InsertUser
  <2>2. DOMAIN f = {U(u), W(u)} /\ Typed(f)
    <3> DEFINE row == [banned |-> FALSE, referrer |-> Null]
    <3>1. row \in RowType[U(u)[1]]
      <4>1. row \in [banned : BOOLEAN, referrer : User \cup {Null}]
        OBVIOUS
      <4> HIDE DEF row
      <4> QED BY <4>1, Keys, RowTypes, ZenonT(30)
    <3>2. 0 \in RowType[W(u)[1]]
      BY Keys, RowTypes
    <3> HIDE DEF row
    <3>3. /\ DOMAIN Is(U(u), row) = {U(u)} /\ Typed(Is(U(u), row))
          /\ DOMAIN Is(W(u), 0) = {W(u)} /\ Typed(Is(W(u), 0))
      BY <3>1, <3>2, OneRow
    <3>4. f = Over(Is(U(u), row), Is(W(u), 0))
      BY DEF NewUser, row
    <3>5. DOMAIN f = {U(u), W(u)}
      BY <3>3, <3>4 DEF Over
    <3> QED BY <3>3, <3>4, <3>5, OverTyped
  <2> HIDE DEF f
  <2>3. /\ \A r \in DOMAIN f : r[1] \in {"admin", "user", "wallet", "referral", "ticket"}
        /\ \A a \in Admin : A(a) \notin DOMAIN f
        /\ \A w \in User : U(w) \in DOMAIN f => W(w) \in DOMAIN f
    BY <2>2, Keys
  <2>4. Runs(sess[t].op, "refer")
    BY <1>2 DEF Runs
  <2> QED BY <1>1, <1>2, <2>1, <2>2, <2>3, <2>4, WritePlain
<1> QED BY <1>3, <1>4

\* A handler of /start goes to its commit without a write.
LEMMA StartEnds ==
    ASSUME Inv, NEW t \in Tx, sess[t].pc \in {"refer", "ensure referral"}, UNCHANGED store,
           Goto(t, "commit"), UNCHANGED rest
    PROVE  Inv'
<1> DEFINE s == sess[t]
           z == [s EXCEPT !.pc = "commit"]
<1>1. s \in Session /\ "commit" \in PCs /\ Aware(s, ws[t], db, parent)
  BY Here DEF PCs
<1>2. /\ z \in Session /\ z.pc = "commit" /\ z.op = s.op /\ z.who = s.who /\ z.arg = s.arg
      /\ sess' = [sess EXCEPT ![t] = z]
  BY <1>1, Gone DEF Goto
<1>3. s.op = "start"
  BY <1>1 DEF Aware, Runs, Act
<1> HIDE DEF z
<1>4. AwareOfUsers(z, ws[t], db)
  BY <1>1, <1>2, <1>3 DEF Aware, AwareOfUsers
<1>5. AwareOfBroadcasts(z, ws[t], db)
  BY <1>1, <1>2, <1>3 DEF Aware, AwareOfBroadcasts
<1>6. AwareOfAccess(z, ws[t], db, parent)
  BY <1>2, <1>3 DEF AwareOfAccess, Staff
<1>7. Aware(z, ws[t], db, parent)
  BY <1>2, <1>3, <1>4, <1>5, <1>6 DEF Aware, Runs, Unwritten, Act
<1>8. World' /\ Given' /\ parent' = parent
  BY SameWorld DEF Inv, Given, rest, accessVars, store
<1> QED BY <1>2, <1>7, <1>8, QuietDone

\* The user gets a referrer.
LEMMA ReferStep ==
    ASSUME Inv, NEW t \in Tx, Refer(t)
    PROVE  Inv'
<1> DEFINE u == sess[t].who
           row == [Row(t, U(u)) EXCEPT !.referrer = sess[t].arg]
           f == Is(U(u), row)
<1>1. sess[t].pc = "refer" /\ UNCHANGED rest
  BY DEF Refer, At
<1>2. /\ sess[t].op = "start" /\ u \in User /\ sess[t].arg \in User \cup {Null}
      /\ Exists(t, U(u)) /\ Typed(db) /\ Typed(ws[t])
  BY <1>1, Here DEF Aware, AwareOfUsers, Runs, Act, Exists
<1>3. CASE Goto(t, "commit") /\ UNCHANGED store
  BY <1>1, <1>3, StartEnds
<1>4. CASE Referable(t) /\ Write(t, f) /\ Goto(t, "ensure referral")
  <2>1. sess[t].arg \in User
    BY <1>2, <1>4 DEF Referable
  <2>2. Row(t, U(u)) \in RowType["user"]
    BY <1>2, Seen, Keys
  <2>3. row \in [banned : BOOLEAN, referrer : User \cup {Null}]
    BY <2>1, <2>2, RowTypes
  <2> HIDE DEF row
  <2>4. row \in RowType[U(u)[1]]
    BY <2>3, Keys, RowTypes
  <2>5. DOMAIN f = {U(u)} /\ Typed(f)
    BY <2>4, OneRow
  <2> HIDE DEF f
  <2>6. /\ \A r \in DOMAIN f : r[1] \in {"admin", "user", "wallet", "referral", "ticket"}
        /\ \A a \in Admin : A(a) \notin DOMAIN f
        /\ \A w \in User : U(w) \in DOMAIN f => U(w) \in DOMAIN ws[t] \cup DOMAIN db
    BY <1>2, <2>5, Keys DEF Exists
  <2>7. Runs(sess[t].op, "ensure referral")
    BY <1>2 DEF Runs
  <2> QED BY <1>1, <1>2, <1>4, <2>1, <2>5, <2>6, <2>7, WritePlain
<1> QED BY <1>3, <1>4 DEF Refer

\* And the referral is inserted.
LEMMA EnsureReferralStep ==
    ASSUME Inv, NEW t \in Tx, EnsureReferral(t)
    PROVE  Inv'
<1> DEFINE u == sess[t].who
           f == Is(R(u), sess[t].arg)
<1>1. sess[t].pc = "ensure referral" /\ UNCHANGED rest /\ Goto(t, "commit")
  BY DEF EnsureReferral, At
<1>2. sess[t].op = "start" /\ sess[t].arg \in User /\ U(u) \in DOMAIN ws[t] \cup DOMAIN db
  BY <1>1, Here DEF Aware, AwareOfUsers, Runs, Act
<1>3. CASE UNCHANGED store
  BY <1>1, <1>3, StartEnds
<1>4. CASE Write(t, f)
  <2>1. sess[t].arg \in RowType[R(u)[1]]
    BY <1>2, Keys, RowTypes
  <2>2. DOMAIN f = {R(u)} /\ Typed(f)
    BY <2>1, OneRow
  <2> HIDE DEF f
  <2>3. /\ \A r \in DOMAIN f : r[1] \in {"admin", "user", "wallet", "referral", "ticket"}
        /\ \A a \in Admin : A(a) \notin DOMAIN f
        /\ \A w \in User : U(w) \notin DOMAIN f
    BY <2>2, Keys
  <2>4. Runs(sess[t].op, "commit")
    BY <1>2 DEF Runs
  <2> QED BY <1>1, <1>2, <1>4, <2>2, <2>3, <2>4, WritePlain
<1> QED BY <1>3, <1>4 DEF EnsureReferral

\* A ban, or its end.
LEMMA BanStep ==
    ASSUME Inv, NEW t \in Tx, Ban(t)
    PROVE  Inv'
<1> DEFINE u == sess[t].arg
<1>1. sess[t].pc = "ban" /\ UNCHANGED rest
  BY DEF Ban, At
<1>2. /\ sess[t].op \in Staff /\ u \in User /\ Typed(db) /\ Typed(ws[t])
  BY <1>1, Here DEF Aware, AwareOfAccess, Runs, Act
<1>3. CASE ~Exists(t, U(u))
  BY <1>1, <1>3, RefusedStep DEF Ban
<1>4. CASE Exists(t, U(u))
  <2>1. PICK banned \in BOOLEAN :
           /\ Write(t, Is(U(u), [Row(t, U(u)) EXCEPT !.banned = banned]))
           /\ Goto(t, "commit")
    BY <1>4 DEF Ban
  <2> DEFINE row == [Row(t, U(u)) EXCEPT !.banned = banned]
             f == Is(U(u), row)
  <2>2. Row(t, U(u)) \in RowType["user"]
    BY <1>2, <1>4, Seen, Keys
  <2>3. row \in [banned : BOOLEAN, referrer : User \cup {Null}]
    BY <2>2, RowTypes
  <2>4. Write(t, f)
    BY <2>1
  <2> HIDE DEF row
  <2>5. row \in RowType[U(u)[1]]
    BY <2>3, Keys, RowTypes
  <2>6. DOMAIN f = {U(u)} /\ Typed(f)
    BY <2>5, OneRow
  <2> HIDE DEF f
  <2>7. /\ \A r \in DOMAIN f : r[1] \in {"admin", "user", "wallet", "referral", "ticket"}
        /\ \A a \in Admin : A(a) \notin DOMAIN f
        /\ \A w \in User : U(w) \in DOMAIN f => U(w) \in DOMAIN ws[t] \cup DOMAIN db
    BY <1>4, <2>6, Keys DEF Exists
  <2>8. Runs(sess[t].op, "commit") /\ sess[t].op \notin {"none", "login", "refresh", "dispatch", "start"}
    BY <1>2 DEF Runs, Staff
  <2> QED BY <1>1, <2>1, <2>4, <2>6, <2>7, <2>8, WritePlain
<1> QED BY <1>3, <1>4
-----------------------------------------------------------------------------
\* A new ticket.
LEMMA CreateTicketStep ==
    ASSUME Inv, NEW t \in Tx, CreateTicket(t)
    PROVE  Inv'
<1> DEFINE u == sess[t].who
<1>1. sess[t].pc = "create ticket" /\ UNCHANGED rest /\ Goto(t, "commit")
  BY DEF CreateTicket, At
<1>2. sess[t].op = "ticket" /\ u \in User
  BY <1>1, Here DEF Aware, AwareOfUsers, Runs, Act
<1>3. PICK k \in Ticket : Write(t, Is(T(k), NewTicket(u)))
  BY DEF CreateTicket
<1> DEFINE f == Is(T(k), NewTicket(u))
<1>4. NewTicket(u) \in RowType[T(k)[1]]
  <2>1. NewTicket(u) \in [user : User, status : {"open", "pending", "answered", "closed"},
                          last : {"user", "admin"}]
    BY <1>2 DEF NewTicket
  <2> QED BY <2>1, Keys, RowTypes, ZenonT(30)
<1>5. DOMAIN f = {T(k)} /\ Typed(f)
  BY <1>4, OneRow
<1>6. Write(t, f)
  BY <1>3
<1> HIDE DEF f
<1>7. /\ \A r \in DOMAIN f : r[1] \in {"admin", "user", "wallet", "referral", "ticket"}
      /\ \A a \in Admin : A(a) \notin DOMAIN f
      /\ \A w \in User : U(w) \notin DOMAIN f
  BY <1>5, Keys
<1>8. Runs(sess[t].op, "commit")
  BY <1>2 DEF Runs
<1> QED BY <1>1, <1>2, <1>5, <1>6, <1>7, <1>8, WritePlain

\* The handler has read its ticket.
LEMMA ReadTicketStep ==
    ASSUME Inv, NEW t \in Tx, ReadTicket(t)
    PROVE  Inv'
<1> DEFINE s == sess[t]
           k == sess[t].arg
           pc == IF At(t, "reply") THEN "post" ELSE "set status"
           z == [[s EXCEPT !.seen = Row(t, T(k)).status] EXCEPT !.pc = pc]
<1>1. s.pc \in {"reply", "close"} /\ UNCHANGED rest
  BY DEF ReadTicket
<1>2. CASE Refused(t)
  BY <1>1, <1>2, RefusedStep
<1>3. CASE ~Refused(t)
  <2>1. Exists(t, T(k)) /\ UNCHANGED store
    BY <1>3 DEF ReadTicket
  <2>2. s \in Session /\ Aware(s, ws[t], db, parent) /\ Typed(db) /\ Typed(ws[t])
    BY Here
  <2>3. sess' = [sess EXCEPT ![t] = z]
    BY <1>3, <2>2 DEF ReadTicket, Inv
  <2>4. ws[t] = NoRows /\ T(k) \in DOMAIN db
    <3>1. ws[t] = NoRows
      BY <1>1, <2>2 DEF Aware, Unwritten, Act
    <3> QED BY <2>1, <2>2, <3>1, Seen
  <2>5. Row(t, T(k)).status \in {"open", "pending", "answered", "closed"}
    <3>1. Row(t, T(k)) \in RowType["ticket"]
      BY <2>1, <2>2, Seen, Keys
    <3>2. Row(t, T(k)) \in [user : User, status : {"open", "pending", "answered", "closed"},
                            last : {"user", "admin"}]
      BY <3>1, RowTypes
    <3> QED BY <3>2
  <2>6. z \in Session /\ z.pc = pc /\ z.op = s.op /\ z.arg = k
    <3> DEFINE y == [s EXCEPT !.seen = Row(t, T(k)).status]
    <3>1. y \in Session /\ y.op = s.op /\ y.arg = k
      BY <2>2, <2>5 DEF Session
    <3>2. pc \in PCs
      BY DEF PCs
    <3> HIDE DEF y, pc
    <3>3. LET x == [y EXCEPT !.pc = pc]
          IN x \in Session /\ x.pc = pc /\ x.op = s.op /\ x.arg = k
      BY <3>1, <3>2, Gone
    <3> QED BY <3>3 DEF y
  <2>7. pc \in {"post", "set status"} /\ Runs(s.op, pc) /\ s.op \in Staff \cup {"ticket"}
    BY <1>1, <2>2 DEF Aware, Runs, At, Act
  <2> HIDE DEF z, pc
  <2>8. AwareOfAccess(z, NoRows, db, parent) /\ AwareOfUsers(z, NoRows, db)
    BY <2>4, <2>6, <2>7 DEF AwareOfAccess, AwareOfUsers, Act, Staff
  <2>9. AwareOfBroadcasts(z, NoRows, db)
    BY <2>6, <2>7, Nothing DEF AwareOfBroadcasts, Staff
  <2>10. Aware(z, ws[t], db, parent)
    BY <2>4, <2>6, <2>7, <2>8, <2>9 DEF Aware, Staff
  <2>11. World' /\ Given' /\ parent' = parent
    BY <1>1, <2>1, SameWorld DEF Inv, Given, rest, accessVars, store
  <2>12. s.pc # "rotate" /\ z.pc # "rotate"
    BY <1>1, <2>6, <2>7
  <2> QED BY <2>1, <2>3, <2>6, <2>10, <2>11, <2>12, QuietDone
<1> QED BY <1>2, <1>3

\* A write of the ticket that was read.
LEMMA TicketWrite ==
    ASSUME Inv, NEW t \in Tx, sess[t].pc \in {"post", "set status"},
           \E row \in RowType["ticket"] : Write(t, Is(T(sess[t].arg), row)),
           Goto(t, "commit"), UNCHANGED rest
    PROVE  Inv'
<1> PICK row \in RowType["ticket"] : Write(t, Is(T(sess[t].arg), row))
  OBVIOUS
<1> DEFINE k == sess[t].arg
           f == Is(T(k), row)
<1>1. sess[t].op \in Staff \cup {"ticket"}
  BY Here DEF Aware, Runs, Act
<1>2. DOMAIN f = {T(k)} /\ Typed(f)
  <2>1. row \in RowType[T(k)[1]]
    BY Keys
  <2> QED BY <2>1, OneRow
<1>3. Write(t, f)
  OBVIOUS
<1> HIDE DEF f
<1>4. /\ \A r \in DOMAIN f : r[1] \in {"admin", "user", "wallet", "referral", "ticket"}
      /\ \A a \in Admin : A(a) \notin DOMAIN f
      /\ \A w \in User : U(w) \notin DOMAIN f
  BY <1>2, Keys
<1>5. Runs(sess[t].op, "commit") /\ sess[t].op \notin {"none", "login", "refresh", "dispatch", "start"}
  BY <1>1 DEF Runs, Staff
<1> QED BY <1>2, <1>3, <1>4, <1>5, WritePlain

\* The row of a ticket after a reply or a change of its status.
LEMMA TicketRow ==
    ASSUME Inv, NEW t \in Tx, sess[t].pc \in {"post", "set status"},
           NEW status \in {"open", "pending", "answered", "closed"}
    PROVE  LET k == sess[t].arg
               row == Row(t, T(k))
           IN /\ T(k) \in DOMAIN db /\ ws[t] = NoRows /\ row = db[T(k)]
              /\ row \in [user : User, status : {"open", "pending", "answered", "closed"},
                          last : {"user", "admin"}]
              /\ Changed(t, status) \in {"open", "pending", "answered", "closed"}
<1> DEFINE k == sess[t].arg
           row == Row(t, T(k))
<1>1. T(k) \in DOMAIN db /\ ws[t] = NoRows /\ Typed(db) /\ Typed(ws[t])
  BY Here DEF Aware, AwareOfUsers, Unwritten
<1>2. Exists(t, T(k))
  BY <1>1 DEF Exists
<1>3. row \in RowType["ticket"] /\ row = db[T(k)]
  BY <1>1, <1>2, Seen, Keys
<1>4. row \in [user : User, status : {"open", "pending", "answered", "closed"},
               last : {"user", "admin"}]
  BY <1>3, RowTypes
<1>5. Changed(t, status) \in {"open", "pending", "answered", "closed"}
  <2>1. row.status \in {"open", "pending", "answered", "closed"}
    BY <1>4
  <2> HIDE DEF row
  <2> QED BY <2>1 DEF Changed, row
<1> QED BY <1>1, <1>3, <1>4, <1>5

\* A reply.
LEMMA PostStep ==
    ASSUME Inv, NEW t \in Tx, Post(t)
    PROVE  Inv'
<1> DEFINE k == sess[t].arg
           row == Row(t, T(k))
           status == Changed(t, ReplyStatus(Sender(t)))
           new == [row EXCEPT !.status = status, !.last = Sender(t)]
           rows == [user : User, status : {"open", "pending", "answered", "closed"},
                    last : {"user", "admin"}]
<1>1. sess[t].pc = "post" /\ Write(t, Is(T(k), new)) /\ Goto(t, "commit") /\ UNCHANGED rest
  BY DEF Post, At
<1>2. ReplyStatus(Sender(t)) \in {"open", "pending", "answered", "closed"}
  BY DEF ReplyStatus
<1>3. Sender(t) \in {"user", "admin"}
  BY DEF Sender
<1>4. row \in rows /\ status \in {"open", "pending", "answered", "closed"}
  BY <1>1, <1>2, TicketRow
<1>5. new \in rows
  <2> HIDE DEF row, status
  <2> QED BY <1>3, <1>4
<1>6. new \in RowType["ticket"]
  BY <1>5, RowTypes
<1> HIDE DEF new
<1>7. /\ sess[t].pc \in {"post", "set status"}
      /\ \E r \in RowType["ticket"] : Write(t, Is(T(sess[t].arg), r))
  BY <1>1, <1>6
<1> QED BY <1>1, <1>7, TicketWrite

\* A status set by the staff.
LEMMA SetStatusStep ==
    ASSUME Inv, NEW t \in Tx, SetStatus(t)
    PROVE  Inv'
<1> DEFINE k == sess[t].arg
           row == Row(t, T(k))
           rows == [user : User, status : {"open", "pending", "answered", "closed"},
                    last : {"user", "admin"}]
<1>1. sess[t].pc = "set status" /\ Goto(t, "commit") /\ UNCHANGED rest
  BY DEF SetStatus, At
<1>2. PICK status \in {"open", "pending", "answered", "closed"} :
         Write(t, Is(T(k), [row EXCEPT !.status = Changed(t, status),
                                       !.last = IF status = "answered" THEN "admin" ELSE @]))
  BY DEF SetStatus, TicketStatus
<1> DEFINE last == IF status = "answered" THEN "admin" ELSE row.last
           new == [row EXCEPT !.status = Changed(t, status), !.last = last]
<1>3. row \in rows /\ Changed(t, status) \in {"open", "pending", "answered", "closed"}
  BY <1>1, <1>2, TicketRow
<1>4. new \in rows
  <2> HIDE DEF row
  <2>1. last \in {"user", "admin"}
    BY <1>3
  <2> HIDE DEF last
  <2> QED BY <1>3, <2>1
<1>5. new \in RowType["ticket"] /\ Write(t, Is(T(k), new))
  BY <1>2, <1>4, RowTypes
<1> HIDE DEF new
<1>6. /\ sess[t].pc \in {"post", "set status"}
      /\ \E r \in RowType["ticket"] : Write(t, Is(T(sess[t].arg), r))
  BY <1>1, <1>5
<1> QED BY <1>1, <1>6, TicketWrite

\* The end of a handler, and of a process.
LEMMA FinishStep ==
    ASSUME Inv, NEW t \in Tx, Finish(t) \/ Crash(t)
    PROVE  Inv'
<1>1. CASE Finish(t)
  <2>1. Whole(sess[t], ws[t])
    BY <1>1, Here DEF Finish, At, Aware, AwareOfBroadcasts, Whole
  <2>2. World' /\ UNCHANGED <<parent, held, queue>>
    BY <1>1, SameWorld DEF Finish, rest, accessVars
  <2> QED BY <1>1, <2>1, <2>2, CloseStep DEF Finish
<1>2. CASE Crash(t)
  <2>1. World'
    BY <1>2 DEF Inv, World, Crash
  <2> QED BY <1>2, <2>1, CloseStep DEF Crash
<1> QED BY <1>1, <1>2
-----------------------------------------------------------------------------
\* A broadcast is inserted.
LEMMA ComposeStep ==
    ASSUME Inv, NEW t \in Tx, Compose(t)
    PROVE  Inv'
<1> DEFINE s == sess[t]
<1>1. PICK b \in Broadcast : /\ ~Exists(t, B(b))
                             /\ Write(t, Is(B(b), NewBroadcast))
                             /\ sess' = [sess EXCEPT ![t].pc = "publish", ![t].arg = b]
  BY DEF Compose
<1> DEFINE z == [[s EXCEPT !.arg = b] EXCEPT !.pc = "publish"]
           f == Is(B(b), NewBroadcast)
<1>2. /\ s \in Session /\ Aware(s, ws[t], db, parent) /\ TxOk(db, ws[t], parent, New(s))
      /\ Typed(db) /\ parent \in [Token -> Token \cup {Null}]
  BY Here
<1>3. s.pc = "broadcast" /\ UNCHANGED rest
  BY DEF Compose, At
<1>4. ws[t] = NoRows /\ s.op \in Staff /\ New(s) = Null
  BY <1>2, <1>3 DEF Aware, Unwritten, Act, Runs, New
<1>5. z \in Session /\ z.pc = "publish" /\ z.arg = b /\ z.op = s.op
  <2> DEFINE y == [s EXCEPT !.arg = b]
  <2>1. y \in Session /\ y.arg = b /\ y.op = s.op
    BY <1>2 DEF Session
  <2>2. "publish" \in PCs
    BY DEF PCs
  <2> HIDE DEF y
  <2>3. LET x == [y EXCEPT !.pc = "publish"]
        IN x \in Session /\ x.pc = "publish" /\ x.arg = b /\ x.op = s.op
    BY <2>1, <2>2, Gone
  <2> QED BY <2>3 DEF y
<1>6. sess' = [sess EXCEPT ![t] = z]
  BY <1>1, <1>2 DEF Inv, Session
<1>7. DOMAIN f = {B(b)} /\ f[B(b)] = NewBroadcast /\ Typed(f)
  <2>1. NewBroadcast \in [status : {"queued", "sending", "done"}, sent : 0..Cardinality(User)]
    <3>1. Cardinality(User) \in Nat
      BY BackOfficeAssumption, FS_CardinalityType
    <3> QED BY <3>1 DEF NewBroadcast
  <2>2. NewBroadcast \in RowType[B(b)[1]]
    BY <2>1, Keys, RowTypes
  <2> QED BY <2>2, OneRow
<1>8. Over(f, ws[t]) = f
  <2>1. f = [r \in DOMAIN f |-> f[r]]
    BY DEF Is
  <2> HIDE DEF f
  <2> QED BY <1>4, <2>1, Nothing
<1> HIDE DEF z, f
<1>9. TxOk(db, f, parent, New(z))
  <2>1. /\ \A n \in Token : RT(n) \notin DOMAIN f
        /\ \A a \in Admin : A(a) \notin DOMAIN f
        /\ \A u \in User : U(u) \notin DOMAIN f
    BY <1>7, Keys
  <2>2. New(z) = Null
    BY <1>5 DEF New
  <2> QED BY <1>2, <1>4, <1>7, <1>8, <2>1, <2>2, PlainWrite
<1>10. Aware(z, f, db, parent)
  <2>1. B(b) \notin DOMAIN db
    BY <1>1 DEF Exists
  <2>2. AwareOfBroadcasts(z, f, db)
    BY <1>4, <1>5, <1>7, <2>1, Keys DEF AwareOfBroadcasts, Staff
  <2>3. AwareOfAccess(z, f, db, parent) /\ AwareOfUsers(z, f, db)
    BY <1>4, <1>5 DEF AwareOfAccess, AwareOfUsers, Staff, Act
  <2> QED BY <1>4, <1>5, <2>2, <2>3 DEF Aware, Runs, Unwritten, Staff, Act
<1>11. World' /\ UNCHANGED <<parent, held, queue>>
  BY <1>3, SameWorld DEF rest, accessVars
<1>12. Write(t, f)
  BY <1>1 DEF f
<1> QED BY <1>5, <1>6, <1>8, <1>9, <1>10, <1>11, <1>12, WriteDone

\* And committed, before it is enqueued.
LEMMA PublishStep ==
    ASSUME Inv, NEW t \in Tx, Publish(t)
    PROVE  Inv'
<1> DEFINE s == sess[t]
           z == [s EXCEPT !.pc = "enqueue"]
<1>1. s.pc = "publish" /\ Commit(t) /\ Goto(t, "enqueue") /\ UNCHANGED rest
  BY DEF Publish, At
<1>2. s \in Session /\ Aware(s, ws[t], db, parent)
  BY Here
<1>3. /\ z \in Session /\ z.pc = "enqueue" /\ z.op = s.op /\ z.arg = s.arg
      /\ sess' = [sess EXCEPT ![t] = z]
  <2>1. "enqueue" \in PCs
    BY DEF PCs
  <2> QED BY <1>1, <1>2, <2>1, Gone DEF Goto
<1> HIDE DEF z
<1>4. /\ s.arg \in Broadcast /\ B(s.arg) \in DOMAIN ws[t] /\ ws[t][B(s.arg)] = NewBroadcast
      /\ s.op \in Staff /\ \A b \in Broadcast : B(b) \in DOMAIN ws[t] => b = s.arg
  BY <1>1, <1>2 DEF Aware, AwareOfBroadcasts, Runs, Act
<1>5. Whole(s, ws[t])
  BY <1>1, <1>4 DEF Whole, NewBroadcast
<1>6. /\ DOMAIN db' = DOMAIN ws[t] \cup DOMAIN db
      /\ DOMAIN db \subseteq DOMAIN db'
  BY <1>1, EndGrows
<1>7. Aware(z, NoRows, db', parent)
  <2>1. AwareOfBroadcasts(z, NoRows, db')
    BY <1>3, <1>4, <1>6, Nothing DEF AwareOfBroadcasts, Staff
  <2>2. AwareOfAccess(z, NoRows, db', parent) /\ AwareOfUsers(z, NoRows, db')
    BY <1>3, <1>4 DEF AwareOfAccess, AwareOfUsers, Staff, Act
  <2> QED BY <1>3, <1>4, <2>1, <2>2 DEF Aware, Runs, Staff
<1>8. World' /\ Given' /\ parent' = parent
  BY <1>1, <1>6, SameWorld DEF Inv, Given, rest, accessVars
<1>9. z.pc # "rotate"
  BY <1>3
<1> QED BY <1>1, <1>3, <1>5, <1>7, <1>8, <1>9, EndDone

\* The task.
LEMMA EnqueueStep ==
    ASSUME Inv, NEW t \in Tx, Enqueue(t)
    PROVE  Inv'
<1>1. /\ sess[t].pc = "enqueue" /\ queue' = queue \cup {sess[t].arg}
      /\ sess' = [sess EXCEPT ![t] = Idle] /\ UNCHANGED <<store, accessVars, inbox>>
  BY DEF Enqueue, At, Close
<1>2. sess[t].arg \in Broadcast /\ B(sess[t].arg) \in DOMAIN db /\ ws[t] = NoRows
  BY <1>1, Here DEF Aware, AwareOfBroadcasts, Unwritten
<1>3. World'
  BY <1>1, <1>2 DEF Inv, World, accessVars
<1>4. Given'
  BY <1>1, <1>2 DEF Inv, Given, accessVars, store
<1> QED BY <1>1, <1>2, <1>3, <1>4, AtRest, QuietDone DEF accessVars
-----------------------------------------------------------------------------
\* A statement of the worker's that writes the broadcast b.
LEMMA BroadcastWrite ==
    ASSUME Inv, NEW t \in Tx, NEW b \in Broadcast, NEW z \in Session,
           sess' = [sess EXCEPT ![t] = z], NEW f, Write(t, f),
           DOMAIN f = {B(b)}, f[B(b)] \in RowType["broadcast"],
           sess[t].pc \in {"idle", "send"}, z.op = "dispatch", z.arg = b,
           z.pc = "audience" \/ (z.pc = "commit" /\ f[B(b)].status = "done"),
           \A c \in Broadcast : B(c) \in DOMAIN ws[t] => c = b,
           UNCHANGED <<setup, dialogue, crashes, inbox, parent, held, queue>>
    PROVE  Inv'
<1> DEFINE x == Over(f, ws[t])
<1>1. /\ TxOk(db, ws[t], parent, Null) /\ Typed(db)
      /\ parent \in [Token -> Token \cup {Null}]
  BY Here DEF New
<1>2. /\ \A n \in Token : RT(n) \notin DOMAIN f
      /\ \A a \in Admin : A(a) \notin DOMAIN f
      /\ \A u \in User : U(u) \notin DOMAIN f
      /\ Typed(f)
  BY Keys DEF Typed
<1>3. TxOk(db, x, parent, Null)
  BY <1>1, <1>2, PlainWrite
<1>4. /\ DOMAIN x = DOMAIN f \cup DOMAIN ws[t]
      /\ x[B(b)] = f[B(b)]
  BY DEF Over
<1> HIDE DEF x
<1>5. New(z) = Null
  BY DEF New
<1>6. AwareOfBroadcasts(z, x, db)
  BY <1>4, Keys DEF AwareOfBroadcasts
<1>7. AwareOfAccess(z, x, db, parent) /\ AwareOfUsers(z, x, db)
  BY DEF AwareOfAccess, AwareOfUsers, Staff, Act
<1>8. Runs(z.op, z.pc) /\ z.pc \notin Unwritten
  BY DEF Runs, Unwritten, Act
<1>9. Aware(z, x, db, parent)
  BY <1>6, <1>7, <1>8 DEF Aware
<1>10. World' /\ UNCHANGED <<parent, held, queue>>
  BY SameWorld
<1> QED BY <1>3, <1>5, <1>9, <1>10, WriteDone DEF x

\* A worker takes a task.
LEMMA DispatchStep ==
    ASSUME Inv, NEW t \in Tx, NEW b \in Broadcast, Dispatch(t, b)
    PROVE  Inv'
<1> DEFINE z == Begun("dispatch", Null, b, "audience")
           row == [Row(t, B(b)) EXCEPT !.status = "sending"]
           f == Is(B(b), row)
<1>1. /\ At(t, "idle") /\ b \in queue /\ Write(t, f) /\ UNCHANGED rest
      /\ sess' = [sess EXCEPT ![t] = z]
  BY DEF Dispatch, Begin, Enter, Begun
<1>2. ws[t] = NoRows /\ Typed(db) /\ Typed(ws[t]) /\ sess[t].pc = "idle"
  BY <1>1, Here DEF At, Aware, Unwritten
<1>3. z \in Session /\ z.pc = "audience" /\ z.op = "dispatch" /\ z.arg = b
  BY DEF Begun, Session, Idle, Ops, PCs
<1>4. row \in RowType["broadcast"]
  <2>1. Exists(t, B(b))
    BY <1>1 DEF Inv, Given, Exists
  <2>2. Row(t, B(b)) \in RowType["broadcast"]
    BY <1>2, <2>1, Seen, Keys
  <2>3. Row(t, B(b)) \in [status : {"queued", "sending", "done"}, sent : 0..Cardinality(User)]
    BY <2>2, RowTypes
  <2>4. row \in [status : {"queued", "sending", "done"}, sent : 0..Cardinality(User)]
    BY <2>3
  <2> QED BY <2>4, RowTypes
<1> HIDE DEF z, row
<1>5. DOMAIN f = {B(b)} /\ f[B(b)] \in RowType["broadcast"]
  BY <1>4 DEF Is
<1> HIDE DEF f
<1>6. \A c \in Broadcast : B(c) \notin DOMAIN ws[t]
  BY <1>2, Nothing
<1>7. UNCHANGED <<setup, dialogue, crashes, inbox, parent, held, queue>>
  BY <1>1 DEF rest, accessVars
<1> QED BY <1>1, <1>2, <1>3, <1>5, <1>6, <1>7, BroadcastWrite

\* It reads whom to send it to.
LEMMA AudienceStep ==
    ASSUME Inv, NEW t \in Tx, Audience(t)
    PROVE  Inv'
<1> DEFINE s == sess[t]
           todo == {u \in User : Exists(t, U(u)) /\ ~Row(t, U(u)).banned}
           z == [[[s EXCEPT !.n = 0] EXCEPT !.todo = todo] EXCEPT !.pc = "send"]
<1>1. s.pc = "audience" /\ UNCHANGED store /\ UNCHANGED rest
  BY DEF Audience, At
<1>2. s \in Session /\ Aware(s, ws[t], db, parent)
  BY Here
<1>3. todo \subseteq User
  OBVIOUS
<1>4. sess' = [sess EXCEPT ![t] = z]
  BY <1>2 DEF Audience, Inv, Session
<1> HIDE DEF todo
<1>5. /\ z \in Session /\ z.pc = "send" /\ z.op = s.op /\ z.arg = s.arg
      /\ z.n = 0 /\ z.todo = todo
  <2>1. "send" \in PCs
    BY DEF PCs
  <2> QED BY <1>2, <1>3, <2>1 DEF Session
<1> HIDE DEF z
<1>6. s.op = "dispatch"
  BY <1>1, <1>2 DEF Aware, Runs, Act
<1>7. 0 <= Cardinality(User \ todo)
  <2>1. IsFiniteSet(User \ todo)
    BY BackOfficeAssumption, FS_Difference
  <2>2. Cardinality(User \ todo) \in Nat
    BY <2>1, FS_CardinalityType
  <2> QED BY <2>2
<1>8. AwareOfBroadcasts(z, ws[t], db)
  BY <1>2, <1>3, <1>5, <1>6, <1>7 DEF Aware, AwareOfBroadcasts
<1>9. AwareOfAccess(z, ws[t], db, parent) /\ AwareOfUsers(z, ws[t], db)
  BY <1>5, <1>6 DEF AwareOfAccess, AwareOfUsers, Staff, Act
<1>10. Aware(z, ws[t], db, parent)
  BY <1>5, <1>6, <1>8, <1>9 DEF Aware, Runs, Unwritten, Act
<1>11. World' /\ Given' /\ parent' = parent
  BY <1>1, SameWorld DEF Inv, Given, rest, accessVars, store
<1>12. s.pc # "rotate" /\ z.pc # "rotate"
  BY <1>1, <1>5
<1> QED BY <1>1, <1>4, <1>5, <1>10, <1>11, <1>12, QuietDone

\* One more of those the worker has done with, and it may have been sent.
LEMMA OneMoreDone ==
    ASSUME NEW todo \in SUBSET User, NEW u \in todo, NEW n \in Nat, NEW m \in {n, n + 1},
           n <= Cardinality(User \ todo)
    PROVE  m <= Cardinality(User \ (todo \ {u}))
<1>1. IsFiniteSet(User \ todo)
  BY BackOfficeAssumption, FS_Difference
<1>2. User \ (todo \ {u}) = (User \ todo) \cup {u}
  OBVIOUS
<1>3. Cardinality((User \ todo) \cup {u}) = Cardinality(User \ todo) + 1
  BY <1>1, FS_AddElement
<1>4. Cardinality(User \ todo) \in Nat
  BY <1>1, FS_CardinalityType
<1> QED BY <1>2, <1>3, <1>4

\* The session of a worker after a message, and what users have received.
LEMMA SendEffect ==
    ASSUME Inv, NEW t \in Tx, NEW u \in sess[t].todo, At(t, "send"), NEW ok \in BOOLEAN,
           inbox' = IF ok THEN [inbox EXCEPT ![sess[t].arg][u] = @ + 1] ELSE inbox,
           sess' = [sess EXCEPT ![t].todo = @ \ {u}, ![t].n = IF ok THEN @ + 1 ELSE @]
    PROVE  LET s == sess[t]
               z == sess'[t]
           IN /\ z \in Session /\ sess' = [sess EXCEPT ![t] = z]
              /\ z.pc = "send" /\ z.op = s.op /\ s.op = "dispatch" /\ z.arg = s.arg
              /\ s.arg \in Broadcast /\ s.todo \subseteq User /\ z.todo = s.todo \ {u}
              /\ s.n \in Nat /\ z.n = IF ok THEN s.n + 1 ELSE s.n
              /\ s.n <= Cardinality(User \ s.todo)
              /\ inbox' \in [Broadcast -> [User -> Nat]]
<1> DEFINE s == sess[t]
           m == IF ok THEN s.n + 1 ELSE s.n
           z == [[s EXCEPT !.todo = s.todo \ {u}] EXCEPT !.n = m]
<1>1. s \in Session /\ s.pc = "send" /\ Runs(s.op, s.pc) /\ AwareOfBroadcasts(s, ws[t], db)
  BY Here DEF At, Aware
<1>2. s.op = "dispatch"
  BY <1>1 DEF Runs, Act
<1>3. /\ s.arg \in Broadcast /\ s.n \in Nat /\ s.todo \subseteq User
      /\ s.n <= Cardinality(User \ s.todo)
  BY <1>1, <1>2 DEF AwareOfBroadcasts
<1>4. sess' = [sess EXCEPT ![t] = z]
  BY <1>1 DEF Inv, Session
<1>5. m \in Nat
  BY <1>3
<1> HIDE DEF m
<1>6. /\ z \in Session /\ z.pc = "send" /\ z.op = s.op /\ z.arg = s.arg
      /\ z.n = m /\ z.todo = s.todo \ {u}
  BY <1>1, <1>3, <1>5 DEF Session
<1> HIDE DEF z
<1>7. sess'[t] = z
  BY <1>4 DEF Inv
<1>8. inbox' \in [Broadcast -> [User -> Nat]]
  <2>1. inbox \in [Broadcast -> [User -> Nat]]
    BY DEF Inv, World
  <2> QED BY <1>3, <2>1
<1> QED BY <1>1, <1>2, <1>3, <1>4, <1>6, <1>7, <1>8 DEF m

\* A message.
LEMMA SendOneStep ==
    ASSUME Inv, NEW t \in Tx, SendOne(t)
    PROVE  Inv'
<1> DEFINE s == sess[t]
           z == sess'[t]
<1>1. PICK u \in s.todo :
         /\ inbox' = IF u \notin setup.unreachable
                     THEN [inbox EXCEPT ![sess[t].arg][u] = @ + 1] ELSE inbox
         /\ sess' = [sess EXCEPT ![t].todo = @ \ {u},
                                 ![t].n = IF u \notin setup.unreachable THEN @ + 1 ELSE @]
  BY DEF SendOne
<1>2. At(t, "send") /\ s.pc = "send" /\ UNCHANGED <<store, accessVars, queue>>
  BY DEF SendOne, At
<1>3. (u \notin setup.unreachable) \in BOOLEAN
  OBVIOUS
<1>4. /\ z \in Session /\ sess' = [sess EXCEPT ![t] = z]
      /\ z.pc = "send" /\ z.op = s.op /\ s.op = "dispatch" /\ z.arg = s.arg
      /\ s.arg \in Broadcast /\ s.todo \subseteq User /\ z.todo = s.todo \ {u}
      /\ s.n \in Nat /\ z.n \in {s.n, s.n + 1}
      /\ s.n <= Cardinality(User \ s.todo)
      /\ inbox' \in [Broadcast -> [User -> Nat]]
  BY <1>1, <1>2, <1>3, SendEffect
<1> HIDE DEF z
<1>5. z.n \in Nat /\ z.n <= Cardinality(User \ z.todo)
  <2>1. s.todo \in SUBSET User /\ u \in s.todo
    BY <1>4
  <2>2. z.n <= Cardinality(User \ (s.todo \ {u}))
    BY <1>4, <2>1, OneMoreDone
  <2> QED BY <1>4, <2>2
<1>6. AwareOfBroadcasts(z, ws[t], db)
  BY <1>4, <1>5, Here DEF Aware, AwareOfBroadcasts
<1>7. AwareOfAccess(z, ws[t], db, parent) /\ AwareOfUsers(z, ws[t], db)
  BY <1>4 DEF AwareOfAccess, AwareOfUsers, Staff, Act
<1>8. Aware(z, ws[t], db, parent)
  BY <1>4, <1>6, <1>7 DEF Aware, Runs, Unwritten, Act
<1>9. World' /\ Given' /\ parent' = parent
  BY <1>2, <1>4 DEF Inv, World, Given, accessVars, store
<1>10. s.pc # "rotate" /\ z.pc # "rotate"
  BY <1>2, <1>4
<1> QED BY <1>2, <1>4, <1>8, <1>9, <1>10, QuietDone

\* The count, once nobody is left.
LEMMA TallyStep ==
    ASSUME Inv, NEW t \in Tx, Tally(t)
    PROVE  Inv'
<1> DEFINE s == sess[t]
           b == sess[t].arg
           row == [status |-> "done", sent |-> s.n]
           f == Is(B(b), row)
           z == [s EXCEPT !.pc = "commit"]
<1>1. s.pc = "send" /\ s.todo = {} /\ Write(t, f) /\ Goto(t, "commit") /\ UNCHANGED rest
  BY DEF Tally, At
<1>2. s \in Session /\ Runs(s.op, s.pc) /\ AwareOfBroadcasts(s, ws[t], db)
  BY Here DEF Aware
<1>3. s.op = "dispatch"
  BY <1>1, <1>2 DEF Runs, Act
<1>4. /\ b \in Broadcast /\ s.n \in Nat /\ s.n <= Cardinality(User \ s.todo)
      /\ \A c \in Broadcast : B(c) \in DOMAIN ws[t] => c = b
  BY <1>1, <1>2, <1>3 DEF AwareOfBroadcasts
<1>5. /\ z \in Session /\ z.pc = "commit" /\ z.op = s.op /\ z.arg = b
      /\ sess' = [sess EXCEPT ![t] = z]
  <2>1. "commit" \in PCs
    BY DEF PCs
  <2> QED BY <1>1, <1>2, <2>1, Gone DEF Goto
<1> HIDE DEF z
<1>6. DOMAIN f = {B(b)} /\ f[B(b)] \in RowType["broadcast"] /\ f[B(b)].status = "done"
  <2>1. User \ s.todo = User
    BY <1>1
  <2>2. Cardinality(User) \in Nat
    BY BackOfficeAssumption, FS_CardinalityType
  <2>3. row \in [status : {"queued", "sending", "done"}, sent : 0..Cardinality(User)]
    BY <1>4, <2>1, <2>2
  <2>4. row \in RowType["broadcast"]
    BY <2>3, RowTypes
  <2> QED BY <2>4 DEF Is
<1> HIDE DEF f
<1>7. UNCHANGED <<setup, dialogue, crashes, inbox, parent, held, queue>>
  BY <1>1 DEF rest, accessVars
<1>8. Write(t, f) /\ sess[t].pc \in {"idle", "send"} /\ z.op = "dispatch"
  BY <1>1, <1>3, <1>5 DEF f
<1> QED BY <1>4, <1>5, <1>6, <1>7, <1>8, BroadcastWrite

\* The commit, and the acknowledgement.
LEMMA FinishDispatchStep ==
    ASSUME Inv, NEW t \in Tx, FinishDispatch(t)
    PROVE  Inv'
<1>1. /\ sess[t].pc = "commit" /\ sess[t].op = "dispatch" /\ Commit(t)
      /\ sess' = [sess EXCEPT ![t] = Idle] /\ queue' \subseteq queue
      /\ UNCHANGED <<accessVars, inbox>>
  BY DEF FinishDispatch, At, Close
<1>2. Whole(sess[t], ws[t])
  BY <1>1, Here DEF Aware, AwareOfBroadcasts, Whole
<1>3. World' /\ Given' /\ parent' = parent
  BY <1>1, EndGrows DEF Inv, World, Given, accessVars
<1> QED BY <1>1, <1>2, <1>3, AtRest, EndDone
-----------------------------------------------------------------------------
\* The rows there are at the start.
LEMMA FirstRows ==
    ASSUME Init, NEW r \in DOMAIN db
    PROVE  \/ \E a \in Admin : r = A(a)
           \/ \E k \in DOMAIN setup.opened : r = T(k)
           \/ \E u \in setup.known : r = U(u) \/ r = W(u)
<1>1. DOMAIN db = DOMAIN Seeded \cup DOMAIN Members \cup {T(k) : k \in DOMAIN setup.opened}
                     \cup {U(u) : u \in setup.known} \cup {W(u) : u \in setup.known}
  BY DEF Init
<1>2. AccessSetup(setup)
  BY AccessAssumption DEF Init
<1>3. /\ DOMAIN Seeded = {A(a) : a \in setup.bootstrap}
      /\ DOMAIN Members = {A(a) : a \in DOMAIN setup.members}
  BY DEF Seeded, Members
<1>4. setup.bootstrap \subseteq Admin /\ DOMAIN setup.members \subseteq Admin
  BY <1>2 DEF AccessSetup
<1> QED BY <1>1, <1>3, <1>4

\* They are typed, and every user has a wallet.
LEMMA FirstStore ==
    ASSUME Init
    PROVE  StoreOk(db, parent)
<1>1. /\ AccessSetup(setup) /\ setup.known \subseteq User
      /\ setup.opened \in UNION {[K -> setup.known] : K \in SUBSET Ticket}
  BY AccessAssumption, BackOfficeAssumption DEF Init
<1>2. \A r \in DOMAIN db :
         /\ r[1] = "admin" => db[r] = Over(Seeded, Members)[r] /\ r \in DOMAIN Seeded \cup DOMAIN Members
         /\ r[1] = "ticket" => db[r] = NewTicket(setup.opened[r[2]])
         /\ r[1] \notin {"admin", "ticket"} => db[r] = NewUser(r[2])[r]
  <2> SUFFICES ASSUME NEW r \in DOMAIN db
               PROVE  /\ r[1] = "admin" => db[r] = Over(Seeded, Members)[r]
                                           /\ r \in DOMAIN Seeded \cup DOMAIN Members
                      /\ r[1] = "ticket" => db[r] = NewTicket(setup.opened[r[2]])
                      /\ r[1] \notin {"admin", "ticket"} => db[r] = NewUser(r[2])[r]
    OBVIOUS
  <2>1. db[r] = CASE r[1] = "admin" -> Over(Seeded, Members)[r]
                  [] r[1] = "ticket" -> NewTicket(setup.opened[r[2]])
                  [] OTHER -> NewUser(r[2])[r]
    BY DEF Init
  <2>2. r[1] = "admin" => r \in DOMAIN Seeded \cup DOMAIN Members
    <3>1. DOMAIN db = DOMAIN Seeded \cup DOMAIN Members
                         \cup {T(k) : k \in DOMAIN setup.opened}
                         \cup {U(u) : u \in setup.known} \cup {W(u) : u \in setup.known}
      BY DEF Init
    <3> QED BY <3>1, Keys
  <2> QED BY <2>1, <2>2
<1>3. ASSUME NEW a \in Admin, A(a) \in DOMAIN db
      PROVE  db[A(a)] \in RowType["admin"]
  <2> DEFINE admins == [role : Role, active : BOOLEAN, password : BOOLEAN, telegram : BOOLEAN]
  <2>1. db[A(a)] = Over(Seeded, Members)[A(a)] /\ A(a) \in DOMAIN Seeded \cup DOMAIN Members
    BY <1>2, <1>3, Keys
  <2>2. \A r \in DOMAIN Seeded : Seeded[r] \in admins
    BY DEF Seeded, Role
  <2>3. \A r \in DOMAIN Members : Members[r] \in admins
    <3> SUFFICES ASSUME NEW r \in DOMAIN Members PROVE Members[r] \in admins
      OBVIOUS
    <3>1. PICK b \in DOMAIN setup.members : r = A(b)
      BY DEF Members
    <3>2. /\ r[2] = b
          /\ Members[r] = [NewAdmin(setup.members[r[2]]) EXCEPT !.telegram = r[2] \in setup.linked]
      BY <3>1 DEF Members, A
    <3>3. setup.members[b] \in Role
      BY <1>1, <3>1 DEF AccessSetup
    <3>4. NewAdmin(setup.members[b]) \in admins
      BY <3>3 DEF NewAdmin
    <3>5. \/ Members[r] = [NewAdmin(setup.members[b]) EXCEPT !.telegram = TRUE]
          \/ Members[r] = [NewAdmin(setup.members[b]) EXCEPT !.telegram = FALSE]
      <4>1. (r[2] \in setup.linked) \in BOOLEAN
        OBVIOUS
      <4> DEFINE linked == r[2] \in setup.linked
      <4> HIDE DEF linked
      <4>2. Members[r] = [NewAdmin(setup.members[b]) EXCEPT !.telegram = linked]
        BY <3>2 DEF linked
      <4>3. linked = TRUE \/ linked = FALSE
        BY <4>1 DEF linked
      <4> QED BY <4>2, <4>3
    <3> QED BY <3>4, <3>5
  <2>4. Over(Seeded, Members)[A(a)] \in admins
    <3> HIDE DEF admins
    <3> QED BY <2>1, <2>2, <2>3 DEF Over
  <2> QED BY <2>1, <2>4, RowTypes
<1>4. ASSUME NEW k \in DOMAIN setup.opened, T(k) \in DOMAIN db
      PROVE  db[T(k)] \in RowType["ticket"]
  <2>1. db[T(k)] = NewTicket(setup.opened[k])
    BY <1>2, <1>4, Keys DEF T
  <2>2. setup.opened[k] \in User
    BY <1>1
  <2>3. NewTicket(setup.opened[k]) \in
           [user : User, status : {"open", "pending", "answered", "closed"}, last : {"user", "admin"}]
    BY <2>2 DEF NewTicket
  <2> QED BY <2>1, <2>3, RowTypes
<1>5. \A u : NewUser(u)[U(u)] \in RowType["user"] /\ NewUser(u)[W(u)] \in RowType["wallet"]
  <2> TAKE u
  <2>1. NewUser(u)[U(u)] = [banned |-> FALSE, referrer |-> Null] /\ NewUser(u)[W(u)] = 0
    <3>1. U(u) # W(u)
      BY Keys
    <3> QED BY <3>1 DEF NewUser, Over, Is
  <2>2. [banned |-> FALSE, referrer |-> Null] \in [banned : BOOLEAN, referrer : User \cup {Null}]
    OBVIOUS
  <2> QED BY <2>1, <2>2, RowTypes
<1>6. ASSUME NEW u \in User
      PROVE  /\ U(u) \in DOMAIN db => db[U(u)] \in RowType["user"]
             /\ W(u) \in DOMAIN db => db[W(u)] \in RowType["wallet"]
  <2>1. U(u)[1] = "user" /\ U(u)[2] = u /\ W(u)[1] = "wallet" /\ W(u)[2] = u
    BY DEF U, W
  <2> QED BY <1>2, <1>5, <2>1
<1>7. Typed(db)
  <2> SUFFICES ASSUME NEW r \in DOMAIN db PROVE db[r] \in RowType[r[1]]
    BY DEF Typed
  <2>1. \/ \E a \in Admin : r = A(a)
        \/ \E k \in DOMAIN setup.opened : r = T(k)
        \/ \E u \in User : r = U(u) \/ r = W(u)
    BY <1>1, FirstRows
  <2> QED BY <1>3, <1>4, <1>6, <2>1, Keys
<1>8. /\ \A n : RT(n) \notin DOMAIN db
      /\ \A b : B(b) \notin DOMAIN db
  BY FirstRows, Keys
<1>9. \A u \in User : U(u) \in DOMAIN db => W(u) \in DOMAIN db
  <2> SUFFICES ASSUME NEW u \in User, U(u) \in DOMAIN db PROVE W(u) \in DOMAIN db
    OBVIOUS
  <2>1. u \in setup.known
    BY FirstRows, Keys
  <2> QED BY <2>1 DEF Init
<1>10. db = [r \in DOMAIN db |-> db[r]]
  BY DEF Init
<1> QED BY <1>7, <1>8, <1>9, <1>10 DEF StoreOk, TokensOk

\* The invariant holds at the start.
LEMMA InitInv == Init => Inv
<1> SUFFICES ASSUME Init PROVE Inv
  OBVIOUS
<1>1. /\ ws = [t \in Tx |-> NoRows] /\ sess = [t \in Tx |-> Idle]
      /\ held = [a \in Admin |-> {}] /\ parent = [n \in Token |-> Null]
      /\ dialogue = [a \in Admin |-> NoDialogue] /\ crashes = 0 /\ queue = {} /\ setup \in Setup
      /\ inbox = [b \in Broadcast |-> [u \in User |-> 0]]
  BY DEF Init, AccessInit
<1>2. World /\ Given
  BY <1>1 DEF World, Given
<1>3. sess \in [Tx -> Session] /\ parent \in [Token -> Token \cup {Null}]
  BY <1>1, AtRest
<1>4. StoreOk(db, parent)
  BY FirstStore
<1>5. \A t \in Tx : TxOk(db, ws[t], parent, New(sess[t])) /\ Aware(sess[t], ws[t], db, parent)
  <2>1. New(Idle) = Null
    BY AtRest DEF New
  <2> QED BY <1>1, <1>4, <2>1, AtRest, Untouched
<1>6. DOMAIN ws = Tx /\ Shaped /\ Exclusive
  BY <1>1, Nothing DEF Shaped, Exclusive
<1> QED BY <1>2, <1>3, <1>4, <1>5, <1>6 DEF Inv, StoreInv
-----------------------------------------------------------------------------
\* Every step of Access.
LEMMA AccessStep ==
    ASSUME Inv, AccessNext, UNCHANGED <<queue, inbox>>
    PROVE  Inv'
<1>1. CASE \E a \in Admin : Dismiss(a) \/ Demote(a)
  BY <1>1, DismissStep
<1>2. CASE (\E a \in Admin : ExpireAccess(a)) \/ (\E n \in Token : Lapse(n))
  BY <1>2, LapseStep
<1>3. CASE \E t \in Tx, a \in Admin : Login(t, a) \/ CreateAdmin(t, a)
  BY <1>3, LoginStep, CreateAdminStep
<1>4. CASE \E t \in Tx, a \in Admin, n \in Token : Refresh(t, a, n) \/ Logout(t, a, n)
  BY <1>4, RefreshStep, LogoutStep
<1>5. CASE \E t \in Tx : ContinueAuth(t)
  BY <1>5, IssueStep, RotateStep, RevokeStep, FinishAuthStep, InsertAdminStep DEF ContinueAuth
<1> QED BY <1>1, <1>2, <1>3, <1>4, <1>5 DEF AccessNext

\* Every first step of a handler.
LEMMA StartStep ==
    ASSUME Inv, NEW t \in Tx, Start(t)
    PROVE  Inv'
<1>1. CASE \E a \in Admin : Answer(t, a) /\ UNCHANGED <<queue, inbox>>
  BY <1>1, AnswerStep
<1>2. CASE \E a \in Admin, act \in Act : \E arg \in Object(act) :
              \/ Request(t, a, act, arg) /\ UNCHANGED <<queue, inbox>>
              \/ Press(t, a, act, arg) /\ UNCHANGED <<queue, inbox>>
  BY <1>2, RequestStep, PressStep
<1>3. CASE \E u \in User :
              \/ \E ref \in User \cup {Null} : Contact(t, u, "start", ref, "refer")
              \/ Contact(t, u, "ticket", Null, "create ticket")
              \/ \E k \in Ticket : Contact(t, u, "ticket", k, "reply")
  BY <1>3, ContactStep
<1>4. CASE \E b \in Broadcast : Dispatch(t, b)
  BY <1>4, DispatchStep
<1> QED BY <1>1, <1>2, <1>3, <1>4 DEF Start

\* And every other.
LEMMA ContinueStep ==
    ASSUME Inv, NEW t \in Tx, Continue(t)
    PROVE  Inv'
<1>1. CASE ContinueAuth(t) /\ UNCHANGED <<queue, inbox>>
  BY <1>1, IssueStep, RotateStep, RevokeStep, FinishAuthStep, InsertAdminStep DEF ContinueAuth
<1>2. CASE InsertUser(t) \/ Refer(t) \/ EnsureReferral(t) \/ Ban(t)
  BY <1>2, InsertUserStep, ReferStep, EnsureReferralStep, BanStep
<1>3. CASE CreateTicket(t) \/ ReadTicket(t) \/ Post(t) \/ SetStatus(t) \/ Finish(t)
  BY <1>3, CreateTicketStep, ReadTicketStep, PostStep, SetStatusStep, FinishStep
<1>4. CASE Compose(t) \/ Publish(t) \/ Enqueue(t)
  BY <1>4, ComposeStep, PublishStep, EnqueueStep
<1>5. CASE Audience(t) \/ SendOne(t) \/ Tally(t) \/ FinishDispatch(t)
  BY <1>5, AudienceStep, SendOneStep, TallyStep, FinishDispatchStep
<1> QED BY <1>1, <1>2, <1>3, <1>4, <1>5 DEF Continue

\* Every step keeps the invariant.
LEMMA StepInv == Inv /\ [Next]_vars => Inv'
<1> SUFFICES ASSUME Inv, [Next]_vars PROVE Inv'
  OBVIOUS
<1>1. CASE Next
  BY <1>1, AccessStep, StartStep, ContinueStep, FinishStep DEF Next
<1>2. CASE UNCHANGED vars
  BY <1>2, SameWorld, Outside DEF vars, accessVars, Inv, Given
<1> QED BY <1>1, <1>2

\* What the theorems below follow from: rows, transactions, handlers and clients
\* agree in every reachable state.
THEOREM Invariance == Spec => []Inv
<1> QED BY InitInv, StepInv, PTL DEF Spec
-----------------------------------------------------------------------------
\* Every row of every table has its columns, in the database and in every
\* transaction; no half-sent broadcast and no user without a wallet is committed;
\* the tokens clients hold exist.
THEOREM TypeCorrect == Spec => []TypeOK
<1>1. Inv => TypeOK
  <2> SUFFICES ASSUME Inv PROVE TypeOK
    OBVIOUS
  <2>1. setup \in Setup /\ queue \subseteq Broadcast
    BY DEF Inv, World
  <2>2. \A f \in {db} \cup {ws[t] : t \in Tx} : \A r \in DOMAIN f : f[r] \in RowType[r[1]]
    BY DEF Inv, StoreInv, StoreOk, TxOk, Typed
  <2>3. /\ \A b \in Broadcast : B(b) \in DOMAIN db => db[B(b)].status # "sending"
        /\ \A u \in User : U(u) \in DOMAIN db => W(u) \in DOMAIN db
    BY DEF Inv, StoreInv, StoreOk
  <2>4. \A a \in Admin : held[a] \subseteq Tokens
    BY DEF Inv, World, Given, Tokens
  <2>5. \A a \in Admin : dialogue[a].act \in Act \cup {"none"}
    BY DEF Inv, World, NoDialogue, Act
  <2> QED BY <2>1, <2>2, <2>3, <2>4, <2>5 DEF TypeOK
<1> QED BY <1>1, Invariance, PTL

\* Whatever refreshes and logouts of one token overlap, a token that was exchanged
\* stays revoked and linked to a token it was exchanged for.
THEOREM ExchangedStaysRevoked == Spec => []ExchangedIsRevoked
<1>1. Inv => ExchangedIsRevoked
  <2> SUFFICES ASSUME Inv, NEW n \in Tokens, parent[n] # Null
               PROVE  /\ ~Live(parent[n])
                      /\ db[RT(parent[n])].replaced # Null
                      /\ parent[db[RT(parent[n])].replaced] = parent[n]
    BY DEF ExchangedIsRevoked
  <2> DEFINE p == parent[n]
  <2>1. /\ n \in Token /\ RT(n) \in DOMAIN db
        /\ TokensOk(db, parent, Null) /\ p \in Token
    BY DEF Tokens, Inv, StoreInv, StoreOk
  <2>2. n # Null
    BY <2>1, AccessAssumption
  <2>3. TokenOk(db, parent, Null, n)
    BY <2>1 DEF TokensOk
  <2>4. RT(p) \in DOMAIN db /\ db[RT(p)].replaced # Null
    BY <2>2, <2>3 DEF TokenOk
  <2>5. TokenOk(db, parent, Null, p)
    BY <2>1, <2>4 DEF TokensOk
  <2> QED BY <2>4, <2>5 DEF TokenOk, Live, Tokens
<1> QED BY <1>1, Invariance, PTL

\* A dismissed admin does nothing more, in the dashboard, in the bot or by a refresh,
\* but for a handler that is past the check already.
THEOREM DismissedAreOut == Spec => []DismissedIsOut
<1>1. Inv => DismissedIsOut
  <2> SUFFICES ASSUME Inv, NEW t \in Tx, Acting(t) \/ At(t, "issue")
               PROVE  sess[t].late \/ db[A(sess[t].who)].active
    BY DEF DismissedIsOut
  <2> QED BY Here DEF Acting, At, Aware, AwareOfAccess, Entered, Staff
<1> QED BY <1>1, Invariance, PTL

\* An admin acts with the permissions of the role he has in the database at that
\* time, except in the last step of a dialogue of the bot.
THEOREM ActsStayAllowed == Spec => []ActsAreAllowed
<1>1. Inv => ActsAreAllowed
  <2> SUFFICES ASSUME Inv, NEW t \in Tx, Acting(t), sess[t].op # "answer"
               PROVE  \/ sess[t].late
                      \/ Permission[sess[t].pc] \in RolePermissions[db[A(sess[t].who)].role]
    BY DEF ActsAreAllowed
  <2> QED BY Here DEF Acting, Aware, AwareOfAccess, Staff
<1> QED BY <1>1, Invariance, PTL
=============================================================================
