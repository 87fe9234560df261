------------------------ MODULE SubscriptionsProofs ------------------------
(***************************************************************************)
(* Proofs about Subscriptions for every set of subscriptions, of sessions  *)
(* and of deployments.                                                     *)
(*                                                                         *)
(* The inductive invariant has three parts: what the committed rows d      *)
(* satisfy, given the alerts b that were spared (StoreOk), what the rows x *)
(* that a transaction has written make of them (TxOk, about Over(x, d),    *)
(* which its commit leaves), and what a session s knows at each of its     *)
(* statements (Aware).  What is committed or spared only ever grows, and   *)
(* all three only ask what is there, so that one session's commit cannot   *)
(* spoil what another knows.  Five more invariants stand on it: how often a *)
(* message was delivered (OnceInv), that what is claimed was delivered     *)
(* (DeliveredInv), on which day the low stock was told (StockInv), when a  *)
(* row is marked expired (TimeInv), and what was sold and is on the panel  *)
(* (HonourInv).                                                            *)
(***************************************************************************)
EXTENDS Subscriptions, RowStoreProofs

SubRow == [account : Sub \cup {Null}, status : {"active", "expired", "disabled"},
           expires : Nat, used : Level, level : Level,
           tags : SUBSET {"7", "3", "1", "expired"}]

DayKind == {"7", "3", "1", "expired"}
UsageKind == {"80", "90", "100"}

\* The keys of the rows, and what a row holds.
Typed(f) ==
    \A r \in DOMAIN f :
        \/ \E i \in Sub : r = S(i) /\ f[r] \in SubRow
        \/ \E i \in Sub, k \in Kind : r = N(i, k) /\ f[r] \in BOOLEAN
        \/ r = LowStock /\ f[r] \in Nat

\* The columns a job has assigned to a subscription.
IsColumns(c) ==
    /\ c = [x \in DOMAIN c |-> c[x]]
    /\ DOMAIN c \subseteq {"status", "expires", "used", "level", "tags"}
    /\ "status" \in DOMAIN c => c["status"] \in {"expired", "disabled"}
    /\ "expires" \in DOMAIN c => c["expires"] \in Nat
    /\ "used" \in DOMAIN c => c["used"] \in Level
    /\ "level" \in DOMAIN c => c["level"] \in Level
    /\ "tags" \in DOMAIN c => c["tags"] \subseteq DayKind

\* The alert k of subscription i is claimed, as v has it, or was spared, as b has it.
ToldOf(v, b, i, k) == <<i, k>> \in b \/ N(i, k) \in DOMAIN v

\* What a row remembers, or says, has been told.
RowTold(row, v, b, i) ==
    /\ \A k \in row.tags : ToldOf(v, b, i, k)
    /\ row.status = "expired" => ToldOf(v, b, i, "expired")

AllTold(v, b) == \A i \in Sub : S(i) \in DOMAIN v => RowTold(v[S(i)], v, b, i)

InOrder(v, b) ==
    \A i \in Sub : /\ N(i, "3") \in DOMAIN v => ToldOf(v, b, i, "7")
                   /\ N(i, "1") \in DOMAIN v => ToldOf(v, b, i, "3")

StoreOk(d, b) ==
    /\ d = [r \in DOMAIN d |-> d[r]]
    /\ Typed(d) /\ AllTold(d, b) /\ InOrder(d, b)

TxOk(d, x, b) ==
    /\ Typed(x) /\ AllTold(Over(x, d), b) /\ InOrder(Over(x, d), b)

\* What session t will have spared once it commits.
Spared(t) == spared \cup sess[t].spared

StoreInv ==
    /\ DOMAIN ws = Tx /\ Shaped /\ Exclusive
    /\ spared \subseteq Sub \X Kind
    /\ StoreOk(db, spared)
    /\ \A t \in Tx : TxOk(db, ws[t], Spared(t))
-----------------------------------------------------------------------------
Field == {"op", "pc", "i", "old", "kind", "at", "seen", "dirty", "banned", "spared"}

Job == {"expiry", "usage", "sync"}
AtPanelNow == {"create", "extend", "look up", "reset", "reset in vain", "insert"}

\* Which statements an operation runs.
Runs(op, pc) ==
    \/ op = "none" /\ pc = "idle"
    \/ op \in {"expiry", "usage"} /\ pc \in {"scan", "claim", "send", "flush", "commit"}
    \/ op = "sync" /\ pc \in {"sync", "flush", "commit"}
    \/ op = "buy" /\ pc \in AtPanelNow \cup {"retire", "commit"}
    \/ op = "stock" /\ pc \in {"tell", "tick off", "commit"}

IsSession(s) ==
    /\ s = [x \in Field |-> s[x]]
    /\ s.op \in {"none", "expiry", "usage", "sync", "buy", "stock"} /\ Runs(s.op, s.pc)
    /\ s.i \in Sub \cup {Null} /\ s.old \in Sub \cup {Null}
    /\ s.kind \in Kind /\ s.at \in Nat /\ s.spared \subseteq Sub \X Kind
    /\ s.seen = [r \in DOMAIN s.seen |-> s.seen[r]]
    /\ \A r \in DOMAIN s.seen : (\E i \in Sub : r = S(i)) /\ s.seen[r] \in SubRow
    /\ s.dirty = [r \in DOMAIN s.dirty |-> s.dirty[r]]
    /\ \A r \in DOMAIN s.dirty : (\E i \in Sub : r = S(i)) /\ IsColumns(s.dirty[r])

\* The session is about to claim the alert k of subscription i.
Due(s, i, k) == s.pc = "claim" /\ s.i = i /\ s.kind = k

\* What the assigned columns say has been told, or is about to be.
ColumnsTold(c, s, v, b, i) ==
    /\ "tags" \in DOMAIN c => \A k \in c["tags"] : ToldOf(v, b, i, k) \/ Due(s, i, k)
    /\ "status" \in DOMAIN c /\ c["status"] = "expired" =>
          ToldOf(v, b, i, "expired") \/ Due(s, i, "expired")

\* Which rows a session has written.
Holds(s, x) ==
    /\ s.op = "none" => s = Idle /\ x = NoRows
    /\ s.pc \in AtPanelNow => x = NoRows
    /\ \A i \in Sub : S(i) \in DOMAIN x => s.op = "buy" \/ (s.op \in Job /\ s.pc = "commit")
    /\ \A i \in Sub, k \in Kind : N(i, k) \in DOMAIN x => s.op \in {"expiry", "usage"}
    /\ LowStock \in DOMAIN x => s.op = "stock" /\ s.pc = "commit" /\ x[LowStock] = s.at
    /\ s.op = "stock" /\ s.pc = "commit" => LowStock \in DOMAIN x

\* What session s, alerting, knows of the alert it claims.
Alerting(s, x, d, b) ==
    /\ s.i \in Sub
    /\ s.op = "expiry" => s.kind \in DayKind
    /\ s.op = "usage" => s.kind \in UsageKind
    /\ s.kind = "3" => ToldOf(Over(x, d), b, s.i, "7")
    /\ s.kind = "1" => ToldOf(Over(x, d), b, s.i, "3")

Aware(s, x, d, b) ==
    /\ Holds(s, x)
    /\ DOMAIN s.seen \cup DOMAIN s.dirty \subseteq DOMAIN d
    /\ \A i \in Sub : S(i) \in DOMAIN s.seen => RowTold(s.seen[S(i)], d, b, i)
    /\ \A i \in Sub : S(i) \in DOMAIN s.dirty => ColumnsTold(s.dirty[S(i)], s, Over(x, d), b, i)
    /\ s.op = "sync" => \A r \in DOMAIN s.seen : s.seen[r].account # Null
    /\ s.pc \in {"claim", "send"} => Alerting(s, x, d, b)
    /\ s.pc = "send" => N(s.i, s.kind) \in DOMAIN x /\ N(s.i, s.kind) \notin DOMAIN d
    /\ s.op = "buy" => s.i \in Sub /\ (s.old # Null => S(s.old) \in DOMAIN d)
    /\ s.pc = "retire" => s.old # Null

SessionInv ==
    /\ sess = [t \in Tx |-> sess[t]]
    /\ \A t \in Tx : IsSession(sess[t]) /\ Aware(sess[t], ws[t], db, Spared(t))

World ==
    /\ setup \in Setup
    /\ now \in Nat /\ now <= setup.last
    /\ crashes \in 0..MaxCrashes
    /\ panel \in [Sub -> [state : {"none", "on", "off", "gone"}, used : Level, expires : Nat]]
    /\ inbox \in [(Sub \X Kind) \cup ({Null} \X (0..setup.last)) -> Nat]

InTime ==
    /\ \A t \in Tx : /\ sess[t].at <= now
                     /\ sess[t].op # "none" => sess[t].op \in setup.duty[t]
    /\ LowStock \in DOMAIN db => db[LowStock] <= now

Inv == StoreInv /\ SessionInv /\ World /\ InTime
-----------------------------------------------------------------------------
\* A message was sent once more than there were crashes only if the claim of it is
\* there to stop the next one.
Unsent(i, k) ==
    /\ N(i, k) \notin DOMAIN db
    /\ \A t \in Tx : N(i, k) \in DOMAIN ws[t] =>
          sess[t].pc = "send" /\ sess[t].i = i /\ sess[t].kind = k

OnceInv ==
    \A i \in Sub, k \in Kind : /\ inbox[<<i, k>>] <= 1 + crashes
                               /\ Unsent(i, k) => inbox[<<i, k>>] <= crashes

\* Where Telegram does not fail, a claim was followed by its message.
DeliveredInv ==
    setup.customer = "reachable" =>
        \A i \in Sub, k \in Kind : Unsent(i, k) \/ inbox[<<i, k>>] > 0

\* OnceInv for the low stock of day n, when one session at a time looks at the stock.
OneStock == \A s \in Setup : \A t, u \in Tx :
                "stock" \in s.duty[t] /\ "stock" \in s.duty[u] => t = u

Untold(n) ==
    /\ ~(LowStock \in DOMAIN db /\ db[LowStock] >= n)
    /\ \A t \in Tx : sess[t].op = "stock" /\ sess[t].pc \in {"tick off", "commit"} => sess[t].at # n

StockInv ==
    /\ \A n \in 0..setup.last : /\ inbox[<<Null, n>>] <= 1 + crashes
                                /\ Untold(n) => inbox[<<Null, n>>] <= crashes
    /\ \A t \in Tx : sess[t].op = "stock" /\ LowStock \in DOMAIN db => db[LowStock] < sess[t].at

\* No sync overlaps the expiry job.
Calm == \A t, u \in Tx : ~(sess[t].op = "expiry" /\ sess[u].op = "sync")

\* A row marked expired ran out.
Ran(row, n) == row.status = "expired" => row.expires <= n

\* The columns c that session s has assigned to subscription i at time n.
Assigned(c, s, d, i, n) ==
    /\ s.op \in {"expiry", "usage"} => "expires" \notin DOMAIN c
    /\ "status" \in DOMAIN c /\ c["status"] = "expired" =>
          s.op = "expiry" /\ d[S(i)].expires <= n
    /\ s.op = "sync" => d[S(i)].status # "expired"

\* The row of subscription i that session s has written at time n: only a sync
\* moves the expiry of a committed row, and only the expiry job marks one.
Marked(row, s, d, i, n) ==
    /\ Ran(row, n)
    /\ S(i) \in DOMAIN d \/ (s.op = "buy" /\ s.i = i)
    /\ S(i) \in DOMAIN d /\ s.op # "sync" => row.expires = d[S(i)].expires
    /\ row.status = "expired" =>
          s.op = "expiry" \/ (S(i) \in DOMAIN d /\ d[S(i)].status = "expired")

\* What session s has read, assigned and written is in time with what is committed.
Timely(s, x, d, n) ==
    /\ \A i \in Sub : S(i) \in DOMAIN x => Marked(x[S(i)], s, d, i, n)
    /\ \A i \in Sub : S(i) \in DOMAIN s.dirty => Assigned(s.dirty[S(i)], s, d, i, n)
    /\ \A i \in Sub : S(i) \in DOMAIN s.seen =>
          /\ s.op = "expiry" => s.seen[S(i)].expires = d[S(i)].expires
          /\ s.op = "sync" => d[S(i)].status # "expired"
    /\ s.op = "buy" => S(s.i) \notin DOMAIN d

TimeInv ==
    /\ \A i \in Sub : S(i) \in DOMAIN db => Ran(db[S(i)], now)
    /\ \A t \in Tx : Timely(sess[t], ws[t], db, now)
    /\ \A t, u \in Tx : t # u /\ sess[t].op = "buy" /\ sess[u].op = "buy" => sess[t].i # sess[u].i
-----------------------------------------------------------------------------
\* Lemmas about rows.

\* The keys of different rows differ.
LEMMA Keys ==
    /\ \A i, j : S(i) = S(j) => i = j
    /\ \A i, j, k, l : N(i, k) = N(j, l) => i = j /\ k = l
    /\ \A i, j, k : S(i) # N(j, k)
    /\ \A i : S(i) # LowStock
    /\ \A i, k : N(i, k) # LowStock
    /\ \A i : S(i)[1] = "subscription" /\ S(i)[2] = i
    /\ \A i, k : N(i, k)[1] = "notification"
    /\ LowStock[1] = "setting"
    BY DEF S, N, LowStock

\* What was told stays told when rows are added.
LEMMA StaysTold ==
    ASSUME NEW v, NEW w, NEW b, NEW i, NEW row, DOMAIN v \subseteq DOMAIN w,
           RowTold(row, v, b, i)
    PROVE  RowTold(row, w, b, i)
    BY DEF RowTold, ToldOf

\* More may have been spared.
LEMMA MoreSpared ==
    ASSUME NEW s, NEW x, NEW d, NEW b, NEW c, b \subseteq c
    PROVE  /\ \A v, i, k : ToldOf(v, b, i, k) => ToldOf(v, c, i, k)
           /\ \A row, v, i : RowTold(row, v, b, i) => RowTold(row, v, c, i)
           /\ StoreOk(d, b) => StoreOk(d, c)
           /\ TxOk(d, x, b) => TxOk(d, x, c)
           /\ Aware(s, x, d, b) => Aware(s, x, d, c)
<1>1. \A v, i, k : ToldOf(v, b, i, k) => ToldOf(v, c, i, k)
  BY DEF ToldOf
<1>2. \A row, v, i : RowTold(row, v, b, i) => RowTold(row, v, c, i)
  BY <1>1, Zenon DEF RowTold
<1>3. \A v : AllTold(v, b) => AllTold(v, c)
  BY <1>2, Zenon DEF AllTold
<1>4. \A v : InOrder(v, b) => InOrder(v, c)
  BY <1>1, Zenon DEF InOrder
<1>5. (StoreOk(d, b) => StoreOk(d, c)) /\ (TxOk(d, x, b) => TxOk(d, x, c))
  BY <1>3, <1>4, Zenon DEF StoreOk, TxOk
<1>6. ASSUME NEW y, NEW v, NEW i, ColumnsTold(y, s, v, b, i) PROVE ColumnsTold(y, s, v, c, i)
  BY <1>1, <1>6, Zenon DEF ColumnsTold
<1>7. Alerting(s, x, d, b) => Alerting(s, x, d, c)
  BY <1>1, Zenon DEF Alerting
<1>8. Aware(s, x, d, b) => Aware(s, x, d, c)
  BY <1>2, <1>6, <1>7, Zenon DEF Aware
<1> QED BY <1>1, <1>2, <1>5, <1>8

\* Another transaction's commit adds rows, and none that this one has written: it
\* leaves what this one has done, and what its session knows.
LEMMA Grow ==
    ASSUME NEW s, NEW x, NEW d, NEW e, NEW b,
           StoreOk(e, b), TxOk(d, x, b), Aware(s, x, d, b),
           DOMAIN d \subseteq DOMAIN e, DOMAIN x \cap DOMAIN e \subseteq DOMAIN d
    PROVE  TxOk(e, x, b) /\ Aware(s, x, e, b)
<1> DEFINE v == Over(x, d)
           w == Over(x, e)
<1>1. /\ DOMAIN v = DOMAIN x \cup DOMAIN d /\ DOMAIN w = DOMAIN x \cup DOMAIN e
      /\ \A r \in DOMAIN x : v[r] = x[r] /\ w[r] = x[r]
      /\ \A r \in DOMAIN e \ DOMAIN x : w[r] = e[r]
  BY DEF Over
<1>2. DOMAIN v \subseteq DOMAIN w /\ DOMAIN e \subseteq DOMAIN w
  BY <1>1
<1>3. AllTold(w, b)
  <2> SUFFICES ASSUME NEW i \in Sub, S(i) \in DOMAIN w PROVE RowTold(w[S(i)], w, b, i)
    BY DEF AllTold
  <2>1. CASE S(i) \in DOMAIN x
    <3>1. RowTold(v[S(i)], v, b, i)
      BY <1>1, <2>1 DEF TxOk, AllTold
    <3> QED BY <3>1, <1>1, <1>2, <2>1, StaysTold
  <2>2. CASE S(i) \notin DOMAIN x
    <3>1. S(i) \in DOMAIN e /\ w[S(i)] = e[S(i)] /\ RowTold(e[S(i)], e, b, i)
      BY <1>1, <2>2 DEF StoreOk, AllTold
    <3> QED BY <3>1, <1>2, StaysTold
  <2> QED BY <2>1, <2>2
<1>4. InOrder(w, b)
  BY <1>1 DEF InOrder, ToldOf, TxOk, StoreOk
<1>5. TxOk(e, x, b)
  BY <1>3, <1>4 DEF TxOk
<1>6. \A i \in Sub : S(i) \in DOMAIN s.seen => RowTold(s.seen[S(i)], e, b, i)
  BY StaysTold DEF Aware
<1>7. \A i \in Sub : S(i) \in DOMAIN s.dirty => ColumnsTold(s.dirty[S(i)], s, w, b, i)
  <2> SUFFICES ASSUME NEW i \in Sub, S(i) \in DOMAIN s.dirty
               PROVE  ColumnsTold(s.dirty[S(i)], s, w, b, i)
    OBVIOUS
  <2>1. ColumnsTold(s.dirty[S(i)], s, v, b, i)
    BY DEF Aware
  <2> HIDE DEF v, w
  <2> QED BY <2>1, <1>2 DEF ColumnsTold, ToldOf
<1>8. s.pc \in {"claim", "send"} => Alerting(s, x, e, b)
  <2>1. s.pc \in {"claim", "send"} => Alerting(s, x, d, b)
    BY DEF Aware
  <2> QED BY <2>1, <1>2 DEF Alerting, ToldOf
<1> QED BY <1>5, <1>6, <1>7, <1>8 DEF Aware

\* A commit leaves a sound store.
LEMMA CommitOk ==
    ASSUME NEW x, NEW d, NEW b, StoreOk(d, b), TxOk(d, x, b)
    PROVE  StoreOk(Over(x, d), b) /\ DOMAIN d \subseteq DOMAIN Over(x, d)
<1>1. Typed(Over(x, d))
  BY DEF Typed, Over, StoreOk, TxOk
<1>2. Over(x, d) = [r \in DOMAIN Over(x, d) |-> Over(x, d)[r]]
  BY DEF Over
<1>3. DOMAIN d \subseteq DOMAIN Over(x, d)
  BY DEF Over
<1> QED BY <1>1, <1>2, <1>3 DEF StoreOk, TxOk

\* Without rows of its own a transaction sees the committed ones.
LEMMA NothingOwn ==
    ASSUME NEW d, NEW b, StoreOk(d, b)
    PROVE  TxOk(d, NoRows, b) /\ Over(NoRows, d) = d
<1>1. Over(NoRows, d) = d
  BY DEF Over, NoRows, StoreOk
<1> QED BY <1>1 DEF TxOk, StoreOk, Typed, NoRows
-----------------------------------------------------------------------------
\* Lemmas about steps.

\* What session t knows.
LEMMA Here ==
    ASSUME Inv, NEW t \in Tx
    PROVE  /\ IsSession(sess[t]) /\ Aware(sess[t], ws[t], db, Spared(t))
           /\ TxOk(db, ws[t], Spared(t)) /\ StoreOk(db, spared)
           /\ Typed(db) /\ Typed(ws[t])
           /\ sess[t].at \in Nat /\ sess[t].at <= now /\ now \in Nat
           /\ setup \in Setup /\ setup \in SetupType
<1>1. IsSession(sess[t]) /\ Aware(sess[t], ws[t], db, Spared(t))
  BY DEF Inv, SessionInv
<1>2. TxOk(db, ws[t], Spared(t)) /\ StoreOk(db, spared)
  BY DEF Inv, StoreInv
<1>3. sess[t].at <= now /\ now \in Nat /\ setup \in Setup
  BY DEF Inv, InTime, World
<1> QED BY <1>1, <1>2, <1>3, SubAssumption DEF IsSession, StoreOk, TxOk

\* A step of session t is a change of its entry.
LEMMA SessionStep ==
    ASSUME Inv, NEW t \in Tx, NEW z, sess' = [sess EXCEPT ![t] = z]
    PROVE  /\ sess' = [v \in Tx |-> sess'[v]] /\ sess'[t] = z
           /\ \A v \in Tx \ {t} : sess'[v] = sess[v]
    BY DEF Inv, SessionInv

\* A step that writes nothing, and may spare alerts.
LEMMA SparingStep ==
    ASSUME Inv, NEW t \in Tx, NEW z, sess' = [sess EXCEPT ![t] = z],
           UNCHANGED <<store, setup, now, spared>>, World',
           IsSession(z), sess[t].spared \subseteq z.spared,
           Aware(z, ws[t], db, spared \cup z.spared),
           z.at <= now, z.op # "none" => z.op \in setup.duty[t]
    PROVE  Inv'
<1>1. /\ sess' = [v \in Tx |-> sess'[v]] /\ sess'[t] = z
      /\ \A v \in Tx \ {t} : sess'[v] = sess[v]
  BY SessionStep
<1>2. db' = db /\ ws' = ws /\ spared' = spared /\ setup' = setup /\ now' = now
  BY DEF store
<1>3. Spared(t)' = spared \cup z.spared /\ \A v \in Tx \ {t} : Spared(v)' = Spared(v)
  BY <1>1, <1>2 DEF Spared
<1>4. StoreInv'
  <2>1. Spared(t) \subseteq Spared(t)'
    BY <1>3 DEF Spared
  <2>2. TxOk(db, ws[t], Spared(t)')
    BY <2>1, Here, MoreSpared
  <2>3. \A v \in Tx : TxOk(db, ws[v], Spared(v)')
    BY <1>3, <2>2, Here
  <2> QED BY <1>2, <2>3 DEF Inv, StoreInv, Shaped, Exclusive
<1>5. SessionInv'
  <2>1. \A v \in Tx : IsSession(sess'[v]) /\ Aware(sess'[v], ws[v], db, Spared(v)')
    BY <1>1, <1>3, Here
  <2> QED BY <1>1, <1>2, <2>1 DEF SessionInv
<1>6. InTime'
  BY <1>1, <1>2 DEF Inv, InTime
<1> QED BY <1>4, <1>5, <1>6 DEF Inv

\* A step that writes nothing, nor spares.
LEMMA QuietStep ==
    ASSUME Inv, NEW t \in Tx, NEW z, sess' = [sess EXCEPT ![t] = z],
           UNCHANGED <<store, setup, now, spared>>, World',
           IsSession(z), z.spared = sess[t].spared, Aware(z, ws[t], db, Spared(t)),
           z.at <= now, z.op # "none" => z.op \in setup.duty[t]
    PROVE  Inv'
<1>1. sess[t].spared \subseteq z.spared /\ Aware(z, ws[t], db, spared \cup z.spared)
  BY DEF Spared
<1> QED BY <1>1, SparingStep

\* A step that writes the rows f.
LEMMA WriteStep ==
    ASSUME Inv, NEW t \in Tx, NEW z, sess' = [sess EXCEPT ![t] = z],
           NEW f, Write(t, f), UNCHANGED <<setup, now, spared>>, World',
           TxOk(db, Over(f, ws[t]), Spared(t)),
           IsSession(z), z.spared = sess[t].spared, Aware(z, Over(f, ws[t]), db, Spared(t)),
           z.at <= now, z.op # "none" => z.op \in setup.duty[t]
    PROVE  Inv'
<1>1. /\ sess' = [v \in Tx |-> sess'[v]] /\ sess'[t] = z
      /\ \A v \in Tx \ {t} : sess'[v] = sess[v]
  BY SessionStep
<1>2. spared' = spared /\ setup' = setup /\ now' = now /\ \A v \in Tx : Spared(v)' = Spared(v)
  BY <1>1 DEF Spared
<1>3. /\ db' = db /\ ws'[t] = Over(f, ws[t]) /\ DOMAIN ws' = Tx
      /\ \A v \in Tx \ {t} : ws'[v] = ws[v]
  BY WriteEffect DEF Inv, StoreInv
<1>4. Exclusive'
  BY WriteExclusive DEF Inv, StoreInv
<1>5. Shaped'
  BY DEF Write, Shaped, Inv, StoreInv
<1>6. StoreInv'
  <2>1. \A v \in Tx : TxOk(db, ws'[v], Spared(v)')
    BY <1>2, <1>3 DEF Inv, StoreInv
  <2> QED BY <2>1, <1>2, <1>3, <1>4, <1>5 DEF Inv, StoreInv
<1>7. SessionInv'
  <2>1. \A v \in Tx : IsSession(sess'[v]) /\ Aware(sess'[v], ws'[v], db, Spared(v)')
    BY <1>1, <1>2, <1>3 DEF Inv, SessionInv
  <2> QED BY <2>1, <1>1, <1>2, <1>3 DEF SessionInv
<1>8. InTime'
  BY <1>1, <1>2, <1>3 DEF Inv, InTime
<1> QED BY <1>6, <1>7, <1>8 DEF Inv

\* The idle session.
LEMMA IdleOk ==
    ASSUME NEW d, NEW b
    PROVE  /\ IsSession(Idle) /\ Aware(Idle, NoRows, d, b)
           /\ Idle.at = 0 /\ Idle.op = "none" /\ Idle.pc = "idle" /\ Idle.spared = {}
<1>1. Idle.at = 0 /\ Idle.op = "none" /\ Idle.pc = "idle" /\ Idle.spared = {}
  BY DEF Idle
<1>2. DOMAIN NoRows = {} /\ NoRows = [r \in DOMAIN NoRows |-> NoRows[r]]
  BY DEF NoRows
<1>3. IsSession(Idle)
  BY <1>2 DEF IsSession, Idle, Field, Runs, Kind
<1>4. Aware(Idle, NoRows, d, b)
  BY <1>2 DEF Aware, Holds, Idle
<1> QED BY <1>1, <1>3, <1>4

\* The end of a transaction.
LEMMA EndStep ==
    ASSUME Inv, NEW t \in Tx, Close(t), UNCHANGED <<setup, now>>, World',
           (Commit(t) /\ spared' = Spared(t)) \/ (Rollback(t) /\ spared' = spared)
    PROVE  Inv'
<1>1. /\ sess' = [v \in Tx |-> sess'[v]] /\ sess'[t] = Idle
      /\ \A v \in Tx \ {t} : sess'[v] = sess[v]
  BY SessionStep DEF Close
<1>2. /\ setup' = setup /\ now' = now /\ spared \subseteq spared' /\ spared' \subseteq Sub \X Kind
      /\ Spared(t)' = spared' /\ \A v \in Tx \ {t} : Spared(v) \subseteq Spared(v)'
  <2>1. spared \subseteq Sub \X Kind /\ sess[t].spared \subseteq Sub \X Kind
    BY Here DEF Inv, StoreInv, IsSession
  <2> QED BY <1>1, <2>1, IdleOk DEF Spared
<1> DEFINE x == ws[t]
           d == Over(x, db)
           b == Spared(t)
<1>3. /\ ws'[t] = NoRows /\ DOMAIN ws' = Tx
      /\ \A v \in Tx \ {t} : ws'[v] = ws[v]
  BY EndEffect DEF Inv, StoreInv
<1>4. Exclusive'
  BY EndExclusive DEF Inv, StoreInv
<1>5. Shaped'
  BY DEF Commit, Rollback, Shaped, Inv, StoreInv
<1>6. StoreOk(db, spared) /\ StoreOk(db, b) /\ TxOk(db, x, b) /\ Aware(sess[t], x, db, b)
  <2>1. spared \subseteq b
    BY DEF Spared
  <2> QED BY <2>1, Here, MoreSpared
<1>7. (db' = d /\ spared' = b) \/ (db' = db /\ spared' = spared)
  BY DEF Commit, Rollback, Visible
<1>8. /\ StoreOk(db', spared') /\ DOMAIN db \subseteq DOMAIN db'
      /\ DOMAIN db' \subseteq DOMAIN x \cup DOMAIN db
  <2>1. DOMAIN d = DOMAIN x \cup DOMAIN db
    BY DEF Over
  <2> HIDE DEF x, b
  <2>2. StoreOk(d, b)
    BY <1>6, CommitOk
  <2> HIDE DEF d
  <2> QED BY <2>1, <2>2, <1>6, <1>7
<1>9. ASSUME NEW v \in Tx \ {t}
      PROVE  TxOk(db', ws[v], Spared(v)') /\ Aware(sess[v], ws[v], db', Spared(v)')
  <2> DEFINE c == Spared(v)'
  <2>1. DOMAIN ws[v] \cap DOMAIN x = {}
    BY DEF Inv, StoreInv, Exclusive
  <2>2. TxOk(db, ws[v], c) /\ Aware(sess[v], ws[v], db, c)
    BY <1>2, Here, MoreSpared
  <2>3. StoreOk(db', c)
    <3>1. spared' \subseteq c
      BY DEF Spared
    <3> QED BY <3>1, <1>8, MoreSpared
  <2> HIDE DEF x, c
  <2>4. TxOk(db', ws[v], c) /\ Aware(sess[v], ws[v], db', c)
    BY <2>1, <2>2, <2>3, <1>8, Grow
  <2> QED BY <2>4 DEF c
<1>10. TxOk(db', NoRows, spared')
  BY <1>8, NothingOwn
<1>11. StoreInv'
  <2>1. \A v \in Tx : TxOk(db', ws'[v], Spared(v)')
    BY <1>2, <1>3, <1>9, <1>10
  <2> QED BY <2>1, <1>2, <1>3, <1>4, <1>5, <1>8 DEF StoreInv
<1>12. SessionInv'
  <2>1. IsSession(Idle) /\ Aware(Idle, NoRows, db', spared')
    BY IdleOk
  <2>2. \A v \in Tx : IsSession(sess'[v]) /\ Aware(sess'[v], ws'[v], db', Spared(v)')
    BY <2>1, <1>1, <1>2, <1>3, <1>9, Here
  <2> QED BY <2>2, <1>1, <1>2 DEF SessionInv
<1>13. InTime'
  <2>1. LowStock \in DOMAIN x => x[LowStock] = sess[t].at /\ sess[t].at <= now
    BY <1>6, Here DEF Aware, Holds
  <2>2. LowStock \in DOMAIN db' => db'[LowStock] <= now
    BY <2>1, <1>7 DEF Over, Inv, InTime
  <2>3. Idle.at = 0 /\ Idle.op = "none"
    BY IdleOk
  <2>4. sess'[t].at <= now
    BY <2>3, <1>1, Here
  <2> QED BY <2>2, <2>3, <2>4, <1>1, <1>2 DEF InTime, Inv
<1> QED BY <1>11, <1>12, <1>13 DEF Inv

\* The session at its next statement.
LEMMA GotoSession ==
    ASSUME NEW s, NEW pc, NEW z, IsSession(s), Runs(s.op, pc), z = [s EXCEPT !.pc = pc]
    PROVE  /\ IsSession(z) /\ z.pc = pc
           /\ z.op = s.op /\ z.i = s.i /\ z.old = s.old /\ z.kind = s.kind /\ z.at = s.at
           /\ z.seen = s.seen /\ z.dirty = s.dirty /\ z.spared = s.spared
<1>1. s = [x \in Field |-> s[x]]
  BY DEF IsSession
<1>2. /\ z = [x \in Field |-> z[x]] /\ z.pc = pc
      /\ z.op = s.op /\ z.i = s.i /\ z.old = s.old /\ z.kind = s.kind /\ z.at = s.at
      /\ z.seen = s.seen /\ z.dirty = s.dirty /\ z.spared = s.spared
  BY <1>1 DEF Field
<1> QED BY <1>2 DEF IsSession

\* It knows what it knew, as long as it neither alerts nor writes.
LEMMA GoOn ==
    ASSUME NEW s, NEW pc, NEW z, NEW x, NEW d, NEW b,
           IsSession(s), Runs(s.op, pc), z = [s EXCEPT !.pc = pc], Aware(s, x, d, b),
           s.op # "none", s.pc \notin {"claim", "commit"}, pc \notin {"claim", "send", "retire"},
           s.pc \notin AtPanelNow => pc \notin AtPanelNow,
           s.op = "stock" => pc # "commit"
    PROVE  /\ IsSession(z) /\ Aware(z, x, d, b)
           /\ z.op = s.op /\ z.at = s.at /\ z.pc = pc /\ z.spared = s.spared
<1>1. /\ IsSession(z) /\ z.pc = pc
      /\ z.op = s.op /\ z.i = s.i /\ z.old = s.old /\ z.kind = s.kind /\ z.at = s.at
      /\ z.seen = s.seen /\ z.dirty = s.dirty /\ z.spared = s.spared
  BY GotoSession
<1>3. Holds(z, x)
  BY <1>1 DEF Aware, Holds, Job
<1>4. \A i \in Sub : S(i) \in DOMAIN z.dirty => ColumnsTold(z.dirty[S(i)], z, Over(x, d), b, i)
  BY <1>1 DEF Aware, ColumnsTold, Due
<1> QED BY <1>1, <1>3, <1>4 DEF Aware

\* Writing rows that say what has been told, and claims in their order.
LEMMA WriteOk ==
    ASSUME NEW f, NEW x, NEW d, NEW b, TxOk(d, x, b), Typed(f),
           \A i \in Sub : S(i) \in DOMAIN f => RowTold(f[S(i)], Over(x, d), b, i),
           \A i \in Sub : /\ N(i, "3") \in DOMAIN f => ToldOf(Over(x, d), b, i, "7")
                          /\ N(i, "1") \in DOMAIN f => ToldOf(Over(x, d), b, i, "3")
    PROVE  /\ TxOk(d, Over(f, x), b)
           /\ DOMAIN Over(f, x) = DOMAIN f \cup DOMAIN x
           /\ DOMAIN Over(x, d) \subseteq DOMAIN Over(Over(f, x), d)
<1> DEFINE y == Over(f, x)
           v == Over(x, d)
           w == Over(y, d)
<1>1. /\ DOMAIN y = DOMAIN f \cup DOMAIN x
      /\ \A r \in DOMAIN f : y[r] = f[r]
      /\ \A r \in DOMAIN x \ DOMAIN f : y[r] = x[r]
  BY DEF Over
<1>2. /\ DOMAIN w = DOMAIN f \cup DOMAIN v
      /\ \A r \in DOMAIN f : w[r] = f[r]
      /\ \A r \in DOMAIN v \ DOMAIN f : w[r] = v[r]
  BY DEF Over
<1>3. Typed(y)
  BY <1>1 DEF Typed, TxOk
<1> HIDE DEF y
<1>4. AllTold(w, b)
  <2> SUFFICES ASSUME NEW i \in Sub, S(i) \in DOMAIN w PROVE RowTold(w[S(i)], w, b, i)
    BY DEF AllTold
  <2> HIDE DEF v, w
  <2>1. CASE S(i) \in DOMAIN f
    <3>1. RowTold(f[S(i)], v, b, i) /\ DOMAIN v \subseteq DOMAIN w
      BY <2>1, <1>2 DEF v
    <3> QED BY <3>1, <1>2, <2>1, StaysTold
  <2>2. CASE S(i) \notin DOMAIN f
    <3>1. S(i) \in DOMAIN v /\ w[S(i)] = v[S(i)] /\ DOMAIN v \subseteq DOMAIN w
      BY <1>2, <2>2
    <3>2. RowTold(v[S(i)], v, b, i)
      BY <3>1 DEF v, TxOk, AllTold
    <3> QED BY <3>1, <3>2, StaysTold
  <2> QED BY <2>1, <2>2
<1>5. InOrder(w, b)
  <2>1. InOrder(v, b)
    BY DEF TxOk
  <2> HIDE DEF v, w
  <2>2. \A i \in Sub : /\ N(i, "3") \in DOMAIN f => ToldOf(v, b, i, "7")
                       /\ N(i, "1") \in DOMAIN f => ToldOf(v, b, i, "3")
    BY DEF v
  <2> QED BY <2>1, <2>2, <1>2 DEF InOrder, ToldOf
<1>6. TxOk(d, y, b)
  BY <1>3, <1>4, <1>5 DEF TxOk
<1> QED BY <1>1, <1>2, <1>6 DEF y

\* One row.
LEMMA OneRow ==
    ASSUME NEW r, NEW v
    PROVE  DOMAIN Is(r, v) = {r} /\ Is(r, v)[r] = v
    BY DEF Is

\* What a transaction reads.
LEMMA Reads ==
    ASSUME NEW t \in Tx, NEW r
    PROVE  /\ DOMAIN Visible(t) = DOMAIN ws[t] \cup DOMAIN db
           /\ Exists(t, r) <=> r \in DOMAIN Over(ws[t], db)
           /\ Exists(t, r) => Row(t, r) = Over(ws[t], db)[r]
    BY DEF Visible, Exists, Row, Over

\* A row of a subscription, as a statement of t reads it.
LEMMA ReadRow ==
    ASSUME Inv, NEW t \in Tx, NEW i \in Sub, Exists(t, S(i))
    PROVE  Row(t, S(i)) \in SubRow /\ RowTold(Row(t, S(i)), Over(ws[t], db), Spared(t), i)
<1>1. Typed(Over(ws[t], db)) /\ AllTold(Over(ws[t], db), Spared(t))
  BY Here DEF Typed, TxOk, Over
<1>2. S(i) \in DOMAIN Over(ws[t], db) /\ Row(t, S(i)) = Over(ws[t], db)[S(i)]
  BY Reads
<1> DEFINE v == Over(ws[t], db)
<1> HIDE DEF v
<1>4. Typed(v) /\ AllTold(v, Spared(t)) /\ S(i) \in DOMAIN v /\ Row(t, S(i)) = v[S(i)]
  BY <1>1, <1>2 DEF v
<1>5. v[S(i)] \in SubRow /\ RowTold(v[S(i)], v, Spared(t), i)
  <2>1. \/ \E j \in Sub : S(i) = S(j) /\ v[S(i)] \in SubRow
        \/ \E j \in Sub, k \in Kind : S(i) = N(j, k) /\ v[S(i)] \in BOOLEAN
        \/ S(i) = LowStock /\ v[S(i)] \in Nat
    BY <1>4 DEF Typed
  <2>2. v[S(i)] \in SubRow
    BY <2>1, Keys
  <2>3. RowTold(v[S(i)], v, Spared(t), i)
    BY <1>4, Zenon DEF AllTold
  <2> QED BY <2>2, <2>3
<1> QED BY <1>4, <1>5 DEF v
-----------------------------------------------------------------------------
\* The end of a session, and steps of others than the sessions.
LEMMA SetupFacts ==
    ASSUME Inv
    PROVE  setup \in SetupType /\ setup.last \in Nat /\ setup.duration \in Nat /\ now \in Nat
<1>1. setup \in SetupType /\ now \in Nat
  BY SubAssumption DEF Inv, World
<1> QED BY <1>1 DEF SetupType

\* A commit, a crash, an error of the panel.
LEMMA EndPreserves ==
    ASSUME Inv, NEW t \in Tx, Finish(t) \/ Crash(t) \/ PanelError(t)
    PROVE  Inv'
<1>1. World'
  <2>1. UNCHANGED <<setup, now, panel, inbox>> /\ crashes' \in 0..MaxCrashes
    <3>1. crashes \in 0..MaxCrashes /\ MaxCrashes \in Nat
      BY SubAssumption DEF Inv, World
    <3>2. CASE Finish(t)
      BY <3>1, <3>2 DEF Finish
    <3>3. CASE Crash(t)
      BY <3>1, <3>3 DEF Crash
    <3>4. CASE PanelError(t)
      BY <3>1, <3>4 DEF PanelError
    <3> QED BY <3>2, <3>3, <3>4
  <2> QED BY <2>1 DEF Inv, World
<1> QED BY <1>1, EndStep DEF Finish, Crash, PanelError, Spared

\* Time, and the panel's side.
LEMMA OthersPreserve ==
    ASSUME Inv, Tick \/ SetBanned \/ \E a \in Sub : UseTraffic(a) \/ SwitchOff(a) \/ AtPanel(a)
    PROVE  Inv'
<1>1. /\ UNCHANGED <<store, setup, sess, inbox, spared, crashes>>
      /\ now' \in Nat /\ now <= now' /\ now' <= setup.last
  <2>1. now <= setup.last
    BY DEF Inv, World
  <2>2. now \in Nat /\ setup.last \in Nat
    BY SetupFacts
  <2>3. CASE Tick
    BY <2>2, <2>3 DEF Tick
  <2>4. CASE \E a \in Sub : UseTraffic(a) \/ SwitchOff(a) \/ AtPanel(a)
    BY <2>1, <2>2, <2>4 DEF UseTraffic, SwitchOff, AtPanel
  <2>5. CASE SetBanned
    BY <2>1, <2>2, <2>5 DEF SetBanned
  <2> QED BY <2>3, <2>4, <2>5
<1>2. panel' \in [Sub -> [state : {"none", "on", "off", "gone"}, used : Level, expires : Nat]]
  <2>1. panel \in [Sub -> [state : {"none", "on", "off", "gone"}, used : Level, expires : Nat]]
    BY DEF Inv, World
  <2>2. CASE Tick
    BY <2>1, <2>2 DEF Tick
  <2>3. ASSUME NEW a \in Sub, UseTraffic(a) PROVE panel'[a].used \in Level /\
           panel' \in [Sub -> [state : {"none", "on", "off", "gone"}, used : Level, expires : Nat]]
    BY <2>1, <2>3 DEF UseTraffic, Level
  <2>4. ASSUME NEW a \in Sub, SwitchOff(a)
        PROVE  panel' \in [Sub -> [state : {"none", "on", "off", "gone"}, used : Level, expires : Nat]]
    BY <2>1, <2>4 DEF SwitchOff
  <2>5. ASSUME NEW a \in Sub, AtPanel(a)
        PROVE  panel' \in [Sub -> [state : {"none", "on", "off", "gone"}, used : Level, expires : Nat]]
    <3>1. now + setup.duration \in Nat
      BY SetupFacts
    <3> QED BY <2>1, <2>5, <3>1 DEF AtPanel
  <2>6. CASE SetBanned
    BY <2>1, <2>6 DEF SetBanned
  <2> QED BY <2>2, <2>3, <2>4, <2>5, <2>6
<1>3. World'
  BY <1>1, <1>2 DEF Inv, World
<1>4. spared' = spared /\ db' = db /\ ws' = ws /\ \A t \in Tx : Spared(t)' = Spared(t)
  BY <1>1 DEF Spared, store
<1>5. StoreInv' /\ SessionInv'
  BY <1>1, <1>4 DEF Inv, StoreInv, Shaped, Exclusive, SessionInv
<1>6. InTime'
  <2>1. ASSUME NEW t \in Tx PROVE sess[t].at <= now'
    BY <1>1, Here
  <2>2. LowStock \in DOMAIN db => db[LowStock] <= now'
    <3> SUFFICES ASSUME LowStock \in DOMAIN db PROVE db[LowStock] <= now'
      OBVIOUS
    <3>1. db[LowStock] \in Nat
      BY Keys DEF Inv, StoreInv, StoreOk, Typed
    <3> QED BY <3>1, <1>1 DEF Inv, InTime, World
  <2> QED BY <2>1, <2>2, <1>1, <1>4 DEF Inv, InTime
<1> QED BY <1>3, <1>5, <1>6 DEF Inv
-----------------------------------------------------------------------------
\* The first statements of the operations.
LEMMA BeginFacts ==
    ASSUME Inv, NEW t \in Tx, NEW op, Begin(t, op)
    PROVE  /\ sess[t] = Idle /\ ws[t] = NoRows /\ op \in setup.duty[t] /\ Over(ws[t], db) = db
           /\ sess[t].spared = {} /\ Spared(t) = spared
<1>1. sess[t].pc = "idle" /\ op \in setup.duty[t]
  BY DEF Begin, At
<1>2. sess[t].op = "none"
  BY <1>1, Here DEF IsSession, Runs, AtPanelNow
<1>3. sess[t] = Idle /\ ws[t] = NoRows
  BY <1>2, Here DEF Aware, Holds
<1>4. sess[t].spared = {} /\ Spared(t) = spared
  BY <1>3, IdleOk DEF Spared
<1> QED BY <1>1, <1>3, <1>4, Here, NothingOwn

\* The jobs load their rows.
LEMMA LoadPreserves ==
    ASSUME Inv, NEW t \in Tx, NEW op \in Job, LoadActive(t, op)
    PROVE  Inv'
<1> DEFINE rows == {r \in Active(t) : op = "sync" => Row(t, r).account # Null}
           cache == [r \in rows |-> Row(t, r)]
           pc == IF op = "sync" THEN "sync" ELSE "scan"
           z == [Idle EXCEPT !.op = op, !.at = now, !.banned = banned, !.seen = cache, !.pc = pc]
<1>1. Begin(t, op) /\ sess' = [sess EXCEPT ![t] = z] /\ UNCHANGED <<store, setup, now, panel, inbox, spared, crashes>>
  BY DEF LoadActive
<1>2. /\ sess[t] = Idle /\ ws[t] = NoRows /\ op \in setup.duty[t] /\ Over(ws[t], db) = db
      /\ sess[t].spared = {} /\ Spared(t) = spared
  BY <1>1, BeginFacts
<1>3. ASSUME NEW r \in rows
      PROVE  /\ r \in DOMAIN db /\ \E i \in Sub : r = S(i)
             /\ op = "sync" => Row(t, r).account # Null
             /\ Row(t, r).status = "active" /\ Row(t, r) = db[r]
  <2>1. /\ r \in DOMAIN Visible(t) /\ r[1] = "subscription" /\ Row(t, r).status = "active"
        /\ op = "sync" => Row(t, r).account # Null
    BY DEF Active
  <2>2. r \in DOMAIN db /\ Row(t, r) = db[r]
    BY <2>1, <1>2, Reads DEF NoRows
  <2>3. Typed(db)
    BY Here
  <2>4. \E i \in Sub : r = S(i)
    BY <2>1, <2>2, <2>3, Keys DEF Typed
  <2> QED BY <2>1, <2>2, <2>4
<1>4. ASSUME NEW i \in Sub, S(i) \in rows
      PROVE  Row(t, S(i)) \in SubRow /\ RowTold(Row(t, S(i)), db, Spared(t), i)
  <2>1. Exists(t, S(i))
    BY <1>2, <1>3, <1>4, Reads
  <2> QED BY <2>1, <1>2, ReadRow
<1>5. /\ cache = [r \in DOMAIN cache |-> cache[r]] /\ DOMAIN cache = rows
      /\ \A r \in rows : cache[r] = Row(t, r)
  OBVIOUS
<1>6. \A r \in rows : (\E i \in Sub : r = S(i)) /\ cache[r] \in SubRow
  BY <1>3, <1>4
<1> HIDE DEF rows, cache
<1>7. /\ z = [x \in Field |-> z[x]]
      /\ z.op = op /\ z.pc = pc /\ z.i = Null /\ z.old = Null /\ z.kind = "7" /\ z.at = now
      /\ z.seen = cache /\ z.dirty = NoRows /\ z.spared = {}
  BY DEF Idle, Field
<1>8. IsSession(z)
  <2>1. Runs(z.op, z.pc)
    BY <1>7 DEF Runs, Job
  <2>2. DOMAIN NoRows = {} /\ NoRows = [r \in DOMAIN NoRows |-> NoRows[r]]
    BY DEF NoRows
  <2>3. op \in {"expiry", "usage", "sync"} /\ now \in Nat
    BY Here DEF Job
  <2> HIDE DEF z, pc
  <2> QED BY <1>5, <1>6, <1>7, <2>1, <2>2, <2>3 DEF IsSession, Kind
<1>9. Aware(z, ws[t], db, Spared(t))
  <2>1. Holds(z, ws[t])
    BY <1>7, <1>2 DEF Holds, NoRows, Job, AtPanelNow
  <2>2. DOMAIN NoRows = {}
    BY DEF NoRows
  <2>3. \A r \in rows : r \in DOMAIN db
    BY <1>3
  <2>4. \A i \in Sub : S(i) \in rows => RowTold(cache[S(i)], db, Spared(t), i)
    BY <1>4, <1>5
  <2>5. op = "sync" => \A r \in rows : cache[r].account # Null
    BY <1>3, <1>5
  <2>6. pc \in {"sync", "scan"} /\ op # "buy"
    BY DEF Job
  <2> HIDE DEF z, pc
  <2> QED BY <1>5, <1>7, <2>1, <2>2, <2>3, <2>4, <2>5, <2>6 DEF Aware
<1>10. World' /\ z.at <= now
  BY <1>1, <1>7, Here DEF Inv, World
<1> HIDE DEF z
<1>11. z.spared = sess[t].spared
  BY <1>2, <1>7
<1> QED BY <1>1, <1>2, <1>7, <1>8, <1>9, <1>10, <1>11, QuietStep

\* The stock is low, and not told today.
LEMMA ReadStockPreserves ==
    ASSUME Inv, NEW t \in Tx, ReadStock(t)
    PROVE  Inv'
<1> DEFINE z == [Idle EXCEPT !.op = "stock", !.pc = "tell", !.at = now]
<1>1. /\ Begin(t, "stock") /\ sess' = [sess EXCEPT ![t] = z]
      /\ UNCHANGED <<store, setup, now, panel, inbox, spared, crashes>>
  BY DEF ReadStock
<1>2. sess[t] = Idle /\ ws[t] = NoRows /\ "stock" \in setup.duty[t] /\ sess[t].spared = {}
  BY <1>1, BeginFacts
<1>3. /\ z = [x \in Field |-> z[x]]
      /\ z.op = "stock" /\ z.pc = "tell" /\ z.i = Null /\ z.old = Null /\ z.kind = "7" /\ z.at = now
      /\ z.seen = NoRows /\ z.dirty = NoRows /\ z.spared = {}
  BY DEF Idle, Field
<1>4. DOMAIN NoRows = {} /\ NoRows = [r \in DOMAIN NoRows |-> NoRows[r]]
  BY DEF NoRows
<1>5. World' /\ z.at <= now /\ now \in Nat
  BY <1>1, <1>3, Here DEF Inv, World
<1> HIDE DEF z
<1>6. IsSession(z)
  BY <1>3, <1>4, <1>5 DEF IsSession, Kind, Runs
<1>7. Aware(z, ws[t], db, Spared(t)) /\ z.spared = sess[t].spared
  BY <1>2, <1>3, <1>4 DEF Aware, Holds, AtPanelNow, Job
<1> QED BY <1>1, <1>2, <1>3, <1>5, <1>6, <1>7, QuietStep

\* A purchase or a renewal begins.
LEMMA ProvisionPreserves ==
    ASSUME Inv, NEW t \in Tx, NEW i \in Sub, NEW old \in Sub \cup {Null}, Provision(t, i, old)
    PROVE  Inv'
<1> DEFINE pc == IF old = Null THEN "create" ELSE IF setup.kind = "marzban" THEN "extend" ELSE "look up"
           z == [Idle EXCEPT !.op = "buy", !.i = i, !.old = old, !.at = now, !.pc = pc]
<1>1. /\ Begin(t, "buy") /\ sess' = [sess EXCEPT ![t] = z]
      /\ old # Null => Exists(t, S(old))
      /\ UNCHANGED <<store, setup, now, panel, inbox, spared, crashes>>
  BY DEF Provision
<1>2. /\ sess[t] = Idle /\ ws[t] = NoRows /\ "buy" \in setup.duty[t] /\ Over(ws[t], db) = db
      /\ sess[t].spared = {}
  BY <1>1, BeginFacts
<1>3. /\ z = [x \in Field |-> z[x]]
      /\ z.op = "buy" /\ z.pc = pc /\ z.i = i /\ z.old = old /\ z.kind = "7" /\ z.at = now
      /\ z.seen = NoRows /\ z.dirty = NoRows /\ z.spared = {}
  BY DEF Idle, Field
<1>4. DOMAIN NoRows = {} /\ NoRows = [r \in DOMAIN NoRows |-> NoRows[r]]
  BY DEF NoRows
<1>5. World' /\ z.at <= now /\ now \in Nat
  BY <1>1, <1>3, Here DEF Inv, World
<1>6. pc \in {"create", "extend", "look up"}
  OBVIOUS
<1>7. old # Null => S(old) \in DOMAIN db
  BY <1>1, <1>2, Reads
<1> HIDE DEF z, pc
<1>8. IsSession(z)
  BY <1>3, <1>4, <1>5, <1>6 DEF IsSession, Kind, Runs, AtPanelNow
<1>9. Aware(z, ws[t], db, Spared(t)) /\ z.spared = sess[t].spared
  BY <1>2, <1>3, <1>4, <1>6, <1>7 DEF Aware, Holds, Job
<1> QED BY <1>1, <1>2, <1>3, <1>5, <1>8, <1>9, QuietStep
-----------------------------------------------------------------------------
\* Steps that only go on to the next statement.
PanelType == [Sub -> [state : {"none", "on", "off", "gone"}, used : Level, expires : Nat]]

\* A statement that writes nothing.
LEMMA GoOnPreserves ==
    ASSUME Inv, NEW t \in Tx, NEW pc, Goto(t, pc), UNCHANGED <<store, setup, now, spared, crashes>>,
           World', Runs(sess[t].op, pc), sess[t].op # "none",
           sess[t].pc \notin {"claim", "commit"}, pc \notin {"claim", "send", "retire"},
           sess[t].pc \notin AtPanelNow => pc \notin AtPanelNow,
           sess[t].op = "stock" => pc # "commit"
    PROVE  Inv'
<1> DEFINE z == [sess[t] EXCEPT !.pc = pc]
<1>1. sess' = [sess EXCEPT ![t] = z]
  BY DEF Goto
<1>2. /\ IsSession(z) /\ Aware(z, ws[t], db, Spared(t))
      /\ z.op = sess[t].op /\ z.at = sess[t].at /\ z.spared = sess[t].spared
  <2> DEFINE s == sess[t]
             x == ws[t]
  <2>1. /\ IsSession(s) /\ Aware(s, x, db, Spared(t)) /\ z = [s EXCEPT !.pc = pc]
        /\ Runs(s.op, pc) /\ s.op # "none" /\ s.pc \notin {"claim", "commit"}
        /\ s.pc \notin AtPanelNow => pc \notin AtPanelNow
        /\ s.op = "stock" => pc # "commit"
    BY Here
  <2> HIDE DEF s, x, z
  <2>2. IsSession(z) /\ Aware(z, x, db, Spared(t)) /\ z.op = s.op /\ z.at = s.at
        /\ z.spared = s.spared
    BY <2>1, GoOn
  <2> QED BY <2>2 DEF s, x
<1>3. z.at <= now /\ (z.op # "none" => z.op \in setup.duty[t])
  BY <1>2 DEF Inv, InTime
<1> HIDE DEF z
<1> QED BY <1>1, <1>2, <1>3, QuietStep

\* Changing one value of a function.
LEMMA Update ==
    ASSUME NEW D, NEW V, NEW f \in [D -> V], NEW a, NEW v, a \in D => v \in V
    PROVE  [f EXCEPT ![a] = v] \in [D -> V]
    OBVIOUS

\* One more message.
LEMMA Deliver ==
    ASSUME NEW D, NEW f \in [D -> Nat], NEW a
    PROVE  [f EXCEPT ![a] = @ + 1] \in [D -> Nat]
<1>1. a \in D => f[a] + 1 \in Nat
  OBVIOUS
<1>2. [f EXCEPT ![a] = f[a] + 1] \in [D -> Nat]
  BY <1>1, Update
<1> QED BY <1>2

\* The rows are done.
LEMMA EndOfScanPreserves ==
    ASSUME Inv, NEW t \in Tx, EndOfScan(t)
    PROVE  Inv'
<1>1. /\ sess[t].pc \in {"scan", "sync"} /\ Goto(t, "flush")
      /\ UNCHANGED <<store, setup, now, panel, inbox, spared, crashes>>
  BY DEF EndOfScan
<1>2. sess[t].op \in Job
  BY <1>1, Here DEF IsSession, Runs, Job, AtPanelNow
<1>3. World'
  BY <1>1 DEF Inv, World
<1>4. Runs(sess[t].op, "flush")
  BY <1>2 DEF Runs, Job
<1> QED BY <1>1, <1>2, <1>3, <1>4, GoOnPreserves DEF Job, AtPanelNow

\* The admins are told, or Telegram fails.
LEMMA TellAdminsPreserves ==
    ASSUME Inv, NEW t \in Tx, TellAdmins(t)
    PROVE  Inv'
<1>1. /\ sess[t].pc = "tell" /\ Goto(t, "tick off")
      /\ inbox' = [inbox EXCEPT ![<<Null, sess[t].at>>] = @ + 1] \/ inbox' = inbox
      /\ UNCHANGED <<store, setup, now, panel, spared, crashes>>
  BY DEF TellAdmins, At
<1>2. sess[t].op = "stock"
  BY <1>1, Here DEF IsSession, Runs, AtPanelNow
<1>3. World'
  <2> DEFINE D == (Sub \X Kind) \cup ({Null} \X (0..setup.last))
  <2>1. inbox \in [D -> Nat]
    BY DEF Inv, World
  <2> HIDE DEF D
  <2>2. inbox' \in [D -> Nat]
    <3>1. [inbox EXCEPT ![<<Null, sess[t].at>>] = @ + 1] \in [D -> Nat]
      BY <2>1, Deliver
    <3> QED BY <1>1, <2>1, <3>1
  <2> QED BY <1>1, <2>2 DEF Inv, World, D
<1>4. Runs(sess[t].op, "tick off")
  BY <1>2 DEF Runs
<1> QED BY <1>1, <1>2, <1>3, <1>4, GoOnPreserves DEF AtPanelNow

\* A step of a purchase at the panel.
LEMMA AtPanelPreserves ==
    ASSUME Inv, NEW t \in Tx, NEW pc \in AtPanelNow, Goto(t, pc), sess[t].pc \in AtPanelNow,
           UNCHANGED <<store, setup, now, inbox, spared, crashes>>, panel' \in PanelType
    PROVE  Inv'
<1>1. sess[t].op = "buy"
  BY Here DEF IsSession, Runs, AtPanelNow
<1>2. World'
  BY DEF Inv, World, PanelType
<1>3. Runs(sess[t].op, pc)
  BY <1>1 DEF Runs
<1> QED BY <1>1, <1>2, <1>3, GoOnPreserves DEF AtPanelNow

\* What is paid for ends at a time.
LEMMA Paid ==
    ASSUME Inv, NEW t \in Tx
    PROVE  sess[t].at + setup.duration \in Nat
<1>1. sess[t].at \in Nat /\ setup.duration \in Nat
  BY Here, SetupFacts
<1> QED BY <1>1

\* The calls of the panel.
LEMMA CreateUserPreserves ==
    ASSUME Inv, NEW t \in Tx, CreateUser(t)
    PROVE  Inv'
<1>1. /\ sess[t].pc = "create" /\ Goto(t, "insert")
      /\ panel' = [panel EXCEPT ![Account(t)] = NewAccount(sess[t].at)]
      /\ UNCHANGED <<store, setup, now, inbox, spared, crashes>>
  BY DEF CreateUser, At
<1>2. sess[t].at + setup.duration \in Nat
  BY Paid
<1>3. panel' \in PanelType
  <2>1. NewAccount(sess[t].at) \in [state : {"none", "on", "off", "gone"}, used : Level, expires : Nat]
    BY <1>2 DEF NewAccount, Level
  <2>2. panel \in PanelType
    BY DEF PanelType, Inv, World
  <2> QED BY <1>1, <2>1, <2>2, Update DEF PanelType
<1> QED BY <1>1, <1>3, AtPanelPreserves DEF AtPanelNow

\* X-UI is asked for the account.
LEMMA LookUpPreserves ==
    ASSUME Inv, NEW t \in Tx, LookUp(t)
    PROVE  Inv'
<1>1. PICK pc \in {"reset", "create"} : Goto(t, pc)
  BY DEF LookUp
<1>2. panel' \in PanelType /\ sess[t].pc = "look up"
  BY DEF LookUp, At, PanelType, Inv, World
<1> QED BY <1>1, <1>2, AtPanelPreserves DEF AtPanelNow, LookUp

\* The account is extended.
LEMMA ExtendPreserves ==
    ASSUME Inv, NEW t \in Tx, Extend(t)
    PROVE  Inv'
<1>1. PICK pc \in {"reset", "insert", "create", "reset in vain"} : Goto(t, pc)
  BY DEF Extend
<1>2. sess[t].pc = "extend" /\ UNCHANGED <<store, setup, now, inbox, spared, crashes>>
  BY DEF Extend, At
<1>3. panel' \in PanelType
  <2>1. sess[t].at + setup.duration \in Nat
    BY Paid
  <2>2. panel \in PanelType
    BY DEF PanelType, Inv, World
  <2>3. CASE panel' = [panel EXCEPT ![Account(t)] = Extended(@, sess[t].at)]
    BY <2>1, <2>2, <2>3 DEF Extended, PanelType
  <2>4. CASE panel' = panel
    BY <2>2, <2>4
  <2> QED BY <2>3, <2>4 DEF Extend
<1> QED BY <1>1, <1>2, <1>3, AtPanelPreserves DEF AtPanelNow

\* The traffic is reset.
LEMMA ResetTrafficPreserves ==
    ASSUME Inv, NEW t \in Tx, ResetTraffic(t)
    PROVE  Inv'
<1>1. sess[t].pc \in {"reset", "reset in vain"} /\ UNCHANGED <<store, setup, now, inbox, spared, crashes>>
  BY DEF ResetTraffic
<1>2. panel' \in PanelType
  <2>1. panel \in PanelType
    BY DEF PanelType, Inv, World
  <2>2. CASE panel' = [panel EXCEPT ![Account(t)].used = 0]
    <3> DEFINE a == Account(t)
               v == [panel[a] EXCEPT !.used = 0]
               V == [state : {"none", "on", "off", "gone"}, used : Level, expires : Nat]
    <3>1. a \in Sub => v \in V
      BY <2>1 DEF PanelType, Level
    <3>2. panel' = [panel EXCEPT ![a] = v]
      BY <2>2
    <3>3. panel \in [Sub -> V]
      BY <2>1 DEF PanelType
    <3> HIDE DEF a, v, V
    <3>4. panel' \in [Sub -> V]
      BY <3>1, <3>2, <3>3, Update
    <3> QED BY <3>4 DEF V, PanelType
  <2>3. CASE panel' = panel
    BY <2>1, <2>3
  <2> QED BY <2>2, <2>3 DEF ResetTraffic
<1>3. CASE \E pc \in {"insert", "extend"} : Goto(t, pc)
  BY <1>1, <1>2, <1>3, AtPanelPreserves DEF AtPanelNow
<1>4. CASE Close(t)
  <2>1. ws[t] = NoRows
    BY <1>1, Here DEF Aware, Holds, AtPanelNow
  <2>2. Rollback(t)
    BY <1>1, <2>1 DEF Rollback, store, Inv, StoreInv, Shaped
  <2>3. World'
    BY <1>1, <1>2 DEF Inv, World, PanelType
  <2> QED BY <1>1, <1>4, <2>2, <2>3, EndStep
<1> QED BY <1>3, <1>4 DEF ResetTraffic
-----------------------------------------------------------------------------
\* What a job makes of a row.

\* The first step reached: the steps before it have been told.
LEMMA FirstReached ==
    ASSUME NEW row \in SubRow, NEW at \in Nat, Reached(row, at) # {},
           NEW n, n = CHOOSE l \in Reached(row, at) : \A m \in Reached(row, at) : l <= m
    PROVE  /\ n \in 1..3
           /\ n = 2 => "7" \in row.tags
           /\ n = 3 => "3" \in row.tags
<1> DEFINE R == Reached(row, at)
<1>1. DOMAIN Step = {1, 2, 3} /\ Step[1] = "7" /\ Step[2] = "3" /\ Step[3] = "1"
  BY DEF Step
<1>2. R \subseteq {1, 2, 3} /\ row.expires \in Nat
  BY <1>1 DEF Reached, SubRow
<1>3. \E k \in R : \A m \in R : k <= m
  <2>1. CASE 1 \in R
    BY <2>1, <1>2
  <2>2. CASE 1 \notin R /\ 2 \in R
    BY <2>2, <1>2
  <2>3. CASE 1 \notin R /\ 2 \notin R
    BY <2>3, <1>2
  <2> QED BY <2>1, <2>2, <2>3
<1>4. n \in R /\ \A m \in R : n <= m
  BY <1>3
<1>5. ASSUME n = 2 PROVE "7" \in row.tags
  <2>1. 1 \notin R
    BY <1>4, <1>5
  <2>2. row.expires <= at + 2
    BY <1>4, <1>5 DEF Reached
  <2>3. row.expires <= at + 3
    BY <1>2, <2>2
  <2> QED BY <1>1, <2>1, <2>3 DEF Reached
<1>6. ASSUME n = 3 PROVE "3" \in row.tags
  <2>1. 2 \notin R
    BY <1>4, <1>6
  <2>2. row.expires <= at + 1
    BY <1>4, <1>6 DEF Reached
  <2>3. row.expires <= at + 2
    BY <1>2, <2>2
  <2> QED BY <1>1, <2>1, <2>3 DEF Reached
<1> QED BY <1>2, <1>4, <1>5, <1>6

\* An alert is of the job's kinds, and comes in order.
LEMMA AlertKind ==
    ASSUME NEW row \in SubRow, NEW at \in Nat, NEW op \in {"expiry", "usage"},
           NEW k, k = Alert(op, row, at), k # "none"
    PROVE  /\ k \in Kind
           /\ op = "usage" => k \in UsageKind
           /\ op = "expiry" => /\ k \in DayKind
                               /\ k = "3" => "7" \in row.tags
                               /\ k = "1" => "3" \in row.tags
<1>1. CASE op = "usage"
  <2>1. row.used \in 0..3 /\ row.level \in 0..3 /\ row.used > row.level
    BY <1>1 DEF Alert, UsageAlert, SubRow, Level
  <2>2. k = <<"80", "90", "100">>[row.used]
    BY <1>1, <2>1 DEF Alert, UsageAlert
  <2>3. row.used = 1 \/ row.used = 2 \/ row.used = 3
    BY <2>1
  <2>4. k = "80" \/ k = "90" \/ k = "100"
    BY <2>2, <2>3
  <2> QED BY <1>1, <2>4 DEF UsageKind, Kind
<1>2. CASE op = "expiry"
  <2>1. k = ExpiryAlert(row, at)
    BY <1>2 DEF Alert
  <2>2. CASE Past(row, at) /\ "expired" \notin row.tags
    <3>1. k = "expired"
      BY <2>1, <2>2 DEF ExpiryAlert
    <3> QED BY <3>1, <1>2 DEF DayKind, Kind
  <2>3. CASE ~Past(row, at) /\ Reached(row, at) # {}
    <3> DEFINE n == CHOOSE n \in Reached(row, at) : \A m \in Reached(row, at) : n <= m
    <3>1. k = Step[n]
      BY <2>1, <2>3 DEF ExpiryAlert
    <3>2. /\ n \in 1..3
          /\ n = 2 => "7" \in row.tags
          /\ n = 3 => "3" \in row.tags
      BY <2>3, FirstReached
    <3> HIDE DEF n
    <3>3. \/ n = 1 /\ k = "7"
          \/ n = 2 /\ k = "3"
          \/ n = 3 /\ k = "1"
      BY <3>1, <3>2 DEF Step
    <3> QED BY <1>2, <3>2, <3>3 DEF DayKind, Kind
  <2>4. \/ Past(row, at) /\ "expired" \notin row.tags
        \/ ~Past(row, at) /\ Reached(row, at) # {}
    BY <2>1 DEF ExpiryAlert
  <2> QED BY <2>2, <2>3, <2>4
<1> QED BY <1>1, <1>2

\* The columns the expiry and usage jobs assign.
LEMMA ColumnsType ==
    ASSUME NEW row \in SubRow, NEW at \in Nat, NEW op \in {"expiry", "usage"},
           NEW k, k = Alert(op, row, at), NEW c, c = Columns(op, row, at)
    PROVE  /\ IsColumns(c) /\ "expires" \notin DOMAIN c /\ "used" \notin DOMAIN c
           /\ "tags" \in DOMAIN c => /\ op = "expiry" /\ k # "none"
                                     /\ c["tags"] = row.tags \cup {k}
           /\ "status" \in DOMAIN c =>
                 /\ op = "expiry" /\ Past(row, at) /\ c["status"] = "expired"
                 /\ k = "expired" \/ "expired" \in row.tags
<1>1. row.used \in Level /\ row.tags \subseteq DayKind
  BY DEF SubRow, DayKind
<1> DEFINE told == ColumnsOfAlert(op, row, at)
           out == IF op = "expiry" /\ Past(row, at) THEN [status |-> "expired"] ELSE NoRows
<1>2. DOMAIN NoRows = {}
  BY DEF NoRows
<1>3. \/ k = "none" /\ DOMAIN told = {}
      \/ k # "none" /\ op = "usage" /\ DOMAIN told = {"level"} /\ told["level"] = row.used
      \/ k # "none" /\ op = "expiry" /\ DOMAIN told = {"tags"} /\ told["tags"] = row.tags \cup {k}
  <2>1. CASE k = "none"
    <3>1. told = NoRows
      BY <2>1 DEF ColumnsOfAlert
    <3> QED BY <3>1, <2>1, <1>2
  <2>2. CASE k # "none" /\ op = "usage"
    <3>1. told = [level |-> row.used]
      BY <2>2 DEF ColumnsOfAlert
    <3> QED BY <3>1, <2>2
  <2>3. CASE k # "none" /\ op = "expiry"
    <3>1. told = [tags |-> row.tags \cup {k}]
      BY <2>3 DEF ColumnsOfAlert
    <3> QED BY <3>1, <2>3
  <2> QED BY <2>1, <2>2, <2>3
<1>4. \/ DOMAIN out = {}
      \/ op = "expiry" /\ Past(row, at) /\ DOMAIN out = {"status"} /\ out["status"] = "expired"
  BY <1>2
<1>5. c = Over(told, out)
  BY DEF Columns
<1>6. op = "expiry" /\ Past(row, at) => k = "expired" \/ "expired" \in row.tags
  BY DEF Alert, ExpiryAlert
<1>7. k # "none" /\ op = "expiry" => k \in DayKind
  BY AlertKind
<1> HIDE DEF told, out
<1>8. /\ c = [x \in DOMAIN c |-> c[x]] /\ DOMAIN c = DOMAIN told \cup DOMAIN out
      /\ \A x \in DOMAIN told : c[x] = told[x]
      /\ \A x \in DOMAIN out \ DOMAIN told : c[x] = out[x]
  BY <1>5 DEF Over
<1>9. IsColumns(c)
  BY <1>1, <1>3, <1>4, <1>7, <1>8 DEF IsColumns
<1> QED BY <1>3, <1>4, <1>6, <1>8, <1>9
-----------------------------------------------------------------------------
\* The jobs go through what they have loaded.

\* One row r less to look at, the columns c of it assigned, and perhaps an alert
\* to claim.
LEMMA Examine ==
    ASSUME NEW s, NEW x, NEW d, NEW b, NEW r, NEW c, NEW z,
           IsSession(s), Aware(s, x, d, b), s.pc \in {"scan", "sync"},
           r \in DOMAIN s.seen, IsColumns(c), z.spared \subseteq Sub \X Kind,
           z = [y \in Field |-> z[y]], z.op = s.op, z.at = s.at, z.old = s.old,
           z.seen = Without(s.seen, r), z.dirty = Over(Is(r, c), s.dirty),
           z.i \in Sub \cup {Null}, z.kind \in Kind,
           z.pc = s.pc \/ (z.pc = "claim" /\ s.pc = "scan" /\ Alerting(z, x, d, b)),
           \A i \in Sub : r = S(i) => ColumnsTold(c, z, Over(x, d), b, i)
    PROVE  IsSession(z) /\ Aware(z, x, d, b)
<1> DEFINE v == Over(x, d)
<1>1. /\ DOMAIN z.seen = DOMAIN s.seen \ {r}
      /\ \A q \in DOMAIN z.seen : z.seen[q] = s.seen[q]
      /\ z.seen = [q \in DOMAIN z.seen |-> z.seen[q]]
  BY DEF Without
<1>2. /\ DOMAIN z.dirty = DOMAIN s.dirty \cup {r} /\ z.dirty[r] = c
      /\ \A q \in DOMAIN s.dirty \ {r} : z.dirty[q] = s.dirty[q]
      /\ z.dirty = [q \in DOMAIN z.dirty |-> z.dirty[q]]
  <2> DEFINE f == Is(r, c)
  <2>1. DOMAIN f = {r} /\ f[r] = c
    BY OneRow
  <2>2. z.dirty = Over(f, s.dirty)
    OBVIOUS
  <2> HIDE DEF f
  <2> QED BY <2>1, <2>2 DEF Over
<1>3. IsSession(z)
  <2>1. Runs(z.op, z.pc)
    BY DEF IsSession, Runs, AtPanelNow
  <2>2. ASSUME NEW q \in DOMAIN z.dirty PROVE (\E i \in Sub : q = S(i)) /\ IsColumns(z.dirty[q])
    <3>1. CASE q = r
      BY <3>1, <1>2 DEF IsSession
    <3>2. CASE q \in DOMAIN s.dirty \ {r}
      <4>1. z.dirty[q] = s.dirty[q]
        BY <3>2, <1>2
      <4> QED BY <3>2, <4>1 DEF IsSession
    <3> QED BY <3>1, <3>2, <1>2
  <2>3. \A q \in DOMAIN z.seen : (\E i \in Sub : q = S(i)) /\ z.seen[q] \in SubRow
    BY <1>1 DEF IsSession
  <2>4. z.op \in {"none", "expiry", "usage", "sync", "buy", "stock"} /\ z.at \in Nat
        /\ z.old \in Sub \cup {Null}
    BY DEF IsSession
  <2> QED BY <1>1, <1>2, <2>1, <2>2, <2>3, <2>4 DEF IsSession
<1>4. s.op \in Job
  BY DEF IsSession, Runs, Job, AtPanelNow
<1>5. Holds(z, x)
  <2>1. Holds(s, x)
    BY DEF Aware
  <2> QED BY <2>1, <1>4 DEF Holds, Job, AtPanelNow
<1>6. \A i \in Sub : S(i) \in DOMAIN z.dirty => ColumnsTold(z.dirty[S(i)], z, v, b, i)
  <2> SUFFICES ASSUME NEW i \in Sub, S(i) \in DOMAIN z.dirty
               PROVE  ColumnsTold(z.dirty[S(i)], z, v, b, i)
    OBVIOUS
  <2>1. CASE r = S(i)
    BY <2>1, <1>2
  <2>2. CASE r # S(i)
    <3>1. S(i) \in DOMAIN s.dirty /\ z.dirty[S(i)] = s.dirty[S(i)]
      BY <2>2, <1>2
    <3>2. ColumnsTold(s.dirty[S(i)], s, v, b, i)
      BY <3>1 DEF Aware
    <3> HIDE DEF v
    <3> QED BY <3>1, <3>2 DEF ColumnsTold, Due
  <2> QED BY <2>1, <2>2
<1>7. \A i \in Sub : S(i) \in DOMAIN z.seen => RowTold(z.seen[S(i)], d, b, i)
  BY <1>1 DEF Aware
<1>8. /\ DOMAIN z.seen \cup DOMAIN z.dirty \subseteq DOMAIN d
      /\ z.op = "sync" => \A q \in DOMAIN z.seen : z.seen[q].account # Null
  BY <1>1, <1>2 DEF Aware
<1>9. z.pc \in {"claim", "send"} => z.pc = "claim" /\ Alerting(z, x, d, b)
  OBVIOUS
<1>10. z.op # "buy" /\ z.pc # "retire"
  BY <1>4 DEF Job
<1> QED BY <1>3, <1>5, <1>6, <1>7, <1>8, <1>9, <1>10 DEF Aware

\* The sync looks at a subscription.
LEMMA SyncUserPreserves ==
    ASSUME Inv, NEW t \in Tx, SyncUser(t)
    PROVE  Inv'
<1> DEFINE s == sess[t]
           x == ws[t]
<1>1. PICK r \in DOMAIN s.seen :
         \E c \in {NoRows} \cup (IF panel[s.seen[r].account].state \in {"on", "off"}
                                 THEN {Remote(s.seen[r].account)} ELSE {}) :
            sess' = [sess EXCEPT ![t].seen = Without(@, r), ![t].dirty = Over(Is(r, c), @)]
  BY DEF SyncUser
<1>2. PICK c : /\ c = NoRows \/ c = Remote(s.seen[r].account)
               /\ sess' = [sess EXCEPT ![t].seen = Without(@, r), ![t].dirty = Over(Is(r, c), @)]
  BY <1>1
<1> DEFINE z == [[s EXCEPT !.seen = Without(s.seen, r)] EXCEPT !.dirty = Over(Is(r, c), s.dirty)]
<1>3. /\ IsSession(s) /\ Aware(s, x, db, Spared(t)) /\ s.pc = "sync" /\ s.op = "sync"
      /\ UNCHANGED <<store, setup, now, panel, inbox, spared, crashes>>
  BY Here DEF SyncUser, At, IsSession, Runs, AtPanelNow
<1>4. s = [y \in Field |-> s[y]]
  BY <1>3 DEF IsSession
<1>5. sess' = [sess EXCEPT ![t] = z]
  BY <1>2, <1>4 DEF Inv, SessionInv, Field
<1>6. /\ z = [y \in Field |-> z[y]] /\ z.op = s.op /\ z.pc = s.pc /\ z.i = s.i /\ z.old = s.old
      /\ z.kind = s.kind /\ z.at = s.at /\ z.spared = s.spared
      /\ z.seen = Without(s.seen, r) /\ z.dirty = Over(Is(r, c), s.dirty)
  BY <1>4 DEF Field
<1>7. /\ IsColumns(c) /\ "tags" \notin DOMAIN c
      /\ "status" \in DOMAIN c => c["status"] = "disabled"
  <2> DEFINE a == s.seen[r].account
  <2>1. CASE c = NoRows
    BY <2>1 DEF IsColumns, NoRows
  <2>2. CASE c = Remote(a)
    <3>1. a \in Sub
      BY <1>3 DEF IsSession, Aware, SubRow
    <3>2. panel[a].used \in Level /\ panel[a].expires \in Nat
      BY <3>1 DEF Inv, World
    <3> HIDE DEF a
    <3> DEFINE out == IF panel[a].state = "on" THEN NoRows ELSE [status |-> "disabled"]
               in == [used |-> panel[a].used, expires |-> panel[a].expires]
    <3>3. DOMAIN out = {} \/ (DOMAIN out = {"status"} /\ out["status"] = "disabled")
      BY DEF NoRows
    <3>4. DOMAIN in = {"used", "expires"} /\ in["used"] \in Level /\ in["expires"] \in Nat
      BY <3>2
    <3>5. c = Over(in, out)
      BY <2>2 DEF Remote
    <3> HIDE DEF in, out
    <3>6. /\ c = [y \in DOMAIN c |-> c[y]] /\ DOMAIN c = DOMAIN in \cup DOMAIN out
          /\ \A y \in DOMAIN in : c[y] = in[y]
          /\ \A y \in DOMAIN out \ DOMAIN in : c[y] = out[y]
      BY <3>5 DEF Over
    <3> QED BY <3>3, <3>4, <3>6 DEF IsColumns
  <2> QED BY <1>2, <2>1, <2>2
<1>8. z.i \in Sub \cup {Null} /\ z.kind \in Kind /\ z.spared \subseteq Sub \X Kind
  BY <1>3, <1>6 DEF IsSession
<1> HIDE DEF z, s, x
<1>9. \A i \in Sub : r = S(i) => ColumnsTold(c, z, Over(x, db), Spared(t), i)
  BY <1>7 DEF ColumnsTold
<1>10. IsSession(z) /\ Aware(z, x, db, Spared(t))
  BY <1>3, <1>6, <1>7, <1>8, <1>9, <1>1, Examine
<1>11. World'
  BY <1>3 DEF Inv, World
<1>12. z.at <= now /\ (z.op # "none" => z.op \in setup.duty[t])
  BY <1>6 DEF Inv, InTime, s
<1>13. Aware(z, ws[t], db, Spared(t)) /\ z.spared = sess[t].spared
  BY <1>6, <1>10 DEF s, x
<1> QED BY <1>3, <1>5, <1>10, <1>11, <1>12, <1>13, QuietStep

\* An alerting job looks at a subscription: it assigns the columns that remember the
\* alert, and claims it next.
LEMMA InspectPreserves ==
    ASSUME Inv, NEW t \in Tx, Inspect(t)
    PROVE  Inv'
<1> DEFINE s == sess[t]
           x == ws[t]
           row(r) == s.seen[r]
           k(r) == Alert(s.op, row(r), s.at)
           c(r) == Columns(s.op, row(r), s.at)
           told(r) == CASE k(r) = "none" -> s
                        [] k(r) # "none" /\ s.banned -> [s EXCEPT !.spared = @ \cup {<<r[2], k(r)>>}]
                        [] OTHER -> [s EXCEPT !.i = r[2], !.kind = k(r), !.pc = "claim"]
           next(r) == [told(r) EXCEPT !.seen = Without(@, r), !.dirty = Over(Is(r, c(r)), @)]
<1>1. /\ IsSession(s) /\ Aware(s, x, db, Spared(t)) /\ s.pc = "scan" /\ s.op \in {"expiry", "usage"}
      /\ UNCHANGED <<store, setup, now, panel, inbox, spared, crashes>> /\ s.at \in Nat
  BY Here DEF Inspect, At, IsSession, Runs, AtPanelNow
<1>2. PICK r \in DOMAIN s.seen : sess' = [sess EXCEPT ![t] = next(r)]
  BY DEF Inspect
<1>3. PICK i \in Sub : r = S(i)
  BY <1>1 DEF IsSession
<1>4. row(r) \in SubRow /\ RowTold(row(r), db, Spared(t), i) /\ r[2] = i
  BY <1>1, <1>3, Keys DEF IsSession, Aware
<1> DEFINE z == next(r)
           kind == k(r)
           new == c(r)
<1>5. s = [y \in Field |-> s[y]]
  BY <1>1 DEF IsSession
<1>6. /\ z = [y \in Field |-> z[y]] /\ z.op = s.op /\ z.at = s.at /\ z.old = s.old
      /\ z.seen = Without(s.seen, r) /\ z.dirty = Over(Is(r, new), s.dirty)
      /\ \/ kind = "none" /\ z.pc = s.pc /\ z.i = s.i /\ z.kind = s.kind /\ z.spared = s.spared
         \/ /\ kind # "none" /\ z.pc = s.pc /\ z.i = s.i /\ z.kind = s.kind
            /\ z.spared = s.spared \cup {<<i, kind>>}
         \/ kind # "none" /\ z.pc = "claim" /\ z.i = i /\ z.kind = kind /\ z.spared = s.spared
  <2> DEFINE w == told(r)
  <2>1. /\ w = [y \in Field |-> w[y]] /\ w.op = s.op /\ w.at = s.at /\ w.old = s.old
        /\ w.seen = s.seen /\ w.dirty = s.dirty
        /\ \/ kind = "none" /\ w.pc = s.pc /\ w.i = s.i /\ w.kind = s.kind /\ w.spared = s.spared
           \/ /\ kind # "none" /\ w.pc = s.pc /\ w.i = s.i /\ w.kind = s.kind
              /\ w.spared = s.spared \cup {<<i, kind>>}
           \/ kind # "none" /\ w.pc = "claim" /\ w.i = i /\ w.kind = kind /\ w.spared = s.spared
    <3>1. CASE kind = "none"
      <4>1. w = s
        BY <3>1
      <4> HIDE DEF kind, s, w
      <4> QED BY <3>1, <4>1, <1>5
    <3>2. CASE kind # "none" /\ s.banned
      <4>1. w = [s EXCEPT !.spared = s.spared \cup {<<i, kind>>}]
        BY <3>2, <1>4
      <4> HIDE DEF kind, s, w
      <4> QED BY <3>2, <4>1, <1>5 DEF Field
    <3>3. CASE kind # "none" /\ ~s.banned
      <4>1. w = [s EXCEPT !.i = i, !.kind = kind, !.pc = "claim"]
        BY <3>3, <1>4
      <4> HIDE DEF kind, s, w
      <4> QED BY <3>3, <4>1, <1>5 DEF Field
    <3> QED BY <3>1, <3>2, <3>3
  <2>2. z = [w EXCEPT !.seen = Without(w.seen, r), !.dirty = Over(Is(r, new), w.dirty)]
    OBVIOUS
  <2> HIDE DEF z, new, kind, s, w
  <2> QED BY <2>1, <2>2 DEF Field
<1>7. /\ kind # "none" => kind \in Kind
      /\ s.op = "usage" /\ kind # "none" => kind \in UsageKind
      /\ s.op = "expiry" /\ kind # "none" => /\ kind \in DayKind
                                             /\ kind = "3" => "7" \in row(r).tags
                                             /\ kind = "1" => "3" \in row(r).tags
  BY <1>1, <1>4, AlertKind
<1>8. /\ IsColumns(new)
      /\ "tags" \in DOMAIN new => kind # "none" /\ new["tags"] = row(r).tags \cup {kind}
      /\ "status" \in DOMAIN new => kind = "expired" \/ "expired" \in row(r).tags
  BY <1>1, <1>4, ColumnsType
<1>9. sess' = [sess EXCEPT ![t] = z]
  BY <1>2
<1>10. r \in DOMAIN s.seen /\ s.pc \in {"scan", "sync"}
  BY <1>1, <1>2
<1> DEFINE tags == row(r).tags
           v == Over(x, db)
           b == spared \cup z.spared
<1>11. Spared(t) = spared \cup s.spared
  BY DEF Spared
<1> HIDE DEF z, kind, new, s, x, tags
<1>12. Spared(t) \subseteq b /\ s.spared \subseteq z.spared
  BY <1>6, <1>11
<1>13. \A l \in tags : ToldOf(v, b, i, l)
  <2>1. \A l \in tags : ToldOf(db, Spared(t), i, l)
    BY <1>4 DEF RowTold, tags
  <2>2. DOMAIN db \subseteq DOMAIN Over(x, db)
    BY DEF Over
  <2> QED BY <2>1, <2>2, <1>12 DEF ToldOf
<1>14. ColumnsTold(new, z, v, b, i)
  <2>1. \A l : l \in tags \/ (l = kind /\ kind # "none") => ToldOf(v, b, i, l) \/ Due(z, i, l)
    <3>1. kind # "none" => ToldOf(v, b, i, kind) \/ Due(z, i, kind)
      BY <1>6 DEF ToldOf, Due
    <3> QED BY <3>1, <1>13
  <2>2. "tags" \in DOMAIN new => kind # "none" /\ new["tags"] = tags \cup {kind}
    BY <1>8 DEF tags
  <2>3. "status" \in DOMAIN new => kind = "expired" \/ "expired" \in tags
    BY <1>8 DEF tags
  <2> HIDE DEF v, b
  <2> QED BY <2>1, <2>2, <2>3 DEF ColumnsTold
<1>15. z.pc = "claim" => Alerting(z, x, db, b)
  <2> SUFFICES ASSUME z.pc = "claim" PROVE Alerting(z, x, db, b)
    OBVIOUS
  <2>1. kind # "none" /\ z.i = i /\ z.kind = kind /\ z.op = s.op
    BY <1>1, <1>6
  <2>2. /\ s.op = "usage" => kind \in UsageKind
        /\ s.op = "expiry" => /\ kind \in DayKind
                              /\ kind = "3" => "7" \in tags
                              /\ kind = "1" => "3" \in tags
    BY <1>7, <2>1 DEF tags
  <2> HIDE DEF v, b
  <2>3. kind = "3" => ToldOf(v, b, i, "7")
    BY <2>2, <1>13, <1>1 DEF UsageKind
  <2>4. kind = "1" => ToldOf(v, b, i, "3")
    BY <2>2, <1>13, <1>1 DEF UsageKind
  <2> QED BY <2>1, <2>2, <2>3, <2>4 DEF Alerting, v
<1>16. \A j \in Sub : r = S(j) => ColumnsTold(new, z, v, b, j)
  BY <1>3, <1>14, Keys
<1>17. z.i \in Sub \cup {Null} /\ z.kind \in Kind /\ z.spared \subseteq Sub \X Kind
  BY <1>1, <1>6, <1>7 DEF IsSession
<1>18. z.pc = s.pc \/ (z.pc = "claim" /\ s.pc = "scan" /\ Alerting(z, x, db, b))
  BY <1>1, <1>6, <1>15
<1>19. IsSession(z) /\ Aware(z, x, db, b)
  <2>1. /\ z = [y \in Field |-> z[y]] /\ z.op = s.op /\ z.at = s.at /\ z.old = s.old
        /\ z.seen = Without(s.seen, r) /\ z.dirty = Over(Is(r, new), s.dirty)
    BY <1>6
  <2>2. Aware(s, x, db, b)
    BY <1>1, <1>12, MoreSpared
  <2> HIDE DEF b
  <2> QED BY <1>1, <1>8, <1>10, <1>16, <1>17, <1>18, <2>1, <2>2, Examine
<1>20. World'
  BY <1>1 DEF Inv, World
<1>21. z.at <= now /\ (z.op # "none" => z.op \in setup.duty[t])
  BY <1>6 DEF Inv, InTime, s
<1>22. sess[t].spared \subseteq z.spared /\ Aware(z, ws[t], db, spared \cup z.spared)
  BY <1>12, <1>19 DEF s, x
<1> QED BY <1>1, <1>9, <1>19, <1>20, <1>21, <1>22, SparingStep
-----------------------------------------------------------------------------
\* Alerts are claimed and sent.

\* Writing a claim in its order.
LEMMA WriteClaim ==
    ASSUME NEW x, NEW d, NEW b, TxOk(d, x, b), NEW i \in Sub, NEW k \in Kind, NEW v \in BOOLEAN,
           k = "3" => ToldOf(Over(x, d), b, i, "7"),
           k = "1" => ToldOf(Over(x, d), b, i, "3")
    PROVE  /\ TxOk(d, Over(Is(N(i, k), v), x), b)
           /\ DOMAIN Over(Is(N(i, k), v), x) = {N(i, k)} \cup DOMAIN x
           /\ DOMAIN Over(x, d) \subseteq DOMAIN Over(Over(Is(N(i, k), v), x), d)
<1> DEFINE f == Is(N(i, k), v)
<1>1. DOMAIN f = {N(i, k)} /\ f[N(i, k)] = v
  BY OneRow
<1> HIDE DEF f
<1>2. Typed(f)
  BY <1>1 DEF Typed
<1>3. \A j \in Sub : S(j) \in DOMAIN f => RowTold(f[S(j)], Over(x, d), b, j)
  BY <1>1, Keys
<1>4. \A j \in Sub : /\ N(j, "3") \in DOMAIN f => ToldOf(Over(x, d), b, j, "7")
                     /\ N(j, "1") \in DOMAIN f => ToldOf(Over(x, d), b, j, "3")
  BY <1>1, Keys
<1>5. /\ TxOk(d, Over(f, x), b) /\ DOMAIN Over(f, x) = DOMAIN f \cup DOMAIN x
      /\ DOMAIN Over(x, d) \subseteq DOMAIN Over(Over(f, x), d)
  BY <1>2, <1>3, <1>4, WriteOk
<1> QED BY <1>1, <1>5 DEF f

\* The claim n of the alert is there, written or found, and the session goes on.
LEMMA Claiming ==
    ASSUME NEW s, NEW x, NEW d, NEW b, NEW n, NEW y, NEW z, NEW pc \in {"scan", "send"},
           IsSession(s), Aware(s, x, d, b), TxOk(d, x, b), s.pc \in {"claim", "send"},
           n = N(s.i, s.kind), y = x \/ (\E v \in BOOLEAN : y = Over(Is(n, v), x)),
           z = [s EXCEPT !.pc = pc], n \in DOMAIN Over(y, d),
           pc = "send" => n \in DOMAIN y /\ n \notin DOMAIN d
    PROVE  /\ IsSession(z) /\ Aware(z, y, d, b) /\ TxOk(d, y, b)
           /\ z.op = s.op /\ z.at = s.at /\ z.spared = s.spared
<1>1. s.op \in {"expiry", "usage"}
  BY DEF IsSession, Runs, AtPanelNow
<1>2. /\ IsSession(z) /\ z.pc = pc
      /\ z.op = s.op /\ z.i = s.i /\ z.old = s.old /\ z.kind = s.kind /\ z.at = s.at
      /\ z.seen = s.seen /\ z.dirty = s.dirty /\ z.spared = s.spared
  <2>1. Runs(s.op, pc)
    BY <1>1 DEF Runs
  <2> QED BY <2>1, GotoSession
<1>3. Alerting(s, x, d, b) /\ s.kind \in Kind
  BY DEF Aware, IsSession
<1>5. /\ TxOk(d, y, b) /\ DOMAIN x \subseteq DOMAIN y /\ DOMAIN y \subseteq DOMAIN x \cup {n}
      /\ DOMAIN Over(x, d) \subseteq DOMAIN Over(y, d)
  <2>1. CASE y = x
    BY <2>1
  <2>2. ASSUME NEW v \in BOOLEAN, y = Over(Is(n, v), x)
        PROVE  /\ TxOk(d, y, b) /\ DOMAIN x \subseteq DOMAIN y /\ DOMAIN y \subseteq DOMAIN x \cup {n}
               /\ DOMAIN Over(x, d) \subseteq DOMAIN Over(y, d)
    <3>1. s.i \in Sub
      BY <1>3 DEF Alerting
    <3>2. /\ s.kind = "3" => ToldOf(Over(x, d), b, s.i, "7")
          /\ s.kind = "1" => ToldOf(Over(x, d), b, s.i, "3")
      BY <1>3 DEF Alerting
    <3> DEFINE i == s.i
               k == s.kind
               f == Is(N(i, k), v)
    <3>3. /\ i \in Sub /\ k \in Kind /\ N(i, k) = n
          /\ k = "3" => ToldOf(Over(x, d), b, i, "7")
          /\ k = "1" => ToldOf(Over(x, d), b, i, "3")
      BY <3>1, <3>2, <1>3
    <3> HIDE DEF i, k
    <3>4. /\ TxOk(d, Over(f, x), b) /\ DOMAIN Over(f, x) = {N(i, k)} \cup DOMAIN x
          /\ DOMAIN Over(x, d) \subseteq DOMAIN Over(Over(f, x), d)
      BY <3>3, WriteClaim, SMTT(30)
    <3>5. y = Over(f, x)
      BY <2>2, <3>3
    <3> HIDE DEF f
    <3> QED BY <3>3, <3>4, <3>5
  <2> QED BY <2>1, <2>2
<1>6. \A i \in Sub : S(i) # n
  BY Keys
<1>7. LowStock # n
  BY Keys
<1>8. /\ DOMAIN Over(x, d) \subseteq DOMAIN Over(y, d) /\ N(s.i, s.kind) = n
  BY <1>5
<1>9. Holds(z, y)
  <2>1. Holds(s, x)
    BY DEF Aware
  <2>2. \A i \in Sub : S(i) \in DOMAIN y => S(i) \in DOMAIN x
    BY <1>5, <1>6
  <2>3. LowStock \in DOMAIN y => LowStock \in DOMAIN x
    BY <1>5, <1>7
  <2> QED BY <2>1, <2>2, <2>3, <1>1, <1>2 DEF Holds, Job, AtPanelNow
<1>10. \A i \in Sub : S(i) \in DOMAIN z.dirty => ColumnsTold(z.dirty[S(i)], z, Over(y, d), b, i)
  <2> SUFFICES ASSUME NEW i \in Sub, S(i) \in DOMAIN s.dirty
               PROVE  ColumnsTold(s.dirty[S(i)], z, Over(y, d), b, i)
    BY <1>2
  <2>1. ColumnsTold(s.dirty[S(i)], s, Over(x, d), b, i)
    BY DEF Aware
  <2>2. \A k : ToldOf(Over(x, d), b, i, k) \/ Due(s, i, k) => ToldOf(Over(y, d), b, i, k)
    BY <1>8 DEF ToldOf, Due
  <2> QED BY <2>1, <2>2 DEF ColumnsTold
<1>11. Alerting(z, y, d, b)
  BY <1>2, <1>3, <1>8 DEF Alerting, ToldOf
<1>12. /\ DOMAIN z.seen \cup DOMAIN z.dirty \subseteq DOMAIN d
       /\ \A i \in Sub : S(i) \in DOMAIN z.seen => RowTold(z.seen[S(i)], d, b, i)
       /\ z.op # "sync" /\ z.op # "buy" /\ z.pc # "retire"
       /\ z.pc = "send" => N(z.i, z.kind) \in DOMAIN y /\ N(z.i, z.kind) \notin DOMAIN d
  BY <1>1, <1>2, <1>8 DEF Aware
<1> QED BY <1>2, <1>5, <1>9, <1>10, <1>11, <1>12 DEF Aware

\* The claim, new or found.
LEMMA ClaimPreserves ==
    ASSUME Inv, NEW t \in Tx, Claim(t)
    PROVE  Inv'
<1> DEFINE s == sess[t]
           x == ws[t]
           n == Claimed(t)
<1>1. /\ IsSession(s) /\ Aware(s, x, db, Spared(t)) /\ TxOk(db, x, Spared(t)) /\ s.pc = "claim"
      /\ n = N(s.i, s.kind) /\ UNCHANGED <<setup, now, panel, inbox, spared, crashes>>
  BY Here DEF Claim, At, Claimed
<1>2. World'
  BY <1>1 DEF Inv, World
<1>3. CASE ~Exists(t, n) /\ Write(t, Is(n, FALSE)) /\ Goto(t, "send")
  <2> DEFINE z == [s EXCEPT !.pc = "send"]
             f == Is(n, FALSE)
             y == Over(f, x)
  <2>1. sess' = [sess EXCEPT ![t] = z] /\ Write(t, f)
    BY <1>3 DEF Goto
  <2>2. n \in DOMAIN y /\ n \notin DOMAIN db /\ n \in DOMAIN Over(y, db)
    BY <1>3, OneRow DEF Exists, Over
  <2>3. y = Over(f, x) /\ z = [s EXCEPT !.pc = "send"] /\ (y = x \/ \E v \in BOOLEAN : y = Over(Is(n, v), x))
    OBVIOUS
  <2> HIDE DEF n, s, x, z, f, y
  <2>4. IsSession(z) /\ Aware(z, y, db, Spared(t)) /\ TxOk(db, y, Spared(t)) /\ z.op = s.op /\ z.at = s.at
        /\ z.spared = s.spared
    <3> DEFINE b == Spared(t)
    <3>1. IsSession(s) /\ Aware(s, x, db, b) /\ TxOk(db, x, b) /\ s.pc = "claim" /\ n = N(s.i, s.kind)
      BY <1>1
    <3> HIDE DEF b
    <3>2. /\ IsSession(z) /\ Aware(z, y, db, b) /\ TxOk(db, y, b) /\ z.op = s.op /\ z.at = s.at
          /\ z.spared = s.spared
      BY <3>1, <2>2, <2>3, Claiming, SMTT(30)
    <3> QED BY <3>2 DEF b
  <2>5. z.spared = sess[t].spared /\ z.at <= now /\ (z.op # "none" => z.op \in setup.duty[t])
    BY <2>4 DEF Inv, InTime, s
  <2> QED BY <1>1, <1>2, <2>1, <2>3, <2>4, <2>5, WriteStep DEF x
<1>4. CASE Exists(t, n) /\ Goto(t, "scan") /\ UNCHANGED store
  <2> DEFINE z == [s EXCEPT !.pc = "scan"]
  <2>1. sess' = [sess EXCEPT ![t] = z]
    BY <1>4 DEF Goto
  <2>2. n \in DOMAIN Over(x, db)
    BY <1>4 DEF Exists, Over
  <2>3. z = [s EXCEPT !.pc = "scan"]
    OBVIOUS
  <2> HIDE DEF n, s, x, z
  <2>4. IsSession(z) /\ Aware(z, x, db, Spared(t)) /\ z.op = s.op /\ z.at = s.at
        /\ z.spared = s.spared
    BY <1>1, <2>2, <2>3, Claiming
  <2>5. z.spared = sess[t].spared /\ z.at <= now /\ (z.op # "none" => z.op \in setup.duty[t])
    BY <2>4 DEF Inv, InTime, s
  <2> QED BY <1>1, <1>2, <1>4, <2>1, <2>4, <2>5, QuietStep DEF x
<1> QED BY <1>3, <1>4 DEF Claim

\* The message, and the time it was sent.
LEMMA SendPreserves ==
    ASSUME Inv, NEW t \in Tx, Send(t)
    PROVE  Inv'
<1> DEFINE s == sess[t]
           x == ws[t]
           n == Claimed(t)
           z == [s EXCEPT !.pc = "scan"]
<1>1. /\ IsSession(s) /\ Aware(s, x, db, Spared(t)) /\ TxOk(db, x, Spared(t)) /\ s.pc = "send"
      /\ n = N(s.i, s.kind) /\ UNCHANGED <<setup, now, panel, spared, crashes>>
      /\ sess' = [sess EXCEPT ![t] = z] /\ z = [s EXCEPT !.pc = "scan"]
  BY Here DEF Send, At, Claimed, Goto
<1>2. World'
  <2>1. \/ inbox' = [inbox EXCEPT ![<<s.i, s.kind>>] = @ + 1]
        \/ inbox' = inbox
    BY DEF Send
  <2> DEFINE D == (Sub \X Kind) \cup ({Null} \X (0..setup.last))
  <2>2. inbox \in [D -> Nat]
    BY DEF Inv, World
  <2> HIDE DEF D
  <2>3. inbox' \in [D -> Nat]
    BY <2>1, <2>2, Deliver
  <2> QED BY <1>1, <2>3 DEF Inv, World, D
<1>3. n \in DOMAIN x
  BY <1>1 DEF Aware
<1>4. n \in DOMAIN Over(x, db)
  BY <1>3 DEF Over
<1>5. CASE Write(t, Is(n, TRUE))
  <2> DEFINE f == Is(n, TRUE)
             y == Over(f, x)
  <2>1. /\ Write(t, f) /\ y = Over(f, x) /\ (y = x \/ \E v \in BOOLEAN : y = Over(Is(n, v), x))
        /\ n \in DOMAIN Over(y, db)
    BY <1>5, <1>4 DEF Over
  <2> HIDE DEF n, s, x, z, f, y
  <2>2. IsSession(z) /\ Aware(z, y, db, Spared(t)) /\ TxOk(db, y, Spared(t)) /\ z.op = s.op /\ z.at = s.at
        /\ z.spared = s.spared
    BY <1>1, <2>1, Claiming
  <2>3. z.spared = sess[t].spared /\ z.at <= now /\ (z.op # "none" => z.op \in setup.duty[t])
    BY <2>2 DEF Inv, InTime, s
  <2> QED BY <1>1, <1>2, <2>1, <2>2, <2>3, WriteStep DEF x
<1>6. CASE UNCHANGED store
  <2> HIDE DEF n, s, x, z
  <2>1. IsSession(z) /\ Aware(z, x, db, Spared(t)) /\ z.op = s.op /\ z.at = s.at
        /\ z.spared = s.spared
    BY <1>1, <1>4, Claiming
  <2>2. z.spared = sess[t].spared /\ z.at <= now /\ (z.op # "none" => z.op \in setup.duty[t])
    BY <2>1 DEF Inv, InTime, s
  <2> QED BY <1>1, <1>2, <1>6, <2>1, <2>2, QuietStep DEF x
<1> QED BY <1>5, <1>6 DEF Send
-----------------------------------------------------------------------------
\* Rows are written before the end.

\* What a session knows after it has written the rows f.
LEMMA Wrote ==
    ASSUME NEW s, NEW x, NEW d, NEW b, NEW f, NEW z, NEW pc \in {"commit", "retire"},
           IsSession(s), Aware(s, x, d, b), Runs(s.op, pc),
           s.pc \notin {"claim", "send"}, z = [s EXCEPT !.pc = pc],
           Holds(z, Over(f, x)), pc = "retire" => s.old # Null
    PROVE  /\ IsSession(z) /\ Aware(z, Over(f, x), d, b)
           /\ z.op = s.op /\ z.at = s.at /\ z.spared = s.spared
<1> DEFINE y == Over(f, x)
<1>1. /\ IsSession(z) /\ z.pc = pc
      /\ z.op = s.op /\ z.i = s.i /\ z.old = s.old /\ z.kind = s.kind /\ z.at = s.at
      /\ z.seen = s.seen /\ z.dirty = s.dirty /\ z.spared = s.spared
  BY GotoSession
<1>2. DOMAIN Over(x, d) \subseteq DOMAIN Over(y, d)
  BY DEF Over
<1> HIDE DEF y
<1>3. \A i \in Sub : S(i) \in DOMAIN z.dirty => ColumnsTold(z.dirty[S(i)], z, Over(y, d), b, i)
  <2> SUFFICES ASSUME NEW i \in Sub, S(i) \in DOMAIN s.dirty
               PROVE  ColumnsTold(s.dirty[S(i)], z, Over(y, d), b, i)
    BY <1>1
  <2>1. ColumnsTold(s.dirty[S(i)], s, Over(x, d), b, i)
    BY DEF Aware
  <2> QED BY <2>1, <1>2 DEF ColumnsTold, ToldOf, Due
<1>4. Holds(z, y)
  BY DEF y
<1>5. Aware(z, y, d, b)
  BY <1>1, <1>3, <1>4 DEF Aware
<1> QED BY <1>1, <1>5 DEF y

\* The step of a session that writes the rows f and goes on.
LEMMA WritePreserves ==
    ASSUME Inv, NEW t \in Tx, NEW f, NEW pc \in {"commit", "retire"},
           sess[t].pc \notin {"claim", "send"}, Runs(sess[t].op, pc),
           Write(t, f), Goto(t, pc), TxOk(db, Over(f, ws[t]), Spared(t)),
           Holds([sess[t] EXCEPT !.pc = pc], Over(f, ws[t])), pc = "retire" => sess[t].old # Null,
           UNCHANGED <<setup, now, panel, inbox, spared, crashes>>
    PROVE  Inv'
<1> DEFINE s == sess[t]
           x == ws[t]
           z == [s EXCEPT !.pc = pc]
<1>1. /\ IsSession(s) /\ Aware(s, x, db, Spared(t))
      /\ sess' = [sess EXCEPT ![t] = z] /\ z = [s EXCEPT !.pc = pc]
      /\ s.pc \notin {"claim", "send"} /\ Runs(s.op, pc) /\ Holds(z, Over(f, x))
      /\ pc = "retire" => s.old # Null
  BY Here DEF Goto
<1>2. World'
  BY DEF Inv, World
<1> HIDE DEF s, x, z
<1>3. /\ IsSession(z) /\ Aware(z, Over(f, x), db, Spared(t))
      /\ z.op = s.op /\ z.at = s.at /\ z.spared = s.spared
  BY <1>1, Wrote
<1>4. z.spared = sess[t].spared /\ z.at <= now /\ (z.op # "none" => z.op \in setup.duty[t])
  BY <1>3 DEF Inv, InTime, s
<1> QED BY <1>1, <1>2, <1>3, <1>4, WriteStep DEF x

\* The day of the low stock is written.
LEMMA TickOffPreserves ==
    ASSUME Inv, NEW t \in Tx, TickOff(t)
    PROVE  Inv'
<1> DEFINE s == sess[t]
           x == ws[t]
           f == Is(LowStock, s.at)
           y == Over(f, x)
           z == [s EXCEPT !.pc = "commit"]
<1>1. /\ IsSession(s) /\ Aware(s, x, db, Spared(t)) /\ TxOk(db, x, Spared(t)) /\ s.pc = "tick off"
      /\ s.at \in Nat /\ Write(t, f) /\ Goto(t, "commit")
      /\ UNCHANGED <<setup, now, panel, inbox, spared, crashes>>
  BY Here DEF TickOff, At
<1>2. s.op = "stock" /\ s = [v \in Field |-> s[v]]
  BY <1>1 DEF IsSession, Runs, AtPanelNow
<1>3. DOMAIN f = {LowStock} /\ f[LowStock] = s.at
  BY OneRow
<1>4. DOMAIN y = DOMAIN f \cup DOMAIN x /\ y[LowStock] = s.at
  BY <1>3 DEF Over
<1>5. z.op = "stock" /\ z.pc = "commit" /\ z.at = s.at
  BY <1>2 DEF Field
<1> HIDE DEF f
<1>6. TxOk(db, y, Spared(t))
  <2>1. Typed(f)
    BY <1>1, <1>3 DEF Typed
  <2>2. \A i \in Sub : S(i) \in DOMAIN f => RowTold(f[S(i)], Over(x, db), Spared(t), i)
    BY <1>3, Keys
  <2>3. \A i \in Sub : /\ N(i, "3") \in DOMAIN f => ToldOf(Over(x, db), Spared(t), i, "7")
                       /\ N(i, "1") \in DOMAIN f => ToldOf(Over(x, db), Spared(t), i, "3")
    BY <1>3, Keys
  <2> HIDE DEF s, x
  <2> QED BY <1>1, <2>1, <2>2, <2>3, WriteOk
<1>7. Holds(z, y)
  <2>1. Holds(s, x)
    BY <1>1 DEF Aware
  <2> HIDE DEF s, x, y, z
  <2>2. \A i \in Sub : S(i) \notin DOMAIN y
    BY <2>1, <1>1, <1>2, <1>3, <1>4, Keys DEF Holds, Job
  <2>3. \A i \in Sub, k \in Kind : N(i, k) \notin DOMAIN y
    BY <2>1, <1>2, <1>3, <1>4, Keys DEF Holds
  <2> QED BY <1>3, <1>4, <1>5, <2>2, <2>3 DEF Holds, AtPanelNow
<1>8. Runs(s.op, "commit") /\ s.pc \notin {"claim", "send"}
  BY <1>1, <1>2 DEF Runs
<1> QED BY <1>1, <1>6, <1>7, <1>8, WritePreserves

\* A purchase writes the subscription r, with what has been told of it.
LEMMA BuyerWrites ==
    ASSUME Inv, NEW t \in Tx, NEW i \in Sub, NEW row \in SubRow, NEW pc \in {"commit", "retire"},
           sess[t].op = "buy", sess[t].pc \in {"insert", "retire"},
           Write(t, Is(S(i), row)), Goto(t, pc), RowTold(row, Over(ws[t], db), Spared(t), i),
           pc = "retire" => sess[t].old # Null,
           UNCHANGED <<setup, now, panel, inbox, spared, crashes>>
    PROVE  Inv'
<1> DEFINE s == sess[t]
           x == ws[t]
           f == Is(S(i), row)
           y == Over(f, x)
           z == [s EXCEPT !.pc = pc]
<1>1. /\ IsSession(s) /\ Aware(s, x, db, Spared(t)) /\ TxOk(db, x, Spared(t))
      /\ s.op = "buy" /\ RowTold(row, Over(x, db), Spared(t), i) /\ Write(t, f)
  BY Here
<1>2. DOMAIN f = {S(i)} /\ f[S(i)] = row
  BY OneRow
<1>3. DOMAIN y = DOMAIN f \cup DOMAIN x
  BY DEF Over
<1>4. z.op = "buy" /\ z.pc = pc
  BY <1>1 DEF IsSession, Field
<1> HIDE DEF f
<1>5. TxOk(db, y, Spared(t))
  <2>1. Typed(f)
    BY <1>2 DEF Typed
  <2>2. \A j \in Sub : S(j) \in DOMAIN f => RowTold(f[S(j)], Over(x, db), Spared(t), j)
    BY <1>1, <1>2, Keys
  <2>3. \A j \in Sub : /\ N(j, "3") \in DOMAIN f => ToldOf(Over(x, db), Spared(t), j, "7")
                       /\ N(j, "1") \in DOMAIN f => ToldOf(Over(x, db), Spared(t), j, "3")
    BY <1>2, Keys
  <2> HIDE DEF s, x
  <2> QED BY <1>1, <2>1, <2>2, <2>3, WriteOk
<1>6. Holds(z, y)
  <2>1. Holds(s, x)
    BY <1>1 DEF Aware
  <2> HIDE DEF s, x, y, z
  <2>2. LowStock \notin DOMAIN y
    BY <2>1, <1>1, <1>2, <1>3, Keys DEF Holds
  <2>3. \A j \in Sub, k \in Kind : N(j, k) \notin DOMAIN y
    BY <2>1, <1>1, <1>2, <1>3, Keys DEF Holds
  <2> QED BY <1>4, <2>2, <2>3 DEF Holds, AtPanelNow
<1>7. Runs(s.op, pc) /\ s.pc \notin {"claim", "send"}
  BY <1>1 DEF Runs
<1> QED BY <1>1, <1>5, <1>6, <1>7, WritePreserves

\* The new subscription, about which nothing has been told.
LEMMA InsertSubscriptionPreserves ==
    ASSUME Inv, NEW t \in Tx, InsertSubscription(t)
    PROVE  Inv'
<1> DEFINE s == sess[t]
           row == NewRow(Account(t), s.at)
           pc == IF s.old = Null THEN "commit" ELSE "retire"
<1>1. /\ s.pc = "insert" /\ Write(t, Is(S(s.i), row)) /\ Goto(t, pc)
      /\ UNCHANGED <<setup, now, panel, inbox, spared, crashes>>
  BY DEF InsertSubscription, At
<1>2. /\ IsSession(s) /\ Aware(s, ws[t], db, Spared(t))
      /\ s.op = "buy" /\ s.i \in Sub /\ s.old \in Sub \cup {Null}
  BY <1>1, Here DEF IsSession, Runs, AtPanelNow, Aware
<1>3. Account(t) \in Sub \cup {Null}
  <2>1. CASE s.old = Null
    BY <1>2, <2>1 DEF Account
  <2>2. CASE s.old # Null
    <3>1. Exists(t, S(s.old)) /\ s.old \in Sub
      BY <1>2, <2>2 DEF Aware, Exists
    <3>2. Row(t, S(s.old)) \in SubRow
      BY <3>1, ReadRow
    <3> QED BY <2>2, <3>2 DEF Account, SubRow
  <2> QED BY <2>1, <2>2
<1>4. row \in SubRow
  <2>1. s.at + setup.duration \in Nat
    BY Paid
  <2> QED BY <1>3, <2>1 DEF NewRow, SubRow, Level
<1>5. RowTold(row, Over(ws[t], db), Spared(t), s.i)
  BY DEF NewRow, RowTold
<1>6. pc \in {"commit", "retire"} /\ (pc = "retire" => s.old # Null)
  OBVIOUS
<1> HIDE DEF row, pc
<1> QED BY <1>1, <1>2, <1>4, <1>5, <1>6, BuyerWrites

\* The renewed one is disabled.
LEMMA RetirePreserves ==
    ASSUME Inv, NEW t \in Tx, Retire(t)
    PROVE  Inv'
<1> DEFINE s == sess[t]
           old == Row(t, S(s.old))
           row == [old EXCEPT !.status = "disabled"]
<1>1. /\ s.pc = "retire" /\ Write(t, Is(S(s.old), row)) /\ Goto(t, "commit")
      /\ UNCHANGED <<setup, now, panel, inbox, spared, crashes>>
  BY DEF Retire, At
<1>2. s.op = "buy" /\ s.old \in Sub /\ S(s.old) \in DOMAIN db
  BY <1>1, Here DEF IsSession, Runs, AtPanelNow, Aware
<1>3. old \in SubRow /\ RowTold(old, Over(ws[t], db), Spared(t), s.old)
  BY <1>2, ReadRow DEF Exists
<1> HIDE DEF old
<1>4. row \in SubRow /\ RowTold(row, Over(ws[t], db), Spared(t), s.old)
  BY <1>3 DEF SubRow, RowTold
<1> HIDE DEF row
<1> QED BY <1>1, <1>2, <1>4, BuyerWrites

\* The columns of a job, written over a row.
LEMMA OverColumns ==
    ASSUME NEW c, NEW row \in SubRow, NEW s, NEW v, NEW b, NEW i,
           IsColumns(c), ColumnsTold(c, s, v, b, i), s.pc # "claim", RowTold(row, v, b, i)
    PROVE  Over(c, row) \in SubRow /\ RowTold(Over(c, row), v, b, i)
<1> DEFINE w == Over(c, row)
<1>1. DOMAIN row = {"account", "status", "expires", "used", "level", "tags"}
  BY DEF SubRow
<1>2. /\ w = [y \in DOMAIN w |-> w[y]] /\ DOMAIN w = DOMAIN row
      /\ \A y \in DOMAIN row : w[y] = IF y \in DOMAIN c THEN c[y] ELSE row[y]
  BY <1>1 DEF Over, IsColumns
<1>3. /\ row["account"] \in Sub \cup {Null} /\ row["status"] \in {"active", "expired", "disabled"}
      /\ row["expires"] \in Nat /\ row["used"] \in Level /\ row["level"] \in Level
      /\ row["tags"] \subseteq DayKind
  BY DEF SubRow, DayKind
<1> HIDE DEF w
<1>4. w \in SubRow
  <2>1. /\ w["account"] \in Sub \cup {Null} /\ w["status"] \in {"active", "expired", "disabled"}
        /\ w["expires"] \in Nat /\ w["used"] \in Level /\ w["level"] \in Level
        /\ w["tags"] \subseteq DayKind
    BY <1>1, <1>2, <1>3 DEF IsColumns
  <2> QED BY <1>1, <1>2, <2>1 DEF SubRow, DayKind
<1>5. RowTold(w, v, b, i)
  <2>1. \A k : ~Due(s, i, k)
    BY DEF Due
  <2>2. w.tags = IF "tags" \in DOMAIN c THEN c["tags"] ELSE row.tags
    BY <1>1, <1>2
  <2>3. w.status = IF "status" \in DOMAIN c THEN c["status"] ELSE row.status
    BY <1>1, <1>2
  <2> QED BY <2>1, <2>2, <2>3 DEF RowTold, ColumnsTold
<1> QED BY <1>4, <1>5 DEF w

\* What a job assigned is written: all that it remembers has been claimed by now.
LEMMA FlushColumnsPreserves ==
    ASSUME Inv, NEW t \in Tx, FlushColumns(t)
    PROVE  Inv'
<1> DEFINE s == sess[t]
           x == ws[t]
           v == Over(x, db)
           f == [r \in {q \in DOMAIN s.dirty : DOMAIN s.dirty[q] # {}} |->
                    Over(s.dirty[r], Row(t, r))]
           y == Over(f, x)
           z == [s EXCEPT !.pc = "commit"]
<1>1. /\ IsSession(s) /\ Aware(s, x, db, Spared(t)) /\ TxOk(db, x, Spared(t)) /\ s.pc = "flush"
      /\ Write(t, f) /\ Goto(t, "commit") /\ UNCHANGED <<setup, now, panel, inbox, spared, crashes>>
  BY Here DEF FlushColumns, At
<1>2. s.op \in Job /\ s = [w \in Field |-> s[w]]
  BY <1>1 DEF IsSession, Runs, AtPanelNow, Job
<1>3. ASSUME NEW r \in DOMAIN f
      PROVE  \E i \in Sub : r = S(i) /\ f[r] \in SubRow /\ RowTold(f[r], v, Spared(t), i)
  <2>1. r \in DOMAIN s.dirty /\ f[r] = Over(s.dirty[r], Row(t, r))
    OBVIOUS
  <2>2. PICK i \in Sub : r = S(i)
    BY <2>1, <1>1 DEF IsSession
  <2>3. IsColumns(s.dirty[r]) /\ r \in DOMAIN db
    BY <2>1, <1>1 DEF IsSession, Aware
  <2>4. ColumnsTold(s.dirty[r], s, v, Spared(t), i)
    BY <2>1, <2>2, <1>1 DEF Aware
  <2>5. Row(t, r) \in SubRow /\ RowTold(Row(t, r), v, Spared(t), i)
    BY <2>2, <2>3, ReadRow DEF Exists
  <2>6. s.pc # "claim"
    BY <1>1
  <2> DEFINE c == s.dirty[r]
             row == Row(t, r)
  <2> HIDE DEF c, row, s, v, f
  <2>7. Over(c, row) \in SubRow /\ RowTold(Over(c, row), v, Spared(t), i)
    BY <2>3, <2>4, <2>5, <2>6, OverColumns DEF c, row
  <2> QED BY <2>1, <2>2, <2>7 DEF c, row
<1>4. DOMAIN y = DOMAIN f \cup DOMAIN x
  BY DEF Over
<1>5. z.op = s.op /\ z.pc = "commit"
  BY <1>2 DEF Field
<1> HIDE DEF f
<1>6. TxOk(db, y, Spared(t))
  <2>1. Typed(f)
    BY <1>3 DEF Typed
  <2>2. \A i \in Sub : S(i) \in DOMAIN f => RowTold(f[S(i)], v, Spared(t), i)
    BY <1>3, Keys
  <2>3. \A i \in Sub, k \in Kind : N(i, k) \notin DOMAIN f
    BY <1>3, Keys
  <2>4. \A i \in Sub : /\ N(i, "3") \in DOMAIN f => ToldOf(v, Spared(t), i, "7")
                       /\ N(i, "1") \in DOMAIN f => ToldOf(v, Spared(t), i, "3")
    BY <2>3 DEF Kind
  <2> HIDE DEF s, x
  <2> QED BY <1>1, <2>1, <2>2, <2>4, WriteOk
<1>7. Holds(z, y)
  <2>1. Holds(s, x)
    BY <1>1 DEF Aware
  <2> HIDE DEF s, x, y, z
  <2>2. LowStock \notin DOMAIN y
    BY <2>1, <1>1, <1>2, <1>3, <1>4, Keys DEF Holds, Job
  <2>3. \A i \in Sub, k \in Kind : N(i, k) \in DOMAIN y => s.op \in {"expiry", "usage"}
    BY <2>1, <1>3, <1>4, Keys DEF Holds
  <2> QED BY <1>2, <1>5, <2>2, <2>3 DEF Holds, AtPanelNow, Job
<1>8. Runs(s.op, "commit") /\ s.pc \notin {"claim", "send"}
  BY <1>1, <1>2 DEF Runs, Job
<1> QED BY <1>1, <1>6, <1>7, <1>8, WritePreserves
-----------------------------------------------------------------------------
\* The invariant.
LEMMA Initially == Init => Inv
<1> SUFFICES ASSUME Init PROVE Inv
  OBVIOUS
<1> DEFINE row(r) == NewRow(IF setup.kind = "manual" THEN Null ELSE r[2], 0)
<1>1. setup \in Setup /\ setup \in SetupType
  BY SubAssumption DEF Init
<1>2. setup.sold \subseteq Sub /\ setup.duration \in Nat /\ setup.last \in Nat
  BY <1>1 DEF SetupType
<1>3. /\ db = [r \in {S(i) : i \in setup.sold} |-> row(r)]
      /\ ws = [t \in Tx |-> NoRows] /\ sess = [t \in Tx |-> Idle]
      /\ now = 0 /\ crashes = 0 /\ spared = {}
  BY DEF Init
<1>4. ASSUME NEW r \in DOMAIN db
      PROVE  \E i \in Sub : r = S(i) /\ db[r] \in SubRow /\ RowTold(db[r], db, spared, i)
  <2>1. PICK i \in setup.sold : r = S(i)
    BY <1>3
  <2>2. i \in Sub /\ r[2] = i /\ db[r] = row(r)
    BY <2>1, <1>2, <1>3, Keys
  <2>3. row(r) \in SubRow
    BY <2>2, <1>2 DEF NewRow, SubRow, Level
  <2>4. RowTold(row(r), db, spared, i)
    BY DEF NewRow, RowTold
  <2> QED BY <2>1, <2>2, <2>3, <2>4
<1>5. StoreOk(db, spared)
  <2>1. db = [r \in DOMAIN db |-> db[r]]
    BY <1>3
  <2>2. Typed(db)
    BY <1>4 DEF Typed
  <2>3. AllTold(db, spared)
    BY <1>4, Keys DEF AllTold
  <2>4. \A i \in Sub, k \in Kind : N(i, k) \notin DOMAIN db
    BY <1>4, Keys
  <2>5. InOrder(db, spared)
    BY <2>4 DEF InOrder, Kind
  <2> QED BY <2>1, <2>2, <2>3, <2>5 DEF StoreOk
<1>6. StoreInv
  <2>1. \A t \in Tx : TxOk(db, ws[t], Spared(t))
    BY <1>3, <1>5, NothingOwn, IdleOk DEF Spared
  <2>2. DOMAIN ws = Tx /\ Shaped /\ Exclusive
    BY <1>3 DEF Shaped, Exclusive, NoRows
  <2> QED BY <1>3, <1>5, <2>1, <2>2 DEF StoreInv
<1>7. SessionInv
  BY <1>3, IdleOk DEF SessionInv
<1>8. World
  <2>1. panel \in PanelType
    <3>1. NoAccount \in [state : {"none", "on", "off", "gone"}, used : Level, expires : Nat]
      BY DEF NoAccount, Level
    <3>2. NewAccount(0) \in [state : {"none", "on", "off", "gone"}, used : Level, expires : Nat]
      BY <1>2 DEF NewAccount, Level
    <3> QED BY <3>1, <3>2 DEF Init, PanelType
  <2>2. inbox \in [(Sub \X Kind) \cup ({Null} \X (0..setup.last)) -> Nat]
    BY DEF Init
  <2>3. now \in Nat /\ now <= setup.last /\ crashes \in 0..MaxCrashes
    BY <1>2, <1>3, SubAssumption
  <2> QED BY <1>1, <2>1, <2>2, <2>3 DEF World, PanelType
<1>9. InTime
  <2>1. LowStock \notin DOMAIN db
    BY <1>4, Keys
  <2>2. \A t \in Tx : sess[t].at = 0 /\ sess[t].op = "none"
    BY <1>3, IdleOk
  <2> QED BY <1>3, <2>1, <2>2 DEF InTime
<1> QED BY <1>6, <1>7, <1>8, <1>9 DEF Inv

\* Every step keeps the invariant.
LEMMA StepPreserves == Inv /\ [Next]_vars => Inv'
<1> SUFFICES ASSUME Inv, [Next]_vars PROVE Inv'
  OBVIOUS
<1>1. CASE Tick \/ SetBanned \/ \E a \in Sub : UseTraffic(a) \/ SwitchOff(a) \/ AtPanel(a)
  BY <1>1, OthersPreserve
<1>2. ASSUME NEW t \in Tx, NEW op \in {"expiry", "usage", "sync"}, LoadActive(t, op) PROVE Inv'
  BY <1>2, LoadPreserves DEF Job
<1>3. ASSUME NEW t \in Tx, ReadStock(t) PROVE Inv'
  BY <1>3, ReadStockPreserves
<1>4. ASSUME NEW t \in Tx, NEW i \in Sub, NEW old \in Sub \cup {Null}, Provision(t, i, old)
      PROVE  Inv'
  BY <1>4, ProvisionPreserves
<1>5. ASSUME NEW t \in Tx, Continue(t) PROVE Inv'
  BY <1>5, InspectPreserves, EndOfScanPreserves, ClaimPreserves, SendPreserves,
     TellAdminsPreserves, TickOffPreserves, SyncUserPreserves, EndPreserves,
     CreateUserPreserves, LookUpPreserves, ExtendPreserves, ResetTrafficPreserves,
     InsertSubscriptionPreserves, RetirePreserves, FlushColumnsPreserves DEF Continue
<1>6. ASSUME NEW t \in Tx, Crash(t) PROVE Inv'
  BY <1>6, EndPreserves
<1>7. CASE UNCHANGED vars
  <2>1. spared' = spared /\ store' = store
    BY <1>7 DEF vars, store
  <2> QED BY <1>7, <2>1 DEF vars, Inv, StoreInv, Shaped, Exclusive, SessionInv, World, InTime, Spared
<1> QED BY <1>1, <1>2, <1>3, <1>4, <1>5, <1>6, <1>7 DEF Next

\* What is committed, written and known stays sound, whatever sessions overlap or die.
THEOREM Invariance == Spec => []Inv
BY Initially, StepPreserves, PTL DEF Spec

\* The rows, the sessions' columns and the panel's accounts are typed, and no more
\* handlers are killed than the bound allows.
THEOREM TypeCorrect == Spec => []TypeOK
<1>1. Inv => TypeOK
  <2> SUFFICES ASSUME Inv PROVE TypeOK
    OBVIOUS
  <2>1. ASSUME NEW f, Typed(f), LowStock \in DOMAIN f => f[LowStock] \in 0..setup.last
        PROVE  \A r \in DOMAIN f : f[r] \in RowType[r[1]]
    <3>1. /\ RowType["subscription"] = SubRow /\ RowType["notification"] = BOOLEAN
          /\ RowType["setting"] = 0..setup.last
      BY DEF RowType, SubRow
    <3> SUFFICES ASSUME NEW r \in DOMAIN f PROVE f[r] \in RowType[r[1]]
      OBVIOUS
    <3>2. CASE \E i \in Sub : r = S(i) /\ f[r] \in SubRow
      BY <3>1, <3>2, Keys
    <3>3. CASE \E i \in Sub, k \in Kind : r = N(i, k) /\ f[r] \in BOOLEAN
      BY <3>1, <3>3, Keys
    <3>4. CASE r = LowStock
      BY <2>1, <3>1, <3>4, Keys
    <3> QED BY <2>1, <3>2, <3>3, <3>4 DEF Typed
  <2>2. now \in Nat /\ setup.last \in Nat /\ now <= setup.last
    BY SetupFacts DEF Inv, World
  <2>3. LowStock \in DOMAIN db => db[LowStock] \in 0..setup.last
    <3>1. LowStock \in DOMAIN db => db[LowStock] \in Nat /\ db[LowStock] <= now
      BY Keys DEF Inv, StoreInv, StoreOk, Typed, InTime
    <3> QED BY <2>2, <3>1
  <2>4. ASSUME NEW t \in Tx PROVE LowStock \in DOMAIN ws[t] => ws[t][LowStock] \in 0..setup.last
    <3>1. LowStock \in DOMAIN ws[t] => ws[t][LowStock] = sess[t].at
      BY Here DEF Aware, Holds
    <3> QED BY <2>2, <3>1, Here
  <2>5. \A f \in {db} \cup {ws[t] : t \in Tx} : \A r \in DOMAIN f : f[r] \in RowType[r[1]]
    <3>1. Typed(db) /\ \A t \in Tx : Typed(ws[t])
      BY DEF Inv, StoreInv, StoreOk, TxOk
    <3> QED BY <2>1, <2>3, <2>4, <3>1
  <2>6. \A t \in Tx : DOMAIN sess[t].dirty \subseteq DOMAIN db
    BY Here DEF Aware
  <2> QED BY <2>5, <2>6 DEF TypeOK, Inv, StoreInv, World
<1> QED BY <1>1, Invariance, PTL
-----------------------------------------------------------------------------
\* What a step does to the messages, and to the claims that stop them: a session
\* ends, begins, claims, tells, or goes on without any of these.

Others(t) == \A v \in Tx \ {t} : sess'[v] = sess[v] /\ ws'[v] = ws[v]

Ends(t) ==
    /\ sess'[t] = Idle /\ ws'[t] = NoRows /\ inbox' = inbox
    /\ \/ db' = Over(ws[t], db) /\ crashes' = crashes /\ sess[t].pc = "commit"
       \/ db' = db /\ crashes' = crashes + 1
       \/ db' = db /\ crashes' = crashes /\ ws[t] = NoRows /\ sess[t].op = "buy"

Begins(t) ==
    /\ sess[t] = Idle /\ UNCHANGED <<db, ws, inbox, crashes>>
    /\ sess'[t].pc \notin {"send", "tick off", "commit"} /\ sess'[t].at = now
    /\ sess'[t].op = "stock" /\ LowStock \in DOMAIN db => db[LowStock] # now

GoesOn(t) ==
    /\ UNCHANGED <<db, inbox, crashes>>
    /\ sess'[t].op = sess[t].op /\ sess'[t].at = sess[t].at /\ sess'[t].pc # "send"
    /\ sess[t].op = "stock" => sess'[t].pc = "commit"
    /\ sess[t].pc = "send" => setup.customer # "reachable"
    /\ \A i \in Sub, k \in Kind : N(i, k) \in DOMAIN ws[t] <=> N(i, k) \in DOMAIN ws'[t]

NewClaim(t) ==
    /\ UNCHANGED <<inbox, crashes>> /\ sess[t].pc = "claim" /\ Goto(t, "send")
    /\ ~Exists(t, Claimed(t)) /\ Write(t, Is(Claimed(t), FALSE))

Tells(t) ==
    /\ crashes' = crashes /\ sess[t].pc = "send" /\ Goto(t, "scan")
    /\ inbox' = [inbox EXCEPT ![<<sess[t].i, sess[t].kind>>] = @ + 1]
    /\ Write(t, Is(Claimed(t), TRUE)) \/ UNCHANGED store

\* The step of a session.
Does(t) ==
    \/ \E op \in {"expiry", "usage", "sync"} : LoadActive(t, op)
    \/ ReadStock(t)
    \/ \E i \in Sub, old \in Sub \cup {Null} : Provision(t, i, old)
    \/ Continue(t)
    \/ Crash(t)

\* The steps that are no session's.
LEMMA NextIs ==
    ASSUME [Next]_vars
    PROVE  \/ \E t \in Tx : Does(t)
           \/ UNCHANGED <<store, setup, sess, inbox, crashes>> /\ (now' = now \/ Tick)
<1>1. CASE Next
  <2>1. CASE Tick \/ SetBanned \/ \E a \in Sub : UseTraffic(a) \/ SwitchOff(a) \/ AtPanel(a)
    BY <2>1 DEF Tick, SetBanned, UseTraffic, SwitchOff, AtPanel
  <2> QED BY <1>1, <2>1 DEF Next, Does
<1>2. CASE UNCHANGED vars
  BY <1>2 DEF vars, store
<1> QED BY <1>1, <1>2

\* A session goes on to its next statement.
LEMMA GotoFacts ==
    ASSUME Inv, NEW t \in Tx, NEW pc, Goto(t, pc)
    PROVE  /\ \A v \in Tx \ {t} : sess'[v] = sess[v]
           /\ sess'[t].pc = pc /\ sess'[t].op = sess[t].op /\ sess'[t].i = sess[t].i
           /\ sess'[t].kind = sess[t].kind /\ sess'[t].at = sess[t].at
           /\ sess'[t].seen = sess[t].seen /\ sess'[t].dirty = sess[t].dirty
<1> DEFINE s == sess[t]
           z == [s EXCEPT !.pc = pc]
<1>1. s = [v \in Field |-> s[v]]
  BY Here DEF IsSession
<1>2. sess' = [sess EXCEPT ![t] = z]
  BY DEF Goto
<1>3. sess'[t] = z /\ \A v \in Tx \ {t} : sess'[v] = sess[v]
  BY <1>2, SessionStep
<1>4. /\ z.pc = pc /\ z.op = s.op /\ z.i = s.i /\ z.kind = s.kind /\ z.at = s.at
      /\ z.seen = s.seen /\ z.dirty = s.dirty
  BY <1>1 DEF Field
<1> QED BY <1>3, <1>4

\* A statement that goes on to pc, writing rows or none.
LEMMA GoesOnBy ==
    ASSUME Inv, NEW t \in Tx, NEW pc, Goto(t, pc), UNCHANGED <<inbox, crashes>>,
           \/ UNCHANGED store
           \/ \E f : Write(t, f) /\ \A i \in Sub, k \in Kind : N(i, k) \notin DOMAIN f,
           sess[t].pc = "send" => setup.customer # "reachable",
           pc # "send", sess[t].op = "stock" => pc = "commit"
    PROVE  Others(t) /\ GoesOn(t)
<1>1. /\ \A v \in Tx \ {t} : sess'[v] = sess[v]
      /\ sess'[t].pc = pc /\ sess'[t].op = sess[t].op /\ sess'[t].at = sess[t].at
  BY GotoFacts
<1>2. CASE UNCHANGED store
  BY <1>1, <1>2 DEF Others, GoesOn, store
<1>3. CASE \E f : Write(t, f) /\ \A i \in Sub, k \in Kind : N(i, k) \notin DOMAIN f
  <2>1. PICK f : Write(t, f) /\ \A i \in Sub, k \in Kind : N(i, k) \notin DOMAIN f
    BY <1>3
  <2>2. db' = db /\ ws'[t] = Over(f, ws[t]) /\ \A v \in Tx \ {t} : ws'[v] = ws[v]
    BY <2>1, WriteEffect DEF Inv, StoreInv
  <2>3. DOMAIN ws'[t] = DOMAIN f \cup DOMAIN ws[t]
    <3>1. \A x : DOMAIN Over(f, x) = DOMAIN f \cup DOMAIN x
      BY DEF Over
    <3> QED BY <2>2, <3>1
  <2> QED BY <1>1, <2>1, <2>2, <2>3 DEF Others, GoesOn
<1> QED BY <1>2, <1>3

\* The end of a transaction.
LEMMA EndsBy ==
    ASSUME Inv, NEW t \in Tx, Close(t), inbox' = inbox,
           \/ Commit(t) /\ crashes' = crashes /\ sess[t].pc = "commit"
           \/ Rollback(t) /\ (crashes' = crashes + 1 \/ (crashes' = crashes /\ sess[t].pc \in AtPanelNow))
           \/ UNCHANGED <<store, crashes>> /\ sess[t].pc \in AtPanelNow
    PROVE  Others(t) /\ Ends(t)
<1>1. sess'[t] = Idle /\ \A v \in Tx \ {t} : sess'[v] = sess[v]
  BY SessionStep DEF Close
<1>2. sess[t].pc \in AtPanelNow => ws[t] = NoRows /\ sess[t].op = "buy"
  <2>1. Runs(sess[t].op, sess[t].pc) /\ Holds(sess[t], ws[t])
    BY Here DEF IsSession, Aware
  <2> QED BY <2>1 DEF Runs, Holds, AtPanelNow
<1>3. CASE Commit(t) \/ Rollback(t)
  <2>1. ws'[t] = NoRows /\ \A v \in Tx \ {t} : ws'[v] = ws[v]
    BY <1>3, EndEffect DEF Inv, StoreInv
  <2>2. CASE Commit(t) /\ crashes' = crashes /\ sess[t].pc = "commit"
    BY <1>1, <2>1, <2>2 DEF Ends, Others, Commit, Visible
  <2>3. CASE Rollback(t) /\ (crashes' = crashes + 1 \/ (crashes' = crashes /\ sess[t].pc \in AtPanelNow))
    BY <1>1, <1>2, <2>1, <2>3 DEF Ends, Others, Rollback
  <2>4. CASE UNCHANGED <<store, crashes>> /\ sess[t].pc \in AtPanelNow
    BY <1>1, <1>2, <2>4 DEF Ends, Others, store
  <2> QED BY <2>2, <2>3, <2>4
<1>4. CASE UNCHANGED <<store, crashes>> /\ sess[t].pc \in AtPanelNow
  BY <1>1, <1>2, <1>4 DEF Ends, Others, store
<1> QED BY <1>3, <1>4

\* The first statement of a session.
LEMMA BeginsBy ==
    ASSUME Inv, NEW t \in Tx, NEW z, NEW op, sess' = [sess EXCEPT ![t] = z], Begin(t, op),
           z.pc \notin {"send", "tick off", "commit"}, z.at = now,
           z.op = "stock" /\ LowStock \in DOMAIN db => db[LowStock] # now,
           UNCHANGED <<store, setup, now, panel, inbox, crashes>>
    PROVE  Others(t) /\ Begins(t) /\ setup' = setup /\ now' = now
<1>1. sess'[t] = z /\ \A v \in Tx \ {t} : sess'[v] = sess[v]
  BY SessionStep
<1> QED BY <1>1, BeginFacts DEF Others, Begins, store

\* A job goes through its rows.
LEMMA ChangesOwn ==
    ASSUME Inv, NEW t \in Tx, NEW z, sess' = [sess EXCEPT ![t] = z],
           UNCHANGED <<store, setup, now, panel, inbox, crashes>>,
           sess[t].op # "stock", sess[t].pc # "send",
           z.op = sess[t].op, z.at = sess[t].at, z.pc # "send"
    PROVE  Others(t) /\ GoesOn(t) /\ setup' = setup /\ now' = now
<1>1. sess'[t] = z /\ \A v \in Tx \ {t} : sess'[v] = sess[v]
  BY SessionStep
<1> QED BY <1>1 DEF Others, GoesOn, store

\* A claim, new or updated, is the session's own.
LEMMA ClaimWrites ==
    ASSUME Inv, NEW t \in Tx, NEW b, Write(t, Is(Claimed(t), b))
    PROVE  /\ \A v \in Tx \ {t} : ws'[v] = ws[v] /\ Claimed(t) \notin DOMAIN ws[v]
           /\ db' = db /\ DOMAIN ws'[t] = {Claimed(t)} \cup DOMAIN ws[t]
<1>1. DOMAIN Is(Claimed(t), b) = {Claimed(t)}
  BY OneRow
<1> DEFINE f == Is(Claimed(t), b)
<1>2. /\ db' = db /\ ws'[t] = Over(f, ws[t])
      /\ \A v \in Tx \ {t} : ws'[v] = ws[v] /\ DOMAIN ws[v] \cap DOMAIN f = {}
  BY WriteEffect DEF Inv, StoreInv
<1> HIDE DEF f
<1>3. DOMAIN Over(f, ws[t]) = DOMAIN f \cup DOMAIN ws[t]
  BY DEF Over
<1> QED BY <1>1, <1>2, <1>3 DEF f

\* Every step of a session has one of these shapes.
LEMMA Shapes ==
    ASSUME Inv, NEW t \in Tx, Does(t)
    PROVE  /\ Others(t) /\ setup' = setup /\ now' = now
           /\ \/ Ends(t) \/ Begins(t) \/ GoesOn(t) \/ NewClaim(t) \/ Tells(t)
              \/ TellAdmins(t)
<1> DEFINE Goal == /\ Others(t) /\ setup' = setup /\ now' = now
                   /\ \/ Ends(t) \/ Begins(t) \/ GoesOn(t) \/ NewClaim(t) \/ Tells(t)
                      \/ TellAdmins(t)
<1>1. Runs(sess[t].op, sess[t].pc)
  BY Here DEF IsSession
<1>3. ASSUME NEW op \in {"expiry", "usage", "sync"}, LoadActive(t, op) PROVE Goal
  <2> DEFINE rows == {r \in Active(t) : op = "sync" => Row(t, r).account # Null}
             z == [Idle EXCEPT !.op = op, !.at = now, !.banned = banned,
                               !.seen = [r \in rows |-> Row(t, r)],
                               !.pc = IF op = "sync" THEN "sync" ELSE "scan"]
  <2>1. /\ Begin(t, op) /\ sess' = [sess EXCEPT ![t] = z]
        /\ UNCHANGED <<store, setup, now, panel, inbox, crashes>>
    BY <1>3 DEF LoadActive
  <2>2. z.pc \notin {"send", "tick off", "commit"} /\ z.at = now /\ z.op # "stock"
    BY DEF Idle
  <2> HIDE DEF z
  <2> QED BY <2>1, <2>2, BeginsBy
<1>4. CASE ReadStock(t)
  <2> DEFINE z == [Idle EXCEPT !.op = "stock", !.pc = "tell", !.at = now]
  <2>1. /\ Begin(t, "stock") /\ sess' = [sess EXCEPT ![t] = z]
        /\ ~(Exists(t, LowStock) /\ Row(t, LowStock) = now)
        /\ UNCHANGED <<store, setup, now, panel, inbox, crashes>>
    BY <1>4 DEF ReadStock
  <2>2. z.pc \notin {"send", "tick off", "commit"} /\ z.at = now
    BY DEF Idle
  <2>3. LowStock \in DOMAIN db => db[LowStock] # now
    BY <2>1, BeginFacts, Reads
  <2> HIDE DEF z
  <2> QED BY <2>1, <2>2, <2>3, BeginsBy
<1>5. ASSUME NEW i \in Sub, NEW old \in Sub \cup {Null}, Provision(t, i, old) PROVE Goal
  <2> DEFINE pc == IF old = Null THEN "create"
                   ELSE IF setup.kind = "marzban" THEN "extend" ELSE "look up"
             z == [Idle EXCEPT !.op = "buy", !.i = i, !.old = old, !.at = now, !.pc = pc]
  <2>1. /\ Begin(t, "buy") /\ sess' = [sess EXCEPT ![t] = z]
        /\ UNCHANGED <<store, setup, now, panel, inbox, crashes>>
    BY <1>5 DEF Provision
  <2>2. z.pc \notin {"send", "tick off", "commit"} /\ z.at = now /\ z.op # "stock"
    BY DEF Idle
  <2> HIDE DEF z
  <2> QED BY <2>1, <2>2, BeginsBy
<1>8. CASE Inspect(t)
  <2> DEFINE s == sess[t]
             row(r) == s.seen[r]
             k(r) == Alert(s.op, row(r), s.at)
             told(r) == CASE k(r) = "none" -> s
                          [] k(r) # "none" /\ s.banned -> [s EXCEPT !.spared = @ \cup {<<r[2], k(r)>>}]
                          [] OTHER -> [s EXCEPT !.i = r[2], !.kind = k(r), !.pc = "claim"]
             z(r) == [told(r) EXCEPT !.seen = Without(@, r),
                                     !.dirty = Over(Is(r, Columns(s.op, row(r), s.at)), @)]
  <2>1. PICK r \in DOMAIN s.seen : sess' = [sess EXCEPT ![t] = z(r)]
    BY <1>8 DEF Inspect
  <2>2. s.pc = "scan" /\ UNCHANGED <<store, setup, now, panel, inbox, crashes>>
    BY <1>8 DEF Inspect, At
  <2>3. s = [y \in Field |-> s[y]]
    BY Here DEF IsSession
  <2> HIDE DEF s, k
  <2>4. z(r).op = s.op /\ z(r).at = s.at /\ z(r).pc # "send"
    <3>1. CASE k(r) = "none"
      BY <2>2, <2>3, <3>1 DEF Field
    <3>2. CASE k(r) # "none" /\ s.banned
      BY <2>2, <2>3, <3>2 DEF Field
    <3>3. CASE k(r) # "none" /\ ~s.banned
      BY <2>2, <2>3, <3>3 DEF Field
    <3> QED BY <3>1, <3>2, <3>3
  <2> HIDE DEF z
  <2>5. s.op # "stock"
    BY <1>1, <2>2 DEF Runs, AtPanelNow, s
  <2> QED BY <2>1, <2>2, <2>4, <2>5, ChangesOwn DEF s
<1>9. CASE SyncUser(t)
  <2> DEFINE s == sess[t]
  <2>1. \E r, c : sess' = [sess EXCEPT ![t].seen = Without(@, r), ![t].dirty = Over(Is(r, c), @)]
    BY <1>9 DEF SyncUser
  <2>2. s.pc = "sync" /\ UNCHANGED <<store, setup, now, panel, inbox, crashes>>
    BY <1>9 DEF SyncUser, At
  <2>3. s = [y \in Field |-> s[y]]
    BY Here DEF IsSession
  <2>4. PICK r, c : sess' = [sess EXCEPT ![t].seen = Without(@, r), ![t].dirty = Over(Is(r, c), @)]
    BY <2>1
  <2> DEFINE z == [s EXCEPT !.seen = Without(@, r), !.dirty = Over(Is(r, c), @)]
  <2>5. sess' = [sess EXCEPT ![t] = z]
    BY <2>4 DEF Inv, SessionInv
  <2> HIDE DEF s
  <2>6. z.op = s.op /\ z.at = s.at /\ z.pc # "send"
    BY <2>2, <2>3 DEF Field
  <2> HIDE DEF z
  <2>7. s.op # "stock"
    BY <1>1, <2>2 DEF Runs, AtPanelNow, s
  <2> QED BY <2>2, <2>5, <2>6, <2>7, ChangesOwn DEF s
<1>10. CASE EndOfScan(t)
  BY <1>1, <1>10, GoesOnBy DEF EndOfScan, Runs, AtPanelNow
<1>11. CASE Claim(t)
  <2>1. sess[t].pc = "claim" /\ sess[t].op # "stock" /\ UNCHANGED <<setup, now, inbox, crashes>>
    BY <1>1, <1>11 DEF Claim, At, Runs, AtPanelNow
  <2>2. CASE Goto(t, "scan") /\ UNCHANGED store
    BY GoesOnBy, <2>1, <2>2
  <2>3. CASE ~Exists(t, Claimed(t)) /\ Write(t, Is(Claimed(t), FALSE)) /\ Goto(t, "send")
    <3>1. Others(t)
      <4>1. \A v \in Tx \ {t} : sess'[v] = sess[v]
        BY <2>3, GotoFacts
      <4>2. \A v \in Tx \ {t} : ws'[v] = ws[v]
        BY <2>3, ClaimWrites
      <4> QED BY <4>1, <4>2 DEF Others
    <3> QED BY <2>1, <2>3, <3>1 DEF NewClaim
  <2> QED BY <1>11, <2>2, <2>3 DEF Claim
<1>12. CASE Send(t)
  <2>1. /\ sess[t].pc = "send" /\ sess[t].op # "stock" /\ Goto(t, "scan")
        /\ UNCHANGED <<setup, now, crashes>>
    BY <1>1, <1>12 DEF Send, At, Runs, AtPanelNow
  <2>2. /\ \/ inbox' = [inbox EXCEPT ![<<sess[t].i, sess[t].kind>>] = @ + 1]
           \/ inbox' = inbox /\ UNCHANGED store /\ setup.customer # "reachable"
        /\ Write(t, Is(Claimed(t), TRUE)) \/ UNCHANGED store
    <3>1. PICK outcome \in Outcome[setup.customer] :
             /\ inbox' = IF outcome = "failed" THEN inbox
                         ELSE [inbox EXCEPT ![<<sess[t].i, sess[t].kind>>] = @ + 1]
             /\ IF outcome = "sent" THEN Write(t, Is(Claimed(t), TRUE)) ELSE UNCHANGED store
      BY <1>12 DEF Send
    <3>2. setup.customer = "reachable" => outcome = "sent"
      BY DEF Outcome
    <3> QED BY <3>1, <3>2
  <2>3. CASE inbox' = [inbox EXCEPT ![<<sess[t].i, sess[t].kind>>] = @ + 1]
    <3>1. Others(t)
      <4>1. \A v \in Tx \ {t} : sess'[v] = sess[v]
        BY <2>1, GotoFacts
      <4>2. \A v \in Tx \ {t} : ws'[v] = ws[v]
        BY <2>2, ClaimWrites DEF store
      <4> QED BY <4>1, <4>2 DEF Others
    <3> QED BY <2>1, <2>2, <2>3, <3>1 DEF Tells
  <2>4. CASE inbox' = inbox /\ UNCHANGED store /\ setup.customer # "reachable"
    BY GoesOnBy, <2>1, <2>4
  <2> QED BY <2>2, <2>3, <2>4
<1>13. CASE TellAdmins(t)
  <2>1. Others(t)
    BY <1>13, GotoFacts DEF TellAdmins, Others, store
  <2> QED BY <1>13, <2>1 DEF TellAdmins
<1>14. CASE TickOff(t)
  <2> DEFINE f == Is(LowStock, sess[t].at)
  <2>1. DOMAIN f = {LowStock}
    BY OneRow
  <2>2. Write(t, f) /\ Goto(t, "commit") /\ sess[t].pc = "tick off" /\ UNCHANGED <<setup, now, inbox, crashes>>
    BY <1>14 DEF TickOff, At
  <2> HIDE DEF f
  <2>3. \A i \in Sub, k \in Kind : N(i, k) \notin DOMAIN f
    BY <2>1, Keys
  <2>4. \E g : Write(t, g) /\ \A i \in Sub, k \in Kind : N(i, k) \notin DOMAIN g
    BY <2>2, <2>3
  <2> QED BY <2>2, <2>4, GoesOnBy
<1>15. CASE PanelError(t) \/ Finish(t) \/ Crash(t)
  BY <1>15, EndsBy DEF PanelError, Finish, Crash, At, AtPanelNow
<1>16. CASE CreateUser(t) \/ LookUp(t) \/ Extend(t)
  <2>1. /\ sess[t].op # "stock" /\ sess[t].pc # "send"
        /\ UNCHANGED <<store, setup, now, inbox, crashes>>
    BY <1>1, <1>16 DEF CreateUser, LookUp, Extend, At, Runs, AtPanelNow
  <2>2. Goto(t, "insert") \/ Goto(t, "reset") \/ Goto(t, "create") \/ Goto(t, "reset in vain")
    BY <1>16 DEF CreateUser, LookUp, Extend
  <2> QED BY GoesOnBy, <2>1, <2>2
<1>17. CASE ResetTraffic(t)
  <2>1. /\ sess[t].op # "stock" /\ sess[t].pc \in AtPanelNow /\ sess[t].pc # "send"
        /\ UNCHANGED <<store, setup, now, inbox, crashes>>
    BY <1>1, <1>17 DEF ResetTraffic, Runs, AtPanelNow
  <2>2. Close(t) \/ Goto(t, "insert") \/ Goto(t, "extend")
    BY <1>17 DEF ResetTraffic
  <2> QED BY GoesOnBy, <2>1, <2>2, EndsBy
<1>18. CASE InsertSubscription(t) \/ Retire(t) \/ FlushColumns(t)
  <2>1. sess[t].op # "stock" /\ UNCHANGED <<setup, now, inbox, crashes>>
    BY <1>1, <1>18 DEF InsertSubscription, Retire, FlushColumns, At, Runs, AtPanelNow
  <2>2. Goto(t, "commit") \/ Goto(t, "retire")
    BY <1>18 DEF InsertSubscription, Retire, FlushColumns
  <2>3. \E f : Write(t, f) /\ \A i \in Sub, k \in Kind : N(i, k) \notin DOMAIN f
    <3>1. CASE InsertSubscription(t) \/ Retire(t)
      <4>1. PICK j, row : Write(t, Is(S(j), row))
        BY <3>1 DEF InsertSubscription, Retire
      <4> DEFINE f == Is(S(j), row)
      <4>2. DOMAIN f = {S(j)}
        BY OneRow
      <4> HIDE DEF f
      <4> QED BY <4>1, <4>2, Keys DEF f
    <3>2. CASE FlushColumns(t)
      <4> DEFINE f == [r \in {q \in DOMAIN sess[t].dirty : DOMAIN sess[t].dirty[q] # {}} |->
                          Over(sess[t].dirty[r], Row(t, r))]
      <4>1. Write(t, f)
        BY <3>2 DEF FlushColumns
      <4>2. \A r \in DOMAIN f : \E i \in Sub : r = S(i)
        BY Here DEF IsSession
      <4> HIDE DEF f
      <4> QED BY <4>1, <4>2, Keys
    <3> QED BY <1>18, <3>1, <3>2
  <2>4. sess[t].pc # "send"
    BY <1>18 DEF InsertSubscription, Retire, FlushColumns, At
  <2> QED BY GoesOnBy, <2>1, <2>2, <2>3, <2>4
<1>19. CASE Continue(t)
  BY <1>8, <1>9, <1>10, <1>11, <1>12, <1>13, <1>14, <1>15, <1>16, <1>17, <1>18, <1>19 DEF Continue
<1> QED BY <1>19, <1>3, <1>4, <1>5, <1>15 DEF Does
-----------------------------------------------------------------------------
\* How often a message is delivered.

\* A step that tells nobody and keeps the claims, unless it is a crash.
LEMMA OnceStep ==
    ASSUME Inv, OnceInv, NEW t \in Tx, Others(t), inbox' = inbox,
           DOMAIN db \subseteq DOMAIN db', sess'[t].pc # "send",
           \/ crashes' = crashes + 1
           \/ /\ crashes' = crashes
              /\ \A i \in Sub, k \in Kind : N(i, k) \in DOMAIN ws[t] =>
                    N(i, k) \in DOMAIN ws'[t] \cup DOMAIN db'
    PROVE  OnceInv'
<1> SUFFICES ASSUME NEW i \in Sub, NEW k \in Kind
             PROVE  /\ inbox'[<<i, k>>] <= 1 + crashes'
                    /\ Unsent(i, k)' => inbox'[<<i, k>>] <= crashes'
  BY DEF OnceInv
<1>1. crashes \in Nat /\ inbox[<<i, k>>] \in Nat
  BY SubAssumption DEF Inv, World
<1>2. inbox[<<i, k>>] <= 1 + crashes /\ (Unsent(i, k) => inbox[<<i, k>>] <= crashes)
  BY DEF OnceInv
<1>3. CASE crashes' = crashes + 1
  BY <1>1, <1>2, <1>3
<1>4. CASE crashes' = crashes /\ (N(i, k) \in DOMAIN ws[t] =>
                                     N(i, k) \in DOMAIN ws'[t] \cup DOMAIN db')
  <2>1. Unsent(i, k)' => Unsent(i, k)
    BY <1>4 DEF Unsent, Others
  <2> QED BY <1>2, <1>4, <2>1
<1> QED BY <1>3, <1>4

\* A message is delivered only by the session that holds its claim, which nobody else
\* had: it was not delivered before, but for crashes.
LEMMA OncePreserves == Inv /\ OnceInv /\ [Next]_vars => OnceInv'
<1> SUFFICES ASSUME Inv, OnceInv, [Next]_vars PROVE OnceInv'
  OBVIOUS
<1>1. CASE UNCHANGED <<store, setup, sess, inbox, crashes>>
  BY <1>1 DEF OnceInv, Unsent, store
<1>2. ASSUME NEW t \in Tx, Does(t) PROVE OnceInv'
  <2>1. Others(t)
    BY <1>2, Shapes
  <2>2. CASE Ends(t)
    <3>1. sess'[t].pc # "send" /\ DOMAIN NoRows = {}
      BY <2>2, IdleOk DEF Ends, NoRows
    <3>2. db' = Over(ws[t], db) => DOMAIN db' = DOMAIN ws[t] \cup DOMAIN db
      BY DEF Over
    <3> QED BY <2>1, <2>2, <3>1, <3>2, OnceStep DEF Ends
  <2>3. CASE Begins(t) \/ GoesOn(t)
    BY <2>1, <2>3, OnceStep DEF Begins, GoesOn
  <2>4. CASE TellAdmins(t)
    <3>1. /\ inbox' = [inbox EXCEPT ![<<Null, sess[t].at>>] = @ + 1] \/ inbox' = inbox
          /\ UNCHANGED <<store, crashes>> /\ Goto(t, "tick off")
      BY <2>4 DEF TellAdmins
    <3>2. \A i \in Sub, k \in Kind : inbox'[<<i, k>>] = inbox[<<i, k>>]
      BY <3>1, SubAssumption DEF Inv, World
    <3>3. sess'[t].pc = "tick off"
      BY <3>1, GotoFacts
    <3>4. \A i \in Sub, k \in Kind : Unsent(i, k)' => Unsent(i, k)
      BY <2>1, <3>1, <3>3 DEF Unsent, Others, store
    <3> QED BY <3>1, <3>2, <3>4 DEF OnceInv
  <2>5. CASE NewClaim(t) \/ Tells(t)
    <3> DEFINE j == sess[t].i
               l == sess[t].kind
    <3>1. j \in Sub /\ l \in Kind /\ Claimed(t) = N(j, l)
      BY <2>5, Here DEF NewClaim, Tells, Aware, Alerting, IsSession, Claimed
    <3>2. /\ \A v \in Tx \ {t} : ws'[v] = ws[v] /\ N(j, l) \notin DOMAIN ws[v]
          /\ db' = db /\ DOMAIN ws'[t] = {N(j, l)} \cup DOMAIN ws[t]
      <4>1. ASSUME NEW b, Write(t, Is(Claimed(t), b))
            PROVE  /\ \A v \in Tx \ {t} : ws'[v] = ws[v] /\ N(j, l) \notin DOMAIN ws[v]
                   /\ db' = db /\ DOMAIN ws'[t] = {N(j, l)} \cup DOMAIN ws[t]
        <5> HIDE DEF j, l
        <5> QED BY <3>1, <4>1, ClaimWrites
      <4>2. CASE Tells(t) /\ UNCHANGED store
        <5>1. N(j, l) \in DOMAIN ws[t]
          BY <4>2, Here DEF Tells, Aware
        <5>2. \A v \in Tx \ {t} : DOMAIN ws[v] \cap DOMAIN ws[t] = {}
          BY DEF Inv, StoreInv, Exclusive
        <5> QED BY <4>2, <5>1, <5>2 DEF store
      <4> QED BY <2>5, <4>1, <4>2 DEF NewClaim, Tells
    <3>3. N(j, l) \notin DOMAIN db
      <4>1. CASE NewClaim(t)
        BY <3>1, <4>1 DEF NewClaim, Exists
      <4>2. CASE Tells(t)
        BY <3>1, <4>2, Here DEF Tells, Aware
      <4> QED BY <2>5, <4>1, <4>2
    <3>4. Unsent(j, l)
      BY <2>5, <3>1, <3>2, <3>3 DEF Unsent, NewClaim, Tells, Exists
    <3>5. /\ sess'[t].i = j /\ sess'[t].kind = l
          /\ sess'[t].pc = (IF sess[t].pc = "claim" THEN "send" ELSE "scan")
      BY <2>5, GotoFacts DEF NewClaim, Tells
    <3>6. crashes' = crashes /\ crashes \in Nat
      <4>1. crashes \in Nat
        BY SubAssumption DEF Inv, World
      <4> QED BY <2>5, <4>1 DEF NewClaim, Tells
    <3> SUFFICES ASSUME NEW i \in Sub, NEW k \in Kind
                 PROVE  /\ inbox'[<<i, k>>] <= 1 + crashes'
                        /\ Unsent(i, k)' => inbox'[<<i, k>>] <= crashes'
      BY DEF OnceInv
    <3>7. inbox[<<i, k>>] <= 1 + crashes /\ (Unsent(i, k) => inbox[<<i, k>>] <= crashes)
      BY DEF OnceInv
    <3>8. inbox[<<i, k>>] \in Nat /\ inbox \in [(Sub \X Kind) \cup ({Null} \X (0..setup.last)) -> Nat]
      BY DEF Inv, World
    <3>9. Unsent(i, k)' => Unsent(i, k)
      BY <2>1, <3>2, <3>4, <3>5, Keys DEF Unsent, Others
    <3>10. CASE NewClaim(t)
      BY <3>6, <3>7, <3>9, <3>10 DEF NewClaim
    <3>11. CASE Tells(t)
      <4>1. inbox' = [inbox EXCEPT ![<<j, l>>] = @ + 1]
        BY <3>11 DEF Tells
      <4>2. CASE i = j /\ k = l
        <5>1. inbox'[<<i, k>>] = inbox[<<i, k>>] + 1
          BY <3>8, <4>1, <4>2
        <5>2. ~Unsent(i, k)'
          BY <3>2, <3>5, <3>11, <4>2 DEF Unsent, Tells
        <5> QED BY <3>4, <3>6, <3>7, <3>8, <4>2, <5>1, <5>2
      <4>3. CASE ~(i = j /\ k = l)
        <5>1. inbox'[<<i, k>>] = inbox[<<i, k>>]
          BY <3>8, <4>1, <4>3
        <5> QED BY <3>6, <3>7, <3>9, <5>1
      <4> QED BY <4>2, <4>3
    <3> QED BY <2>5, <3>10, <3>11
  <2> QED BY <1>2, <2>2, <2>3, <2>4, <2>5, Shapes
<1> QED BY <1>1, <1>2, NextIs
-----------------------------------------------------------------------------
\* Which messages have arrived.

\* A claim that was left was sent before, by the session that made it.
LEMMA DeliveredPreserves == Inv /\ DeliveredInv /\ [Next]_vars => DeliveredInv'
<1> SUFFICES ASSUME Inv, DeliveredInv, [Next]_vars, setup'.customer = "reachable",
                    NEW i \in Sub, NEW k \in Kind
             PROVE  Unsent(i, k)' \/ inbox'[<<i, k>>] > 0
  BY DEF DeliveredInv
<1>1. /\ inbox \in [(Sub \X Kind) \cup ({Null} \X (0..setup.last)) -> Nat]
      /\ inbox[<<i, k>>] \in Nat /\ Null \notin Sub
  BY SubAssumption DEF Inv, World
<1>2. CASE UNCHANGED <<store, setup, sess, inbox, crashes>>
  BY <1>2 DEF DeliveredInv, Unsent, store
<1>3. ASSUME NEW t \in Tx, Does(t) PROVE Unsent(i, k)' \/ inbox'[<<i, k>>] > 0
  <2>1. /\ Others(t) /\ setup' = setup
        /\ Ends(t) \/ Begins(t) \/ GoesOn(t) \/ NewClaim(t) \/ Tells(t) \/ TellAdmins(t)
    BY <1>3, Shapes
  <2>2. Unsent(i, k) \/ inbox[<<i, k>>] > 0
    BY <2>1 DEF DeliveredInv
  <2>3. SUFFICES ASSUME Unsent(i, k) PROVE Unsent(i, k)' \/ inbox'[<<i, k>>] > 0
    <3>1. inbox[<<i, k>>] > 0 => inbox'[<<i, k>>] > 0
      <4>1. CASE inbox' = inbox
        BY <4>1
      <4>2. ASSUME NEW m, inbox' = [inbox EXCEPT ![m] = @ + 1]
            PROVE  inbox[<<i, k>>] > 0 => inbox'[<<i, k>>] > 0
        BY <1>1, <4>2
      <4> QED BY <2>1, <4>1, <4>2 DEF Ends, Begins, GoesOn, NewClaim, Tells, TellAdmins
    <3> QED BY <2>2, <3>1
  <2>4. N(i, k) \notin DOMAIN db /\ (N(i, k) \in DOMAIN ws[t] =>
                sess[t].pc = "send" /\ sess[t].i = i /\ sess[t].kind = k)
    BY <2>3 DEF Unsent
  <2>5. CASE Ends(t)
    <3>1. DOMAIN NoRows = {} /\ DOMAIN Over(ws[t], db) = DOMAIN ws[t] \cup DOMAIN db
      BY DEF NoRows, Over
    <3>2. N(i, k) \notin DOMAIN db'
      BY <2>4, <2>5, <3>1 DEF Ends
    <3> QED BY <2>1, <2>3, <2>5, <3>1, <3>2 DEF Unsent, Ends, Others
  <2>6. CASE Begins(t)
    <3>1. ws[t] = NoRows /\ DOMAIN NoRows = {}
      BY <2>6, IdleOk, Here DEF Begins, Aware, Holds, NoRows
    <3> QED BY <2>1, <2>3, <2>6, <3>1 DEF Unsent, Begins, Others
  <2>7. CASE GoesOn(t)
    <3>1. N(i, k) \notin DOMAIN ws'[t]
      BY <2>1, <2>4, <2>7 DEF GoesOn
    <3> QED BY <2>1, <2>3, <2>7, <3>1 DEF Unsent, GoesOn, Others
  <2>8. CASE NewClaim(t)
    <3>1. db' = db /\ DOMAIN ws'[t] = {N(sess[t].i, sess[t].kind)} \cup DOMAIN ws[t]
      BY <2>8, ClaimWrites DEF NewClaim, Claimed
    <3>2. sess'[t].pc = "send" /\ sess'[t].i = sess[t].i /\ sess'[t].kind = sess[t].kind
      BY <2>8, GotoFacts DEF NewClaim
    <3>3. N(i, k) \notin DOMAIN ws[t]
      BY <2>4, <2>8 DEF NewClaim
    <3> QED BY <2>1, <2>3, <3>1, <3>2, <3>3, Keys DEF Unsent, Others
  <2>9. CASE Tells(t)
    <3>1. CASE sess[t].i = i /\ sess[t].kind = k
      <4>1. inbox' = [inbox EXCEPT ![<<i, k>>] = @ + 1]
        BY <2>9, <3>1 DEF Tells
      <4>2. inbox'[<<i, k>>] = inbox[<<i, k>>] + 1
        BY <1>1, <4>1
      <4> QED BY <1>1, <4>2
    <3>2. CASE ~(sess[t].i = i /\ sess[t].kind = k)
      <4>1. db' = db /\ (ws'[t] = ws[t] \/ DOMAIN ws'[t] = {N(sess[t].i, sess[t].kind)} \cup DOMAIN ws[t])
        BY <2>9, ClaimWrites DEF Tells, Claimed, store
      <4>2. N(i, k) \notin DOMAIN ws'[t]
        BY <2>4, <3>2, <4>1, Keys
      <4> QED BY <2>1, <2>3, <4>1, <4>2 DEF Unsent, Others
    <3> QED BY <3>1, <3>2
  <2>10. CASE TellAdmins(t)
    <3>1. db' = db /\ ws' = ws /\ sess[t].pc = "tell"
      BY <2>10 DEF TellAdmins, At, store
    <3>2. N(i, k) \notin DOMAIN ws'[t]
      BY <2>4, <3>1
    <3> QED BY <2>1, <2>3, <3>1, <3>2 DEF Unsent, Others
  <2> QED BY <2>1, <2>5, <2>6, <2>7, <2>8, <2>9, <2>10
<1> QED BY <1>2, <1>3, NextIs

\* Sound rows and sent claims.
LEMMA Delivered == Spec => [](Inv /\ DeliveredInv)
<1>1. Init => DeliveredInv
  <2> SUFFICES ASSUME Init, NEW i \in Sub, NEW k \in Kind PROVE Unsent(i, k)
    BY DEF DeliveredInv
  <2>1. DOMAIN NoRows = {}
    BY DEF NoRows
  <2> QED BY <2>1, Keys DEF Init, Unsent
<1> QED BY <1>1, Initially, StepPreserves, DeliveredPreserves, PTL DEF Spec

\* Who has been told as the rows have it has the message.
LEMMA ToldIs ==
    ASSUME Inv, DeliveredInv, NEW i \in Sub, NEW k \in Kind, ToldOf(db, spared, i, k)
    PROVE  Told(i, k)
    BY DEF ToldOf, Told, DeliveredInv, Unsent

\* The alerts of a subscription come in their order: whatever jobs overlap, are
\* killed, or overwrite each other's tags, and whenever the customer is banned and let
\* in again, nobody is told of the last day who was not told of the third, nor of the
\* third who was not told of the seventh, or was banned when that alert was due.
THEOREM StepsComeInOrder == Spec => []StepsInOrder
<1>1. Inv /\ DeliveredInv => StepsInOrder
  <2> SUFFICES ASSUME Inv, DeliveredInv, NEW i \in Sub
               PROVE  /\ N(i, "3") \in DOMAIN db => Told(i, "7")
                      /\ N(i, "1") \in DOMAIN db => Told(i, "3")
    BY DEF StepsInOrder, Known
  <2>1. /\ N(i, "3") \in DOMAIN db => ToldOf(db, spared, i, "7")
        /\ N(i, "1") \in DOMAIN db => ToldOf(db, spared, i, "3")
    BY DEF Inv, StoreInv, StoreOk, InOrder
  <2> QED BY <2>1, ToldIs DEF Kind
<1> QED BY <1>1, Delivered, PTL

\* Whoever's subscription is marked expired has been told so: the scan that wrote the
\* mark claimed the alert, and sent it, before its commit, or found it claimed, or
\* found the customer banned.  A lost tag, a sync, a renewal, a crash and a ban that
\* is lifted later change nothing of that.
THEOREM ExpiryIsTold == Spec => []ExpiredIsTold
<1>1. Inv /\ DeliveredInv => ExpiredIsTold
  <2> SUFFICES ASSUME Inv, DeliveredInv, NEW i \in Sub, S(i) \in DOMAIN db,
                      db[S(i)].status = "expired"
               PROVE  Told(i, "expired")
    BY DEF ExpiredIsTold, Known, Status
  <2>1. ToldOf(db, spared, i, "expired")
    BY DEF Inv, StoreInv, StoreOk, AllTold, RowTold
  <2> QED BY <2>1, ToldIs DEF Kind
<1> QED BY <1>1, Delivered, PTL
-----------------------------------------------------------------------------
\* On which day the low stock is told.

\* At most one session looks at the stock, and only it writes the day.
LEMMA OneLooks ==
    ASSUME Inv, OneStock, NEW t \in Tx, NEW u \in Tx, sess[t].op = "stock"
    PROVE  /\ sess[u].op = "stock" => u = t
           /\ LowStock \in DOMAIN ws[u] => u = t
<1>1. sess[u].op = "stock" => u = t
  BY DEF OneStock, Inv, InTime, World
<1>2. LowStock \in DOMAIN ws[u] => sess[u].op = "stock"
  BY Here DEF Aware, Holds
<1> QED BY <1>1, <1>2

\* The low stock is told on a day later than the one written, by the only session that
\* looks at it.
LEMMA StockPreserves == OneStock /\ Inv /\ StockInv /\ [Next]_vars => StockInv'
<1> SUFFICES ASSUME OneStock, Inv, StockInv, [Next]_vars PROVE StockInv'
  OBVIOUS
<1>1. /\ setup' = setup /\ setup.last \in Nat /\ crashes \in Nat
      /\ inbox \in [(Sub \X Kind) \cup ({Null} \X (0..setup.last)) -> Nat]
  <2>1. setup' = setup
    <3>1. CASE \E t \in Tx : Does(t)
      BY <3>1, Shapes
    <3>2. CASE ~\E t \in Tx : Does(t)
      BY <3>2 DEF Next, Does, Tick, SetBanned, UseTraffic, SwitchOff, AtPanel, vars
    <3> QED BY <3>1, <3>2
  <2> QED BY <2>1, SetupFacts, SubAssumption DEF Inv, World
<1> DEFINE Fine(n) == /\ inbox[<<Null, n>>] <= 1 + crashes
                      /\ Untold(n) => inbox[<<Null, n>>] <= crashes
           Early == \A t \in Tx : sess[t].op = "stock" /\ LowStock \in DOMAIN db =>
                       db[LowStock] < sess[t].at
<1>2. Early /\ \A n \in 0..setup.last : Fine(n)
  BY DEF StockInv
<1>3. SUFFICES Early' /\ \A n \in 0..setup.last : Fine(n)'
  BY <1>1 DEF StockInv
<1>4. ASSUME NEW u \in Tx, sess[u].op = "stock", LowStock \in DOMAIN db
      PROVE  db[LowStock] < sess[u].at
  BY <1>4 DEF StockInv
<1>5. ASSUME NEW a, NEW b, a \in Nat, b \in Nat, a <= b, a # b PROVE a < b /\ ~(a >= b)
  BY <1>5
<1>6. LowStock \in DOMAIN db => db[LowStock] \in Nat /\ db[LowStock] <= now
  BY Keys DEF Inv, StoreInv, StoreOk, Typed, InTime
<1>7. CASE UNCHANGED <<store, setup, sess, inbox, crashes>>
  BY <1>2, <1>7 DEF Untold, store
<1>8. ASSUME NEW t \in Tx, Does(t) PROVE Early' /\ \A n \in 0..setup.last : Fine(n)'
  <2>1. /\ Others(t)
        /\ Ends(t) \/ Begins(t) \/ GoesOn(t) \/ NewClaim(t) \/ Tells(t) \/ TellAdmins(t)
    BY <1>8, Shapes
  <2>2. /\ sess[t].at \in Nat /\ sess[t].at <= now /\ now \in Nat /\ now <= setup.last
        /\ Holds(sess[t], ws[t]) /\ Runs(sess[t].op, sess[t].pc)
    BY Here DEF Aware, IsSession, Inv, World
  <2>3. CASE Ends(t)
    <3>1. Idle.op = "none" /\ sess'[t] = Idle /\ inbox' = inbox
      BY <2>3, IdleOk DEF Ends
    <3>2. CASE db' = db /\ (crashes' = crashes + 1 \/ (crashes' = crashes /\ sess[t].op = "buy"))
      <4>1. Early'
        BY <1>2, <2>1, <3>1, <3>2 DEF Others
      <4>2. CASE crashes' = crashes + 1
        BY <1>1, <1>2, <3>1, <4>1, <4>2
      <4>3. CASE crashes' = crashes /\ sess[t].op = "buy"
        <5>1. \A n : Untold(n)' => Untold(n)
          BY <2>1, <3>2, <4>3 DEF Untold, Others
        <5> QED BY <1>2, <3>1, <4>1, <4>3, <5>1
      <4> QED BY <3>2, <4>2, <4>3
    <3>3. CASE db' = Over(ws[t], db) /\ crashes' = crashes /\ sess[t].pc = "commit"
      <4>1. CASE LowStock \in DOMAIN ws[t]
        <5>1. sess[t].op = "stock" /\ ws[t][LowStock] = sess[t].at
          BY <2>2, <4>1 DEF Holds
        <5>2. LowStock \in DOMAIN db' /\ db'[LowStock] = sess[t].at
          BY <3>3, <4>1, <5>1 DEF Over
        <5>3. \A u \in Tx : sess'[u].op # "stock"
          BY <2>1, <3>1, <5>1, OneLooks DEF Others
        <5>4. \A n \in 0..setup.last : Untold(n)' => Untold(n)
          <6> SUFFICES ASSUME NEW n \in 0..setup.last, Untold(n)' PROVE Untold(n)
            OBVIOUS
          <6>1. sess[t].at < n /\ n \in Nat
            <7>1. ~(db'[LowStock] >= n)
              BY <5>2 DEF Untold
            <7>2. n \in Nat /\ sess[t].at \in Nat /\ ~(sess[t].at >= n)
              BY <1>1, <2>2, <5>2, <7>1
            <7> QED BY <7>2
          <6>2. LowStock \in DOMAIN db => db[LowStock] < n
            BY <1>2, <1>6, <2>2, <5>1, <6>1
          <6>3. \A u \in Tx : sess[u].op = "stock" => u = t
            BY <5>1, OneLooks
          <6>4. LowStock \in DOMAIN db => ~(db[LowStock] >= n)
            BY <1>6, <6>1, <6>2
          <6>5. sess[t].at # n
            BY <2>2, <6>1
          <6> QED BY <6>3, <6>4, <6>5 DEF Untold
        <5> QED BY <1>2, <3>1, <3>3, <5>3, <5>4
      <4>2. CASE LowStock \notin DOMAIN ws[t]
        <5>1. /\ LowStock \in DOMAIN db' <=> LowStock \in DOMAIN db
              /\ LowStock \in DOMAIN db => db'[LowStock] = db[LowStock]
          BY <3>3, <4>2 DEF Over
        <5>2. sess[t].op # "stock"
          BY <2>2, <2>3, <3>3, <4>2, <1>1 DEF Holds, Ends
        <5>3. Early'
          BY <1>2, <2>1, <3>1, <5>1 DEF Others
        <5>4. \A n : Untold(n)' => Untold(n)
          BY <2>1, <5>1, <5>2 DEF Untold, Others
        <5> QED BY <1>2, <3>1, <3>3, <5>3, <5>4
      <4> QED BY <4>1, <4>2
    <3> QED BY <2>3, <3>2, <3>3 DEF Ends
  <2>4. CASE Begins(t)
    <3>1. Early'
      <4>1. sess'[t].op = "stock" /\ LowStock \in DOMAIN db' => db'[LowStock] < sess'[t].at
        <5> SUFFICES ASSUME sess'[t].op = "stock", LowStock \in DOMAIN db
                     PROVE  db[LowStock] < sess'[t].at
          BY <2>4 DEF Begins
        <5>1. db[LowStock] # now /\ sess'[t].at = now
          BY <2>4 DEF Begins
        <5> QED BY <1>6, <1>5, <2>2, <5>1
      <4>2. \A u \in Tx \ {t} : sess'[u] = sess[u]
        BY <2>1 DEF Others
      <4> QED BY <1>2, <2>4, <4>1, <4>2 DEF Begins
    <3>2. \A n : Untold(n)' => Untold(n)
      BY <2>1, <2>4, IdleOk DEF Untold, Begins, Others
    <3> QED BY <1>2, <2>4, <3>1, <3>2 DEF Begins
  <2>5. CASE GoesOn(t)
    <3>1. Early'
      BY <1>2, <2>1, <2>5 DEF GoesOn, Others
    <3>2. \A n : Untold(n)' => Untold(n)
      BY <2>1, <2>5 DEF Untold, GoesOn, Others
    <3> QED BY <1>2, <2>5, <3>1, <3>2 DEF GoesOn
  <2>6. CASE NewClaim(t) \/ Tells(t)
    <3>1. /\ db' = db /\ crashes' = crashes
          /\ sess'[t].op = sess[t].op /\ sess'[t].at = sess[t].at /\ sess[t].op # "stock"
      BY <2>2, <2>6, GotoFacts DEF NewClaim, Tells, Write, store, Runs, AtPanelNow
    <3>2. \A n \in 0..setup.last : inbox'[<<Null, n>>] = inbox[<<Null, n>>]
      <4>1. sess[t].i \in Sub
        BY <2>6, Here DEF NewClaim, Tells, Aware, Alerting
      <4> QED BY <1>1, <2>6, <4>1, SubAssumption DEF NewClaim, Tells
    <3>3. Early' /\ \A n : Untold(n)' => Untold(n)
      BY <1>2, <2>1, <3>1 DEF Untold, Others
    <3> QED BY <1>2, <3>1, <3>2, <3>3
  <2>7. CASE TellAdmins(t)
    <3>0. PICK m \in Nat : m = sess[t].at
      BY <2>2
    <3>1. /\ inbox' = [inbox EXCEPT ![<<Null, m>>] = @ + 1] \/ inbox' = inbox
          /\ UNCHANGED <<store, crashes>> /\ sess[t].pc = "tell" /\ Goto(t, "tick off")
      BY <2>7, <3>0 DEF TellAdmins, At
    <3>2. /\ sess[t].op = "stock" /\ sess'[t].op = "stock" /\ sess'[t].at = m
          /\ sess'[t].pc = "tick off"
      BY <2>2, <3>0, <3>1, GotoFacts DEF Runs, AtPanelNow
    <3>3. Early'
      BY <1>2, <2>1, <3>0, <3>1, <3>2 DEF Others, store
    <3>4. Untold(m)
      <4>1. \A u \in Tx : sess[u].op = "stock" => u = t
        BY <3>2, OneLooks
      <4>2. LowStock \in DOMAIN db => ~(db[LowStock] >= m)
        <5> SUFFICES ASSUME LowStock \in DOMAIN db PROVE ~(db[LowStock] >= m)
          OBVIOUS
        <5>1. db[LowStock] < m /\ db[LowStock] \in Nat /\ m \in Nat
          BY <1>6, <1>4, <2>2, <3>0, <3>2
        <5> QED BY <5>1
      <4> QED BY <3>1, <4>1, <4>2 DEF Untold
    <3>5. ~Untold(m)'
      BY <3>2 DEF Untold
    <3>6. \A n : Untold(n)' => Untold(n)
      BY <2>1, <3>1, <3>2, <3>4 DEF Untold, Others, store
    <3> SUFFICES ASSUME NEW n \in 0..setup.last PROVE Fine(n)'
      BY <3>3
    <3>7. CASE n = m
      <4>1. /\ inbox'[<<Null, n>>] \in {inbox[<<Null, n>>] + 1, inbox[<<Null, n>>]}
            /\ inbox[<<Null, n>>] \in Nat
        BY <1>1, <3>1, <3>7
      <4>2. inbox[<<Null, n>>] <= crashes
        BY <1>2, <3>4, <3>7
      <4>3. ~Untold(n)'
        BY <3>5, <3>7
      <4>4. inbox'[<<Null, n>>] <= 1 + crashes'
        <5>1. crashes' = crashes
          BY <3>1
        <5> QED BY <1>1, <4>1, <4>2, <5>1
      <4> QED BY <4>3, <4>4
    <3>8. CASE n # m
      <4>1. inbox'[<<Null, n>>] = inbox[<<Null, n>>]
        BY <1>1, <3>1, <3>8
      <4> QED BY <1>2, <3>1, <3>6, <4>1
    <3> QED BY <3>7, <3>8
  <2> QED BY <2>1, <2>3, <2>4, <2>5, <2>6, <2>7
<1> QED BY <1>7, <1>8, NextIs

\* "an alert of a given kind for a given subscription is sent at most once"
\* (notification_service.py): for every number of jobs, syncs and renewals, and every
\* overlap of them, a crash between the message and the commit is the only way to a
\* second one.
THEOREM SubscriptionAlertsOnce ==
    Spec => [](\A i \in Sub, k \in Kind : inbox[<<i, k>>] <= 1 + crashes)
<1> DEFINE P == \A i \in Sub, k \in Kind : inbox[<<i, k>>] <= 1 + crashes
<1>1. Init => OnceInv
  BY DEF Init, OnceInv
<1>2. OnceInv => P
  BY DEF OnceInv
<1> HIDE DEF P
<1>3. Spec => []P
  BY <1>1, <1>2, Initially, StepPreserves, OncePreserves, PTL DEF Spec
<1> QED BY <1>3 DEF P

\* All alerts, with those of the low stock: these need one more thing, that no two
\* jobs look at the stock at once, since no claim comes before the message.
THEOREM AlertsOnce == ASSUME OneStock PROVE Spec => []AlertedOnce
<1>1. Init => OnceInv /\ StockInv
  <2> SUFFICES ASSUME Init PROVE OnceInv /\ StockInv
    OBVIOUS
  <2>1. /\ crashes = 0 /\ \A t \in Tx : sess[t] = Idle
        /\ \A m \in DOMAIN inbox : inbox[m] = 0
        /\ DOMAIN inbox = (Sub \X Kind) \cup ({Null} \X (0..setup.last))
    BY DEF Init
  <2> QED BY <2>1, IdleOk DEF OnceInv, StockInv
<1>2. Inv /\ OnceInv /\ StockInv => AlertedOnce
  BY DEF Inv, World, OnceInv, StockInv, AlertedOnce
<1>3. Inv /\ OnceInv /\ StockInv /\ [Next]_vars => Inv' /\ OnceInv' /\ StockInv'
  BY StepPreserves, OncePreserves, StockPreserves
<1> QED BY <1>1, <1>2, <1>3, Initially, PTL DEF Spec
-----------------------------------------------------------------------------
\* When a row is marked expired.

\* The rows another session has written are committed: unless one of the two syncs
\* and the other looks for what has run out, this one stays in time.
LEMMA TimeGrow ==
    ASSUME NEW s, NEW x, NEW w, NEW y, NEW d, NEW e, NEW n, e = Over(y, d),
           Timely(s, x, d, n), Timely(w, y, d, n), DOMAIN x \cap DOMAIN y = {},
           DOMAIN s.seen \cup DOMAIN s.dirty \subseteq DOMAIN d,
           ~(s.op = "expiry" /\ w.op = "sync"), ~(s.op = "sync" /\ w.op = "expiry"),
           s.op = "buy" => s.i \in Sub /\ (w.op = "buy" => s.i # w.i)
    PROVE  Timely(s, x, e, n)
<1>1. /\ DOMAIN e = DOMAIN y \cup DOMAIN d
      /\ \A r \in DOMAIN y : e[r] = y[r]
      /\ \A r \in DOMAIN d \ DOMAIN y : e[r] = d[r]
  BY DEF Over
<1>2. ASSUME NEW i \in Sub, S(i) \in DOMAIN y PROVE Marked(y[S(i)], w, d, i, n)
  BY <1>2 DEF Timely
<1>3. ASSUME NEW i \in Sub, S(i) \in DOMAIN d
      PROVE  /\ w.op # "sync" => e[S(i)].expires = d[S(i)].expires
             /\ w.op # "expiry" => (e[S(i)].status = "expired" => d[S(i)].status = "expired")
  <2>1. CASE S(i) \in DOMAIN y
    BY <1>1, <1>2, <1>3, <2>1 DEF Marked
  <2>2. CASE S(i) \notin DOMAIN y
    BY <1>1, <1>3, <2>2
  <2> QED BY <2>1, <2>2
<1>4. ASSUME NEW i \in Sub, S(i) \in DOMAIN x PROVE Marked(x[S(i)], s, e, i, n)
  <2>1. Marked(x[S(i)], s, d, i, n)
    BY <1>4 DEF Timely
  <2>2. /\ S(i) \in DOMAIN e <=> S(i) \in DOMAIN d
        /\ S(i) \in DOMAIN d => e[S(i)] = d[S(i)]
    BY <1>1, <1>4
  <2> QED BY <2>1, <2>2 DEF Marked
<1>5. ASSUME NEW i \in Sub, S(i) \in DOMAIN s.dirty PROVE Assigned(s.dirty[S(i)], s, e, i, n)
  <2>1. Assigned(s.dirty[S(i)], s, d, i, n)
    BY <1>5 DEF Timely
  <2>2. S(i) \in DOMAIN d
    BY <1>5
  <2> QED BY <1>3, <2>1, <2>2 DEF Assigned
<1>6. ASSUME NEW i \in Sub, S(i) \in DOMAIN s.seen
      PROVE  /\ s.op = "expiry" => s.seen[S(i)].expires = e[S(i)].expires
             /\ s.op = "sync" => e[S(i)].status # "expired"
  <2>1. S(i) \in DOMAIN d
    BY <1>6
  <2> QED BY <1>3, <1>6, <2>1 DEF Timely
<1>7. s.op = "buy" => S(s.i) \notin DOMAIN e
  <2> SUFFICES ASSUME s.op = "buy", S(s.i) \in DOMAIN e PROVE FALSE
    OBVIOUS
  <2>1. S(s.i) \notin DOMAIN d /\ s.i \in Sub
    BY DEF Timely
  <2>2. S(s.i) \in DOMAIN y
    BY <1>1, <2>1
  <2> QED BY <1>2, <2>1, <2>2 DEF Marked
<1> QED BY <1>4, <1>5, <1>6, <1>7 DEF Timely

\* A session that has written no other row of a subscription, and read and assigned
\* no other, is as much in time as it was.
LEMMA AsTimely ==
    ASSUME NEW s, NEW x, NEW z, NEW y, NEW d, NEW n, Timely(s, x, d, n),
           z.op = s.op, z.i = s.i, z.seen = s.seen, z.dirty = s.dirty,
           \A i \in Sub : S(i) \in DOMAIN y => S(i) \in DOMAIN x /\ y[S(i)] = x[S(i)]
    PROVE  Timely(z, y, d, n)
    BY DEF Timely, Marked, Assigned

\* The idle session knows nothing.
LEMMA IdleTimely ==
    ASSUME NEW d, NEW n
    PROVE  Timely(Idle, NoRows, d, n)
    BY DEF Timely, Idle, NoRows

\* A step of session t that commits nothing.
LEMMA TimeStep ==
    ASSUME Inv, TimeInv, NEW t \in Tx, Others(t), db' = db, now' = now,
           Timely(sess'[t], ws'[t], db, now),
           \A u \in Tx \ {t} : sess'[t].op = "buy" /\ sess[u].op = "buy" => sess'[t].i # sess[u].i
    PROVE  TimeInv'
<1>1. \A u \in Tx : Timely(sess'[u], ws'[u], db', now')
  BY DEF TimeInv, Others
<1>2. \A u, v \in Tx : u # v /\ sess'[u].op = "buy" /\ sess'[v].op = "buy" =>
         sess'[u].i # sess'[v].i
  BY DEF TimeInv, Others
<1> QED BY <1>1, <1>2 DEF TimeInv

\* A statement that writes no row of a subscription.
LEMMA TimeGoto ==
    ASSUME Inv, TimeInv, NEW t \in Tx, NEW pc, Goto(t, pc), now' = now,
           \/ UNCHANGED store
           \/ \E r, v : Write(t, Is(r, v)) /\ \A i \in Sub : r # S(i)
    PROVE  TimeInv'
<1>1. /\ \A v \in Tx \ {t} : sess'[v] = sess[v]
      /\ sess'[t].op = sess[t].op /\ sess'[t].i = sess[t].i
      /\ sess'[t].seen = sess[t].seen /\ sess'[t].dirty = sess[t].dirty
  BY GotoFacts
<1>2. /\ db' = db /\ \A v \in Tx \ {t} : ws'[v] = ws[v]
      /\ \A i \in Sub : S(i) \in DOMAIN ws'[t] => S(i) \in DOMAIN ws[t] /\ ws'[t][S(i)] = ws[t][S(i)]
  <2>1. CASE UNCHANGED store
    BY <2>1 DEF store
  <2>2. CASE \E r, v : Write(t, Is(r, v)) /\ \A i \in Sub : r # S(i)
    <3>1. PICK r, v : Write(t, Is(r, v)) /\ \A i \in Sub : r # S(i)
      BY <2>2
    <3> DEFINE f == Is(r, v)
    <3>2. DOMAIN f = {r}
      BY OneRow
    <3>3. db' = db /\ ws'[t] = Over(f, ws[t]) /\ \A u \in Tx \ {t} : ws'[u] = ws[u]
      BY <3>1, WriteEffect DEF Inv, StoreInv
    <3> HIDE DEF f
    <3> QED BY <3>1, <3>2, <3>3 DEF Over
  <2> QED BY <2>1, <2>2
<1>3. Timely(sess[t], ws[t], db, now)
  BY DEF TimeInv
<1>4. Timely(sess'[t], ws'[t], db, now)
  BY <1>1, <1>2, <1>3, AsTimely
<1>5. \A u \in Tx \ {t} : sess'[t].op = "buy" /\ sess[u].op = "buy" => sess'[t].i # sess[u].i
  BY <1>1 DEF TimeInv
<1> QED BY <1>1, <1>2, <1>4, <1>5, TimeStep DEF Others

\* The end of a transaction.
LEMMA TimeEnds ==
    ASSUME Inv, TimeInv, Calm, NEW t \in Tx, Others(t), Ends(t), now' = now
    PROVE  TimeInv'
<1> DEFINE x == ws[t]
           s == sess[t]
<1>1. sess'[t] = Idle /\ ws'[t] = NoRows /\ (db' = db \/ db' = Over(x, db))
  BY DEF Ends
<1>2. ASSUME NEW u \in Tx \ {t} PROVE Timely(sess[u], ws[u], db', now)
  <2>1. Timely(sess[u], ws[u], db, now) /\ Timely(s, x, db, now)
    BY DEF TimeInv
  <2>2. DOMAIN ws[u] \cap DOMAIN x = {}
    BY DEF Inv, StoreInv, Exclusive
  <2>3. /\ DOMAIN sess[u].seen \cup DOMAIN sess[u].dirty \subseteq DOMAIN db
        /\ sess[u].op = "buy" => sess[u].i \in Sub
    BY Here DEF Aware
  <2>4. ~(sess[u].op = "expiry" /\ s.op = "sync") /\ ~(sess[u].op = "sync" /\ s.op = "expiry")
    BY DEF Calm
  <2>5. sess[u].op = "buy" /\ s.op = "buy" => sess[u].i # s.i
    BY DEF TimeInv
  <2> HIDE DEF x, s
  <2> QED BY <1>1, <2>1, <2>2, <2>3, <2>4, <2>5, TimeGrow
<1>3. \A u \in Tx : Timely(sess'[u], ws'[u], db', now')
  <2>1. Timely(Idle, NoRows, db', now)
    BY IdleTimely
  <2> QED BY <1>1, <1>2, <2>1 DEF Others
<1>4. \A i \in Sub : S(i) \in DOMAIN db' => Ran(db'[S(i)], now')
  <2> SUFFICES ASSUME NEW i \in Sub, S(i) \in DOMAIN db' PROVE Ran(db'[S(i)], now)
    OBVIOUS
  <2>1. S(i) \in DOMAIN x => Ran(x[S(i)], now)
    BY DEF TimeInv, Timely, Marked
  <2>2. S(i) \in DOMAIN db => Ran(db[S(i)], now)
    BY DEF TimeInv
  <2> HIDE DEF x
  <2> QED BY <1>1, <2>1, <2>2 DEF Over
<1>5. \A u, v \in Tx : u # v /\ sess'[u].op = "buy" /\ sess'[v].op = "buy" =>
         sess'[u].i # sess'[v].i
  BY <1>1, IdleOk DEF TimeInv, Others
<1> QED BY <1>3, <1>4, <1>5 DEF TimeInv

\* The first statement of a session, which reads the rows seen.
LEMMA TimeBegins ==
    ASSUME Inv, TimeInv, NEW t \in Tx, NEW z, NEW op, sess' = [sess EXCEPT ![t] = z],
           Begin(t, op), UNCHANGED <<store, now>>, z.dirty = NoRows,
           \A i \in Sub : S(i) \in DOMAIN z.seen =>
               /\ z.seen[S(i)] = db[S(i)]
               /\ z.op = "sync" => db[S(i)].status # "expired",
           z.op = "buy" => /\ S(z.i) \notin DOMAIN db
                           /\ \A u \in Tx : sess[u].op = "buy" => sess[u].i # z.i
    PROVE  TimeInv'
<1>1. ws[t] = NoRows /\ DOMAIN NoRows = {}
  BY BeginFacts DEF NoRows
<1>2. /\ sess'[t] = z /\ \A v \in Tx \ {t} : sess'[v] = sess[v]
      /\ db' = db /\ ws' = ws
  BY SessionStep DEF store
<1>3. Timely(z, ws[t], db, now)
  BY <1>1 DEF Timely
<1> QED BY <1>2, <1>3, TimeStep DEF Others

\* A job reads the committed rows, none of them marked.
LEMMA TimeLoad ==
    ASSUME Inv, TimeInv, NEW t \in Tx, NEW op \in Job, LoadActive(t, op)
    PROVE  TimeInv'
<1> DEFINE rows == {r \in Active(t) : op = "sync" => Row(t, r).account # Null}
           cache == [r \in rows |-> Row(t, r)]
           z == [Idle EXCEPT !.op = op, !.at = now, !.banned = banned, !.seen = cache,
                             !.pc = IF op = "sync" THEN "sync" ELSE "scan"]
<1>1. /\ Begin(t, op) /\ sess' = [sess EXCEPT ![t] = z]
      /\ UNCHANGED <<store, setup, now, panel, inbox, crashes>>
  BY DEF LoadActive
<1>2. ASSUME NEW i \in Sub, S(i) \in DOMAIN cache
      PROVE  cache[S(i)] = db[S(i)] /\ db[S(i)].status # "expired"
  <2>1. S(i) \in DOMAIN Visible(t) /\ Row(t, S(i)).status = "active" /\ cache[S(i)] = Row(t, S(i))
    BY <1>2 DEF Active
  <2>2. ws[t] = NoRows /\ DOMAIN NoRows = {}
    BY <1>1, BeginFacts DEF NoRows
  <2>3. Row(t, S(i)) = db[S(i)]
    BY <2>2 DEF Row
  <2> QED BY <2>1, <2>3
<1> HIDE DEF cache
<1>3. z.op = op /\ z.seen = cache /\ z.dirty = NoRows /\ op # "buy"
  BY DEF Idle, Job
<1> HIDE DEF z
<1> QED BY <1>1, <1>2, <1>3, TimeBegins

\* The stock job reads none.
LEMMA TimeReadStock ==
    ASSUME Inv, TimeInv, NEW t \in Tx, ReadStock(t)
    PROVE  TimeInv'
<1> DEFINE z == [Idle EXCEPT !.op = "stock", !.pc = "tell", !.at = now]
<1>1. /\ Begin(t, "stock") /\ sess' = [sess EXCEPT ![t] = z]
      /\ UNCHANGED <<store, setup, now, panel, inbox, crashes>>
  BY DEF ReadStock
<1>2. z.op = "stock" /\ z.seen = NoRows /\ z.dirty = NoRows /\ DOMAIN NoRows = {}
  BY DEF Idle, NoRows
<1> HIDE DEF z
<1> QED BY <1>1, <1>2, TimeBegins

\* A purchase has an id of its own.
LEMMA TimeProvision ==
    ASSUME Inv, TimeInv, NEW t \in Tx, NEW i \in Sub, NEW old \in Sub \cup {Null},
           Provision(t, i, old)
    PROVE  TimeInv'
<1> DEFINE pc == IF old = Null THEN "create"
                 ELSE IF setup.kind = "marzban" THEN "extend" ELSE "look up"
           z == [Idle EXCEPT !.op = "buy", !.i = i, !.old = old, !.at = now, !.pc = pc]
<1>1. /\ Begin(t, "buy") /\ sess' = [sess EXCEPT ![t] = z] /\ ~Exists(t, S(i))
      /\ \A u \in Tx : sess[u].op = "buy" => sess[u].i # i
      /\ UNCHANGED <<store, setup, now, panel, inbox, crashes>>
  BY DEF Provision
<1>2. z.op = "buy" /\ z.i = i /\ z.seen = NoRows /\ z.dirty = NoRows /\ DOMAIN NoRows = {}
  BY DEF Idle, NoRows
<1>3. S(i) \notin DOMAIN db
  BY <1>1 DEF Exists
<1> HIDE DEF z
<1> QED BY <1>1, <1>2, <1>3, TimeBegins

\* A job has looked at the row of i and assigned the columns c.
LEMMA TimeLook ==
    ASSUME Inv, TimeInv, NEW t \in Tx, NEW z, sess' = [sess EXCEPT ![t] = z],
           UNCHANGED <<store, now>>, NEW i \in Sub, NEW c, S(i) \in DOMAIN sess[t].seen,
           z.op = sess[t].op, z.op \in Job, z.seen = Without(sess[t].seen, S(i)),
           z.dirty = Over(Is(S(i), c), sess[t].dirty), Assigned(c, sess[t], db, i, now)
    PROVE  TimeInv'
<1> DEFINE s == sess[t]
           x == ws[t]
<1>1. /\ sess'[t] = z /\ \A v \in Tx \ {t} : sess'[v] = sess[v]
      /\ db' = db /\ ws' = ws /\ z.op # "buy"
  BY SessionStep DEF store, Job
<1>2. Timely(s, x, db, now)
  BY DEF TimeInv
<1>3. \A j \in Sub : S(j) \in DOMAIN z.seen => S(j) \in DOMAIN s.seen /\ z.seen[S(j)] = s.seen[S(j)]
  BY DEF Without
<1>4. \A j \in Sub : S(j) \in DOMAIN z.dirty =>
         \/ j = i /\ z.dirty[S(j)] = c
         \/ S(j) \in DOMAIN s.dirty /\ z.dirty[S(j)] = s.dirty[S(j)]
  <2> DEFINE f == Is(S(i), c)
  <2>1. DOMAIN f = {S(i)} /\ f[S(i)] = c
    BY OneRow
  <2> HIDE DEF f
  <2> QED BY <2>1, Keys DEF Over, f
<1> HIDE DEF s, x
<1>5. /\ \A j \in Sub : S(j) \in DOMAIN x => Marked(x[S(j)], z, db, j, now)
      /\ \A j \in Sub : S(j) \in DOMAIN z.dirty => Assigned(z.dirty[S(j)], z, db, j, now)
  <2>1. z.op = s.op /\ s.op # "buy"
    BY <1>1 DEF s
  <2>2. Assigned(c, s, db, i, now)
    BY DEF s
  <2> QED BY <1>2, <1>4, <2>1, <2>2 DEF Timely, Marked, Assigned
<1>6. Timely(z, x, db, now)
  <2>1. z.op = s.op
    BY DEF s
  <2> QED BY <1>1, <1>2, <1>3, <1>5, <2>1 DEF Timely
<1> QED BY <1>1, <1>6, TimeStep DEF Others, x

\* The expiry job marks a row whose committed time is over.
LEMMA TimeInspect ==
    ASSUME Inv, TimeInv, NEW t \in Tx, Inspect(t)
    PROVE  TimeInv'
<1> DEFINE s == sess[t]
           row(r) == s.seen[r]
           k(r) == Alert(s.op, row(r), s.at)
           c(r) == Columns(s.op, row(r), s.at)
           told(r) == CASE k(r) = "none" -> s
                        [] k(r) # "none" /\ s.banned -> [s EXCEPT !.spared = @ \cup {<<r[2], k(r)>>}]
                        [] OTHER -> [s EXCEPT !.i = r[2], !.kind = k(r), !.pc = "claim"]
           next(r) == [told(r) EXCEPT !.seen = Without(@, r), !.dirty = Over(Is(r, c(r)), @)]
<1>1. /\ s = [y \in Field |-> s[y]] /\ s.pc = "scan" /\ s.op \in {"expiry", "usage"}
      /\ UNCHANGED <<store, setup, now, panel, inbox, crashes>>
      /\ s.at \in Nat /\ s.at <= now /\ now \in Nat
      /\ \A r \in DOMAIN s.seen : (\E i \in Sub : r = S(i)) /\ s.seen[r] \in SubRow
  BY Here DEF Inspect, At, IsSession, Runs, AtPanelNow
<1>2. PICK r \in DOMAIN s.seen : sess' = [sess EXCEPT ![t] = next(r)]
  BY DEF Inspect
<1>3. PICK i \in Sub : r = S(i) /\ row(r) \in SubRow
  BY <1>1
<1> DEFINE z == next(r)
           w == told(r)
           new == c(r)
<1>4. z.op = s.op /\ z.seen = Without(s.seen, r) /\ z.dirty = Over(Is(r, new), s.dirty)
  <2>1. z = [w EXCEPT !.seen = Without(w.seen, r), !.dirty = Over(Is(r, new), w.dirty)]
    OBVIOUS
  <2>2. w = [y \in Field |-> w[y]] /\ w.op = s.op /\ w.seen = s.seen /\ w.dirty = s.dirty
    <3> HIDE DEF s, k
    <3>1. CASE k(r) = "none"
      BY <1>1, <3>1
    <3>2. CASE k(r) # "none" /\ s.banned
      BY <1>1, <3>2 DEF Field
    <3>3. CASE k(r) # "none" /\ ~s.banned
      BY <1>1, <3>3 DEF Field
    <3> QED BY <3>1, <3>2, <3>3
  <2> HIDE DEF z, w, new, s
  <2> QED BY <2>1, <2>2 DEF Field
<1>5. /\ "expires" \notin DOMAIN new
      /\ "status" \in DOMAIN new => s.op = "expiry" /\ Past(row(r), s.at)
  <2> HIDE DEF s
  <2> QED BY <1>1, <1>3, ColumnsType
<1>6. s.op = "expiry" => row(r).expires = db[S(i)].expires
  BY <1>3 DEF TimeInv, Timely
<1>7. Past(row(r), s.at) => row(r).expires <= now
  <2>1. row(r).expires \in Nat
    BY <1>3 DEF SubRow
  <2> QED BY <1>1, <2>1 DEF Past
<1> HIDE DEF z, new, row, k, told, next
<1>8. Assigned(new, s, db, i, now)
  BY <1>1, <1>5, <1>6, <1>7 DEF Assigned
<1>9. sess' = [sess EXCEPT ![t] = z]
  BY <1>2 DEF z
<1> QED BY <1>1, <1>2, <1>3, <1>4, <1>8, <1>9, TimeLook DEF Job

\* The sync marks no row expired.
LEMMA TimeSyncUser ==
    ASSUME Inv, TimeInv, NEW t \in Tx, SyncUser(t)
    PROVE  TimeInv'
<1> DEFINE s == sess[t]
<1>1. PICK r \in DOMAIN s.seen :
         \E c \in {NoRows} \cup (IF panel[s.seen[r].account].state \in {"on", "off"}
                                 THEN {Remote(s.seen[r].account)} ELSE {}) :
            sess' = [sess EXCEPT ![t].seen = Without(@, r), ![t].dirty = Over(Is(r, c), @)]
  BY DEF SyncUser
<1>2. PICK c : /\ c = NoRows \/ c = Remote(s.seen[r].account)
               /\ sess' = [sess EXCEPT ![t].seen = Without(@, r), ![t].dirty = Over(Is(r, c), @)]
  BY <1>1
<1> DEFINE z == [[s EXCEPT !.seen = Without(s.seen, r)] EXCEPT !.dirty = Over(Is(r, c), s.dirty)]
<1>3. /\ s = [y \in Field |-> s[y]] /\ s.pc = "sync" /\ s.op = "sync"
      /\ UNCHANGED <<store, setup, now, panel, inbox, crashes>>
      /\ \E i \in Sub : r = S(i)
  BY <1>1, Here DEF SyncUser, At, IsSession, Runs, AtPanelNow
<1>4. sess' = [sess EXCEPT ![t] = z]
  BY <1>2, <1>3 DEF Inv, SessionInv, Field
<1>5. z.op = s.op /\ z.seen = Without(s.seen, r) /\ z.dirty = Over(Is(r, c), s.dirty)
  BY <1>3 DEF Field
<1>6. PICK i \in Sub : r = S(i)
  BY <1>3
<1>7. "status" \in DOMAIN c => c["status"] = "disabled"
  BY <1>2 DEF Remote, Over, NoRows
<1>8. db[S(i)].status # "expired"
  BY <1>1, <1>3, <1>6 DEF TimeInv, Timely
<1> HIDE DEF z
<1>9. Assigned(c, s, db, i, now)
  BY <1>3, <1>7, <1>8 DEF Assigned
<1> QED BY <1>1, <1>3, <1>4, <1>5, <1>6, <1>9, TimeLook DEF Job

\* A statement that writes the row of subscription i, or of several.
LEMMA TimeWrite ==
    ASSUME Inv, TimeInv, NEW t \in Tx, NEW f, NEW pc, Write(t, f), Goto(t, pc), now' = now,
           \A i \in Sub : S(i) \in DOMAIN f => Marked(f[S(i)], sess[t], db, i, now)
    PROVE  TimeInv'
<1> DEFINE s == sess[t]
           x == ws[t]
           z == sess'[t]
           y == Over(f, x)
<1>1. /\ \A v \in Tx \ {t} : sess'[v] = sess[v]
      /\ z.op = s.op /\ z.i = s.i /\ z.seen = s.seen /\ z.dirty = s.dirty
  BY GotoFacts
<1>2. db' = db /\ ws'[t] = y /\ \A v \in Tx \ {t} : ws'[v] = ws[v]
  BY WriteEffect DEF Inv, StoreInv
<1>3. Timely(s, x, db, now)
  BY DEF TimeInv
<1>4. \A i \in Sub : S(i) \in DOMAIN y => Marked(y[S(i)], s, db, i, now)
  BY <1>3 DEF Over, Timely
<1> HIDE DEF s, x, y, z
<1>5. Timely(s, y, db, now)
  BY <1>3, <1>4 DEF Timely
<1>6. Timely(z, y, db, now)
  BY <1>1, <1>5, AsTimely
<1>7. \A u \in Tx \ {t} : z.op = "buy" /\ sess[u].op = "buy" => z.i # sess[u].i
  BY <1>1 DEF TimeInv, s
<1> QED BY <1>1, <1>2, <1>6, <1>7, TimeStep DEF Others, z

\* A job's columns, written over the committed row.
LEMMA MarkedColumns ==
    ASSUME NEW c, NEW row \in SubRow, NEW s, NEW d, NEW i, NEW n,
           IsColumns(c), Assigned(c, s, d, i, n), s.op \in Job, S(i) \in DOMAIN d, d[S(i)] = row,
           Ran(row, n)
    PROVE  Marked(Over(c, row), s, d, i, n)
<1> DEFINE w == Over(c, row)
<1>1. DOMAIN row = {"account", "status", "expires", "used", "level", "tags"}
  BY DEF SubRow
<1>2. /\ w.status = IF "status" \in DOMAIN c THEN c["status"] ELSE row.status
      /\ w.expires = IF "expires" \in DOMAIN c THEN c["expires"] ELSE row.expires
  BY <1>1 DEF Over
<1> HIDE DEF w
<1>3. w.status = "expired" => s.op = "expiry" \/ d[S(i)].status = "expired"
  BY <1>2 DEF Assigned
<1>4. s.op # "sync" => w.expires = d[S(i)].expires
  BY <1>2 DEF Assigned, Job
<1>5. Ran(w, n)
  <2> SUFFICES ASSUME w.status = "expired" PROVE w.expires <= n
    BY DEF Ran
  <2>1. s.op # "sync"
    BY <1>2 DEF Assigned
  <2>2. w.expires = row.expires
    BY <1>4, <2>1
  <2>3. row.expires <= n
    BY <1>2 DEF Assigned, Ran
  <2> QED BY <2>2, <2>3
<1> QED BY <1>3, <1>4, <1>5 DEF Marked, w

\* The columns of a job are written.
LEMMA TimeFlush ==
    ASSUME Inv, TimeInv, NEW t \in Tx, FlushColumns(t)
    PROVE  TimeInv'
<1> DEFINE s == sess[t]
           x == ws[t]
           f == [r \in {q \in DOMAIN s.dirty : DOMAIN s.dirty[q] # {}} |->
                    Over(s.dirty[r], Row(t, r))]
<1>1. /\ IsSession(s) /\ Aware(s, x, db, Spared(t)) /\ s.pc = "flush"
      /\ Write(t, f) /\ Goto(t, "commit") /\ UNCHANGED <<setup, now, panel, inbox, crashes>>
  BY Here DEF FlushColumns, At
<1>2. s.op \in Job
  BY <1>1 DEF IsSession, Runs, AtPanelNow, Job
<1>3. ASSUME NEW i \in Sub, S(i) \in DOMAIN f PROVE Marked(f[S(i)], s, db, i, now)
  <2>1. S(i) \in DOMAIN s.dirty /\ f[S(i)] = Over(s.dirty[S(i)], Row(t, S(i)))
    BY <1>3
  <2>2. IsColumns(s.dirty[S(i)]) /\ S(i) \in DOMAIN db
    BY <2>1, <1>1 DEF IsSession, Aware
  <2>3. S(i) \notin DOMAIN x
    BY <1>1, <1>2 DEF Aware, Holds, Job
  <2>4. Row(t, S(i)) = db[S(i)] /\ Row(t, S(i)) \in SubRow
    BY <2>2, <2>3, ReadRow DEF Row, Exists
  <2>5. Assigned(s.dirty[S(i)], s, db, i, now) /\ Ran(db[S(i)], now)
    BY <2>1, <2>2 DEF TimeInv, Timely
  <2> DEFINE c == s.dirty[S(i)]
             row == Row(t, S(i))
  <2> HIDE DEF c, row, s, f
  <2>6. Marked(Over(c, row), s, db, i, now)
    BY <1>2, <2>2, <2>4, <2>5, MarkedColumns DEF c, row
  <2> QED BY <2>1, <2>6 DEF c, row
<1> HIDE DEF f
<1> QED BY <1>1, <1>3, TimeWrite

\* The new subscription is active.
LEMMA TimeInsert ==
    ASSUME Inv, TimeInv, NEW t \in Tx, InsertSubscription(t)
    PROVE  TimeInv'
<1> DEFINE s == sess[t]
           row == NewRow(Account(t), s.at)
           f == Is(S(s.i), row)
           pc == IF s.old = Null THEN "commit" ELSE "retire"
<1>1. /\ Write(t, f) /\ Goto(t, pc) /\ s.op = "buy"
      /\ UNCHANGED <<setup, now, panel, inbox, crashes>>
  BY Here DEF InsertSubscription, At, IsSession, Runs, AtPanelNow
<1>2. DOMAIN f = {S(s.i)} /\ f[S(s.i)] = row
  BY OneRow
<1>3. row.status = "active" /\ S(s.i) \notin DOMAIN db
  BY <1>1 DEF NewRow, TimeInv, Timely
<1> HIDE DEF f, row, pc
<1>4. ASSUME NEW i \in Sub, S(i) \in DOMAIN f PROVE Marked(f[S(i)], s, db, i, now)
  <2>1. S(i) = S(s.i)
    BY <1>2, <1>4
  <2>2. i = s.i /\ f[S(i)] = row
    BY <1>2, <2>1, Keys
  <2> QED BY <1>1, <1>3, <2>1, <2>2 DEF Marked, Ran
<1> QED BY <1>1, <1>4, TimeWrite

\* The renewed one keeps its time.
LEMMA TimeRetire ==
    ASSUME Inv, TimeInv, NEW t \in Tx, Retire(t)
    PROVE  TimeInv'
<1> DEFINE s == sess[t]
           old == Row(t, S(s.old))
           row == [old EXCEPT !.status = "disabled"]
           f == Is(S(s.old), row)
<1>1. /\ IsSession(s) /\ Aware(s, ws[t], db, Spared(t)) /\ s.pc = "retire"
      /\ Write(t, f) /\ Goto(t, "commit") /\ UNCHANGED <<setup, now, panel, inbox, crashes>>
  BY Here DEF Retire, At
<1>2. s.op = "buy" /\ s.old \in Sub /\ S(s.old) \in DOMAIN db
  BY <1>1 DEF IsSession, Runs, AtPanelNow, Aware
<1>3. DOMAIN f = {S(s.old)} /\ f[S(s.old)] = row
  BY OneRow
<1>4. old \in SubRow
  BY <1>2, ReadRow DEF Exists
<1>5. row.status = "disabled" /\ row.expires = old.expires
  BY <1>4 DEF SubRow
<1>6. old.expires = db[S(s.old)].expires
  <2>1. CASE S(s.old) \in DOMAIN ws[t]
    BY <1>2, <2>1 DEF TimeInv, Timely, Marked, Row
  <2>2. CASE S(s.old) \notin DOMAIN ws[t]
    BY <2>2 DEF Row
  <2> QED BY <2>1, <2>2
<1> HIDE DEF f, row, old
<1>7. ASSUME NEW i \in Sub, S(i) \in DOMAIN f PROVE Marked(f[S(i)], s, db, i, now)
  <2>1. S(i) = S(s.old)
    BY <1>3, <1>7
  <2>2. i = s.old /\ f[S(i)] = row
    BY <1>3, <2>1, Keys
  <2> QED BY <1>2, <1>5, <1>6, <2>1, <2>2 DEF Marked, Ran
<1> QED BY <1>1, <1>7, TimeWrite

\* Time goes on.
LEMMA TimeTick ==
    ASSUME Inv, TimeInv, UNCHANGED <<store, setup, sess>>, now' \in Nat, now <= now'
    PROVE  TimeInv'
<1>1. /\ now \in Nat /\ db' = db /\ ws' = ws
      /\ \A i \in Sub : S(i) \in DOMAIN db => db[S(i)].expires \in Nat
      /\ \A t \in Tx, i \in Sub : S(i) \in DOMAIN ws[t] => ws[t][S(i)].expires \in Nat
  <2>1. Typed(db) /\ (\A t \in Tx : Typed(ws[t])) /\ now \in Nat
    BY DEF Inv, StoreInv, StoreOk, TxOk, World
  <2>2. ASSUME NEW f, Typed(f), NEW i \in Sub, S(i) \in DOMAIN f PROVE f[S(i)].expires \in Nat
    <3>1. f[S(i)] \in SubRow
      BY <2>2, Keys DEF Typed
    <3> QED BY <3>1 DEF SubRow
  <2> QED BY <2>1, <2>2 DEF store
<1>2. ASSUME NEW t \in Tx PROVE Timely(sess[t], ws[t], db, now')
  <2> DEFINE s == sess[t]
             x == ws[t]
  <2>1. Timely(s, x, db, now) /\ DOMAIN s.dirty \subseteq DOMAIN db
    BY Here DEF TimeInv, Aware
  <2> HIDE DEF s
  <2>2. \A i \in Sub : S(i) \in DOMAIN x => Marked(x[S(i)], s, db, i, now')
    BY <1>1, <2>1 DEF Timely, Marked, Ran
  <2>3. \A i \in Sub : S(i) \in DOMAIN s.dirty => Assigned(s.dirty[S(i)], s, db, i, now')
    BY <1>1, <2>1 DEF Timely, Assigned
  <2> QED BY <2>1, <2>2, <2>3 DEF Timely, s, x
<1>3. \A i \in Sub : S(i) \in DOMAIN db => Ran(db[S(i)], now')
  BY <1>1 DEF TimeInv, Ran
<1> QED BY <1>1, <1>2, <1>3 DEF TimeInv

\* Every step keeps the rows in time, if no sync overlaps the expiry job before it.
LEMMA TimePreserves == Inv /\ TimeInv /\ Calm /\ [Next]_vars => TimeInv'
<1> SUFFICES ASSUME Inv, TimeInv, Calm, [Next]_vars PROVE TimeInv'
  OBVIOUS
<1>1. CASE UNCHANGED <<store, setup, sess, inbox, crashes>> /\ (now' = now \/ Tick)
  <2>1. now \in Nat
    BY DEF Inv, World
  <2>2. now' \in Nat /\ now <= now'
    BY <1>1, <2>1 DEF Tick
  <2> QED BY <1>1, <2>2, TimeTick
<1>2. ASSUME NEW t \in Tx, Does(t) PROVE TimeInv'
  <2>1. Others(t) /\ setup' = setup /\ now' = now
    BY <1>2, Shapes
  <2>2. CASE Ends(t)
    BY <2>1, <2>2, TimeEnds
  <2>3. CASE \E op \in {"expiry", "usage", "sync"} : LoadActive(t, op)
    BY <2>3, TimeLoad DEF Job
  <2>4. CASE ReadStock(t) \/ \E i \in Sub, old \in Sub \cup {Null} : Provision(t, i, old)
    BY <2>4, TimeReadStock, TimeProvision
  <2>5. CASE Inspect(t) \/ SyncUser(t)
    BY <2>5, TimeInspect, TimeSyncUser
  <2>6. CASE InsertSubscription(t) \/ Retire(t) \/ FlushColumns(t)
    BY <2>6, TimeInsert, TimeRetire, TimeFlush
  <2>7. CASE Claim(t) \/ Send(t) \/ TickOff(t)
    <3>1. \A i \in Sub : Claimed(t) # S(i) /\ LowStock # S(i)
      BY Keys DEF Claimed
    <3>2. \/ UNCHANGED store
          \/ \E r, v : Write(t, Is(r, v)) /\ (r = Claimed(t) \/ r = LowStock)
      BY <2>7 DEF Claim, Send, TickOff
    <3>3. Goto(t, "send") \/ Goto(t, "scan") \/ Goto(t, "commit")
      BY <2>7 DEF Claim, Send, TickOff
    <3> QED BY <2>1, <3>1, <3>2, <3>3, TimeGoto
  <2>8. CASE EndOfScan(t) \/ TellAdmins(t) \/ CreateUser(t) \/ LookUp(t) \/ Extend(t)
    <3>1. UNCHANGED store /\ \E pc : Goto(t, pc)
      BY <2>8 DEF EndOfScan, TellAdmins, CreateUser, LookUp, Extend
    <3> QED BY <2>1, <3>1, TimeGoto
  <2>9. CASE PanelError(t) \/ Finish(t) \/ Crash(t) \/ (ResetTraffic(t) /\ Close(t))
    <3>1. Ends(t)
      BY <2>9, EndsBy DEF PanelError, Finish, Crash, ResetTraffic, At, AtPanelNow
    <3> QED BY <2>2, <3>1
  <2>10. CASE ResetTraffic(t)
    <3>1. UNCHANGED store /\ (Close(t) \/ \E pc : Goto(t, pc))
      BY <2>10 DEF ResetTraffic
    <3>2. CASE \E pc : Goto(t, pc)
      BY <2>1, <3>1, <3>2, TimeGoto
    <3> QED BY <2>9, <2>10, <3>1, <3>2
  <2> QED BY <1>2, <2>3, <2>4, <2>5, <2>6, <2>7, <2>8, <2>9, <2>10 DEF Does, Continue
<1> QED BY <1>1, <1>2, NextIs
-----------------------------------------------------------------------------
\* A subscription is marked expired only when its time is over, whatever renewals,
\* usage scans and other expiry jobs overlap, as long as no sync overlaps an expiry
\* job: what the sync wrote later would give the marked row a time to come.
THEOREM ExpiryComesInTime == Spec /\ []Calm => []ExpiredHasRunOut
<1>1. Init => TimeInv
  <2> SUFFICES ASSUME Init PROVE TimeInv
    OBVIOUS
  <2>1. /\ ws = [t \in Tx |-> NoRows] /\ sess = [t \in Tx |-> Idle]
        /\ DOMAIN db = {S(i) : i \in setup.sold} /\ \A r \in DOMAIN db : db[r].status = "active"
    BY DEF Init, NewRow
  <2>2. \A t \in Tx : Timely(sess[t], ws[t], db, now)
    BY <2>1, IdleTimely
  <2> QED BY <2>1, <2>2, IdleOk DEF TimeInv, Ran
<1>2. TimeInv => ExpiredHasRunOut
  BY DEF TimeInv, Ran, Known, Status, ExpiredHasRunOut
<1>3. Inv /\ TimeInv /\ Calm /\ [Next]_vars => Inv' /\ TimeInv'
  BY StepPreserves, TimePreserves
<1> QED BY <1>1, <1>2, <1>3, Initially, PTL DEF Spec
-----------------------------------------------------------------------------
\* What was sold is on the panel.

\* The account of the row was created on the panel, as p has it, and lasts as long as
\* the row says.
Lasts(row, p) ==
    row.account # Null => p[row.account].state # "none" /\ row.expires <= p[row.account].expires

\* The row of subscription i that session s has written keeps its account; a new one
\* is a purchase's own, and has one.
Provided(row, s, d, i, p) ==
    /\ Lasts(row, p)
    /\ S(i) \in DOMAIN d => row.account = d[S(i)].account
    /\ S(i) \notin DOMAIN d => s.op = "buy" /\ s.i = i /\ row.account # Null

\* A sync has assigned no time that the panel does not give.
Granted(c, d, i, p) ==
    "expires" \in DOMAIN c =>
        d[S(i)].account # Null /\ c["expires"] <= p[d[S(i)].account].expires

\* The account that session s provisions.
Paying(s, d) == IF s.old = Null THEN s.i ELSE d[S(s.old)].account

\* The account a ends no later than what session s pays for, and not earlier once the
\* panel has been told; h is the deployment.
Extending(s, a, p, h) ==
    /\ p[a].expires <= s.at + h.duration
    /\ s.pc = "look up" => h.kind # "marzban"
    /\ s.pc = "insert" \/ (s.pc = "reset" /\ h.kind = "marzban") =>
          p[a].state # "none" /\ s.at + h.duration <= p[a].expires

\* What session s has read, assigned and written, and is about to write, is on the panel.
Honoured(s, x, d, p, h) ==
    /\ \A i \in Sub : S(i) \in DOMAIN x => Provided(x[S(i)], s, d, i, p)
    /\ \A i \in Sub : S(i) \in DOMAIN s.dirty => Granted(s.dirty[S(i)], d, i, p)
    /\ \A i \in Sub : S(i) \in DOMAIN s.seen => s.seen[S(i)].account = d[S(i)].account
    /\ s.op = "buy" => S(s.i) \notin DOMAIN d
    /\ s.pc \in AtPanelNow => Paying(s, d) \in Sub /\ Extending(s, Paying(s, d), p, h)

OwnIds == \A t, u \in Tx :
    t # u /\ sess[t].op = "buy" /\ sess[u].op = "buy" => sess[t].i # sess[u].i

HonourInv ==
    /\ \A i \in Sub : S(i) \in DOMAIN db =>
          Lasts(db[S(i)], panel) /\ (setup.kind # "manual" => db[S(i)].account # Null)
    /\ \A a \in Sub : panel[a].expires <= now + setup.duration
    /\ \A t \in Tx : Honoured(sess[t], ws[t], db, panel, setup)
    /\ OwnIds

\* Two purchases never work on one account at the same time.
RenewalsApart ==
    \A t, u \in Tx : t # u /\ sess[t].pc \in AtPanelNow /\ sess[u].pc \in AtPanelNow =>
        Account(t) # Account(u)

\* The panel's admin may remove, but does not extend, an account a purchase works on.
AdminApart ==
    \A a \in Sub, t \in Tx :
        AtPanel(a) /\ sess[t].pc \in AtPanelNow /\ Account(t) = a => panel'[a].state = "gone"

\* Accounts on the panel stay, and end no earlier.
Grows(p, q) ==
    \A a \in Sub : /\ p[a].state # "none" => q[a].state # "none"
                   /\ p[a].expires <= q[a].expires
-----------------------------------------------------------------------------
\* What lasts on the panel lasts when its accounts stay.
LEMMA StillLasts ==
    ASSUME NEW p \in PanelType, NEW q \in PanelType, Grows(p, q),
           NEW row \in SubRow, Lasts(row, p)
    PROVE  Lasts(row, q)
<1> SUFFICES ASSUME row.account # Null
             PROVE  q[row.account].state # "none" /\ row.expires <= q[row.account].expires
  BY DEF Lasts
<1>1. row.account \in Sub /\ row.expires \in Nat
  BY DEF SubRow
<1>2. /\ p[row.account].state # "none" /\ row.expires <= p[row.account].expires
      /\ p[row.account].expires \in Nat /\ q[row.account].expires \in Nat
  BY <1>1 DEF Lasts, PanelType
<1> QED BY <1>1, <1>2 DEF Grows

\* The rows of subscriptions.
LEMMA SubRows ==
    ASSUME NEW f, Typed(f), NEW i \in Sub, S(i) \in DOMAIN f
    PROVE  f[S(i)] \in SubRow
    BY Keys DEF Typed

\* What a sync has assigned is still on the panel.
LEMMA StillGranted ==
    ASSUME NEW p \in PanelType, NEW q \in PanelType, Grows(p, q),
           NEW d, Typed(d), NEW i \in Sub, S(i) \in DOMAIN d,
           NEW c, IsColumns(c), Granted(c, d, i, p)
    PROVE  Granted(c, d, i, q)
<1> SUFFICES ASSUME "expires" \in DOMAIN c
             PROVE  d[S(i)].account # Null /\ c["expires"] <= q[d[S(i)].account].expires
  BY DEF Granted
<1> DEFINE a == d[S(i)].account
           e == c["expires"]
<1>1. a # Null /\ e <= p[a].expires
  BY DEF Granted
<1>2. a \in Sub
  BY <1>1, SubRows DEF SubRow
<1>3. e \in Nat
  BY DEF IsColumns
<1>4. p[a].expires \in Nat /\ q[a].expires \in Nat /\ p[a].expires <= q[a].expires
  BY <1>2 DEF PanelType, Grows
<1> HIDE DEF a, e
<1>5. e <= q[a].expires
  BY <1>1, <1>3, <1>4
<1> QED BY <1>1, <1>5 DEF a, e

\* What a session knows of the panel stays true when accounts stay, and when nobody
\* extends the one it works on.
LEMMA StillHonoured ==
    ASSUME NEW p \in PanelType, NEW q \in PanelType, Grows(p, q),
           NEW s, NEW x, NEW d, NEW h \in SetupType, IsSession(s), Typed(x), Typed(d),
           DOMAIN s.dirty \subseteq DOMAIN d, Honoured(s, x, d, p, h),
           s.pc \in AtPanelNow => q[Paying(s, d)].expires = p[Paying(s, d)].expires
    PROVE  Honoured(s, x, d, q, h)
<1>1. \A i \in Sub : S(i) \in DOMAIN x => Provided(x[S(i)], s, d, i, q)
  BY SubRows, StillLasts DEF Honoured, Provided
<1>2. ASSUME NEW i \in Sub, S(i) \in DOMAIN s.dirty PROVE Granted(s.dirty[S(i)], d, i, q)
  <2>1. Granted(s.dirty[S(i)], d, i, p) /\ IsColumns(s.dirty[S(i)]) /\ S(i) \in DOMAIN d
    BY <1>2 DEF Honoured, IsSession
  <2> QED BY <2>1, StillGranted
<1>3. s.pc \in AtPanelNow => Paying(s, d) \in Sub /\ Extending(s, Paying(s, d), q, h)
  BY DEF Honoured, Extending, Grows
<1> QED BY <1>1, <1>2, <1>3 DEF Honoured

\* Another session's commit takes no account away from a row.
LEMMA HonouredGrow ==
    ASSUME NEW s, NEW x, NEW w, NEW y, NEW d, NEW e, NEW p, NEW h, e = Over(y, d),
           Honoured(s, x, d, p, h), Honoured(w, y, d, p, h), DOMAIN x \cap DOMAIN y = {},
           DOMAIN s.seen \cup DOMAIN s.dirty \subseteq DOMAIN d, IsSession(s),
           s.op = "buy" => /\ s.i \in Sub /\ (w.op = "buy" => s.i # w.i)
                           /\ s.old # Null => S(s.old) \in DOMAIN d
    PROVE  Honoured(s, x, e, p, h)
<1>1. /\ DOMAIN e = DOMAIN y \cup DOMAIN d
      /\ \A r \in DOMAIN y : e[r] = y[r]
      /\ \A r \in DOMAIN d \ DOMAIN y : e[r] = d[r]
  BY DEF Over
<1>2. ASSUME NEW i \in Sub, S(i) \in DOMAIN d PROVE e[S(i)].account = d[S(i)].account
  BY <1>1, <1>2 DEF Honoured, Provided
<1>3. ASSUME NEW i \in Sub, S(i) \in DOMAIN x PROVE Provided(x[S(i)], s, e, i, p)
  <2>1. Provided(x[S(i)], s, d, i, p)
    BY <1>3 DEF Honoured
  <2>2. S(i) \in DOMAIN e <=> S(i) \in DOMAIN d
    BY <1>1, <1>3
  <2> QED BY <1>2, <2>1, <2>2 DEF Provided
<1>4. \A i \in Sub : S(i) \in DOMAIN s.dirty => Granted(s.dirty[S(i)], e, i, p)
  BY <1>2 DEF Honoured, Granted
<1>5. \A i \in Sub : S(i) \in DOMAIN s.seen => s.seen[S(i)].account = e[S(i)].account
  BY <1>2 DEF Honoured
<1>6. s.op = "buy" => S(s.i) \notin DOMAIN e
  BY <1>1 DEF Honoured, Provided
<1>7. s.pc \in AtPanelNow => Paying(s, e) \in Sub /\ Extending(s, Paying(s, e), p, h)
  <2> SUFFICES ASSUME s.pc \in AtPanelNow PROVE Paying(s, e) = Paying(s, d)
    BY DEF Honoured
  <2>1. s.op = "buy" /\ s.old \in Sub \cup {Null}
    BY DEF IsSession, Runs, AtPanelNow
  <2> QED BY <1>2, <2>1 DEF Paying
<1> QED BY <1>3, <1>4, <1>5, <1>6, <1>7 DEF Honoured
-----------------------------------------------------------------------------
\* The facts every step needs.
LEMMA PanelHere ==
    ASSUME Inv, NEW t \in Tx
    PROVE  /\ panel \in PanelType /\ setup \in SetupType /\ setup.duration \in Nat /\ now \in Nat
           /\ IsSession(sess[t]) /\ Typed(ws[t]) /\ Typed(db)
           /\ DOMAIN sess[t].seen \cup DOMAIN sess[t].dirty \subseteq DOMAIN db
           /\ sess[t].op = "buy" => /\ sess[t].i \in Sub
                                    /\ sess[t].old # Null => S(sess[t].old) \in DOMAIN db
           /\ sess[t].pc \in AtPanelNow =>
                 ws[t] = NoRows /\ sess[t].op = "buy" /\ Account(t) = Paying(sess[t], db)
<1>1. /\ panel \in PanelType /\ setup \in SetupType /\ setup.duration \in Nat /\ now \in Nat
  BY SetupFacts DEF Inv, World, PanelType
<1>2. /\ IsSession(sess[t]) /\ Aware(sess[t], ws[t], db, Spared(t)) /\ Typed(ws[t]) /\ Typed(db)
  BY Here
<1>3. sess[t].pc \in AtPanelNow => ws[t] = NoRows /\ sess[t].op = "buy"
  BY <1>2 DEF Aware, Holds, IsSession, Runs, AtPanelNow
<1>4. sess[t].pc \in AtPanelNow => Account(t) = Paying(sess[t], db)
  BY <1>3 DEF Account, Paying, Row, NoRows
<1> QED BY <1>1, <1>2, <1>3, <1>4 DEF Aware

\* A panel nobody has changed.
LEMMA SamePanel == ASSUME Inv PROVE Grows(panel, panel)
<1> SUFFICES ASSUME NEW a \in Sub PROVE panel[a].expires <= panel[a].expires
  BY DEF Grows
<1>1. panel[a].expires \in Nat
  BY DEF Inv, World
<1> QED BY <1>1

\* The other sessions work on accounts that do not change.
LeavesOthers(t) ==
    \A u \in Tx \ {t} : sess[u].pc \in AtPanelNow =>
        panel'[Account(u)].expires = panel[Account(u)].expires

\* How a step may change the panel.
Moves ==
    /\ panel' \in PanelType /\ Grows(panel, panel')
    /\ \A a \in Sub : panel'[a].expires <= now + setup.duration

\* A step of session t that commits nothing.
LEMMA HonourStep ==
    ASSUME Inv, HonourInv, NEW t \in Tx, Others(t), UNCHANGED <<db, now, setup>>,
           Moves, LeavesOthers(t), Honoured(sess'[t], ws'[t], db, panel', setup),
           \A u \in Tx \ {t} : sess'[t].op = "buy" /\ sess[u].op = "buy" => sess'[t].i # sess[u].i
    PROVE  HonourInv'
<1>1. ASSUME NEW u \in Tx \ {t} PROVE Honoured(sess[u], ws[u], db, panel', setup)
  <2>1. Honoured(sess[u], ws[u], db, panel, setup)
    BY DEF HonourInv
  <2> QED BY <2>1, PanelHere, StillHonoured DEF Moves, LeavesOthers
<1>2. ASSUME NEW u \in Tx PROVE Honoured(sess'[u], ws'[u], db', panel', setup')
  <2>1. CASE u = t
    BY <2>1
  <2>2. CASE u # t
    BY <1>1, <2>2 DEF Others
  <2> QED BY <2>1, <2>2
<1>3. ASSUME NEW i \in Sub, S(i) \in DOMAIN db
      PROVE  Lasts(db[S(i)], panel') /\ (setup.kind # "manual" => db[S(i)].account # Null)
  <2>1. Lasts(db[S(i)], panel) /\ (setup.kind # "manual" => db[S(i)].account # Null)
    BY <1>3 DEF HonourInv
  <2>2. db[S(i)] \in SubRow /\ panel \in PanelType
    BY <1>3, PanelHere, SubRows
  <2> QED BY <2>1, <2>2, StillLasts DEF Moves
<1>4. OwnIds'
  BY DEF HonourInv, OwnIds, Others
<1> QED BY <1>2, <1>3, <1>4 DEF HonourInv, Moves

\* Time, and the panel's side.
LEMMA HonourOutside ==
    ASSUME Inv, HonourInv, UNCHANGED <<store, setup, sess>>,
           panel' \in PanelType, Grows(panel, panel'),
           \A a \in Sub : panel'[a].expires <= now' + setup.duration,
           \A u \in Tx : sess[u].pc \in AtPanelNow =>
               panel'[Account(u)].expires = panel[Account(u)].expires
    PROVE  HonourInv'
<1>1. ASSUME NEW u \in Tx PROVE Honoured(sess[u], ws[u], db, panel', setup)
  <2>1. Honoured(sess[u], ws[u], db, panel, setup)
    BY DEF HonourInv
  <2> QED BY <2>1, PanelHere, StillHonoured
<1>2. ASSUME NEW i \in Sub, S(i) \in DOMAIN db
      PROVE  Lasts(db[S(i)], panel') /\ (setup.kind # "manual" => db[S(i)].account # Null)
  <2>1. Lasts(db[S(i)], panel) /\ (setup.kind # "manual" => db[S(i)].account # Null)
    BY <1>2 DEF HonourInv
  <2>2. db[S(i)] \in SubRow /\ panel \in PanelType
    BY <1>2, SubRows DEF Inv, StoreInv, StoreOk, World, PanelType
  <2> QED BY <2>1, <2>2, StillLasts
<1>3. OwnIds'
  BY DEF HonourInv, OwnIds
<1> QED BY <1>1, <1>2, <1>3 DEF HonourInv, store

\* A session that has written no other row of a subscription, and read and assigned
\* no other, knows as much of the panel as it did.
LEMMA AsHonoured ==
    ASSUME NEW s, NEW x, NEW z, NEW y, NEW d, NEW p, NEW h, Honoured(s, x, d, p, h),
           z.op = s.op, z.i = s.i, z.seen = s.seen, z.dirty = s.dirty,
           \A i \in Sub : S(i) \in DOMAIN y => S(i) \in DOMAIN x /\ y[S(i)] = x[S(i)],
           z.pc \in AtPanelNow => Paying(z, d) \in Sub /\ Extending(z, Paying(z, d), p, h)
    PROVE  Honoured(z, y, d, p, h)
    BY DEF Honoured, Provided

\* A statement that writes no row of a subscription, and goes on to pc.
LEMMA HonourGoto ==
    ASSUME Inv, HonourInv, NEW t \in Tx, NEW pc, Goto(t, pc), UNCHANGED <<now, panel, setup>>,
           \/ UNCHANGED store
           \/ \E r, v : Write(t, Is(r, v)) /\ \A i \in Sub : r # S(i),
           pc \notin AtPanelNow
    PROVE  HonourInv'
<1>1. /\ \A v \in Tx \ {t} : sess'[v] = sess[v]
      /\ sess'[t].pc = pc /\ sess'[t].op = sess[t].op /\ sess'[t].i = sess[t].i
      /\ sess'[t].seen = sess[t].seen /\ sess'[t].dirty = sess[t].dirty
  BY GotoFacts
<1>2. /\ db' = db /\ \A v \in Tx \ {t} : ws'[v] = ws[v]
      /\ \A i \in Sub : S(i) \in DOMAIN ws'[t] => S(i) \in DOMAIN ws[t] /\ ws'[t][S(i)] = ws[t][S(i)]
  <2>1. CASE UNCHANGED store
    BY <2>1 DEF store
  <2>2. CASE \E r, v : Write(t, Is(r, v)) /\ \A i \in Sub : r # S(i)
    <3>1. PICK r, v : Write(t, Is(r, v)) /\ \A i \in Sub : r # S(i)
      BY <2>2
    <3> DEFINE f == Is(r, v)
    <3>2. DOMAIN f = {r}
      BY OneRow
    <3>3. db' = db /\ ws'[t] = Over(f, ws[t]) /\ \A u \in Tx \ {t} : ws'[u] = ws[u]
      BY <3>1, WriteEffect DEF Inv, StoreInv
    <3> HIDE DEF f
    <3>4. \A i \in Sub : S(i) \notin DOMAIN f
      BY <3>1, <3>2
    <3>5. \A q : q \in DOMAIN ws'[t] /\ q \notin DOMAIN f =>
                    q \in DOMAIN ws[t] /\ ws'[t][q] = ws[t][q]
      BY <3>3 DEF Over
    <3> QED BY <3>3, <3>4, <3>5
  <2> QED BY <2>1, <2>2
<1>3. Honoured(sess'[t], ws'[t], db, panel, setup)
  <2>1. Honoured(sess[t], ws[t], db, panel, setup)
    BY DEF HonourInv
  <2> QED BY <2>1, <1>1, <1>2, AsHonoured
<1>4. \A u \in Tx \ {t} : sess'[t].op = "buy" /\ sess[u].op = "buy" => sess'[t].i # sess[u].i
  BY <1>1 DEF HonourInv, OwnIds
<1>5. Moves /\ LeavesOthers(t)
  BY SamePanel, PanelHere DEF Moves, LeavesOthers, HonourInv
<1> QED BY <1>1, <1>2, <1>3, <1>4, <1>5, HonourStep DEF Others

\* A call of the panel.
LEMMA HonourCall ==
    ASSUME Inv, HonourInv, NEW t \in Tx, NEW pc, Goto(t, pc), UNCHANGED <<store, now, setup>>,
           Moves, LeavesOthers(t), sess[t].pc \in AtPanelNow,
           Extending([sess[t] EXCEPT !.pc = pc], Paying(sess[t], db), panel', setup)
    PROVE  HonourInv'
<1> DEFINE s == sess[t]
           z == [s EXCEPT !.pc = pc]
<1>1. sess'[t] = z /\ \A v \in Tx \ {t} : sess'[v] = sess[v]
  BY SessionStep DEF Goto
<1>2. /\ z.op = s.op /\ z.i = s.i /\ z.old = s.old /\ z.seen = s.seen /\ z.dirty = s.dirty
      /\ z.at = s.at /\ z.pc = pc
  <2>1. s = [y \in Field |-> s[y]]
    BY PanelHere DEF IsSession
  <2> QED BY <2>1 DEF Field
<1>3. /\ IsSession(s) /\ s.op = "buy" /\ DOMAIN s.dirty \subseteq DOMAIN db
      /\ ws[t] = NoRows /\ Typed(db) /\ panel \in PanelType /\ setup \in SetupType
      /\ Paying(z, db) = Paying(s, db)
  <2>1. Paying(z, db) = Paying(s, db)
    BY <1>2 DEF Paying
  <2> HIDE DEF z
  <2> QED BY <2>1, PanelHere
<1>4. Honoured(s, ws[t], db, panel, setup)
  BY DEF HonourInv
<1>5. Honoured(z, ws[t], db, panel', setup)
  <2>1. Paying(z, db) \in Sub /\ Extending(z, Paying(z, db), panel', setup)
    BY <1>3, <1>4 DEF Honoured
  <2> HIDE DEF z, s
  <2>2. \A i \in Sub : S(i) \in DOMAIN s.dirty => Granted(s.dirty[S(i)], db, i, panel')
    <3> SUFFICES ASSUME NEW i \in Sub, S(i) \in DOMAIN s.dirty
                 PROVE  Granted(s.dirty[S(i)], db, i, panel')
      OBVIOUS
    <3>1. Granted(s.dirty[S(i)], db, i, panel) /\ IsColumns(s.dirty[S(i)]) /\ S(i) \in DOMAIN db
      BY <1>3, <1>4 DEF Honoured, IsSession
    <3> QED BY <1>3, <3>1, StillGranted DEF Moves
  <2>3. DOMAIN NoRows = {}
    BY DEF NoRows
  <2> QED BY <1>2, <1>3, <1>4, <2>1, <2>2, <2>3 DEF Honoured
<1>6. \A u \in Tx \ {t} : z.op = "buy" /\ sess[u].op = "buy" => z.i # sess[u].i
  BY <1>2 DEF HonourInv, OwnIds
<1> HIDE DEF z
<1> QED BY <1>1, <1>5, <1>6, HonourStep DEF Others, store
-----------------------------------------------------------------------------
\* The end of a transaction.
LEMMA HonourEnds ==
    ASSUME Inv, HonourInv, NEW t \in Tx, Others(t), Ends(t), UNCHANGED <<now, panel, setup>>
    PROVE  HonourInv'
<1> DEFINE x == ws[t]
           s == sess[t]
<1>1. sess'[t] = Idle /\ ws'[t] = NoRows /\ (db' = db \/ db' = Over(x, db))
  BY DEF Ends
<1>2. ASSUME NEW u \in Tx \ {t} PROVE Honoured(sess[u], ws[u], db', panel, setup)
  <2>1. Honoured(sess[u], ws[u], db, panel, setup) /\ Honoured(s, x, db, panel, setup)
    BY DEF HonourInv
  <2>2. DOMAIN ws[u] \cap DOMAIN x = {}
    BY DEF Inv, StoreInv, Exclusive
  <2>3. /\ DOMAIN sess[u].seen \cup DOMAIN sess[u].dirty \subseteq DOMAIN db /\ IsSession(sess[u])
        /\ sess[u].op = "buy" => /\ sess[u].i \in Sub
                                 /\ sess[u].old # Null => S(sess[u].old) \in DOMAIN db
    BY PanelHere
  <2>4. sess[u].op = "buy" /\ s.op = "buy" => sess[u].i # s.i
    BY DEF HonourInv, OwnIds
  <2> HIDE DEF x, s
  <2> QED BY <1>1, <2>1, <2>2, <2>3, <2>4, HonouredGrow
<1>3. \A u \in Tx : Honoured(sess'[u], ws'[u], db', panel', setup')
  <2>1. Honoured(Idle, NoRows, db', panel, setup)
    BY DEF Honoured, Idle, NoRows, AtPanelNow
  <2>2. ASSUME NEW u \in Tx \ {t} PROVE Honoured(sess'[u], ws'[u], db', panel, setup)
    BY <1>2 DEF Others
  <2> QED BY <1>1, <2>1, <2>2
<1>4. ASSUME NEW i \in Sub, S(i) \in DOMAIN db'
      PROVE  Lasts(db'[S(i)], panel) /\ (setup.kind # "manual" => db'[S(i)].account # Null)
  <2>1. S(i) \in DOMAIN x => Provided(x[S(i)], s, db, i, panel)
    BY DEF HonourInv, Honoured
  <2>2. S(i) \in DOMAIN db =>
           Lasts(db[S(i)], panel) /\ (setup.kind # "manual" => db[S(i)].account # Null)
    BY DEF HonourInv
  <2> HIDE DEF x
  <2>3. CASE S(i) \in DOMAIN x /\ db' = Over(x, db)
    <3>1. db'[S(i)] = x[S(i)]
      BY <2>3 DEF Over
    <3> QED BY <2>1, <2>2, <2>3, <3>1 DEF Provided
  <2>4. CASE db' = db \/ S(i) \notin DOMAIN x
    <3>1. S(i) \in DOMAIN db /\ db'[S(i)] = db[S(i)]
      BY <1>1, <1>4, <2>4 DEF Over
    <3> QED BY <2>2, <3>1
  <2> QED BY <1>1, <2>3, <2>4
<1>5. OwnIds'
  BY <1>1, IdleOk DEF HonourInv, OwnIds, Others
<1> QED BY <1>3, <1>4, <1>5 DEF HonourInv

\* The first statement of a session.
LEMMA HonourBegins ==
    ASSUME Inv, HonourInv, NEW t \in Tx, NEW z, NEW op, sess' = [sess EXCEPT ![t] = z],
           Begin(t, op), UNCHANGED <<store, now, panel, setup>>, z.dirty = NoRows,
           \A i \in Sub : S(i) \in DOMAIN z.seen => z.seen[S(i)] = db[S(i)],
           z.op = "buy" => /\ S(z.i) \notin DOMAIN db
                           /\ \A u \in Tx : sess[u].op = "buy" => sess[u].i # z.i,
           z.pc \in AtPanelNow => /\ Paying(z, db) \in Sub
                                  /\ Extending(z, Paying(z, db), panel, setup)
    PROVE  HonourInv'
<1>1. ws[t] = NoRows /\ DOMAIN NoRows = {}
  BY BeginFacts DEF NoRows
<1>2. /\ sess'[t] = z /\ \A v \in Tx \ {t} : sess'[v] = sess[v]
      /\ db' = db /\ ws' = ws
  BY SessionStep DEF store
<1>3. Honoured(z, ws[t], db, panel, setup)
  BY <1>1 DEF Honoured
<1>4. Moves /\ LeavesOthers(t)
  BY SamePanel, PanelHere DEF Moves, LeavesOthers, HonourInv
<1> QED BY <1>2, <1>3, <1>4, HonourStep DEF Others

\* A job reads the committed rows.
LEMMA HonourLoad ==
    ASSUME Inv, HonourInv, NEW t \in Tx, NEW op \in Job, LoadActive(t, op)
    PROVE  HonourInv'
<1> DEFINE rows == {r \in Active(t) : op = "sync" => Row(t, r).account # Null}
           cache == [r \in rows |-> Row(t, r)]
           z == [Idle EXCEPT !.op = op, !.at = now, !.banned = banned, !.seen = cache,
                             !.pc = IF op = "sync" THEN "sync" ELSE "scan"]
<1>1. /\ Begin(t, op) /\ sess' = [sess EXCEPT ![t] = z]
      /\ UNCHANGED <<store, setup, now, panel, inbox, crashes>>
  BY DEF LoadActive
<1>2. ASSUME NEW i \in Sub, S(i) \in DOMAIN cache PROVE cache[S(i)] = db[S(i)]
  <2>1. S(i) \in DOMAIN Visible(t) /\ cache[S(i)] = Row(t, S(i))
    BY <1>2 DEF Active
  <2>2. ws[t] = NoRows /\ DOMAIN NoRows = {}
    BY <1>1, BeginFacts DEF NoRows
  <2> QED BY <2>1, <2>2 DEF Row
<1> HIDE DEF cache
<1>3. z.op = op /\ z.seen = cache /\ z.dirty = NoRows /\ op # "buy" /\ z.pc \notin AtPanelNow
  BY DEF Idle, Job, AtPanelNow
<1> HIDE DEF z
<1> QED BY <1>1, <1>2, <1>3, HonourBegins

\* The stock job reads none.
LEMMA HonourReadStock ==
    ASSUME Inv, HonourInv, NEW t \in Tx, ReadStock(t)
    PROVE  HonourInv'
<1> DEFINE z == [Idle EXCEPT !.op = "stock", !.pc = "tell", !.at = now]
<1>1. /\ Begin(t, "stock") /\ sess' = [sess EXCEPT ![t] = z]
      /\ UNCHANGED <<store, setup, now, panel, inbox, crashes>>
  BY DEF ReadStock
<1>2. /\ z.op = "stock" /\ z.seen = NoRows /\ z.dirty = NoRows /\ DOMAIN NoRows = {}
      /\ z.pc \notin AtPanelNow
  BY DEF Idle, NoRows, AtPanelNow
<1> HIDE DEF z
<1> QED BY <1>1, <1>2, HonourBegins

\* A purchase has an id of its own; it works on an account that does not end later than
\* what is paid for now.
LEMMA HonourProvision ==
    ASSUME Inv, HonourInv, NEW t \in Tx, NEW i \in Sub, NEW old \in Sub \cup {Null},
           Provision(t, i, old)
    PROVE  HonourInv'
<1> DEFINE pc == IF old = Null THEN "create"
                 ELSE IF setup.kind = "marzban" THEN "extend" ELSE "look up"
           z == [Idle EXCEPT !.op = "buy", !.i = i, !.old = old, !.at = now, !.pc = pc]
<1>1. /\ Begin(t, "buy") /\ sess' = [sess EXCEPT ![t] = z] /\ ~Exists(t, S(i))
      /\ \A u \in Tx : sess[u].op = "buy" => sess[u].i # i
      /\ setup.kind # "manual" /\ (old # Null => Exists(t, S(old)))
      /\ UNCHANGED <<store, setup, now, panel, inbox, crashes>>
  BY DEF Provision
<1>2. /\ z.op = "buy" /\ z.i = i /\ z.old = old /\ z.at = now /\ z.pc = pc
      /\ z.seen = NoRows /\ z.dirty = NoRows /\ DOMAIN NoRows = {}
  BY DEF Idle, NoRows
<1>3. S(i) \notin DOMAIN db
  BY <1>1 DEF Exists
<1>4. pc \notin {"insert", "reset"} /\ (pc = "look up" => setup.kind # "marzban")
  OBVIOUS
<1> HIDE DEF z, pc
<1>5. Paying(z, db) \in Sub
  <2>1. CASE old = Null
    BY <1>2, <2>1 DEF Paying
  <2>2. CASE old # Null
    <3>1. S(old) \in DOMAIN db
      <4>1. ws[t] = NoRows /\ DOMAIN NoRows = {}
        BY <1>1, BeginFacts DEF NoRows
      <4> QED BY <1>1, <2>2, <4>1 DEF Exists
    <3>2. db[S(old)].account \in Sub \cup {Null}
      BY <2>2, <3>1, PanelHere, SubRows DEF SubRow
    <3> QED BY <1>1, <1>2, <2>2, <3>1, <3>2 DEF Paying, HonourInv
  <2> QED BY <2>1, <2>2
<1>6. Extending(z, Paying(z, db), panel, setup)
  BY <1>2, <1>4, <1>5 DEF Extending, HonourInv
<1> QED BY <1>1, <1>2, <1>3, <1>5, <1>6, HonourBegins
-----------------------------------------------------------------------------
\* A job has looked at the row of i and assigned the columns c.
LEMMA HonourLook ==
    ASSUME Inv, HonourInv, NEW t \in Tx, NEW z, sess' = [sess EXCEPT ![t] = z],
           UNCHANGED <<store, now, panel, setup>>, NEW i \in Sub, NEW c, S(i) \in DOMAIN sess[t].seen,
           z.op = sess[t].op, z.op \in Job, z.pc \notin AtPanelNow,
           z.seen = Without(sess[t].seen, S(i)),
           z.dirty = Over(Is(S(i), c), sess[t].dirty), Granted(c, db, i, panel)
    PROVE  HonourInv'
<1> DEFINE s == sess[t]
           x == ws[t]
<1>1. /\ sess'[t] = z /\ \A v \in Tx \ {t} : sess'[v] = sess[v]
      /\ db' = db /\ ws' = ws /\ z.op # "buy" /\ z.op = s.op
  BY SessionStep DEF store, Job
<1>2. Honoured(s, x, db, panel, setup)
  BY DEF HonourInv
<1>3. \A j \in Sub : S(j) \in DOMAIN z.seen => S(j) \in DOMAIN s.seen /\ z.seen[S(j)] = s.seen[S(j)]
  BY DEF Without
<1>4. \A j \in Sub : S(j) \in DOMAIN z.dirty =>
         \/ j = i /\ z.dirty[S(j)] = c
         \/ S(j) \in DOMAIN s.dirty /\ z.dirty[S(j)] = s.dirty[S(j)]
  <2> DEFINE f == Is(S(i), c)
  <2>1. DOMAIN f = {S(i)} /\ f[S(i)] = c
    BY OneRow
  <2> HIDE DEF f
  <2> QED BY <2>1, Keys DEF Over, f
<1> HIDE DEF s, x
<1>5. \A j \in Sub : S(j) \in DOMAIN x => Provided(x[S(j)], z, db, j, panel)
  BY <1>1, <1>2 DEF Honoured, Provided
<1>6. Honoured(z, x, db, panel, setup)
  BY <1>1, <1>2, <1>3, <1>4, <1>5 DEF Honoured
<1>7. Moves /\ LeavesOthers(t)
  BY SamePanel, PanelHere DEF Moves, LeavesOthers, HonourInv
<1> QED BY <1>1, <1>6, <1>7, HonourStep DEF Others, x

\* An alert job moves no time.
LEMMA HonourInspect ==
    ASSUME Inv, HonourInv, NEW t \in Tx, Inspect(t)
    PROVE  HonourInv'
<1> DEFINE s == sess[t]
           row(r) == s.seen[r]
           k(r) == Alert(s.op, row(r), s.at)
           c(r) == Columns(s.op, row(r), s.at)
           told(r) == CASE k(r) = "none" -> s
                        [] k(r) # "none" /\ s.banned -> [s EXCEPT !.spared = @ \cup {<<r[2], k(r)>>}]
                        [] OTHER -> [s EXCEPT !.i = r[2], !.kind = k(r), !.pc = "claim"]
           next(r) == [told(r) EXCEPT !.seen = Without(@, r), !.dirty = Over(Is(r, c(r)), @)]
<1>1. /\ s = [y \in Field |-> s[y]] /\ s.pc = "scan" /\ s.op \in {"expiry", "usage"}
      /\ UNCHANGED <<store, setup, now, panel, inbox, crashes>> /\ s.at \in Nat
      /\ \A r \in DOMAIN s.seen : (\E i \in Sub : r = S(i)) /\ s.seen[r] \in SubRow
  BY Here DEF Inspect, At, IsSession, Runs, AtPanelNow
<1>2. PICK r \in DOMAIN s.seen : sess' = [sess EXCEPT ![t] = next(r)]
  BY DEF Inspect
<1>3. PICK i \in Sub : r = S(i) /\ row(r) \in SubRow
  BY <1>1
<1> DEFINE z == next(r)
           w == told(r)
           new == c(r)
<1>4. /\ z.op = s.op /\ z.seen = Without(s.seen, r) /\ z.dirty = Over(Is(r, new), s.dirty)
      /\ z.pc \in {"scan", "claim"}
  <2>1. z = [w EXCEPT !.seen = Without(w.seen, r), !.dirty = Over(Is(r, new), w.dirty)]
    OBVIOUS
  <2>2. /\ w = [y \in Field |-> w[y]] /\ w.op = s.op /\ w.seen = s.seen /\ w.dirty = s.dirty
        /\ w.pc \in {"scan", "claim"}
    <3> HIDE DEF s, k
    <3>1. CASE k(r) = "none"
      BY <1>1, <3>1
    <3>2. CASE k(r) # "none" /\ s.banned
      BY <1>1, <3>2 DEF Field
    <3>3. CASE k(r) # "none" /\ ~s.banned
      BY <1>1, <3>3 DEF Field
    <3> QED BY <3>1, <3>2, <3>3
  <2> HIDE DEF z, w, new, s
  <2> QED BY <2>1, <2>2 DEF Field
<1>5. "expires" \notin DOMAIN new
  <2> HIDE DEF s
  <2> QED BY <1>1, <1>3, ColumnsType
<1> HIDE DEF z, new, row, k, told, next
<1>6. Granted(new, db, i, panel)
  BY <1>5 DEF Granted
<1>7. sess' = [sess EXCEPT ![t] = z]
  BY <1>2 DEF z
<1> QED BY <1>1, <1>2, <1>3, <1>4, <1>6, <1>7, HonourLook DEF Job, AtPanelNow

\* The sync takes the time from the account of the row.
LEMMA HonourSyncUser ==
    ASSUME Inv, HonourInv, NEW t \in Tx, SyncUser(t)
    PROVE  HonourInv'
<1> DEFINE s == sess[t]
<1>1. PICK r \in DOMAIN s.seen :
         \E c \in {NoRows} \cup (IF panel[s.seen[r].account].state \in {"on", "off"}
                                 THEN {Remote(s.seen[r].account)} ELSE {}) :
            sess' = [sess EXCEPT ![t].seen = Without(@, r), ![t].dirty = Over(Is(r, c), @)]
  BY DEF SyncUser
<1>2. PICK c : /\ c = NoRows \/ c = Remote(s.seen[r].account)
               /\ sess' = [sess EXCEPT ![t].seen = Without(@, r), ![t].dirty = Over(Is(r, c), @)]
  BY <1>1
<1> DEFINE z == [[s EXCEPT !.seen = Without(s.seen, r)] EXCEPT !.dirty = Over(Is(r, c), s.dirty)]
<1>3. /\ s = [y \in Field |-> s[y]] /\ s.pc = "sync" /\ s.op = "sync"
      /\ UNCHANGED <<store, setup, now, panel, inbox, crashes>>
      /\ \E i \in Sub : r = S(i)
  BY <1>1, Here DEF SyncUser, At, IsSession, Runs, AtPanelNow
<1>4. sess' = [sess EXCEPT ![t] = z]
  BY <1>2, <1>3 DEF Inv, SessionInv, Field
<1>5. /\ z.op = s.op /\ z.pc = s.pc
      /\ z.seen = Without(s.seen, r) /\ z.dirty = Over(Is(r, c), s.dirty)
  BY <1>3 DEF Field
<1>6. PICK i \in Sub : r = S(i)
  BY <1>3
<1>7. Granted(c, db, i, panel)
  <2> DEFINE a == s.seen[r].account
  <2>1. a = db[S(i)].account /\ a # Null
    <3>1. s.seen[S(i)].account = db[S(i)].account
      BY <1>1, <1>6 DEF HonourInv, Honoured
    <3>2. a # Null
      BY <1>1, <1>3, Here DEF Aware
    <3> QED BY <1>6, <3>1, <3>2
  <2>2. a \in Sub
    <3>1. s.seen[r] \in SubRow
      BY <1>1, Here DEF IsSession
    <3> QED BY <2>1, <3>1 DEF SubRow
  <2>3. panel[a].expires \in Nat
    BY <2>2, PanelHere DEF PanelType
  <2>4. "expires" \in DOMAIN c => c["expires"] = panel[a].expires
    BY <1>2 DEF Remote, Over, NoRows
  <2> HIDE DEF a
  <2> QED BY <2>1, <2>3, <2>4 DEF Granted
<1> HIDE DEF z
<1> QED BY <1>1, <1>3, <1>4, <1>5, <1>6, <1>7, HonourLook DEF Job, AtPanelNow

\* A statement that writes the row of subscription i, or of several.
LEMMA HonourWrite ==
    ASSUME Inv, HonourInv, NEW t \in Tx, NEW f, NEW pc, Write(t, f), Goto(t, pc),
           pc \notin AtPanelNow, UNCHANGED <<now, panel, setup>>,
           \A i \in Sub : S(i) \in DOMAIN f => Provided(f[S(i)], sess[t], db, i, panel)
    PROVE  HonourInv'
<1> DEFINE s == sess[t]
           x == ws[t]
           z == sess'[t]
           y == Over(f, x)
<1>1. /\ \A v \in Tx \ {t} : sess'[v] = sess[v]
      /\ z.op = s.op /\ z.i = s.i /\ z.seen = s.seen /\ z.dirty = s.dirty /\ z.pc = pc
  BY GotoFacts
<1>2. db' = db /\ ws'[t] = y /\ \A v \in Tx \ {t} : ws'[v] = ws[v]
  BY WriteEffect DEF Inv, StoreInv
<1>3. Honoured(s, x, db, panel, setup)
  BY DEF HonourInv
<1>4. \A i \in Sub : S(i) \in DOMAIN y => Provided(y[S(i)], s, db, i, panel)
  BY <1>3 DEF Over, Honoured
<1> HIDE DEF s, x, y, z
<1>5. Honoured(z, y, db, panel, setup)
  BY <1>1, <1>3, <1>4 DEF Honoured, Provided
<1>6. \A u \in Tx \ {t} : z.op = "buy" /\ sess[u].op = "buy" => z.i # sess[u].i
  BY <1>1 DEF HonourInv, OwnIds, s
<1>7. Moves /\ LeavesOthers(t)
  BY SamePanel, PanelHere DEF Moves, LeavesOthers, HonourInv
<1> QED BY <1>1, <1>2, <1>5, <1>6, <1>7, HonourStep DEF Others, z

\* The columns of a job are written.
LEMMA HonourFlush ==
    ASSUME Inv, HonourInv, NEW t \in Tx, FlushColumns(t)
    PROVE  HonourInv'
<1> DEFINE s == sess[t]
           x == ws[t]
           f == [r \in {q \in DOMAIN s.dirty : DOMAIN s.dirty[q] # {}} |->
                    Over(s.dirty[r], Row(t, r))]
<1>1. /\ IsSession(s) /\ Aware(s, x, db, Spared(t)) /\ s.pc = "flush"
      /\ Write(t, f) /\ Goto(t, "commit") /\ UNCHANGED <<setup, now, panel, inbox, crashes>>
  BY Here DEF FlushColumns, At
<1>2. s.op \in Job
  BY <1>1 DEF IsSession, Runs, AtPanelNow, Job
<1>3. ASSUME NEW i \in Sub, S(i) \in DOMAIN f PROVE Provided(f[S(i)], s, db, i, panel)
  <2>1. S(i) \in DOMAIN s.dirty /\ f[S(i)] = Over(s.dirty[S(i)], Row(t, S(i)))
    BY <1>3
  <2>2. IsColumns(s.dirty[S(i)]) /\ S(i) \in DOMAIN db
    BY <2>1, <1>1 DEF IsSession, Aware
  <2>3. S(i) \notin DOMAIN x
    BY <1>1, <1>2 DEF Aware, Holds, Job
  <2>4. Row(t, S(i)) = db[S(i)] /\ Row(t, S(i)) \in SubRow
    BY <2>2, <2>3, ReadRow DEF Row, Exists
  <2>5. Granted(s.dirty[S(i)], db, i, panel) /\ Lasts(db[S(i)], panel)
    BY <2>1, <2>2 DEF HonourInv, Honoured
  <2> DEFINE c == s.dirty[S(i)]
             row == Row(t, S(i))
             w == Over(c, row)
  <2>6. /\ w.account = row.account
        /\ w.expires = IF "expires" \in DOMAIN c THEN c["expires"] ELSE row.expires
    <3>1. DOMAIN row = {"account", "status", "expires", "used", "level", "tags"}
      BY <2>4 DEF SubRow
    <3>2. "account" \notin DOMAIN c
      BY <2>2 DEF IsColumns
    <3> HIDE DEF c, row
    <3> QED BY <3>1, <3>2 DEF Over
  <2>7. f[S(i)] = w /\ row = db[S(i)] /\ Granted(c, db, i, panel)
    BY <2>1, <2>4, <2>5
  <2> HIDE DEF c, row, w, s, f
  <2>8. Lasts(w, panel)
    BY <2>5, <2>6, <2>7 DEF Lasts, Granted
  <2> QED BY <2>2, <2>6, <2>7, <2>8 DEF Provided
<1> HIDE DEF f
<1> QED BY <1>1, <1>3, HonourWrite DEF AtPanelNow

\* The new subscription ends when its account does.
LEMMA HonourInsert ==
    ASSUME Inv, HonourInv, NEW t \in Tx, InsertSubscription(t)
    PROVE  HonourInv'
<1> DEFINE s == sess[t]
           a == Account(t)
           row == NewRow(a, s.at)
           f == Is(S(s.i), row)
           pc == IF s.old = Null THEN "commit" ELSE "retire"
<1>1. /\ Write(t, f) /\ Goto(t, pc) /\ s.pc = "insert" /\ s.pc \in AtPanelNow
      /\ UNCHANGED <<setup, now, panel, inbox, crashes>>
  BY DEF InsertSubscription, At, AtPanelNow
<1>2. s.op = "buy" /\ a = Paying(s, db)
  BY <1>1, PanelHere
<1>3. DOMAIN f = {S(s.i)} /\ f[S(s.i)] = row
  BY OneRow
<1>4. row.account = a /\ row.expires = s.at + setup.duration
  BY DEF NewRow
<1>5. /\ S(s.i) \notin DOMAIN db /\ a \in Sub
      /\ panel[a].state # "none" /\ s.at + setup.duration <= panel[a].expires
  BY <1>1, <1>2 DEF HonourInv, Honoured, Extending
<1>6. a # Null
  BY <1>5, SubAssumption
<1>7. pc \notin AtPanelNow
  BY DEF AtPanelNow
<1> HIDE DEF f, row, pc, a
<1>8. ASSUME NEW i \in Sub, S(i) \in DOMAIN f PROVE Provided(f[S(i)], s, db, i, panel)
  <2>1. S(i) = S(s.i)
    BY <1>3, <1>8
  <2>2. i = s.i /\ f[S(i)] = row
    BY <1>3, <2>1, Keys
  <2> QED BY <1>2, <1>4, <1>5, <1>6, <2>1, <2>2 DEF Provided, Lasts
<1> QED BY <1>1, <1>7, <1>8, HonourWrite

\* The renewed one keeps its account and its time.
LEMMA HonourRetire ==
    ASSUME Inv, HonourInv, NEW t \in Tx, Retire(t)
    PROVE  HonourInv'
<1> DEFINE s == sess[t]
           old == Row(t, S(s.old))
           row == [old EXCEPT !.status = "disabled"]
           f == Is(S(s.old), row)
<1>1. /\ IsSession(s) /\ Aware(s, ws[t], db, Spared(t)) /\ s.pc = "retire"
      /\ Write(t, f) /\ Goto(t, "commit") /\ UNCHANGED <<setup, now, panel, inbox, crashes>>
  BY Here DEF Retire, At
<1>2. s.op = "buy" /\ s.old \in Sub /\ S(s.old) \in DOMAIN db
  BY <1>1 DEF IsSession, Runs, AtPanelNow, Aware
<1>3. DOMAIN f = {S(s.old)} /\ f[S(s.old)] = row
  BY OneRow
<1>4. old \in SubRow
  BY <1>2, ReadRow DEF Exists
<1>5. row.account = old.account /\ row.expires = old.expires
  BY <1>4 DEF SubRow
<1>6. old.account = db[S(s.old)].account /\ Lasts(old, panel)
  <2>1. CASE S(s.old) \in DOMAIN ws[t]
    BY <1>2, <2>1 DEF HonourInv, Honoured, Provided, Row
  <2>2. CASE S(s.old) \notin DOMAIN ws[t]
    BY <1>2, <2>2 DEF HonourInv, Row
  <2> QED BY <2>1, <2>2
<1> HIDE DEF f, row, old
<1>7. ASSUME NEW i \in Sub, S(i) \in DOMAIN f PROVE Provided(f[S(i)], s, db, i, panel)
  <2>1. S(i) = S(s.old)
    BY <1>3, <1>7
  <2>2. i = s.old /\ f[S(i)] = row
    BY <1>3, <2>1, Keys
  <2> QED BY <1>2, <1>5, <1>6, <2>1, <2>2 DEF Provided, Lasts
<1> QED BY <1>1, <1>7, HonourWrite DEF AtPanelNow
-----------------------------------------------------------------------------
\* The account a is set up or extended for what session t pays for.
LEMMA HonourExtended ==
    ASSUME Inv, HonourInv, NEW t \in Tx, NEW v, NEW a, a = Account(t),
           panel' = [panel EXCEPT ![a] = v], sess[t].pc \in AtPanelNow, RenewalsApart,
           v \in [state : {"none", "on", "off", "gone"}, used : Level, expires : Nat],
           panel[a].state # "none" => v.state # "none",
           v.expires = panel[a].expires \/ v.expires = sess[t].at + setup.duration
    PROVE  Moves /\ LeavesOthers(t) /\ a \in Sub /\ a = Paying(sess[t], db) /\ panel'[a] = v
<1>1. /\ panel \in PanelType /\ setup.duration \in Nat /\ now \in Nat /\ sess[t].at \in Nat
      /\ sess[t].at <= now
  BY PanelHere, Here
<1>2. a = Paying(sess[t], db)
  BY PanelHere
<1>3. a \in Sub /\ panel[a].expires <= sess[t].at + setup.duration
  BY <1>2 DEF HonourInv, Honoured, Extending
<1>4. panel' \in PanelType /\ panel'[a] = v /\ \A b \in Sub \ {a} : panel'[b] = panel[b]
  BY <1>1, <1>3 DEF PanelType
<1>5. Grows(panel, panel')
  <2> SUFFICES ASSUME NEW b \in Sub
               PROVE  /\ panel[b].state # "none" => panel'[b].state # "none"
                      /\ panel[b].expires <= panel'[b].expires
    BY DEF Grows
  <2>1. panel[b].expires \in Nat
    BY <1>1 DEF PanelType
  <2>2. CASE b = a
    BY <1>3, <1>4, <2>1, <2>2
  <2>3. CASE b # a
    BY <1>4, <2>1, <2>3
  <2> QED BY <2>2, <2>3
<1>6. ASSUME NEW b \in Sub PROVE panel'[b].expires <= now + setup.duration
  <2>1. panel[b].expires <= now + setup.duration
    BY DEF HonourInv
  <2>2. CASE b = a
    <3>1. v.expires <= now + setup.duration
      BY <1>1, <2>1, <2>2
    <3> QED BY <1>4, <2>2, <3>1
  <2>3. CASE b # a
    BY <1>4, <2>1, <2>3
  <2> QED BY <2>2, <2>3
<1>7. LeavesOthers(t)
  <2> SUFFICES ASSUME NEW u \in Tx \ {t}, sess[u].pc \in AtPanelNow
               PROVE  panel'[Account(u)].expires = panel[Account(u)].expires
    BY DEF LeavesOthers
  <2>1. Account(u) # a
    BY DEF RenewalsApart
  <2>2. Account(u) \in Sub
    BY PanelHere DEF HonourInv, Honoured
  <2> QED BY <1>4, <2>1, <2>2
<1> QED BY <1>2, <1>3, <1>4, <1>5, <1>6, <1>7 DEF Moves

\* A session that has gone on to pc.
LEMMA WentOn ==
    ASSUME Inv, NEW t \in Tx, NEW pc
    PROVE  LET z == [sess[t] EXCEPT !.pc = pc] IN z.pc = pc /\ z.at = sess[t].at
<1>1. sess[t] = [y \in Field |-> sess[t][y]]
  BY PanelHere DEF IsSession
<1> QED BY <1>1 DEF Field

\* Equal times are in order.
LEMMA SameTime ==
    ASSUME NEW e \in Nat, NEW f, e = f
    PROVE  e <= f /\ f <= e
    OBVIOUS

\* The account a has just been extended.
LEMMA JustExtended ==
    ASSUME NEW z, NEW a \in Sub, NEW p \in PanelType, NEW h,
           z.pc # "look up", p[a].state = "on", p[a].expires = z.at + h.duration
    PROVE  Extending(z, a, p, h)
<1>1. p[a].expires \in Nat
  BY DEF PanelType
<1>2. p[a].expires <= z.at + h.duration /\ z.at + h.duration <= p[a].expires
  BY <1>1, SameTime, Zenon
<1>3. p[a].state # "none"
  OBVIOUS
<1> QED BY <1>2, <1>3, Zenon DEF Extending

\* The account is created.
LEMMA HonourCreate ==
    ASSUME Inv, HonourInv, RenewalsApart, NEW t \in Tx, CreateUser(t)
    PROVE  HonourInv'
<1> DEFINE s == sess[t]
           a == Account(t)
           v == NewAccount(s.at)
           z == [s EXCEPT !.pc = "insert"]
<1>1. /\ s.pc = "create" /\ s.pc \in AtPanelNow /\ Goto(t, "insert")
      /\ panel' = [panel EXCEPT ![a] = v] /\ UNCHANGED <<store, setup, now, inbox, crashes>>
  BY DEF CreateUser, At, AtPanelNow
<1>2. s.at + setup.duration \in Nat
  BY Paid
<1>3. /\ v \in [state : {"none", "on", "off", "gone"}, used : Level, expires : Nat]
      /\ v.state = "on" /\ v.expires = s.at + setup.duration
  BY <1>2 DEF NewAccount, Level
<1> HIDE DEF a, v
<1>4. Moves /\ LeavesOthers(t) /\ a = Paying(s, db) /\ panel'[a] = v
  BY <1>1, <1>3, HonourExtended DEF a
<1>5. z.pc = "insert" /\ z.at = s.at
  BY WentOn
<1> HIDE DEF z
<1>6. Extending(z, Paying(s, db), panel', setup)
  BY <1>2, <1>3, <1>4, <1>5 DEF Extending
<1> QED BY <1>1, <1>4, <1>6, HonourCall DEF z

\* The account is extended, or is not there.
LEMMA HonourExtend ==
    ASSUME Inv, HonourInv, RenewalsApart, NEW t \in Tx, Extend(t)
    PROVE  HonourInv'
<1> DEFINE s == sess[t]
           a == Account(t)
           v == Extended(panel[a], s.at)
<1>1. /\ s.pc = "extend" /\ s.pc \in AtPanelNow /\ UNCHANGED <<store, setup, now, inbox, crashes>>
  BY DEF Extend, At, AtPanelNow
<1>2. s.at + setup.duration \in Nat /\ panel \in PanelType
  BY Paid, PanelHere
<1>3. a = Paying(s, db) /\ a \in Sub /\ Extending(s, a, panel, setup)
  BY <1>1, PanelHere DEF HonourInv, Honoured
<1>4. CASE panel' = [panel EXCEPT ![a] = v] /\ \E pc \in {"reset", "insert"} : Goto(t, pc)
  <2>1. PICK pc \in {"reset", "insert"} : Goto(t, pc)
    BY <1>4
  <2>2. /\ v \in [state : {"none", "on", "off", "gone"}, used : Level, expires : Nat]
        /\ v.state = "on" /\ v.expires = s.at + setup.duration
    <3>1. panel[a] \in [state : {"none", "on", "off", "gone"}, used : Level, expires : Nat]
      BY <1>2, <1>3 DEF PanelType
    <3> HIDE DEF a
    <3> QED BY <1>2, <3>1 DEF Extended
  <2> HIDE DEF a, v
  <2>3. Moves /\ LeavesOthers(t) /\ panel'[a] = v
    BY <1>1, <1>4, <2>2, HonourExtended, ZenonT(30) DEF a
  <2> DEFINE z == [s EXCEPT !.pc = pc]
  <2>4. z.pc = pc /\ z.at = s.at
    BY WentOn
  <2> HIDE DEF z
  <2>5. Extending(z, Paying(s, db), panel', setup)
    <3>1. /\ panel'[a].state = "on" /\ panel'[a].expires = z.at + setup.duration
          /\ panel' \in PanelType
          /\ Paying(s, db) = a /\ a \in Sub /\ z.pc # "look up"
      BY <1>2, <1>3, <2>2, <2>3, <2>4, PanelHere, Here DEF Moves
    <3> HIDE DEF s
    <3> QED BY <3>1, JustExtended
  <2> QED BY <1>1, <2>1, <2>3, <2>5, HonourCall DEF z
<1>5. CASE panel' = panel /\ \E pc \in {"create", "reset in vain"} : Goto(t, pc)
  <2>1. PICK pc \in {"create", "reset in vain"} : Goto(t, pc)
    BY <1>5
  <2>2. Moves /\ LeavesOthers(t)
    BY <1>5, SamePanel, PanelHere DEF Moves, LeavesOthers, HonourInv
  <2> DEFINE z == [s EXCEPT !.pc = pc]
  <2>3. z.pc = pc /\ z.at = s.at
    BY WentOn
  <2> HIDE DEF z, a
  <2>4. Extending(z, Paying(s, db), panel', setup)
    BY <1>3, <1>5, <2>3 DEF Extending
  <2> QED BY <1>1, <2>1, <2>2, <2>4, HonourCall DEF z
<1> QED BY <1>4, <1>5 DEF Extend

\* X-UI is asked for the account.
LEMMA HonourLookUp ==
    ASSUME Inv, HonourInv, NEW t \in Tx, LookUp(t)
    PROVE  HonourInv'
<1> DEFINE s == sess[t]
<1>1. /\ s.pc = "look up" /\ s.pc \in AtPanelNow
      /\ UNCHANGED <<store, setup, now, panel, inbox, crashes>>
  BY DEF LookUp, At, AtPanelNow
<1>2. PICK pc \in {"reset", "create"} : Goto(t, pc)
  BY DEF LookUp
<1> DEFINE z == [s EXCEPT !.pc = pc]
<1>3. z.pc = pc /\ z.at = s.at
  BY WentOn
<1> HIDE DEF z
<1>4. Extending(s, Paying(s, db), panel, setup)
  BY <1>1 DEF HonourInv, Honoured
<1>5. Extending(z, Paying(s, db), panel', setup)
  BY <1>1, <1>3, <1>4 DEF Extending
<1>6. Moves /\ LeavesOthers(t)
  BY <1>1, SamePanel, PanelHere DEF Moves, LeavesOthers, HonourInv
<1> QED BY <1>1, <1>2, <1>5, <1>6, HonourCall DEF z

\* The traffic is reset, which moves no time.
LEMMA HonourReset ==
    ASSUME Inv, HonourInv, RenewalsApart, NEW t \in Tx, ResetTraffic(t)
    PROVE  HonourInv'
<1> DEFINE s == sess[t]
           a == Account(t)
           v == [panel[a] EXCEPT !.used = 0]
<1>1. /\ s.pc \in {"reset", "reset in vain"} /\ s.pc \in AtPanelNow
      /\ UNCHANGED <<store, setup, now, inbox, crashes>>
      /\ panel' = [panel EXCEPT ![a] = v] \/ panel' = panel
  BY DEF ResetTraffic, AtPanelNow
<1>2. a = Paying(s, db) /\ a \in Sub /\ Extending(s, a, panel, setup) /\ panel \in PanelType
  BY <1>1, PanelHere DEF HonourInv, Honoured
<1>3. /\ v \in [state : {"none", "on", "off", "gone"}, used : Level, expires : Nat]
      /\ v.state = panel[a].state /\ v.expires = panel[a].expires
  <2>1. panel[a] \in [state : {"none", "on", "off", "gone"}, used : Level, expires : Nat]
    BY <1>2 DEF PanelType
  <2> HIDE DEF a
  <2> QED BY <2>1 DEF Level
<1> HIDE DEF a, v
<1>4. /\ Moves /\ LeavesOthers(t)
      /\ panel'[a].state = panel[a].state /\ panel'[a].expires = panel[a].expires
  <2>1. CASE panel' = [panel EXCEPT ![a] = v]
    <3>1. a = Account(t)
      BY DEF a
    <3>2. /\ v \in [state : {"none", "on", "off", "gone"}, used : Level, expires : Nat]
          /\ panel[a].state # "none" => v.state # "none"
          /\ v.expires = panel[a].expires \/ v.expires = sess[t].at + setup.duration
      BY <1>3
    <3>3. sess[t].pc \in AtPanelNow
      BY <1>1
    <3>4. Moves /\ LeavesOthers(t) /\ panel'[a] = v
      BY <2>1, <3>1, <3>2, <3>3, HonourExtended, ZenonT(30)
    <3> QED BY <1>3, <3>4
  <2>2. CASE panel' = panel
    BY <2>2, SamePanel, PanelHere DEF Moves, LeavesOthers, HonourInv
  <2> QED BY <1>1, <2>1, <2>2
<1>5. CASE Close(t)
  <2>1. sess'[t] = Idle /\ \A u \in Tx \ {t} : sess'[u] = sess[u]
    BY <1>5, SessionStep DEF Close
  <2>2. Honoured(Idle, ws[t], db, panel', setup)
    <3>1. ws[t] = NoRows
      BY <1>1, PanelHere
    <3> QED BY <3>1 DEF Honoured, Idle, NoRows, AtPanelNow
  <2> QED BY <1>1, <1>4, <2>1, <2>2, IdleOk, HonourStep DEF Others, store
<1>6. CASE At(t, "reset") /\ Goto(t, IF setup.kind = "marzban" THEN "insert" ELSE "extend")
  <2> DEFINE pc == IF setup.kind = "marzban" THEN "insert" ELSE "extend"
             z == [s EXCEPT !.pc = pc]
  <2>1. z.pc = pc /\ z.at = s.at
    BY WentOn
  <2>2. s.pc = "reset"
    BY <1>6 DEF At
  <2> HIDE DEF z
  <2>3. Extending(z, Paying(s, db), panel', setup)
    BY <1>2, <1>4, <2>1, <2>2 DEF Extending
  <2> QED BY <1>1, <1>4, <1>6, <2>3, HonourCall DEF z
<1> QED BY <1>5, <1>6 DEF ResetTraffic
-----------------------------------------------------------------------------
\* Time goes on, and accounts are used, switched off, extended and removed.
LEMMA HonourOthers ==
    ASSUME Inv, HonourInv, AdminApart,
           Tick \/ \E a \in Sub : UseTraffic(a) \/ SwitchOff(a) \/ AtPanel(a)
    PROVE  HonourInv'
<1>1. /\ panel \in PanelType /\ setup.duration \in Nat /\ now \in Nat
      /\ \A a \in Sub : panel[a].expires <= now + setup.duration
  BY SetupFacts DEF Inv, World, PanelType, HonourInv
<1>2. CASE Tick
  <2>1. now' = now + 1 /\ UNCHANGED <<store, setup, sess, panel>>
    BY <1>2 DEF Tick
  <2>2. ASSUME NEW a \in Sub PROVE panel'[a].expires <= now' + setup.duration
    <3>1. panel[a].expires \in Nat /\ panel[a].expires <= now + setup.duration
      BY <1>1 DEF PanelType
    <3> QED BY <1>1, <2>1, <3>1
  <2> QED BY <1>1, <2>1, <2>2, SamePanel, HonourOutside
<1>3. ASSUME NEW a \in Sub, UseTraffic(a) \/ SwitchOff(a) \/ AtPanel(a)
      PROVE  HonourInv'
  <2>1. /\ UNCHANGED <<store, setup, sess, now>>
        /\ \A b \in Sub \ {a} : panel'[b] = panel[b]
    BY <1>3, <1>1 DEF UseTraffic, SwitchOff, AtPanel, PanelType
  <2>2. panel' \in PanelType
    BY <1>3, OthersPreserve DEF Inv, World, PanelType
  <2>3. /\ panel[a].state # "none" /\ panel'[a].state # "none"
        /\ \/ panel'[a].expires = panel[a].expires
           \/ AtPanel(a) /\ panel'[a].state # "gone" /\ panel'[a].expires = now + setup.duration
    <3>1. panel[a] \in [state : {"none", "on", "off", "gone"}, used : Level, expires : Nat]
      BY <1>1 DEF PanelType
    <3>2. CASE UseTraffic(a)
      BY <1>1, <3>1, <3>2 DEF UseTraffic, PanelType
    <3>3. CASE SwitchOff(a)
      BY <1>1, <3>1, <3>3 DEF SwitchOff, PanelType
    <3>4. CASE AtPanel(a)
      <4>1. CASE panel' = [panel EXCEPT ![a].state = "on", ![a].expires = now + setup.duration]
        BY <1>1, <3>1, <3>4, <4>1 DEF AtPanel, PanelType
      <4>2. CASE panel' = [panel EXCEPT ![a].state = "gone"]
        BY <1>1, <3>1, <3>4, <4>2 DEF AtPanel, PanelType
      <4> QED BY <3>4, <4>1, <4>2 DEF AtPanel
    <3> QED BY <1>3, <3>2, <3>3, <3>4
  <2>4. ASSUME NEW b \in Sub
        PROVE  /\ panel[b].state # "none" => panel'[b].state # "none"
               /\ panel[b].expires <= panel'[b].expires
               /\ panel'[b].expires <= now' + setup.duration
    <3>1. panel[b].expires \in Nat /\ panel[b].expires <= now + setup.duration
      BY <1>1 DEF PanelType
    <3>2. panel'[b].expires = panel[b].expires \/ panel'[b].expires = now + setup.duration
      BY <2>1, <2>3
    <3>3. panel[b].state # "none" => panel'[b].state # "none"
      BY <2>1, <2>3
    <3>4. panel[b].expires <= panel'[b].expires /\ panel'[b].expires <= now + setup.duration
      BY <1>1, <3>1, <3>2
    <3> QED BY <2>1, <3>3, <3>4
  <2>5. ASSUME NEW u \in Tx, sess[u].pc \in AtPanelNow
        PROVE  panel'[Account(u)].expires = panel[Account(u)].expires
    <3>1. Account(u) \in Sub
      BY <2>5, PanelHere DEF HonourInv, Honoured
    <3>2. CASE Account(u) = a
      BY <2>3, <2>5, <3>2 DEF AdminApart
    <3>3. CASE Account(u) # a
      BY <2>1, <3>1, <3>3
    <3> QED BY <3>2, <3>3
  <2> QED BY <2>1, <2>2, <2>4, <2>5, HonourOutside DEF Grows
<1> QED BY <1>2, <1>3

\* Every step keeps what was sold on the panel, if no two purchases, and no purchase
\* and the admin, work on one account.
LEMMA HonourPreserves ==
    Inv /\ HonourInv /\ RenewalsApart /\ [AdminApart]_vars /\ [Next]_vars => HonourInv'
<1> SUFFICES ASSUME Inv, HonourInv, RenewalsApart, [AdminApart]_vars, [Next]_vars
             PROVE  HonourInv'
  OBVIOUS
<1>1. CASE UNCHANGED vars
  <2>1. UNCHANGED <<store, setup, sess, now, panel>>
    BY <1>1 DEF vars, store
  <2> QED BY <2>1, SamePanel, SetupFacts, HonourOutside DEF HonourInv, Inv, World, PanelType
<1>2. CASE Next /\ ~UNCHANGED vars
  <2>1. AdminApart
    BY <1>2
  <2>2. CASE Tick \/ \E a \in Sub : UseTraffic(a) \/ SwitchOff(a) \/ AtPanel(a)
    BY <2>1, <2>2, HonourOthers
  <2>3. ASSUME NEW t \in Tx, Does(t) PROVE HonourInv'
    <3>1. Others(t) /\ setup' = setup /\ now' = now
      BY <2>3, Shapes
    <3>2. CASE \E op \in {"expiry", "usage", "sync"} : LoadActive(t, op)
      BY <3>2, HonourLoad DEF Job
    <3>3. CASE ReadStock(t) \/ \E i \in Sub, old \in Sub \cup {Null} : Provision(t, i, old)
      BY <3>3, HonourReadStock, HonourProvision
    <3>4. CASE Inspect(t) \/ SyncUser(t)
      BY <3>4, HonourInspect, HonourSyncUser
    <3>5. CASE InsertSubscription(t) \/ Retire(t) \/ FlushColumns(t)
      BY <3>5, HonourInsert, HonourRetire, HonourFlush
    <3>6. CASE CreateUser(t) \/ LookUp(t) \/ Extend(t) \/ ResetTraffic(t)
      BY <3>6, HonourCreate, HonourLookUp, HonourExtend, HonourReset
    <3>7. CASE Claim(t) \/ Send(t) \/ TickOff(t) \/ EndOfScan(t) \/ TellAdmins(t)
      <4>1. \A i \in Sub : Claimed(t) # S(i) /\ LowStock # S(i)
        BY Keys DEF Claimed
      <4>2. \/ UNCHANGED store
            \/ \E r, v : Write(t, Is(r, v)) /\ (r = Claimed(t) \/ r = LowStock)
        BY <3>7 DEF Claim, Send, TickOff, EndOfScan, TellAdmins
      <4>3. /\ \E pc \in {"send", "scan", "commit", "flush", "tick off"} : Goto(t, pc)
            /\ panel' = panel
        BY <3>7 DEF Claim, Send, TickOff, EndOfScan, TellAdmins
      <4> QED BY <3>1, <4>1, <4>2, <4>3, HonourGoto DEF AtPanelNow
    <3>8. CASE PanelError(t) \/ Finish(t) \/ Crash(t)
      <4>1. Ends(t) /\ panel' = panel
        BY <3>8, EndsBy DEF PanelError, Finish, Crash, At, AtPanelNow
      <4> QED BY <3>1, <4>1, HonourEnds
    <3> QED BY <2>3, <3>2, <3>3, <3>4, <3>5, <3>6, <3>7, <3>8 DEF Does, Continue
  <2>4. CASE SetBanned
    <3>1. UNCHANGED <<store, setup, sess, now, panel>>
      BY <2>4 DEF SetBanned
    <3> QED BY <3>1, SamePanel, SetupFacts, HonourOutside DEF HonourInv, Inv, World, PanelType
  <2> QED BY <1>2, <2>2, <2>3, <2>4 DEF Next, Does
<1> QED BY <1>1, <1>2

\* Who pays for a panel subscription has an account that lasts as long as the row says,
\* however calls of the panel fail, handlers die, and syncs, alerts and other purchases
\* overlap, as long as no two purchases work on one account, nor does the panel's admin
\* extend one that a purchase works on: the panel keeps what was written last, which may
\* be the earlier time.
THEOREM PanelHonoursSales ==
    Spec /\ []RenewalsApart /\ [][AdminApart]_vars => []PanelHonours
<1>1. Init => HonourInv
  <2> SUFFICES ASSUME Init PROVE HonourInv
    OBVIOUS
  <2>1. /\ ws = [t \in Tx |-> NoRows] /\ sess = [t \in Tx |-> Idle] /\ now = 0
        /\ DOMAIN db = {S(i) : i \in setup.sold} /\ setup \in SetupType
    BY SubAssumption DEF Init
  <2>2. setup.duration \in Nat /\ setup.sold \subseteq Sub
    BY <2>1 DEF SetupType
  <2>3. \A t \in Tx : Honoured(sess[t], ws[t], db, panel, setup)
    BY <2>1 DEF Honoured, Idle, NoRows, AtPanelNow
  <2>4. ASSUME NEW a \in Sub PROVE panel[a].expires <= now + setup.duration
    <3>1. panel[a].expires = 0 \/ panel[a].expires = 0 + setup.duration
      BY DEF Init, NewAccount, NoAccount
    <3> QED BY <2>1, <2>2, <3>1
  <2>5. ASSUME NEW i \in Sub, S(i) \in DOMAIN db
        PROVE  Lasts(db[S(i)], panel) /\ (setup.kind # "manual" => db[S(i)].account # Null)
    <3>1. i \in setup.sold
      BY <2>1, <2>5, Keys
    <3>2. db[S(i)] = NewRow(IF setup.kind = "manual" THEN Null ELSE i, 0)
      BY <2>1, <2>5, Keys DEF Init
    <3>3. CASE setup.kind = "manual"
      BY <3>2, <3>3 DEF NewRow, Lasts
    <3>4. CASE setup.kind # "manual"
      <4>1. panel[i] = NewAccount(0)
        BY <3>1, <3>4 DEF Init
      <4>2. /\ db[S(i)].account = i /\ db[S(i)].expires = 0 + setup.duration
            /\ panel[i].state = "on" /\ panel[i].expires = 0 + setup.duration
        BY <3>2, <3>4, <4>1 DEF NewRow, NewAccount
      <4>3. db[S(i)].expires <= panel[i].expires /\ i # Null
        BY <2>2, <4>2, SubAssumption
      <4> QED BY <4>2, <4>3 DEF Lasts
    <3> QED BY <3>3, <3>4
  <2>6. OwnIds
    BY <2>1, IdleOk DEF OwnIds
  <2> QED BY <2>3, <2>4, <2>5, <2>6 DEF HonourInv
<1>2. Inv /\ HonourInv => PanelHonours
  <2> SUFFICES ASSUME Inv, HonourInv, NEW i \in Sub, S(i) \in DOMAIN db, db[S(i)].account # Null
               PROVE  /\ panel[db[S(i)].account].state # "none"
                      /\ panel[db[S(i)].account].expires >= db[S(i)].expires
    BY DEF PanelHonours, Known
  <2> DEFINE a == db[S(i)].account
             e == db[S(i)].expires
             p == panel[a].expires
  <2>1. panel[a].state # "none" /\ e <= p
    BY DEF HonourInv, Lasts
  <2>2. a \in Sub \cup {Null} /\ e \in Nat
    <3>1. Typed(db)
      BY DEF Inv, StoreInv, StoreOk
    <3>2. db[S(i)] \in SubRow
      BY <3>1, SubRows
    <3> QED BY <3>2 DEF SubRow
  <2>3. p \in Nat
    BY <2>2 DEF Inv, World
  <2> HIDE DEF p, e
  <2>4. p >= e
    BY <2>1, <2>2, <2>3
  <2> QED BY <2>1, <2>4 DEF p, e
<1>3. /\ Inv /\ HonourInv /\ RenewalsApart /\ [AdminApart]_vars /\ [Next]_vars
            => Inv' /\ HonourInv'
  BY StepPreserves, HonourPreserves
<1> QED BY <1>1, <1>2, <1>3, Initially, PTL DEF Spec
=============================================================================
