--------------------------- MODULE RowStoreProofs ---------------------------
(***************************************************************************)
(* What the statements of RowStore do to its rows and locks: the lemmas    *)
(* the proofs about the services cite.                                     *)
(***************************************************************************)
EXTENDS RowStore, TLAPS

\* The shape of the store: ws gives every transaction a set of rows.
Shaped == ws \in [Tx -> {ws[t] : t \in Tx}]

\* Overlaying g with f: the rows of both, those of f first.
LEMMA OverRows ==
    ASSUME NEW f, NEW g
    PROVE  /\ DOMAIN Over(f, g) = DOMAIN f \cup DOMAIN g
           /\ \A r \in DOMAIN f : Over(f, g)[r] = f[r]
           /\ \A r \in DOMAIN g \ DOMAIN f : Over(f, g)[r] = g[r]
           /\ Over(f, g) = [r \in DOMAIN Over(f, g) |-> Over(f, g)[r]]
    BY DEF Over

\* An overlay of two functions into S is a function into S.
LEMMA OverType ==
    ASSUME NEW S, NEW f, NEW g, f \in [DOMAIN f -> S], g \in [DOMAIN g -> S]
    PROVE  Over(f, g) \in [DOMAIN Over(f, g) -> S]
    BY DEF Over

\* What a write changes: the write set of its own transaction, and only by the
\* rows it writes, none of which another transaction holds.
LEMMA WriteEffect ==
    ASSUME NEW t \in Tx, NEW f, Shaped, Write(t, f)
    PROVE  /\ db' = db
           /\ ws'[t] = Over(f, ws[t])
           /\ \A u \in Tx \ {t} : ws'[u] = ws[u]
           /\ \A u \in Tx \ {t} : DOMAIN ws[u] \cap DOMAIN f = {}
           /\ DOMAIN ws' = Tx
    BY DEF Write, Shaped, Free

\* Row locks stay exclusive when a statement takes new ones.
LEMMA WriteExclusive ==
    ASSUME NEW t \in Tx, NEW f, Shaped, Exclusive, Write(t, f)
    PROVE  Exclusive'
<1>1. /\ ws'[t] = Over(f, ws[t])
      /\ \A u \in Tx \ {t} : ws'[u] = ws[u] /\ DOMAIN ws[u] \cap DOMAIN f = {}
  BY WriteEffect
<1>2. DOMAIN Over(f, ws[t]) = DOMAIN f \cup DOMAIN ws[t]
  BY OverRows
<1>3. ASSUME NEW a \in Tx, NEW b \in Tx, a # b
      PROVE  DOMAIN ws'[a] \cap DOMAIN ws'[b] = {}
  <2>1. DOMAIN ws[a] \cap DOMAIN ws[b] = {}
    BY <1>3 DEF Exclusive
  <2>2. CASE a = t
    BY <1>1, <1>2, <1>3, <2>1, <2>2
  <2>3. CASE b = t
    BY <1>1, <1>2, <1>3, <2>1, <2>3
  <2>4. CASE a # t /\ b # t
    BY <1>1, <2>1, <2>4
  <2> QED BY <2>2, <2>3, <2>4
<1> QED BY <1>3 DEF Exclusive

\* The end of a transaction empties its write set and leaves the others alone.
LEMMA EndEffect ==
    ASSUME NEW t \in Tx, Shaped, Commit(t) \/ Rollback(t)
    PROVE  /\ ws'[t] = NoRows
           /\ DOMAIN ws'[t] = {}
           /\ \A u \in Tx \ {t} : ws'[u] = ws[u]
           /\ DOMAIN ws' = Tx
    BY DEF Commit, Rollback, Shaped, NoRows

\* Row locks stay exclusive when a transaction ends.
LEMMA EndExclusive ==
    ASSUME NEW t \in Tx, Shaped, Exclusive, Commit(t) \/ Rollback(t)
    PROVE  Exclusive'
<1>1. /\ DOMAIN ws'[t] = {}
      /\ \A u \in Tx \ {t} : ws'[u] = ws[u]
  BY EndEffect
<1> QED BY <1>1 DEF Exclusive
=============================================================================
