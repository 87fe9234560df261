------------------------------ MODULE RowStore ------------------------------
(***************************************************************************)
(* PostgreSQL at READ COMMITTED, as far as the services use it (external   *)
(* to the repository: db/session.py only opens sessions on it).            *)
(*                                                                         *)
(* A row is a key of the partial function db.  A transaction keeps the     *)
(* rows it has written, or locked with SELECT ... FOR UPDATE, in its write *)
(* set ws[t]; those are exactly the rows it holds a row lock on.  Plain    *)
(* SELECTs read Visible(t) without waiting.  The key of a row contains the *)
(* columns of a UNIQUE constraint, so a second INSERT of a key waits for   *)
(* the first one and then finds the row there.                             *)
(***************************************************************************)
CONSTANT Tx             \* the database connections (one transaction each)

VARIABLES db,           \* committed rows
          ws            \* ws[t]: the rows written or locked by transaction t

store == <<db, ws>>

NoRows == [r \in {} |-> r]

\* The rows of f, and those of g that f does not have.
Over(f, g) == [r \in DOMAIN f \cup DOMAIN g |-> IF r \in DOMAIN f THEN f[r] ELSE g[r]]

\* One row.
Is(r, v) == [s \in {r} |-> v]

\* What a statement of transaction t reads: its own writes, then committed rows.
Visible(t) == Over(ws[t], db)

\* The same for one row.
Exists(t, r) == r \in DOMAIN ws[t] \cup DOMAIN db
Row(t, r) == IF r \in DOMAIN ws[t] THEN ws[t][r] ELSE db[r]

\* No other transaction holds a lock on a row of S.
Free(t, S) == \A u \in Tx \ {t} : DOMAIN ws[u] \cap S = {}

\* INSERT or UPDATE of the rows of f; waits for their locks.
Write(t, f) == /\ Free(t, DOMAIN f)
               /\ ws' = [ws EXCEPT ![t] = Over(f, ws[t])]
               /\ db' = db

\* SELECT ... FOR UPDATE of one row.
LockRow(t, r) == Write(t, Is(r, Row(t, r)))

Commit(t) == /\ db' = Visible(t)
             /\ ws' = [ws EXCEPT ![t] = NoRows]

Rollback(t) == /\ db' = db
               /\ ws' = [ws EXCEPT ![t] = NoRows]

\* Two transactions never hold the lock of the same row.
Exclusive == \A t, u \in Tx : t # u => DOMAIN ws[t] \cap DOMAIN ws[u] = {}
=============================================================================
