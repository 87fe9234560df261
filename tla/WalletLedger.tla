---------------------------- MODULE WalletLedger ----------------------------
(***************************************************************************)
(* The wallet service: services/wallet.py.  A transaction makes one or     *)
(* more wallet calls (a purchase debits the buyer and may credit the       *)
(* referrer) and then commits, or is rolled back at any point.  Each call  *)
(* is the statements the code sends, in order: find the wallet, insert it  *)
(* if missing, lock it, apply the amount.                                  *)
(*                                                                         *)
(* A wallet row is [balance, log]; log holds the wallet_transactions rows  *)
(* of that wallet, inserted in the flush that updates the balance.  The    *)
(* CHECK (balance >= 0) of the table is left out: TypeOK shows that the    *)
(* service never relies on it.                                             *)
(***************************************************************************)
EXTENDS RowStore, Integers, Sequences

CONSTANTS User,         \* the wallet owners
          Amount,       \* the amounts calls are made with; below 0 is a debit
          MaxLog,       \* bound: no call is made on a wallet with more log entries
          MaxCalls      \* bound: wallet calls of one transaction

ASSUME UserAssumption == User # {}
ASSUME AmountAssumption == Amount \subseteq Int

VARIABLE sess           \* sess[t]: where transaction t stands

vars == <<db, ws, sess>>

Entry == [amount : Int, after : Nat]
Wallet == [balance : Nat, log : Seq(Entry)]
PC == {"open", "find", "insert", "lock", "apply"}

\* user, amount and seen are the arguments and the locked balance of the call.
Session == [pc : PC, user : User, amount : Int, seen : Int, calls : Nat]

\* A session between two wallet calls.
Open(calls) == [pc |-> "open", user |-> CHOOSE u \in User : TRUE,
                amount |-> 0, seen |-> 0, calls |-> calls]

Init == /\ db = NoRows
        /\ ws = [t \in Tx |-> NoRows]
        /\ sess = [t \in Tx |-> Open(0)]

At(t, pc) == sess[t].pc = pc

Goto(t, pc) == sess' = [sess EXCEPT ![t].pc = pc]

\* The call returns or raises; its caller goes on.
Return(t) == sess' = [sess EXCEPT ![t] = Open(sess[t].calls)]

\* The transaction is over.
Close(t) == sess' = [sess EXCEPT ![t] = Open(0)]

\* The bound on logs; calls already under way may still add their entries.
Room(u) == \A t \in Tx : Exists(t, u) => Len(Row(t, u).log) <= MaxLog

\* credit, debit and adjust: an amount of 0 is refused before any statement;
\* the caller may still commit what the transaction did before.
Call(t, u, a) ==
    /\ At(t, "open")
    /\ sess[t].calls < MaxCalls
    /\ a # 0 => Room(u)
    /\ LET calls == sess[t].calls + 1
       IN sess' = [sess EXCEPT ![t] =
             IF a = 0 THEN Open(calls)
             ELSE [pc |-> "find", user |-> u, amount |-> a, seen |-> 0, calls |-> calls]]
    /\ UNCHANGED store

\* get_or_create_wallet: the SELECT.
Find(t) ==
    /\ At(t, "find")
    /\ Goto(t, IF Exists(t, sess[t].user) THEN "lock" ELSE "insert")
    /\ UNCHANGED store

\* Mutant of Insert: an upsert without the UNIQUE constraint.
InsertAgain(t) ==
    /\ At(t, "insert")
    /\ Write(t, Is(sess[t].user, [balance |-> 0, log |-> <<>>]))
    /\ Goto(t, "lock")

\* get_or_create_wallet: the INSERT, of a wallet nobody inserted meanwhile.
Insert(t) ==
    /\ At(t, "insert")
    /\ ~Exists(t, sess[t].user)
    /\ Write(t, Is(sess[t].user, [balance |-> 0, log |-> <<>>]))
    /\ Goto(t, "lock")

\* Mutant of Lock: the wallet is read without FOR UPDATE.
LockNothing(t) ==
    /\ At(t, "lock")
    /\ sess' = [sess EXCEPT ![t].pc = "apply",
                            ![t].seen = Row(t, sess[t].user).balance]
    /\ UNCHANGED store

\* _locked_wallet: SELECT ... FOR UPDATE returns the row as it is once locked.
Lock(t) ==
    /\ At(t, "lock")
    /\ LockRow(t, sess[t].user)
    /\ sess' = [sess EXCEPT ![t].pc = "apply",
                            ![t].seen = Row(t, sess[t].user).balance]

\* Mutant of Apply: the balance is not checked.
ApplyUnchecked(t) ==
    LET s == sess[t]
        after == s.seen + s.amount
        entry == [amount |-> s.amount, after |-> after]
    IN /\ At(t, "apply")
       /\ Write(t, Is(s.user, [balance |-> after,
                               log |-> Append(Row(t, s.user).log, entry)]))
       /\ Return(t)

\* The rest of credit and debit: the new balance is computed from the one the
\* lock returned, and flushed together with the ledger entry.
Apply(t) ==
    LET s == sess[t]
        after == s.seen + s.amount
        old == Row(t, s.user)
    IN /\ At(t, "apply")
       /\ after >= 0
       /\ Write(t, Is(s.user,
             [balance |-> after,
              log |-> Append(old.log, [amount |-> s.amount, after |-> after])]))
       /\ Return(t)

\* Mutant of Refuse: the call is tried again instead.
RefuseRetried(t) ==
    /\ At(t, "apply")
    /\ sess[t].seen + sess[t].amount < 0
    /\ Goto(t, "lock")
    /\ UNCHANGED store

\* InsufficientBalanceError: the lock stays, the caller decides what follows.
Refuse(t) ==
    /\ At(t, "apply")
    /\ sess[t].seen + sess[t].amount < 0
    /\ Return(t)
    /\ UNCHANGED store

Finish(t) ==
    /\ At(t, "open")
    /\ sess[t].calls > 0
    /\ Commit(t)
    /\ Close(t)

\* An exception, a lost connection or a crash of the process.
Abort(t) ==
    /\ sess[t].calls > 0
    /\ Rollback(t)
    /\ Close(t)

\* The UNIQUE constraint on wallets.user_id fires: IntegrityError, rollback.
Duplicate(t) == At(t, "insert") /\ Exists(t, sess[t].user) /\ Abort(t)

WaitsFor(t, u) == /\ sess[t].pc \in {"insert", "lock"}
                  /\ u # t
                  /\ sess[t].user \in DOMAIN ws[u]

\* PostgreSQL aborts a transaction of every cycle of waiting transactions.
DeadlockVictim(t) ==
    /\ \E S \in SUBSET Tx : t \in S /\ \A u \in S : \E w \in S : WaitsFor(u, w)
    /\ Abort(t)

Step(t) == Find(t) \/ Lock(t) \/ Apply(t) \/ Refuse(t) \/ Insert(t)

Next == \E t \in Tx :
            \/ \E u \in User, a \in Amount : Call(t, u, a)
            \/ Step(t)
            \/ Finish(t)
            \/ Abort(t)
            \/ Duplicate(t)
            \/ DeadlockVictim(t)

Spec == Init /\ [][Next]_vars

(***************************************************************************)
(* Fairness.  The event loop runs a session whose statement has been       *)
(* answered; the lock queue of a row is first come, first served, so a     *)
(* statement that can proceed again and again does; a session whose calls  *)
(* are done commits; the deadlock detector is never switched off.          *)
(***************************************************************************)
Fairness == \A t \in Tx : /\ WF_vars(Find(t)) /\ WF_vars(Apply(t)) /\ WF_vars(Refuse(t))
                          /\ SF_vars(Insert(t)) /\ SF_vars(Lock(t))
                          /\ WF_vars(Finish(t))
                          /\ WF_vars(Duplicate(t)) /\ WF_vars(DeadlockVictim(t))

FairSpec == Spec /\ Fairness
-----------------------------------------------------------------------------
L == INSTANCE Ledger WITH
        balance   <- [u \in User |-> IF u \in DOMAIN db THEN db[u].balance ELSE 0],
        statement <- [u \in User |-> IF u \in DOMAIN db THEN db[u].log ELSE <<>>]

\* Types: balances are never below zero, in committed rows and in uncommitted
\* ones, without the CHECK constraint of the table (models/user.py Wallet).
TypeOK ==
    /\ DOMAIN db \subseteq User /\ db \in [DOMAIN db -> Wallet]
    /\ DOMAIN ws = Tx
    /\ \A t \in Tx : DOMAIN ws[t] \subseteq User /\ ws[t] \in [DOMAIN ws[t] -> Wallet]
    /\ sess \in [Tx -> Session]

Reconciled(w) == L!Adds(w.log) /\ w.balance = L!Closing(w.log)

\* Every wallet equals the sum of its ledger, line by line: two transactions
\* that credit and debit one wallet at once lose no amount.
LedgerReconciles == \A u \in DOMAIN db : Reconciled(db[u])

\* The rows, locks and sessions together implement the atomic ledger.
ImplementsLedger == L!Spec

\* A wallet call never hangs: it is applied, refused or rolled back, even when
\* transactions lock two wallets in opposite order.
EveryCallEnds == \A t \in Tx : sess[t].pc # "open" ~> sess[t].pc = "open"
=============================================================================
