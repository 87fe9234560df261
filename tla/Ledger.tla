------------------------------- MODULE Ledger -------------------------------
(***************************************************************************)
(* What the wallet service promises (services/wallet.py, "atomic           *)
(* credit/debit with a balance ledger"), without sessions, locks or rows:  *)
(* every user has a statement, a sequence of entries [amount, after], and  *)
(* the balance is its closing line.  A step only continues statements; it  *)
(* never changes or drops an entry and never leaves a line below zero.     *)
(***************************************************************************)
EXTENDS Integers, Sequences

CONSTANT User

VARIABLES balance, statement

ledger == <<balance, statement>>

Entry == [amount : Int, after : Nat]

\* s is continued by r: r repeats s and may add entries.
Continues(s, r) == /\ Len(s) <= Len(r)
                   /\ \A i \in 1..Len(s) : r[i] = s[i]

\* What the line before entry i of statement s says.
Before(s, i) == IF i = 1 THEN 0 ELSE s[i - 1].after

\* Every entry is its amount away from the line before it.
Adds(s) == \A i \in 1..Len(s) : s[i].after = Before(s, i) + s[i].amount

Closing(s) == IF s = <<>> THEN 0 ELSE s[Len(s)].after

Init == /\ balance = [u \in User |-> 0]
        /\ statement = [u \in User |-> <<>>]

\* The statements of some users are continued in one step.
Post == \A u \in User : /\ statement'[u] \in Seq(Entry)
                        /\ Continues(statement[u], statement'[u])
                        /\ Adds(statement'[u])
                        /\ balance'[u] = Closing(statement'[u])

Spec == Init /\ [][Post]_ledger
=============================================================================
