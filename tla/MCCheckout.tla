----------------------------- MODULE MCCheckout -----------------------------
EXTENDS Checkout, TLC

CONSTANTS t1, t2, t3

MCUser == {"alice", "bob"}
MCReferrer == [alice |-> None, bob |-> "alice"]
MCFunds == [alice |-> 2, bob |-> 2]

Manual == {<<"manual", FALSE>>}
Offers == {<<"manual", FALSE>>, <<"manual", TRUE>>, <<"panel", FALSE>>}
AllOffers == {"manual", "panel"} \X BOOLEAN

AllOps == {"wallet", "gateway", "card", "receipt", "approve", "reject", "verify", "expire"}

\* One worker that does everything; two workers that do everything.
Serial == (t1 :> AllOps)
Pair == (t1 :> AllOps) @@ (t2 :> AllOps)

\* Two customer-bot workers taking wallet orders, and the housekeeping job.
BuyersAndJob == (t1 :> {"wallet"}) @@ (t2 :> {"wallet"}) @@ (t3 :> {"expire"})

\* One worker sells by card and approves; the other runs the job, then sells.
ReviewAndJob == (t1 :> {"card", "receipt", "approve"}) @@ (t2 :> {"expire", "wallet"})

\* Two admins review what a customer paid by card.
TwoReviews == (t1 :> {"card", "receipt", "approve"}) @@ (t2 :> {"approve"})
=============================================================================
