-------------------------- MODULE MCSubscriptions --------------------------
EXTENDS Subscriptions, TLC

CONSTANTS t1, t2

Slots(d1, d2) == (t1 :> d1) @@ (t2 :> d2)

\* The expiry job against itself, on a plan without a panel.
Jobs(duration, customer) ==
    [duty |-> Slots({"expiry"}, {"expiry"}), kind |-> "manual", duration |-> duration,
     sold |-> {1}, fresh |-> {}, customer |-> customer, bans |-> FALSE, panelAdmin |-> FALSE,
     last |-> duration]

\* The owner is banned and let in again.
Banned(duration) == [Jobs(duration, "reachable") EXCEPT !.bans = TRUE]

\* One scan at a time.
Alone(jobs) == [jobs EXCEPT !.duty = Slots({"expiry"}, {})]

\* The stock job.
Stock == [Jobs(2, "reachable") EXCEPT !.duty = Slots({"stock"}, {})]

\* Usage alerts overlap the sync.
Usage(kind) ==
    [Jobs(2, "reachable") EXCEPT !.duty = Slots({"usage"}, {"sync"}), !.kind = kind, !.last = 0]

\* A purchase or renewal overlaps a job; the customer has blocked the bot.
Renewal(kind, job) ==
    [Jobs(2, "blocked") EXCEPT !.duty = Slots({"buy"}, {job}), !.kind = kind, !.fresh = {2}]

\* The same one at a time, with an admin who removes and extends accounts.
Removed(kind) ==
    [Renewal(kind, "sync") EXCEPT !.duty = Slots({"buy", "sync"}, {}), !.panelAdmin = TRUE,
                                  !.last = 1]

Flaky == Alone(Jobs(2, "flaky"))

MCSetup == {Jobs(2, "reachable"), Jobs(4, "blocked"), Alone(Banned(2)), Flaky, Stock,
            Usage("marzban"), Removed("marzban"), Removed("xui"),
            Renewal("marzban", "sync"), Renewal("xui", "expiry")}
=============================================================================
