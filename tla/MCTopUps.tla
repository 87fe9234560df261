------------------------------ MODULE MCTopUps ------------------------------
EXTENDS TopUps, TLC

CONSTANTS t1, t2

Slots(d1, d2) == (t1 :> d1) @@ (t2 :> d2)

\* Card transfers and their review, one handler at a time.
Cards == [duty |-> Slots({"receipt", "approve", "reject"}, {}), provider |-> "zarinpal",
          card |-> TRUE, linked |-> {}, orders |-> {}, undeliverable |-> {},
          topups |-> {1, 2}]

\* Gateway payments, one handler at a time, next to the payment of an order.
Gateway(provider) ==
    [duty |-> Slots({"charge", "callback", "poll", "approve"}, {}), provider |-> provider,
     card |-> FALSE, linked |-> {2}, orders |-> {2}, undeliverable |-> {}, topups |-> {1}]

\* The same, when the order cannot be delivered.
Poisoned == [Gateway("nextpay") EXCEPT !.undeliverable = {2}]

\* The poller overlaps the customer's own handler, or a callback.
Charging == [Gateway("zarinpal") EXCEPT !.duty = Slots({"charge"}, {"poll"})]
CallingBack(provider) ==
    [Gateway(provider) EXCEPT !.duty = Slots({"poll"}, {"callback"}), !.linked = {1, 2},
                              !.orders = {}, !.topups = {}]

\* All but an overlap at ZarinPal, which confirms a payment twice.
MCSetup == {Cards, Gateway("zarinpal"), Poisoned, Charging, CallingBack("idpay")}

CallbackAndPoll == {CallingBack("zarinpal")}
=============================================================================
