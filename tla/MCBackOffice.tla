---------------------------- MODULE MCBackOffice ----------------------------
EXTENDS BackOffice, TLC

CONSTANTS t1, t2, root, member

Slots(d1, d2) == (t1 :> d1) @@ (t2 :> d2)

\* Dashboard sessions of one admin, one request after another.
Sessions ==
    [duty |-> Slots({"login", "refresh", "logout"}, {}), members |-> member :> "admin",
     bootstrap |-> {}, linked |-> {}, tokens |-> {1, 2, 3}, sql |-> {"deactivate", "lapse"},
     users |-> {1, 2}, known |-> {}, unreachable |-> {}, opened |-> <<>>]

\* Refreshes of a token overlap each other, or a logout.
Overlapping ==
    [Sessions EXCEPT !.duty = Slots({"login", "refresh"}, {"refresh", "logout"}), !.sql = {}]

\* Two admins are created at once.
Cli == [Sessions EXCEPT !.duty = Slots({"create admin", "login"}, {"create admin"}),
                        !.members = <<>>, !.bootstrap = {root}, !.sql = {}]

\* An admin acts in the dashboard, or in the bot, while the operator demotes and
\* dismisses admins.
Dashboard ==
    [Sessions EXCEPT !.duty = Slots({"login", "api", "ticket"}, {}), !.sql = {"deactivate", "demote", "lapse"},
                     !.tokens = {1}, !.known = {1}, !.opened = 1 :> 1]
Bot == [Sessions EXCEPT !.duty = Slots({"bot"}, {}), !.members = member :> "support",
                        !.bootstrap = {root}, !.linked = {member},
                        !.sql = {"deactivate", "demote"}, !.known = {1}, !.opened = 1 :> 1]

\* The first messages of a new customer arrive at once.
Customers ==
    [Sessions EXCEPT !.duty = Slots({"start"}, {"ticket"}), !.sql = {}, !.known = {1},
                     !.users = {1, 2, 3}]

\* A ticket, its customer and the staff, one handler after another.
Support == [Bot EXCEPT !.duty = Slots({"bot", "ticket", "start"}, {}), !.bootstrap = {}, !.sql = {}]

\* A broadcast, while users come and are banned.
Fanout == [Bot EXCEPT !.duty = Slots({"bot", "start"}, {"dispatch"}), !.members = <<>>,
                      !.linked = {}, !.sql = {}, !.opened = <<>>, !.unreachable = {2}]

MCSetup == {Sessions, Overlapping, Cli, Dashboard, Bot, Customers, Support, Fanout}

\* Customer and staff reply at the same time.
ReplyingAtOnce == {[Support EXCEPT !.duty = Slots({"ticket"}, {"bot"})]}
=============================================================================
