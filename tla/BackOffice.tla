----------------------------- MODULE BackOffice -----------------------------
(***************************************************************************)
(* What customers and admins do to each other besides selling: the first    *)
(* contact and its referral (user_service, referral_service), bans, support  *)
(* tickets (ticket_service) and broadcasts (broadcast_service), each with    *)
(* the handlers of both bots and the API.  Who may act is Access.            *)
(***************************************************************************)
EXTENDS Access

CONSTANTS User, Ticket, Broadcast      \* Telegram accounts, and ids

\* users: bound on the users; known: those at the start; unreachable: those who
\* have blocked the bot; opened: the customers of the tickets there are at the start.
ASSUME BackOfficeAssumption ==
    /\ IsFiniteSet(User) /\ Null \notin User
    /\ \A s \in Setup : /\ s.known \subseteq s.users /\ s.users \subseteq User
                        /\ s.unreachable \subseteq User
                        /\ s.opened \in UNION {[K -> s.known] : K \in SUBSET Ticket}

VARIABLES queue,        \* send_broadcast tasks that are not acknowledged
          inbox         \* inbox[b][u]: copies of broadcast b that u has received

vars == <<db, ws, sess, accessVars, queue, inbox>>
rest == <<accessVars, queue, inbox>>
-----------------------------------------------------------------------------
U(u) == <<"user", u>>
W(u) == <<"wallet", u>>
R(u) == <<"referral", u>>               \* of the referred user u
T(k) == <<"ticket", k>>
B(b) == <<"broadcast", b>>

NewUser(u) == Over(Is(U(u), [banned |-> FALSE, referrer |-> Null]), Is(W(u), 0))

\* last: who has had the last word: the sender of the last message, or the staff,
\* when it has set the ticket to answered by hand since.
TicketStatus == {"open", "pending", "answered", "closed"}

NewTicket(u) == [user |-> u, status |-> "open", last |-> "user"]

NewBroadcast == [status |-> "queued", sent |-> 0]

Init ==
    /\ setup \in Setup
    /\ AccessInit
    /\ db = [r \in DOMAIN Seeded \cup DOMAIN Members \cup {T(k) : k \in DOMAIN setup.opened}
                   \cup {U(u) : u \in setup.known} \cup {W(u) : u \in setup.known} |->
                CASE r[1] = "admin" -> Over(Seeded, Members)[r]
                  [] r[1] = "ticket" -> NewTicket(setup.opened[r[2]])
                  [] OTHER -> NewUser(r[2])[r]]
    /\ queue = {}
    /\ inbox = [b \in Broadcast |-> [u \in User |-> 0]]

\* Every handler but those of a broadcast ends here.
Finish(t) ==
    /\ At(t, "commit") /\ sess[t].op \notin {"login", "refresh", "logout", "dispatch"}
    /\ Commit(t)
    /\ Close(t)
    /\ UNCHANGED rest

\* A killed process, a lost connection.  Celery keeps the task.
Crash(t) ==
    /\ ~At(t, "idle")
    /\ crashes < MaxCrashes
    /\ crashes' = crashes + 1
    /\ Rollback(t)
    /\ Close(t)
    /\ UNCHANGED <<setup, held, access, parent, lapsed, dialogue, queue, inbox>>

\* A DomainError or IntegrityError: nothing is written.
Refused(t) == Rollback(t) /\ Close(t)
-----------------------------------------------------------------------------
\* Customers.  SessionUserMiddleware reads the user, or creates one; a banned one
\* gets no further.  The handlers: /start with a referrer's code, a new ticket,
\* a reply to a ticket.  Their buttons stay in the chat.
Contact(t, u, op, arg, pc) ==
    /\ Begin(t, op) /\ u \in setup.users
    /\ \/ /\ Exists(t, U(u)) /\ ~Row(t, U(u)).banned
          /\ sess' = [sess EXCEPT ![t] =
                [Idle EXCEPT !.op = op, !.who = u, !.arg = arg, !.pc = pc,
                             !.seen = Row(t, U(u)).referrer]]
       \/ ~Exists(t, U(u)) /\ pc = "refer" /\ Enter(t, op, u, arg, "insert user")
    /\ UNCHANGED <<store, rest>>

\* Mutant of InsertUser: the wallet is left to a later message.
InsertUserOnly(t) ==
    /\ At(t, "insert user")
    /\ IF Exists(t, U(sess[t].who))
       THEN Refused(t)
       ELSE /\ Write(t, Is(U(sess[t].who), [banned |-> FALSE, referrer |-> Null]))
            /\ Goto(t, "refer")
    /\ UNCHANGED rest

\* UNIQUE telegram_id: of two first messages, one fails.
InsertUser(t) ==
    /\ At(t, "insert user")
    /\ IF Exists(t, U(sess[t].who))
       THEN Refused(t)
       ELSE Write(t, NewUser(sess[t].who)) /\ Goto(t, "refer")
    /\ UNCHANGED rest

\* Mutant of Referable: an earlier referrer is replaced.
ReferableAgain(t) == sess[t].arg # Null /\ sess[t].arg # sess[t].who

\* start_with_ref: the user, as the middleware read it, has no referrer, and the
\* code is another user's.
Referable(t) ==
    /\ sess[t].seen = Null
    /\ sess[t].arg # Null /\ sess[t].arg # sess[t].who

Refer(t) ==
    LET u == sess[t].who
    IN /\ At(t, "refer")
       /\ IF Referable(t) /\ Exists(t, U(sess[t].arg))
          THEN /\ Write(t, Is(U(u), [Row(t, U(u)) EXCEPT !.referrer = sess[t].arg]))
               /\ Goto(t, "ensure referral")
          ELSE Goto(t, "commit") /\ UNCHANGED store
       /\ UNCHANGED rest

\* ensure_referral, with the user's row locked: one referral per referred user.
EnsureReferral(t) ==
    /\ At(t, "ensure referral")
    /\ IF Exists(t, R(sess[t].who))
       THEN UNCHANGED store
       ELSE Write(t, Is(R(sess[t].who), sess[t].arg))
    /\ Goto(t, "commit")
    /\ UNCHANGED rest

\* set_banned.
Ban(t) ==
    /\ At(t, "ban")
    /\ IF Exists(t, U(sess[t].arg))
       THEN /\ \E banned \in BOOLEAN :
                  Write(t, Is(U(sess[t].arg), [Row(t, U(sess[t].arg)) EXCEPT !.banned = banned]))
            /\ Goto(t, "commit")
       ELSE Refused(t)
    /\ UNCHANGED rest
-----------------------------------------------------------------------------
\* Tickets.
CreateTicket(t) ==
    /\ At(t, "create ticket")
    /\ \E k \in Ticket :
          /\ \A v \in Tx : ~Exists(v, T(k))
          /\ Write(t, Is(T(k), NewTicket(sess[t].who)))
    /\ Goto(t, "commit")
    /\ UNCHANGED rest

\* The sender of a reply.
Sender(t) == IF sess[t].op = "ticket" THEN "user" ELSE "admin"

\* reply and set_status read the ticket; a closed one takes no reply.
ReadTicket(t) ==
    LET k == sess[t].arg
    IN /\ sess[t].pc \in {"reply", "close"}
       /\ IF \/ ~Exists(t, T(k))
             \/ At(t, "reply") /\ Row(t, T(k)).status = "closed"
          THEN Refused(t)
          ELSE /\ sess' = [sess EXCEPT ![t].seen = Row(t, T(k)).status,
                              ![t].pc = IF At(t, "reply") THEN "post" ELSE "set status"]
               /\ UNCHANGED store
       /\ UNCHANGED rest

\* Mutant of ReplyStatus: a reply of either side is an answer.
AnyReplyAnswers(sender) == "answered"

\* The status a reply sets.
ReplyStatus(sender) == IF sender = "user" THEN "pending" ELSE "answered"

\* An UPDATE writes the status only if it is not the one that was read.
Changed(t, status) ==
    IF status = sess[t].seen THEN Row(t, T(sess[t].arg)).status ELSE status

\* The flush of a reply: the ticket's row, then the message.
Post(t) ==
    /\ At(t, "post")
    /\ Write(t, Is(T(sess[t].arg), [Row(t, T(sess[t].arg)) EXCEPT
                                       !.status = Changed(t, ReplyStatus(Sender(t))),
                                       !.last = Sender(t)]))
    /\ Goto(t, "commit")
    /\ UNCHANGED rest

\* The bots close a ticket; the API takes every status.
SetStatus(t) ==
    /\ At(t, "set status")
    /\ \E status \in IF sess[t].op = "api" THEN TicketStatus ELSE {"closed"} :
          Write(t, Is(T(sess[t].arg),
                      [Row(t, T(sess[t].arg)) EXCEPT
                          !.status = Changed(t, status),
                          !.last = IF status = "answered" THEN "admin" ELSE @]))
    /\ Goto(t, "commit")
    /\ UNCHANGED rest
-----------------------------------------------------------------------------
\* Broadcasts.
Compose(t) ==
    /\ At(t, "broadcast")
    /\ \E b \in Broadcast :
          /\ \A v \in Tx : ~Exists(v, B(b))
          /\ Write(t, Is(B(b), NewBroadcast))
          /\ sess' = [sess EXCEPT ![t].pc = "publish", ![t].arg = b]
    /\ UNCHANGED rest

Publish(t) ==
    /\ At(t, "publish")
    /\ Commit(t)
    /\ Goto(t, "enqueue")
    /\ UNCHANGED rest

\* send_broadcast.delay, after the commit; a crash in between loses it.
Enqueue(t) ==
    /\ At(t, "enqueue")
    /\ queue' = queue \cup {sess[t].arg}
    /\ Close(t)
    /\ UNCHANGED <<store, accessVars, inbox>>

\* dispatch: nobody looks at the status, and sending is not committed before done.
Dispatch(t, b) ==
    /\ Begin(t, "dispatch")
    /\ b \in queue /\ \A v \in Tx : sess[v].op = "dispatch" => sess[v].arg # b
    /\ Write(t, Is(B(b), [Row(t, B(b)) EXCEPT !.status = "sending"]))
    /\ Enter(t, "dispatch", Null, b, "audience")
    /\ UNCHANGED rest

\* _audience, for all users.
Audience(t) ==
    /\ At(t, "audience")
    /\ sess' = [sess EXCEPT ![t].pc = "send", ![t].n = 0,
                   ![t].todo = {u \in User : Exists(t, U(u)) /\ ~Row(t, U(u)).banned}]
    /\ UNCHANGED <<store, rest>>

\* _send_one, which catches what Telegram answers.
SendOne(t) ==
    /\ At(t, "send")
    /\ \E u \in sess[t].todo :
          LET ok == u \notin setup.unreachable
          IN /\ inbox' = IF ok THEN [inbox EXCEPT ![sess[t].arg][u] = @ + 1] ELSE inbox
             /\ sess' = [sess EXCEPT ![t].todo = @ \ {u}, ![t].n = IF ok THEN @ + 1 ELSE @]
    /\ UNCHANGED <<store, accessVars, queue>>

\* Mutant of Tally: the failed ones are counted.
TallyAll(t) ==
    /\ At(t, "send") /\ sess[t].todo = {}
    /\ Write(t, Is(B(sess[t].arg), [status |-> "done", sent |-> Cardinality(User)]))
    /\ Goto(t, "commit")
    /\ UNCHANGED rest

Tally(t) ==
    /\ At(t, "send") /\ sess[t].todo = {}
    /\ Write(t, Is(B(sess[t].arg), [status |-> "done", sent |-> sess[t].n]))
    /\ Goto(t, "commit")
    /\ UNCHANGED rest

\* Mutant of FinishDispatch: the task is acknowledged without a commit.
DropDispatch(t) ==
    /\ At(t, "commit") /\ sess[t].op = "dispatch"
    /\ Refused(t)
    /\ queue' = queue \ {sess[t].arg}
    /\ UNCHANGED <<accessVars, inbox>>

\* The commit, then Celery's acknowledgement.
FinishDispatch(t) ==
    /\ At(t, "commit") /\ sess[t].op = "dispatch"
    /\ Commit(t)
    /\ queue' = queue \ {sess[t].arg}
    /\ Close(t)
    /\ UNCHANGED <<accessVars, inbox>>
-----------------------------------------------------------------------------
Continue(t) ==
    \/ ContinueAuth(t) /\ UNCHANGED <<queue, inbox>>
    \/ Finish(t)
    \/ InsertUser(t) \/ Refer(t) \/ EnsureReferral(t) \/ Ban(t)
    \/ CreateTicket(t) \/ ReadTicket(t) \/ Post(t) \/ SetStatus(t)
    \/ Compose(t) \/ Publish(t) \/ Enqueue(t)
    \/ Audience(t) \/ SendOne(t) \/ Tally(t) \/ FinishDispatch(t)

Object(act) == CASE act = "ban" -> User
                 [] act \in {"reply", "close"} -> Ticket
                 [] act = "broadcast" -> {Null}

Start(t) ==
    \/ \E a \in Admin : Answer(t, a) /\ UNCHANGED <<queue, inbox>>
    \/ \E a \in Admin, act \in Act : \E arg \in Object(act) :
          \/ Request(t, a, act, arg) /\ UNCHANGED <<queue, inbox>>
          \/ Press(t, a, act, arg) /\ UNCHANGED <<queue, inbox>>
    \/ \E u \in User :
          \/ \E ref \in User \cup {Null} : Contact(t, u, "start", ref, "refer")
          \/ Contact(t, u, "ticket", Null, "create ticket")
          \/ \E k \in Ticket : Exists(t, T(k)) /\ Row(t, T(k)).user = u
                               /\ Contact(t, u, "ticket", k, "reply")
    \/ \E b \in Broadcast : Dispatch(t, b)

Next ==
    \/ AccessNext /\ UNCHANGED <<queue, inbox>>
    \/ \E t \in Tx : Start(t) \/ Continue(t) \/ Crash(t)

\* A worker takes the next task, and a handler goes on when its lock is there.
Fairness ==
    \A t \in Tx : /\ \A b \in Broadcast : SF_vars(Dispatch(t, b))
                  /\ SF_vars(Continue(t))

Spec == Init /\ [][Next]_vars /\ Fairness
-----------------------------------------------------------------------------
RowType == [admin |-> [role : Role, active : BOOLEAN, password : BOOLEAN, telegram : BOOLEAN],
            token |-> [admin : Admin, revoked : BOOLEAN, replaced : Token \cup {Null}],
            user |-> [banned : BOOLEAN, referrer : User \cup {Null}],
            wallet |-> {0}, referral |-> User,
            ticket |-> [user : User, status : TicketStatus, last : {"user", "admin"}],
            broadcast |-> [status : {"queued", "sending", "done"}, sent : 0..Cardinality(User)]]

\* Types; a broadcast is never seen while it is being sent, and a user never
\* without a wallet.
TypeOK ==
    /\ setup \in Setup
    /\ \A f \in {db} \cup {ws[t] : t \in Tx} : \A r \in DOMAIN f : f[r] \in RowType[r[1]]
    /\ \A b \in Broadcast : B(b) \in DOMAIN db => db[B(b)].status # "sending"
    /\ \A u \in User : U(u) \in DOMAIN db => W(u) \in DOMAIN db
    /\ queue \subseteq Broadcast
    /\ \A a \in Admin : held[a] \subseteq Tokens /\ dialogue[a].act \in Act \cup {"none"}

\* "A referral is created when an invited user first contacts the bot"
\* (referral_service.py): the reward goes to the referrer the user shows, nobody
\* refers himself, and a second link changes nothing.
ReferralAgrees ==
    \A u \in User : U(u) \in DOMAIN db =>
        LET referrer == db[U(u)].referrer
        IN /\ referrer # u
           /\ referrer # Null <=> R(u) \in DOMAIN db
           /\ referrer # Null => db[R(u)] = referrer

\* "User reply -> pending (needs staff)" (ticket_service.py): a ticket whose last
\* message is the customer's is in the staff's list, or closed, unless the staff
\* has itself set it to answered after the message.
UserReplyNeedsStaff ==
    \A k \in Ticket : T(k) \in DOMAIN db /\ db[T(k)].last = "user" =>
        db[T(k)].status # "answered"

\* A broadcast reaches a user once, and again only for a worker that died; what
\* is counted as sent was received.
SentIsReceived ==
    \A b \in Broadcast :
        /\ \A u \in User : inbox[b][u] <= 1 + crashes
        /\ B(b) \in DOMAIN db =>
              db[B(b)].sent <= Cardinality({u \in User : inbox[b][u] > 0})

\* "Enqueue fan-out on the worker (survives bot restarts)" (bot/admin/handlers/
\* broadcast.py): where a worker runs, a broadcast that is queued is done in the
\* end, however often the worker dies.
BroadcastGoesOut ==
    "dispatch" \in UNION {setup.duty[t] : t \in Tx} =>
        \A b \in Broadcast : b \in queue ~> B(b) \in DOMAIN db /\ db[B(b)].status = "done"
=============================================================================
