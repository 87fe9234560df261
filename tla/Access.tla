------------------------------- MODULE Access -------------------------------
(***************************************************************************)
(* Who may act in the back office: the accounts and roles the migration and *)
(* the CLI create, the dashboard's login, refresh and logout (services/auth, *)
(* api/v1/deps) and the admin bot's middleware and guards.  BackOffice adds  *)
(* what the admins do then.                                                  *)
(*                                                                           *)
(* An action is one statement of a handler.  A handler reads its admin once;  *)
(* what the operator changes with SQL after that, it does not see: it is late. *)
(***************************************************************************)
EXTENDS RowStore, Naturals, FiniteSets

CONSTANTS Admin,
          Token,        \* refresh token ids
          Setup,        \* deployments: what runs, and settings (see SetupType)
          MaxCrashes,   \* bound on crashes
          Null          \* no admin, no token, no object

Role == {"super_admin", "admin", "support", "accountant"}

\* What an admin can do to the objects BackOffice has.
Act == {"ban", "reply", "close", "broadcast"}

AuthOp == {"login", "refresh", "logout", "create admin"}

\* duty: the operations of each transaction slot; members: roles of the admins
\* the CLI has created; bootstrap: the admins of BOOTSTRAP_SUPER_ADMINS;
\* linked: the CLI's admins whose telegram_id was filled in; tokens: bound on the
\* tokens; sql: what the operator may do, and may time do.  The rest is
\* BackOffice's.
AccessSetup(s) ==
    /\ s.duty \in [Tx -> SUBSET (AuthOp \cup {"api", "bot", "start", "ticket", "dispatch"})]
    /\ s.members \in UNION {[S -> Role] : S \in SUBSET Admin}
    /\ s.bootstrap \subseteq Admin \ DOMAIN s.members
    /\ s.linked \subseteq DOMAIN s.members
    /\ s.tokens \subseteq Token
    /\ s.sql \subseteq {"deactivate", "demote", "lapse"}

ASSUME AccessAssumption ==
    /\ \A s \in Setup : AccessSetup(s)
    /\ MaxCrashes \in Nat
    /\ Null \notin Admin \cup Token

\* The pool of connections (db/session.py) has a size.
ASSUME PoolAssumption == IsFiniteSet(Tx)

VARIABLES setup,        \* the deployment, chosen at the start
          sess,         \* sess[t]: the handler running in transaction t
          held,         \* held[a]: refresh tokens delivered to admin a
          access,       \* admins with an access token that has not expired
          parent,       \* parent[n]: the token that n was exchanged for
          lapsed,       \* refresh tokens past their expires_at
          dialogue,     \* dialogue[a]: the act, and its object, the bot awaits a's text for
          crashes       \* handlers killed so far

clients == <<held, access, lapsed>>
accessVars == <<setup, held, access, parent, lapsed, dialogue, crashes>>
-----------------------------------------------------------------------------
A(a) == <<"admin", a>>
RT(n) == <<"token", n>>

\* permissions.py, as far as Act needs it.
Permission == [ban |-> "users.ban", reply |-> "tickets.reply", close |-> "tickets.reply",
               broadcast |-> "broadcast.send"]

RolePermissions == [super_admin |-> {"users.ban", "tickets.reply", "broadcast.send"},
                    admin       |-> {"users.ban", "tickets.reply", "broadcast.send"},
                    support     |-> {"tickets.reply"},
                    accountant  |-> {}]

NewAdmin(role) == [role |-> role, active |-> TRUE, password |-> TRUE, telegram |-> FALSE]

\* Migration 0002: the bootstrap admins have no password and no email.
Seeded == [r \in {A(a) : a \in setup.bootstrap} |->
              [role |-> "super_admin", active |-> TRUE, password |-> FALSE, telegram |-> TRUE]]

Members == [r \in {A(a) : a \in DOMAIN setup.members} |->
               [NewAdmin(setup.members[r[2]]) EXCEPT !.telegram = r[2] \in setup.linked]]

Idle == [op |-> "none", pc |-> "idle", who |-> Null, arg |-> Null, n |-> Null,
         seen |-> Null, late |-> FALSE, todo |-> {}]

NoDialogue == [act |-> "none", arg |-> Null]

AccessInit ==
    /\ ws = [t \in Tx |-> NoRows]
    /\ sess = [t \in Tx |-> Idle]
    /\ held = [a \in Admin |-> {}]
    /\ access = {}
    /\ parent = [n \in Token |-> Null]
    /\ lapsed = {}
    /\ dialogue = [a \in Admin |-> NoDialogue]
    /\ crashes = 0
-----------------------------------------------------------------------------
At(t, pc) == sess[t].pc = pc

Goto(t, pc) == sess' = [sess EXCEPT ![t].pc = pc]

Begin(t, op) == At(t, "idle") /\ op \in setup.duty[t]

\* A handler of op on the object arg, up to its first write.
Enter(t, op, who, arg, pc) ==
    sess' = [sess EXCEPT ![t] = [Idle EXCEPT !.op = op, !.who = who, !.arg = arg, !.pc = pc]]

Close(t) == sess' = [sess EXCEPT ![t] = Idle]

\* Tokens anybody has: a token id is taken as soon as it is generated.
Issued == {n \in Token : \/ RT(n) \in DOMAIN db
                         \/ \E t \in Tx : RT(n) \in DOMAIN ws[t]}

\* The admin a, as transaction t reads it, exists and is active.
Active(t, a) == Exists(t, A(a)) /\ Row(t, A(a)).active
-----------------------------------------------------------------------------
\* authenticate: an unknown email, an inactive account and a wrong or missing
\* password are refused alike.
Login(t, a) ==
    /\ Begin(t, "login")
    /\ Active(t, a) /\ Row(t, A(a)).password
    /\ Enter(t, "login", a, Null, "issue")
    /\ UNCHANGED <<store, accessVars>>

\* Mutant of Usable: a revoked token is as good as any.
UsableIfKnown(t, n) == Exists(t, RT(n)) /\ n \notin lapsed

Usable(t, n) == Exists(t, RT(n)) /\ ~Row(t, RT(n)).revoked /\ n \notin lapsed

\* refresh up to the new pair: token and admin are read without a lock.  Any
\* token a client was ever given may be sent, and sent again.
Refresh(t, a, n) ==
    /\ Begin(t, "refresh")
    /\ n \in held[a]
    /\ Usable(t, n) /\ Active(t, a)
    /\ Enter(t, "refresh", a, n, "issue")
    /\ UNCHANGED <<store, accessVars>>

\* _issue_pair: the flush of the new token, at a login with last_login_at.
Issue(t) ==
    /\ At(t, "issue")
    /\ \E n \in setup.tokens \ Issued :
          LET token == Is(RT(n), [admin |-> sess[t].who, revoked |-> FALSE, replaced |-> Null])
              admin == Is(A(sess[t].who), Row(t, A(sess[t].who)))
          IN /\ Write(t, IF sess[t].op = "login" THEN Over(token, admin) ELSE token)
             /\ parent' = [parent EXCEPT ![n] = sess[t].arg]
             /\ sess' = [sess EXCEPT ![t].n = n,
                            ![t].pc = IF sess[t].op = "login" THEN "commit" ELSE "rotate"]
    /\ UNCHANGED <<setup, clients, dialogue, crashes>>

\* Mutant of Rotate: the old token is linked, and not revoked.
RotateLinked(t) ==
    /\ At(t, "rotate")
    /\ Write(t, Is(RT(sess[t].arg), [Row(t, RT(sess[t].arg)) EXCEPT !.replaced = sess[t].n]))
    /\ Goto(t, "commit")
    /\ UNCHANGED accessVars

\* The old token is revoked and linked; waits for another refresh or a logout of
\* it, and overwrites what that has written.
Rotate(t) ==
    /\ At(t, "rotate")
    /\ Write(t, Is(RT(sess[t].arg),
                   [Row(t, RT(sess[t].arg)) EXCEPT !.revoked = TRUE, !.replaced = sess[t].n]))
    /\ Goto(t, "commit")
    /\ UNCHANGED accessVars

\* logout, which asks for no access token; a revoked token is left alone.
Logout(t, a, n) ==
    /\ Begin(t, "logout")
    /\ n \in held[a]
    /\ Exists(t, RT(n)) /\ ~Row(t, RT(n)).revoked
    /\ Enter(t, "logout", a, n, "revoke")
    /\ UNCHANGED <<store, accessVars>>

Revoke(t) ==
    /\ At(t, "revoke")
    /\ Write(t, Is(RT(sess[t].arg), [Row(t, RT(sess[t].arg)) EXCEPT !.revoked = TRUE]))
    /\ Goto(t, "commit")
    /\ UNCHANGED accessVars

\* The end of a login, refresh or logout; its answer may be lost.
FinishAuth(t) ==
    /\ At(t, "commit") /\ sess[t].op \in {"login", "refresh", "logout"}
    /\ Commit(t)
    /\ Close(t)
    /\ \/ /\ sess[t].op # "logout"
          /\ held' = [held EXCEPT ![sess[t].who] = @ \cup {sess[t].n}]
          /\ access' = access \cup {sess[t].who}
       \/ UNCHANGED <<held, access>>
    /\ UNCHANGED <<setup, parent, lapsed, dialogue, crashes>>

\* The CLI: create-admin looks for the email, then inserts at the commit.
CreateAdmin(t, a) ==
    /\ Begin(t, "create admin")
    /\ a \notin setup.bootstrap /\ ~Exists(t, A(a))
    /\ Enter(t, "create admin", Null, a, "insert admin")
    /\ UNCHANGED <<store, accessVars>>

InsertAdmin(t) ==
    /\ At(t, "insert admin")
    /\ IF Exists(t, A(sess[t].arg))
       THEN Rollback(t) /\ Close(t)
       ELSE /\ \E role \in Role : Write(t, Is(A(sess[t].arg), NewAdmin(role)))
            /\ Goto(t, "commit")
    /\ UNCHANGED accessVars
-----------------------------------------------------------------------------
\* Mutant of Held: the permissions of a role are those of its admin class.
HeldAny(t, a) == UNION {RolePermissions[r] : r \in Role}

\* permission_codes, read from the database and not from the token.
Held(t, a) == RolePermissions[Row(t, A(a)).role]

\* Mutant of MayEnter: the account's is_active is not looked at.
MayEnterAnyway(t, a) == Exists(t, A(a))

\* get_current_admin and AdminAuthMiddleware let an admin in.
MayEnter(t, a) == Active(t, a)

\* An API request: a valid access token, then require_permission.  No route
\* sends a broadcast.
Request(t, a, act, arg) ==
    /\ Begin(t, "api") /\ act # "broadcast"
    /\ a \in access
    /\ MayEnter(t, a) /\ Permission[act] \in Held(t, a)
    /\ Enter(t, "api", a, arg, act)
    /\ UNCHANGED <<store, accessVars>>

\* A button of the bot: guards.ensure, then the act itself, or the question for
\* the text of it, whose object is in the dialogue.
Press(t, a, act, arg) ==
    /\ Begin(t, "bot")
    /\ MayEnter(t, a) /\ Row(t, A(a)).telegram
    /\ Permission[act] \in Held(t, a)
    /\ IF act \in {"reply", "broadcast"}
       THEN /\ dialogue' = [dialogue EXCEPT ![a] = [act |-> act, arg |-> arg]]
            /\ sess' = sess
       ELSE /\ Enter(t, "bot", a, arg, act)
            /\ UNCHANGED dialogue
    /\ UNCHANGED <<store, setup, held, access, parent, lapsed, crashes>>

\* The text.  The handlers of a dialogue's last step do not ask guards.ensure
\* again, and close the dialogue before they do anything.
Answer(t, a) ==
    /\ Begin(t, "bot")
    /\ dialogue[a] # NoDialogue
    /\ MayEnter(t, a) /\ Row(t, A(a)).telegram
    /\ Enter(t, "answer", a, dialogue[a].arg, dialogue[a].act)
    /\ dialogue' = [dialogue EXCEPT ![a] = NoDialogue]
    /\ UNCHANGED <<store, setup, held, access, parent, lapsed, crashes>>

\* The operator, with SQL: no route and no command does it.
Dismiss(a) ==
    /\ "deactivate" \in setup.sql
    /\ A(a) \in DOMAIN db /\ db[A(a)].active
    /\ \A t \in Tx : A(a) \notin DOMAIN ws[t]
    /\ db' = [db EXCEPT ![A(a)].active = FALSE]
    /\ sess' = [t \in Tx |-> IF sess[t].who = a THEN [sess[t] EXCEPT !.late = TRUE] ELSE sess[t]]
    /\ UNCHANGED <<ws, accessVars>>

Demote(a) ==
    /\ "demote" \in setup.sql
    /\ A(a) \in DOMAIN db /\ db[A(a)].role # "accountant"
    /\ \A t \in Tx : A(a) \notin DOMAIN ws[t]
    /\ db' = [db EXCEPT ![A(a)].role = "accountant"]
    /\ sess' = [t \in Tx |-> IF sess[t].who = a THEN [sess[t] EXCEPT !.late = TRUE] ELSE sess[t]]
    /\ UNCHANGED <<ws, accessVars>>

\* 30 minutes, and 14 days.
ExpireAccess(a) ==
    /\ a \in access /\ "lapse" \in setup.sql
    /\ access' = access \ {a}
    /\ UNCHANGED <<store, setup, sess, held, parent, lapsed, dialogue, crashes>>

Lapse(n) ==
    /\ RT(n) \in DOMAIN db /\ n \notin lapsed /\ "lapse" \in setup.sql
    /\ lapsed' = lapsed \cup {n}
    /\ UNCHANGED <<store, setup, sess, held, access, parent, dialogue, crashes>>
-----------------------------------------------------------------------------
ContinueAuth(t) ==
    Issue(t) \/ Rotate(t) \/ Revoke(t) \/ FinishAuth(t) \/ InsertAdmin(t)

AccessNext ==
    \/ \E a \in Admin : Dismiss(a) \/ Demote(a) \/ ExpireAccess(a)
    \/ \E n \in Token : Lapse(n)
    \/ \E t \in Tx :
          \/ \E a \in Admin :
                \/ Login(t, a) \/ CreateAdmin(t, a)
                \/ \E n \in Token : Refresh(t, a, n) \/ Logout(t, a, n)
          \/ ContinueAuth(t)
-----------------------------------------------------------------------------
Tokens == {n \in Token : RT(n) \in DOMAIN db}
Live(n) == n \in Tokens /\ ~db[RT(n)].revoked

\* "on refresh the old token is revoked and linked to its replacement"
\* (SECURITY.md): whatever refreshes and logouts of one token overlap, no token
\* works that has been exchanged, and it leads to one it was exchanged for.
ExchangedIsRevoked ==
    \A n \in Tokens : parent[n] # Null =>
        /\ ~Live(parent[n])
        /\ db[RT(parent[n])].replaced # Null
        /\ parent[db[RT(parent[n])].replaced] = parent[n]

\* The login a token goes back to.
Root == LET first[n \in Token] == IF parent[n] = Null THEN n ELSE first[parent[n]] IN first

\* Where no two refreshes overlap, a login has at most one live token, whatever
\* answers are lost; so a logout with it ends the session.
OneSessionPerLogin ==
    Cardinality({t \in Tx : "refresh" \in setup.duty[t]}) <= 1 =>
        \A m, n \in Token : Live(m) /\ Live(n) /\ Root[m] = Root[n] => m = n

\* A handler about to act, in an admin's name.
Acting(t) == sess[t].op \in {"api", "bot", "answer"} /\ sess[t].pc \in Act

\* An admin who was dismissed does nothing more: no access token, no bot dialogue
\* and no refresh token works, except in a handler already past the check.
DismissedIsOut ==
    \A t \in Tx : Acting(t) \/ At(t, "issue") =>
        sess[t].late \/ db[A(sess[t].who)].active

\* "reads the admin's live permissions from the DB (not just the token claims)"
\* (SECURITY.md).  Only the last step of a dialogue of the bot does not.
ActsAreAllowed ==
    \A t \in Tx : Acting(t) /\ sess[t].op # "answer" =>
        \/ sess[t].late
        \/ Permission[sess[t].pc] \in RolePermissions[db[A(sess[t].who)].role]
=============================================================================
