------------------------ MODULE BackOfficeWorkProofs ------------------------
(***************************************************************************)
(* Proofs about the work of the back office: broadcasts (QueueInv),        *)
(* referral links (ReferralInv), tickets (DeskInv) and logins (LoginInv).  *)
(* Each invariant adds to Inv of BackOfficeProofs what the sessions at      *)
(* work know of the rows concerned; the steps of all others come down to   *)
(* Moves, their effect on a session and the tables they write.             *)
(***************************************************************************)
EXTENDS BackOfficeProofs
-----------------------------------------------------------------------------
\* The steps of t before its first write, and every other of it.
Reads(t) ==
    \/ \E a \in Admin : \/ Login(t, a) \/ CreateAdmin(t, a)
                        \/ \E n \in Token : Refresh(t, a, n) \/ Logout(t, a, n)
                        \/ Answer(t, a)
                        \/ \E act \in Act : \E arg \in Object(act) :
                              Request(t, a, act, arg) \/ Press(t, a, act, arg)
    \/ \E u \in User :
          \/ \E ref \in User \cup {Null} : Contact(t, u, "start", ref, "refer")
          \/ Contact(t, u, "ticket", Null, "create ticket")
          \/ \E k \in Ticket : Contact(t, u, "ticket", k, "reply")

\* An idle session that reads, and becomes another.
Entry(t, z) ==
    /\ sess[t].pc = "idle" /\ sess' = [sess EXCEPT ![t] = z] /\ UNCHANGED <<db, ws>>
    /\ z.op \notin {"none", "dispatch"} /\ z.pc # "enqueue"
    /\ z.op = "start" => \/ z.pc = "insert user" /\ z.seen = Null
                         \/ /\ z.pc = "refer" /\ Exists(t, U(z.who))
                            /\ z.seen = Row(t, U(z.who)).referrer
    /\ z.op # "start" => z.pc \notin {"insert user", "refer", "ensure referral"}
    /\ z.pc \notin {"post", "set status", "publish"}

\* A session of the staff or of the API.
LEMMA EntryBegun ==
    ASSUME Inv, NEW t \in Tx, NEW op, NEW who, NEW arg, NEW pc, At(t, "idle"),
           sess' = [sess EXCEPT ![t] = Begun(op, who, arg, pc)], UNCHANGED store,
           op \in AuthOp \cup Staff, pc \in {"issue", "revoke", "insert admin"} \cup Act
    PROVE  Entry(t, Begun(op, who, arg, pc))
<1>1. Begun(op, who, arg, pc).op = op /\ Begun(op, who, arg, pc).pc = pc
  BY DEF Begun, Idle
<1> QED BY <1>1 DEF Entry, At, store, AuthOp, Staff, Act

\* Every handler begins so, or asks for a text first.
LEMMA ReadsEnter ==
    ASSUME Inv, NEW t \in Tx, Reads(t)
    PROVE  \/ \E z : Entry(t, z)
           \/ UNCHANGED <<db, ws, sess>>
<1>1. ASSUME NEW a \in Admin, Login(t, a) PROVE \E z : Entry(t, z)
  <2>1. /\ At(t, "idle") /\ sess' = [sess EXCEPT ![t] = Begun("login", a, Null, "issue")]
        /\ UNCHANGED store
    BY <1>1 DEF Login, Begin, Enter, Begun
  <2> QED BY <2>1, EntryBegun DEF AuthOp
<1>2. ASSUME NEW a \in Admin, CreateAdmin(t, a) PROVE \E z : Entry(t, z)
  <2>1. /\ At(t, "idle")
        /\ sess' = [sess EXCEPT ![t] = Begun("create admin", Null, a, "insert admin")]
        /\ UNCHANGED store
    BY <1>2 DEF CreateAdmin, Begin, Enter, Begun
  <2> QED BY <2>1, EntryBegun DEF AuthOp
<1>3. ASSUME NEW a \in Admin, NEW n \in Token, Refresh(t, a, n) PROVE \E z : Entry(t, z)
  <2>1. /\ At(t, "idle") /\ sess' = [sess EXCEPT ![t] = Begun("refresh", a, n, "issue")]
        /\ UNCHANGED store
    BY <1>3 DEF Refresh, Begin, Enter, Begun
  <2> QED BY <2>1, EntryBegun DEF AuthOp
<1>4. ASSUME NEW a \in Admin, NEW n \in Token, Logout(t, a, n) PROVE \E z : Entry(t, z)
  <2>1. /\ At(t, "idle") /\ sess' = [sess EXCEPT ![t] = Begun("logout", a, n, "revoke")]
        /\ UNCHANGED store
    BY <1>4 DEF Logout, Begin, Enter, Begun
  <2> QED BY <2>1, EntryBegun DEF AuthOp
<1>5. ASSUME NEW a \in Admin, Answer(t, a) PROVE \E z : Entry(t, z)
  <2>1. /\ At(t, "idle") /\ UNCHANGED store /\ dialogue[a] # NoDialogue
        /\ sess' = [sess EXCEPT ![t] = Begun("answer", a, dialogue[a].arg, dialogue[a].act)]
    BY <1>5 DEF Answer, Begin, Enter, Begun
  <2>2. dialogue[a].act \in Act
    BY <2>1 DEF Inv, World, Act
  <2> QED BY <2>1, <2>2, EntryBegun DEF Staff
<1>6. ASSUME NEW a \in Admin, NEW act \in Act, NEW arg \in Object(act), Request(t, a, act, arg)
      PROVE  \E z : Entry(t, z)
  <2>1. /\ At(t, "idle") /\ UNCHANGED store
        /\ sess' = [sess EXCEPT ![t] = Begun("api", a, arg, act)]
    BY <1>6 DEF Request, Begin, Enter, Begun
  <2> QED BY <2>1, EntryBegun DEF Staff
<1>7. ASSUME NEW a \in Admin, NEW act \in Act, NEW arg \in Object(act), Press(t, a, act, arg)
      PROVE  (\E z : Entry(t, z)) \/ UNCHANGED <<db, ws, sess>>
  <2>1. /\ At(t, "idle") /\ UNCHANGED store
        /\ \/ sess' = [sess EXCEPT ![t] = Begun("bot", a, arg, act)]
           \/ sess' = sess
    BY <1>7 DEF Press, Begin, Enter, Begun
  <2> QED BY <2>1, EntryBegun DEF Staff, store
<1>8. ASSUME NEW u \in User, NEW op, NEW arg, NEW pc, Contact(t, u, op, arg, pc),
             \/ op = "start" /\ pc = "refer"
             \/ op = "ticket" /\ pc \in {"create ticket", "reply"}
      PROVE  \E z : Entry(t, z)
  <2>1. At(t, "idle") /\ UNCHANGED store
    BY <1>8 DEF Contact, Begin
  <2>2. \/ /\ Exists(t, U(u))
           /\ sess' = [sess EXCEPT ![t] = [Idle EXCEPT !.op = op, !.who = u, !.arg = arg, !.pc = pc,
                                                       !.seen = Row(t, U(u)).referrer]]
        \/ pc = "refer" /\ sess' = [sess EXCEPT ![t] = Begun(op, u, arg, "insert user")]
    BY <1>8 DEF Contact, Enter, Begun
  <2>3. ASSUME NEW z, z.op = op, z.who = u, sess' = [sess EXCEPT ![t] = z],
               \/ pc = "refer" /\ z.pc = "insert user" /\ z.seen = Null
               \/ z.pc = pc /\ Exists(t, U(u)) /\ z.seen = Row(t, U(u)).referrer
        PROVE  \E y : Entry(t, y)
    <3>1. Entry(t, z)
      BY <1>8, <2>1, <2>3 DEF Entry, At, store
    <3> QED BY <3>1
  <2>4. CASE /\ Exists(t, U(u))
             /\ sess' = [sess EXCEPT ![t] = [Idle EXCEPT !.op = op, !.who = u, !.arg = arg, !.pc = pc,
                                                         !.seen = Row(t, U(u)).referrer]]
    <3> DEFINE z == [Idle EXCEPT !.op = op, !.who = u, !.arg = arg, !.pc = pc,
                                 !.seen = Row(t, U(u)).referrer]
    <3>1. z.op = op /\ z.who = u /\ z.pc = pc /\ z.seen = Row(t, U(u)).referrer
      BY DEF Idle
    <3>2. sess' = [sess EXCEPT ![t] = z]
      BY <2>4
    <3> HIDE DEF z
    <3> QED BY <2>3, <2>4, <3>1, <3>2
  <2>5. CASE pc = "refer" /\ sess' = [sess EXCEPT ![t] = Begun(op, u, arg, "insert user")]
    <3>1. LET z == Begun(op, u, arg, "insert user")
          IN z.op = op /\ z.who = u /\ z.pc = "insert user" /\ z.seen = Null
      BY DEF Begun, Idle
    <3> QED BY <2>3, <2>5, <3>1
  <2> QED BY <2>2, <2>4, <2>5
<1>9. ASSUME NEW a \in Admin,
             \E act \in Act : \E arg \in Object(act) : Request(t, a, act, arg) \/ Press(t, a, act, arg)
      PROVE  (\E z : Entry(t, z)) \/ UNCHANGED <<db, ws, sess>>
  BY <1>6, <1>7, <1>9
<1>10. ASSUME NEW u \in User,
              \/ \E ref \in User \cup {Null} : Contact(t, u, "start", ref, "refer")
              \/ Contact(t, u, "ticket", Null, "create ticket")
              \/ \E k \in Ticket : Contact(t, u, "ticket", k, "reply")
       PROVE  \E z : Entry(t, z)
  BY <1>8, <1>10
<1> QED BY <1>1, <1>2, <1>3, <1>4, <1>5, <1>9, <1>10 DEF Reads
-----------------------------------------------------------------------------
\* A step of t past its first: t closes or goes on to one of the statements next, and
\* ends its transaction or writes rows of the tables S.
Moves(t, next, S) ==
    /\ \A v \in Tx \ {t} : sess'[v] = sess[v] /\ ws'[v] = ws[v]
    /\ \/ sess'[t] = Idle
       \/ sess'[t].op = sess[t].op /\ sess'[t].pc \in next
    /\ \/ UNCHANGED <<db, ws>>
       \/ Rollback(t)
       \/ Commit(t) /\ sess[t].pc \in {"commit", "publish"}
       \/ \E f : Write(t, f) /\ \A r \in DOMAIN f : r[1] \in S

\* It suffices to look at the session and the rows of t.
LEMMA MovesIf ==
    ASSUME Inv, NEW t \in Tx, NEW z, NEW next, NEW S, sess' = [sess EXCEPT ![t] = z],
           z = Idle \/ (z.op = sess[t].op /\ z.pc \in next),
           \/ UNCHANGED store
           \/ Rollback(t)
           \/ Commit(t) /\ sess[t].pc \in {"commit", "publish"}
           \/ \E f : Write(t, f) /\ \A r \in DOMAIN f : r[1] \in S
    PROVE  Moves(t, next, S)
<1>1. sess'[t] = z /\ \A v \in Tx \ {t} : sess'[v] = sess[v]
  BY DEF Inv
<1>2. \A v \in Tx \ {t} : ws'[v] = ws[v]
  BY DEF store, Rollback, Commit, Write, Inv, StoreInv
<1> QED BY <1>1, <1>2 DEF Moves, store

\* The same for a step that only goes on to pc.
LEMMA GotoMoves ==
    ASSUME Inv, NEW t \in Tx, NEW pc \in PCs, NEW next, NEW S, Goto(t, pc), pc \in next,
           \/ UNCHANGED store
           \/ Commit(t) /\ sess[t].pc \in {"commit", "publish"}
           \/ \E f : Write(t, f) /\ \A r \in DOMAIN f : r[1] \in S
    PROVE  Moves(t, next, S)
<1> DEFINE z == [sess[t] EXCEPT !.pc = pc]
<1>1. z.op = sess[t].op /\ z.pc = pc
  BY Here, Gone
<1>2. sess' = [sess EXCEPT ![t] = z]
  BY DEF Goto
<1> HIDE DEF z
<1> QED BY <1>1, <1>2, MovesIf

\* And for one that closes.
LEMMA CloseMoves ==
    ASSUME Inv, NEW t \in Tx, NEW next, NEW S, Close(t),
           \/ UNCHANGED store
           \/ Rollback(t)
           \/ Commit(t) /\ sess[t].pc \in {"commit", "publish"}
    PROVE  Moves(t, next, S)
<1>1. sess' = [sess EXCEPT ![t] = Idle]
  BY DEF Close
<1> QED BY <1>1, MovesIf

\* The table of one row.
LEMMA OneTable ==
    ASSUME NEW r, NEW row
    PROVE  \A s \in DOMAIN Is(r, row) : s[1] = r[1]
    BY DEF Is

\* Login, refresh, logout and create-admin.
LEMMA AuthMoves ==
    ASSUME Inv, NEW t \in Tx, ContinueAuth(t)
    PROVE  /\ Moves(t, {"rotate", "commit"}, {"admin", "token"})
           /\ sess[t].op \in AuthOp
<1> DEFINE next == {"rotate", "commit"}
           S == {"admin", "token"}
           s == sess[t]
<1>1. s \in Session /\ Runs(s.op, s.pc)
  BY Here DEF Aware
<1>2. "commit" \in PCs /\ "rotate" \in PCs
  BY DEF PCs
<1>3. ASSUME Issue(t) PROVE Moves(t, next, S) /\ s.op \in AuthOp
  <2>1. PICK n \in setup.tokens \ Issued :
           LET token == Is(RT(n), [admin |-> s.who, revoked |-> FALSE, replaced |-> Null])
               admin == Is(A(s.who), Row(t, A(s.who)))
           IN /\ Write(t, IF s.op = "login" THEN Over(token, admin) ELSE token)
              /\ sess' = [sess EXCEPT ![t].n = n,
                             ![t].pc = IF s.op = "login" THEN "commit" ELSE "rotate"]
    BY <1>3 DEF Issue
  <2> DEFINE token == Is(RT(n), [admin |-> s.who, revoked |-> FALSE, replaced |-> Null])
             admin == Is(A(s.who), Row(t, A(s.who)))
             f == IF s.op = "login" THEN Over(token, admin) ELSE token
             pc == IF s.op = "login" THEN "commit" ELSE "rotate"
             z == [[s EXCEPT !.n = n] EXCEPT !.pc = pc]
  <2>2. \A r \in DOMAIN f : r[1] \in S
    <3>1. \A r \in DOMAIN token : r[1] = "token"
      BY OneTable, Keys
    <3>2. \A r \in DOMAIN admin : r[1] = "admin"
      BY OneTable, Keys
    <3> HIDE DEF token, admin
    <3>3. DOMAIN Over(token, admin) = DOMAIN token \cup DOMAIN admin
      BY OverRows
    <3> QED BY <3>1, <3>2, <3>3
  <2>3. Write(t, f)
    BY <2>1
  <2>4. z.op = s.op /\ z.pc \in next
    BY <1>1 DEF Session
  <2>5. sess' = [sess EXCEPT ![t] = z]
    BY <1>1, <2>1 DEF Inv, Session
  <2> HIDE DEF f, z
  <2>6. Moves(t, next, S)
    BY <2>2, <2>3, <2>4, <2>5, MovesIf
  <2>7. s.op \in AuthOp
    BY <1>1, <1>3 DEF Issue, At, Runs, Act, AuthOp
  <2> QED BY <2>6, <2>7
<1>4. ASSUME Rotate(t) \/ Revoke(t) PROVE Moves(t, next, S) /\ s.op \in AuthOp
  <2>1. Goto(t, "commit") /\ \E row : Write(t, Is(RT(s.arg), row))
    BY <1>4 DEF Rotate, Revoke
  <2>2. \E f : Write(t, f) /\ \A r \in DOMAIN f : r[1] \in S
    BY <2>1, OneTable, Keys
  <2>3. s.op \in AuthOp
    BY <1>1, <1>4 DEF Rotate, Revoke, At, Runs, Act, AuthOp
  <2> QED BY <1>2, <2>1, <2>2, <2>3, GotoMoves
<1>5. ASSUME FinishAuth(t) PROVE Moves(t, next, S) /\ s.op \in AuthOp
  <2>1. Commit(t) /\ Close(t) /\ s.pc = "commit" /\ s.op \in AuthOp
    BY <1>5 DEF FinishAuth, At, AuthOp
  <2> QED BY <2>1, CloseMoves
<1>6. ASSUME InsertAdmin(t) PROVE Moves(t, next, S) /\ s.op \in AuthOp
  <2>1. s.op \in AuthOp
    BY <1>1, <1>6 DEF InsertAdmin, At, Runs, Act, AuthOp
  <2>2. CASE Rollback(t) /\ Close(t)
    BY <2>1, <2>2, CloseMoves
  <2>3. CASE Goto(t, "commit") /\ \E role \in Role : Write(t, Is(A(s.arg), NewAdmin(role)))
    <3>1. \E f : Write(t, f) /\ \A r \in DOMAIN f : r[1] \in S
      BY <2>3, OneTable, Keys
    <3> QED BY <1>2, <2>1, <2>3, <3>1, GotoMoves
  <2> QED BY <1>6, <2>2, <2>3 DEF InsertAdmin
<1> QED BY <1>3, <1>4, <1>5, <1>6 DEF ContinueAuth

\* First contacts, referrals and bans.
LEMMA UserMoves ==
    ASSUME Inv, NEW t \in Tx, InsertUser(t) \/ Refer(t) \/ EnsureReferral(t) \/ Ban(t)
    PROVE  /\ Moves(t, {"refer", "ensure referral", "commit"}, {"user", "wallet", "referral"})
           /\ sess[t].pc \in {"insert user", "refer", "ensure referral", "ban"}
<1> DEFINE next == {"refer", "ensure referral", "commit"}
           S == {"user", "wallet", "referral"}
           u == sess[t].who
<1>1. next \subseteq PCs
  BY DEF PCs
<1>2. \A v : \A r \in DOMAIN NewUser(v) : r[1] \in S
  <2> SUFFICES ASSUME NEW v, NEW r \in DOMAIN NewUser(v) PROVE r[1] \in S
    OBVIOUS
  <2>1. r \in DOMAIN Is(U(v), [banned |-> FALSE, referrer |-> Null]) \cup DOMAIN Is(W(v), 0)
    BY OverRows DEF NewUser
  <2> QED BY <2>1, OneTable, Keys
<1>3. \A v, row : /\ \A r \in DOMAIN Is(U(v), row) : r[1] \in S
                  /\ \A r \in DOMAIN Is(R(v), row) : r[1] \in S
  BY OneTable, Keys
<1>4. ASSUME InsertUser(t) PROVE Moves(t, next, S)
  <2>1. \/ Rollback(t) /\ Close(t)
        \/ Goto(t, "refer") /\ \E f : Write(t, f) /\ \A r \in DOMAIN f : r[1] \in S
    BY <1>2, <1>4 DEF InsertUser, Refused
  <2> QED BY <1>1, <2>1, CloseMoves, GotoMoves
<1>5. ASSUME Refer(t) PROVE Moves(t, next, S)
  <2>1. \/ Goto(t, "commit") /\ UNCHANGED store
        \/ Goto(t, "ensure referral") /\ \E f : Write(t, f) /\ \A r \in DOMAIN f : r[1] \in S
    BY <1>3, <1>5 DEF Refer
  <2> QED BY <1>1, <2>1, GotoMoves
<1>6. ASSUME EnsureReferral(t) PROVE Moves(t, next, S)
  <2>1. Goto(t, "commit") /\ \/ UNCHANGED store
                             \/ \E f : Write(t, f) /\ \A r \in DOMAIN f : r[1] \in S
    BY <1>3, <1>6 DEF EnsureReferral
  <2> QED BY <1>1, <2>1, GotoMoves
<1>7. ASSUME Ban(t) PROVE Moves(t, next, S)
  <2>1. \/ Rollback(t) /\ Close(t)
        \/ Goto(t, "commit") /\ \E f : Write(t, f) /\ \A r \in DOMAIN f : r[1] \in S
    BY <1>3, <1>7 DEF Ban, Refused
  <2> QED BY <1>1, <2>1, CloseMoves, GotoMoves
<1>8. sess[t].pc \in {"insert user", "refer", "ensure referral", "ban"}
  BY DEF InsertUser, Refer, EnsureReferral, Ban, At
<1> QED BY <1>4, <1>5, <1>6, <1>7, <1>8

\* Tickets.
LEMMA TicketMoves ==
    ASSUME Inv, NEW t \in Tx, CreateTicket(t) \/ ReadTicket(t) \/ Post(t) \/ SetStatus(t)
    PROVE  /\ Moves(t, {"post", "set status", "commit"}, {"ticket"})
           /\ sess[t].pc \in {"create ticket", "reply", "close", "post", "set status"}
<1> DEFINE next == {"post", "set status", "commit"}
           S == {"ticket"}
           s == sess[t]
<1>1. "commit" \in PCs
  BY DEF PCs
<1>2. \A k, row : \A r \in DOMAIN Is(T(k), row) : r[1] \in S
  BY OneTable, Keys
<1>3. ASSUME CreateTicket(t) \/ Post(t) \/ SetStatus(t) PROVE Moves(t, next, S)
  <2>1. Goto(t, "commit") /\ \E f : Write(t, f) /\ \A r \in DOMAIN f : r[1] \in S
    BY <1>2, <1>3 DEF CreateTicket, Post, SetStatus
  <2> QED BY <1>1, <2>1, GotoMoves
<1>4. ASSUME ReadTicket(t) PROVE Moves(t, next, S)
  <2> DEFINE seen == Row(t, T(s.arg)).status
             pc == IF At(t, "reply") THEN "post" ELSE "set status"
             z == [[s EXCEPT !.seen = seen] EXCEPT !.pc = pc]
  <2>1. s \in Session
    BY Here
  <2>2. z.op = s.op /\ z.pc \in next
    BY <2>1 DEF Session
  <2>3. \/ Rollback(t) /\ Close(t)
        \/ sess' = [sess EXCEPT ![t] = z] /\ UNCHANGED store
    BY <1>4, <2>1 DEF ReadTicket, Refused, Inv, Session
  <2> HIDE DEF z
  <2> QED BY <2>2, <2>3, CloseMoves, MovesIf
<1>5. s.pc \in {"create ticket", "reply", "close", "post", "set status"}
  BY DEF CreateTicket, ReadTicket, Post, SetStatus, At
<1> QED BY <1>3, <1>4, <1>5

\* Broadcasts.
LEMMA BroadcastMoves ==
    ASSUME Inv, NEW t \in Tx,
           \/ Compose(t) \/ Publish(t) \/ Enqueue(t)
           \/ Audience(t) \/ SendOne(t) \/ Tally(t) \/ FinishDispatch(t)
    PROVE  /\ Moves(t, {"publish", "enqueue", "send", "commit"}, {"broadcast"})
           /\ sess[t].pc # "ensure referral"
<1> DEFINE next == {"publish", "enqueue", "send", "commit"}
           S == {"broadcast"}
           s == sess[t]
<1>1. "enqueue" \in PCs /\ "commit" \in PCs
  BY DEF PCs
<1>2. s \in Session /\ sess \in [Tx -> Session]
  BY Here DEF Inv
<1>3. \A b, row : \A r \in DOMAIN Is(B(b), row) : r[1] \in S
  BY OneTable, Keys
<1>4. ASSUME Compose(t) PROVE Moves(t, next, S)
  <2>1. PICK b \in Broadcast : /\ Write(t, Is(B(b), NewBroadcast))
                               /\ sess' = [sess EXCEPT ![t].pc = "publish", ![t].arg = b]
    BY <1>4 DEF Compose
  <2> DEFINE z == [[s EXCEPT !.arg = b] EXCEPT !.pc = "publish"]
  <2>2. sess' = [sess EXCEPT ![t] = z] /\ z.op = s.op /\ z.pc \in next
    BY <1>2, <2>1 DEF Session
  <2>3. \E f : Write(t, f) /\ \A r \in DOMAIN f : r[1] \in S
    BY <1>3, <2>1
  <2> HIDE DEF z
  <2> QED BY <2>2, <2>3, MovesIf
<1>5. ASSUME Publish(t) PROVE Moves(t, next, S)
  <2>1. Goto(t, "enqueue") /\ Commit(t) /\ s.pc = "publish"
    BY <1>5 DEF Publish, At
  <2> QED BY <1>1, <2>1, GotoMoves
<1>6. ASSUME Enqueue(t) PROVE Moves(t, next, S)
  BY <1>6, CloseMoves DEF Enqueue
<1>7. ASSUME Audience(t) PROVE Moves(t, next, S)
  <2> DEFINE todo == {u \in User : Exists(t, U(u)) /\ ~Row(t, U(u)).banned}
             z == [[[s EXCEPT !.n = 0] EXCEPT !.todo = todo] EXCEPT !.pc = "send"]
  <2>1. sess' = [sess EXCEPT ![t] = z] /\ UNCHANGED store
    BY <1>2, <1>7 DEF Audience, Session
  <2> HIDE DEF todo
  <2>2. z.op = s.op /\ z.pc \in next
    BY <1>2 DEF Session
  <2> HIDE DEF z
  <2> QED BY <2>1, <2>2, MovesIf
<1>8. ASSUME SendOne(t) PROVE Moves(t, next, S)
  <2>1. PICK u \in s.todo :
           sess' = [sess EXCEPT ![t].todo = @ \ {u},
                                ![t].n = IF u \notin setup.unreachable THEN @ + 1 ELSE @]
    BY <1>8 DEF SendOne
  <2> DEFINE m == IF u \notin setup.unreachable THEN s.n + 1 ELSE s.n
             z == [[s EXCEPT !.todo = s.todo \ {u}] EXCEPT !.n = m]
  <2>2. sess' = [sess EXCEPT ![t] = z]
    BY <1>2, <2>1 DEF Session
  <2> HIDE DEF m
  <2>3. z.op = s.op /\ z.pc \in next
    BY <1>2, <1>8 DEF Session, SendOne, At
  <2>4. UNCHANGED store
    BY <1>8 DEF SendOne
  <2> HIDE DEF z
  <2> QED BY <2>2, <2>3, <2>4, MovesIf
<1>9. ASSUME Tally(t) PROVE Moves(t, next, S)
  <2>1. Goto(t, "commit") /\ \E f : Write(t, f) /\ \A r \in DOMAIN f : r[1] \in S
    BY <1>3, <1>9 DEF Tally
  <2> QED BY <1>1, <2>1, GotoMoves
<1>10. ASSUME FinishDispatch(t) PROVE Moves(t, next, S)
  <2>1. Close(t) /\ Commit(t) /\ s.pc = "commit"
    BY <1>10 DEF FinishDispatch, At
  <2> QED BY <2>1, CloseMoves
<1>11. s.pc # "ensure referral"
  <2>1. SendOne(t) => s.pc = "send"
    BY DEF SendOne, At
  <2> QED BY <2>1 DEF Compose, Publish, Enqueue, Audience, Tally, FinishDispatch, At
<1> QED BY <1>4, <1>5, <1>6, <1>7, <1>8, <1>9, <1>10, <1>11

\* The end of a handler, and of a process.
LEMMA EndMoves ==
    ASSUME Inv, NEW t \in Tx, Finish(t) \/ Crash(t)
    PROVE  Moves(t, {}, {})
<1>1. Close(t) /\ (Rollback(t) \/ (Commit(t) /\ sess[t].pc \in {"commit", "publish"}))
  BY DEF Finish, Crash, At
<1> QED BY <1>1, CloseMoves

\* The worker's first step.
LEMMA DispatchMoves ==
    ASSUME Inv, NEW t \in Tx, NEW b \in Broadcast, Dispatch(t, b)
    PROVE  /\ sess' = [sess EXCEPT ![t] = Begun("dispatch", Null, b, "audience")]
           /\ \E f : Write(t, f) /\ \A r \in DOMAIN f : r[1] \in {"broadcast"}
           /\ sess[t].pc = "idle" /\ sess[t].op = "none" /\ ws[t] = NoRows
<1>1. /\ sess[t].pc = "idle"
      /\ sess' = [sess EXCEPT ![t] = Begun("dispatch", Null, b, "audience")]
      /\ \E row : Write(t, Is(B(b), row))
  BY DEF Dispatch, Begin, At, Enter, Begun
<1>2. sess[t].op = "none" /\ ws[t] = NoRows
  BY <1>1, Here DEF Aware, Runs, Act, Unwritten
<1>3. \A row : \A r \in DOMAIN Is(B(b), row) : r[1] \in {"broadcast"}
  BY OneTable, Keys
<1> QED BY <1>1, <1>2, <1>3

\* The steps of the system.
LEMMA Steps ==
    ASSUME Inv, [Next]_vars
    PROVE  \/ (\E a \in Admin : Dismiss(a) \/ Demote(a)) /\ UNCHANGED <<queue, inbox>>
           \/ UNCHANGED <<db, ws, sess, setup, crashes, queue, inbox>>
           \/ \E t \in Tx :
                 \/ /\ \/ Reads(t)
                       \/ ContinueAuth(t)
                       \/ InsertUser(t) \/ Refer(t) \/ EnsureReferral(t) \/ Ban(t)
                       \/ CreateTicket(t) \/ ReadTicket(t) \/ Post(t) \/ SetStatus(t)
                       \/ Compose(t) \/ Finish(t)
                    /\ UNCHANGED <<setup, crashes, queue, inbox>>
                 \/ Publish(t) \/ Enqueue(t)
                 \/ Audience(t) \/ SendOne(t) \/ Tally(t) \/ FinishDispatch(t)
                 \/ \E b \in Broadcast : Dispatch(t, b)
                 \/ Crash(t)
<1> DEFINE same == UNCHANGED <<setup, crashes, queue, inbox>>
<1>1. ASSUME NEW t \in Tx, ContinueAuth(t), UNCHANGED <<queue, inbox>> PROVE same
  BY <1>1 DEF ContinueAuth, Issue, Rotate, Revoke, FinishAuth, InsertAdmin, accessVars
<1>2. ASSUME NEW t \in Tx, NEW a \in Admin, UNCHANGED <<queue, inbox>>,
             \/ Login(t, a) \/ CreateAdmin(t, a)
             \/ \E n \in Token : Refresh(t, a, n) \/ Logout(t, a, n)
      PROVE  Reads(t) /\ same
  BY <1>2 DEF Reads, Login, CreateAdmin, Refresh, Logout, accessVars
<1>3. CASE AccessNext /\ UNCHANGED <<queue, inbox>>
  <2>1. ASSUME \/ \E a \in Admin : ExpireAccess(a)
               \/ \E n \in Token : Lapse(n)
        PROVE  UNCHANGED <<db, ws, sess, setup, crashes, queue, inbox>>
    BY <1>3, <2>1 DEF ExpireAccess, Lapse, store
  <2> QED BY <1>1, <1>2, <1>3, <2>1 DEF AccessNext
<1>4. CASE \E t \in Tx : Start(t)
  <2>1. ASSUME NEW t \in Tx, NEW a \in Admin, Answer(t, a) /\ UNCHANGED <<queue, inbox>>
        PROVE  Reads(t) /\ same
    BY <2>1 DEF Reads, Answer
  <2>2. ASSUME NEW t \in Tx, NEW a \in Admin, NEW act \in Act, NEW arg \in Object(act),
               Request(t, a, act, arg) \/ Press(t, a, act, arg), UNCHANGED <<queue, inbox>>
        PROVE  Reads(t) /\ same
    BY <2>2 DEF Reads, Request, Press, accessVars
  <2>3. ASSUME NEW t \in Tx, NEW u \in User,
               \/ \E ref \in User \cup {Null} : Contact(t, u, "start", ref, "refer")
               \/ Contact(t, u, "ticket", Null, "create ticket")
               \/ \E k \in Ticket : Contact(t, u, "ticket", k, "reply")
        PROVE  Reads(t) /\ same
    BY <2>3 DEF Reads, Contact, rest, accessVars
  <2> QED BY <1>4, <2>1, <2>2, <2>3 DEF Start
<1>5. CASE \E t \in Tx : Continue(t)
  <2>1. ASSUME NEW t \in Tx,
               \/ Finish(t) \/ InsertUser(t) \/ Refer(t) \/ EnsureReferral(t) \/ Ban(t)
               \/ CreateTicket(t) \/ ReadTicket(t) \/ Post(t) \/ SetStatus(t) \/ Compose(t)
        PROVE  same
    BY <2>1 DEF Finish, InsertUser, Refer, EnsureReferral, Ban, CreateTicket, ReadTicket, Post,
                SetStatus, Compose, rest, accessVars
  <2>2. PICK t \in Tx : Continue(t)
    BY <1>5
  <2>3. CASE ContinueAuth(t) /\ UNCHANGED <<queue, inbox>>
    BY <1>1, <2>3
  <2>4. CASE \/ Finish(t) \/ InsertUser(t) \/ Refer(t) \/ EnsureReferral(t) \/ Ban(t)
             \/ CreateTicket(t) \/ ReadTicket(t) \/ Post(t) \/ SetStatus(t) \/ Compose(t)
    BY <2>1, <2>4
  <2>5. CASE \/ Publish(t) \/ Enqueue(t)
             \/ Audience(t) \/ SendOne(t) \/ Tally(t) \/ FinishDispatch(t)
    BY <2>5
  <2> QED BY <2>2, <2>3, <2>4, <2>5 DEF Continue
<1>6. CASE UNCHANGED vars
  BY <1>6 DEF vars, accessVars
<1> QED BY <1>3, <1>4, <1>5, <1>6 DEF Next
-----------------------------------------------------------------------------
\* Who has received broadcast b.
Received(b) == {u \in User : inbox[b][u] > 0}

\* Nobody has more copies of a broadcast than workers have died for, but for the
\* worker that is sending it; what is counted was received.
CopyOk(b) ==
    /\ \A u \in User : inbox[b][u] <= crashes + 1
    /\ IF B(b) \in DOMAIN db
       THEN db[B(b)].sent <= Cardinality(Received(b))
       ELSE Received(b) = {}
    /\ b \in queue /\ (\A t \in Tx : sess[t].op = "dispatch" => sess[t].arg # b) =>
          \A u \in User : inbox[b][u] <= crashes

\* A broadcast is enqueued once, before anybody has received it.
EnqueueOk(t) ==
    sess[t].pc = "enqueue" =>
        /\ sess[t].arg \notin queue /\ Received(sess[t].arg) = {}
        /\ \A v \in Tx \ {t} : sess[v].pc = "enqueue" => sess[v].arg # sess[t].arg

\* Whom the worker of session t has still to send its broadcast to.
Before(t) == IF sess[t].pc = "audience" THEN User
             ELSE IF sess[t].pc = "send" THEN sess[t].todo ELSE {}

DispatchOk(t) ==
    sess[t].op = "dispatch" =>
        /\ sess[t].arg \in queue
        /\ \A u \in Before(t) : inbox[sess[t].arg][u] <= crashes
        /\ sess[t].pc = "send" => sess[t].n <= Cardinality(Received(sess[t].arg) \ sess[t].todo)
        /\ sess[t].pc = "commit" =>
              ws[t][B(sess[t].arg)].sent <= Cardinality(Received(sess[t].arg))

QueueInv ==
    /\ \A b \in Broadcast : CopyOk(b)
    /\ \A t \in Tx : EnqueueOk(t) /\ DispatchOk(t)

\* Counts of users.
LEMMA Counts ==
    /\ \A S \in SUBSET User : IsFiniteSet(S) /\ Cardinality(S) \in Nat
    /\ \A S, Q \in SUBSET User : S \subseteq Q => Cardinality(S) <= Cardinality(Q)
<1>1. ASSUME NEW S \in SUBSET User PROVE IsFiniteSet(S) /\ Cardinality(S) \in Nat
  BY BackOfficeAssumption, FS_Subset, FS_CardinalityType
<1>2. ASSUME NEW S \in SUBSET User, NEW Q \in SUBSET User, S \subseteq Q
      PROVE  Cardinality(S) <= Cardinality(Q)
  <2>1. S \in SUBSET Q /\ IsFiniteSet(Q)
    BY <1>1, <1>2
  <2> QED BY <2>1, FS_Subset
<1> QED BY <1>1, <1>2

\* Two workers send two broadcasts: each has written its own.
LEMMA OneWorker ==
    ASSUME Inv, NEW t \in Tx, NEW v \in Tx \ {t}, sess[t].op = "dispatch", sess[v].op = "dispatch"
    PROVE  sess[t].arg # sess[v].arg
<1>1. B(sess[t].arg) \in DOMAIN ws[t] /\ B(sess[v].arg) \in DOMAIN ws[v]
  BY DEF Inv, Aware, AwareOfBroadcasts
<1>2. DOMAIN ws[t] \cap DOMAIN ws[v] = {}
  BY DEF Inv, StoreInv, Exclusive
<1> QED BY <1>1, <1>2

\* What a transaction makes of the broadcasts by its commit.
LEMMA Published ==
    ASSUME Inv, NEW t \in Tx, Commit(t)
    PROVE  /\ \A b \in Broadcast : B(b) \in DOMAIN db' <=> B(b) \in DOMAIN ws[t] \cup DOMAIN db
           /\ \A b \in Broadcast : B(b) \in DOMAIN db /\ B(b) \notin DOMAIN ws[t] => db'[B(b)] = db[B(b)]
           /\ \A b \in Broadcast : B(b) \in DOMAIN ws[t] =>
                 /\ db'[B(b)] = ws[t][B(b)] /\ b = sess[t].arg
                 /\ sess[t].op = "dispatch" \/ sess[t].pc = "publish"
<1>1. \A b \in Broadcast : B(b) \in DOMAIN ws[t] =>
         /\ b = sess[t].arg
         /\ sess[t].op = "dispatch" \/ sess[t].pc = "publish"
  BY Here DEF Aware, AwareOfBroadcasts
<1>2. db' = Over(ws[t], db)
  BY DEF Commit, Visible
<1> QED BY <1>1, <1>2 DEF Over

\* Nothing happens to a broadcast, a task or a worker.
LEMMA QueueFrame ==
    ASSUME Inv, QueueInv, UNCHANGED <<crashes, queue, inbox>>,
           \A b \in Broadcast : /\ B(b) \in DOMAIN db' <=> B(b) \in DOMAIN db
                                /\ B(b) \in DOMAIN db => db'[B(b)].sent = db[B(b)].sent,
           \A t \in Tx : /\ sess'[t].op = "dispatch" <=> sess[t].op = "dispatch"
                         /\ sess[t].op = "dispatch" =>
                               /\ sess'[t].arg = sess[t].arg /\ sess'[t].pc = sess[t].pc
                               /\ sess'[t].n = sess[t].n /\ sess'[t].todo = sess[t].todo
                               /\ ws'[t] = ws[t]
                         /\ sess'[t].pc = "enqueue" =>
                               sess[t].pc = "enqueue" /\ sess'[t].arg = sess[t].arg
    PROVE  QueueInv'
<1>1. \A b : Received(b)' = Received(b)
  BY DEF Received
<1>2. ASSUME NEW b \in Broadcast PROVE CopyOk(b)'
  <2>1. CopyOk(b)
    BY DEF QueueInv
  <2> QED BY <1>1, <2>1 DEF CopyOk
<1>3. ASSUME NEW t \in Tx PROVE EnqueueOk(t)'
  BY <1>1, <1>3 DEF QueueInv, EnqueueOk
<1>4. ASSUME NEW t \in Tx PROVE DispatchOk(t)'
  <2>1. DispatchOk(t)
    BY DEF QueueInv
  <2>2. CASE sess[t].op # "dispatch"
    BY <2>2 DEF DispatchOk
  <2>3. CASE sess[t].op = "dispatch"
    <3>1. Before(t)' = Before(t)
      BY <2>3 DEF Before
    <3> QED BY <1>1, <2>1, <2>3, <3>1 DEF DispatchOk
  <2> QED BY <2>2, <2>3
<1> QED BY <1>2, <1>3, <1>4 DEF QueueInv

\* Not even by a handler of something else.
LEMMA QueueElsewhere ==
    ASSUME Inv, QueueInv, NEW t \in Tx, UNCHANGED <<crashes, queue, inbox>>,
           NEW next, NEW S, Moves(t, next, S), "enqueue" \notin next,
           sess[t].op # "dispatch", sess[t].pc # "publish"
    PROVE  QueueInv'
<1>1. /\ \A v \in Tx \ {t} : sess'[v] = sess[v] /\ ws'[v] = ws[v]
      /\ sess'[t].op # "dispatch" /\ sess'[t].pc # "enqueue"
  BY AtRest DEF Moves
<1>2. db' = db \/ Commit(t)
  BY DEF Moves, Rollback, Write
<1>3. \A b \in Broadcast : /\ B(b) \in DOMAIN db' <=> B(b) \in DOMAIN db
                           /\ B(b) \in DOMAIN db => db'[B(b)].sent = db[B(b)].sent
  <2>1. CASE db' = db
    BY <2>1
  <2>2. CASE Commit(t)
    BY <2>2, Published
  <2> QED BY <1>2, <2>1, <2>2
<1> QED BY <1>1, <1>3, QueueFrame

\* Most handlers are of something else.
LEMMA QueueOthers ==
    ASSUME Inv, QueueInv, NEW t \in Tx, UNCHANGED <<setup, crashes, queue, inbox>>,
           \/ ContinueAuth(t)
           \/ InsertUser(t) \/ Refer(t) \/ EnsureReferral(t) \/ Ban(t)
           \/ CreateTicket(t) \/ ReadTicket(t) \/ Post(t) \/ SetStatus(t)
           \/ Compose(t) \/ Finish(t)
    PROVE  QueueInv'
<1>1. Runs(sess[t].op, sess[t].pc)
  BY Here DEF Aware
<1>2. CASE ContinueAuth(t)
  <2>1. Moves(t, {"rotate", "commit"}, {"admin", "token"}) /\ sess[t].op \in AuthOp
    BY <1>2, AuthMoves
  <2>2. sess[t].op # "dispatch" /\ sess[t].pc # "publish"
    BY <1>1, <2>1 DEF Runs, AuthOp, Staff
  <2> QED BY <2>1, <2>2, QueueElsewhere
<1>3. CASE InsertUser(t) \/ Refer(t) \/ EnsureReferral(t) \/ Ban(t)
  <2>1. /\ Moves(t, {"refer", "ensure referral", "commit"}, {"user", "wallet", "referral"})
        /\ sess[t].pc \in {"insert user", "refer", "ensure referral", "ban"}
    BY <1>3, UserMoves
  <2>2. sess[t].op # "dispatch" /\ sess[t].pc # "publish"
    BY <1>1, <2>1 DEF Runs, Act, Staff
  <2> QED BY <2>1, <2>2, QueueElsewhere
<1>4. CASE CreateTicket(t) \/ ReadTicket(t) \/ Post(t) \/ SetStatus(t)
  <2>1. /\ Moves(t, {"post", "set status", "commit"}, {"ticket"})
        /\ sess[t].pc \in {"create ticket", "reply", "close", "post", "set status"}
    BY <1>4, TicketMoves
  <2>2. sess[t].op # "dispatch" /\ sess[t].pc # "publish"
    BY <1>1, <2>1 DEF Runs, Act, Staff
  <2> QED BY <2>1, <2>2, QueueElsewhere
<1>5. CASE Finish(t)
  <2>1. Moves(t, {}, {}) /\ sess[t].op # "dispatch" /\ sess[t].pc = "commit"
    BY <1>5, EndMoves DEF Finish, At
  <2> QED BY <2>1, QueueElsewhere
<1>6. CASE Compose(t)
  <2>1. Moves(t, {"publish", "enqueue", "send", "commit"}, {"broadcast"}) /\ sess[t].pc = "broadcast"
    BY <1>6, BroadcastMoves DEF Compose, At
  <2>2. sess'[t].pc = "publish"
    <3>1. sess[t] \in Session
      BY Here
    <3> QED BY <1>6, <3>1 DEF Compose, Inv, Session
  <2>3. Moves(t, {"publish"}, {"broadcast"})
    BY <2>1, <2>2 DEF Moves
  <2>4. sess[t].op # "dispatch" /\ sess[t].pc # "publish"
    BY <1>1, <2>1 DEF Runs, Act, Staff
  <2> QED BY <2>3, <2>4, QueueElsewhere
<1> QED BY <1>2, <1>3, <1>4, <1>5, <1>6

\* Neither do the first steps of handlers, nor the operator.
LEMMA QueueReads ==
    ASSUME Inv, QueueInv, NEW t \in Tx, Reads(t), UNCHANGED <<setup, crashes, queue, inbox>>
    PROVE  QueueInv'
<1>1. CASE UNCHANGED <<db, ws, sess>>
  BY <1>1, QueueFrame
<1>2. CASE \E z : Entry(t, z)
  <2>1. PICK z : Entry(t, z)
    BY <1>2
  <2>2. /\ sess'[t] = z /\ \A v \in Tx \ {t} : sess'[v] = sess[v]
        /\ z.op # "dispatch" /\ z.pc # "enqueue" /\ UNCHANGED <<db, ws>>
    BY <2>1 DEF Entry, Inv
  <2>3. sess[t].op # "dispatch"
    BY <2>1, Here DEF Entry, Aware, Runs, Act, Staff
  <2> QED BY <2>2, <2>3, QueueFrame
<1> QED BY <1>1, <1>2, ReadsEnter

\* Who is dismissed or demoted is no broadcast.
LEMMA QueueOperator ==
    ASSUME Inv, QueueInv, NEW a \in Admin, Dismiss(a) \/ Demote(a), UNCHANGED <<queue, inbox>>
    PROVE  QueueInv'
<1>1. /\ UNCHANGED <<ws, crashes>>
      /\ sess' = [t \in Tx |-> IF sess[t].who = a THEN [sess[t] EXCEPT !.late = TRUE] ELSE sess[t]]
  BY DEF Dismiss, Demote, accessVars
<1>2. \A b \in Broadcast : /\ B(b) \in DOMAIN db' <=> B(b) \in DOMAIN db
                           /\ B(b) \in DOMAIN db => db'[B(b)] = db[B(b)]
  <2>1. \A b : B(b) # A(a)
    BY Keys
  <2> QED BY <2>1 DEF Dismiss, Demote
<1>3. \A t \in Tx : /\ sess'[t].op = sess[t].op /\ sess'[t].arg = sess[t].arg
                    /\ sess'[t].pc = sess[t].pc /\ sess'[t].n = sess[t].n
                    /\ sess'[t].todo = sess[t].todo
  <2>1. \A t \in Tx : sess[t] \in Session
    BY DEF Inv
  <2> QED BY <1>1, <2>1 DEF Session
<1> QED BY <1>1, <1>2, <1>3, QueueFrame

\* What broadcasts and tasks there are bound a worker and a handler about to enqueue.
LEMMA TaskFacts ==
    ASSUME Inv, NEW t \in Tx
    PROVE  /\ sess[t].op = "dispatch" => sess[t].arg \in Broadcast
           /\ sess[t].pc = "enqueue" => sess[t].arg \in Broadcast /\ B(sess[t].arg) \in DOMAIN db
           /\ \A b \in queue : b \in Broadcast /\ B(b) \in DOMAIN db
           /\ crashes \in Nat /\ \A b \in Broadcast, u \in User : inbox[b][u] \in Nat
           /\ \A b : Received(b) \in SUBSET User
           /\ \A b \in Broadcast : Received(b) = {} => \A u \in User : inbox[b][u] = 0
<1>1. crashes \in Nat /\ inbox \in [Broadcast -> [User -> Nat]] /\ queue \subseteq Broadcast
  BY DEF Inv, World
<1>2. \A b \in Broadcast, u \in User : inbox[b][u] \in Nat
  BY <1>1
<1>3. /\ sess[t].op = "dispatch" => sess[t].arg \in Broadcast
      /\ sess[t].pc = "enqueue" => sess[t].arg \in Broadcast /\ B(sess[t].arg) \in DOMAIN db
  BY Here DEF Aware, AwareOfBroadcasts
<1>4. \A b \in queue : B(b) \in DOMAIN db
  BY DEF Inv, Given
<1> QED BY <1>1, <1>2, <1>3, <1>4 DEF Received

\* A worker that is not at work, whose broadcast is nobody else's.
LEMMA OtherWorker ==
    ASSUME Inv, QueueInv, NEW v \in Tx, sess'[v] = sess[v], ws'[v] = ws[v],
           crashes' = crashes \/ crashes' = crashes + 1,
           sess[v].op = "dispatch" =>
              sess[v].arg \in queue' /\ inbox'[sess[v].arg] = inbox[sess[v].arg]
    PROVE  DispatchOk(v)'
<1> SUFFICES ASSUME sess[v].op = "dispatch" PROVE DispatchOk(v)'
  BY DEF DispatchOk
<1> DEFINE s == sess[v]
<1>1. /\ \A u \in Before(v) : inbox[s.arg][u] <= crashes
      /\ s.pc = "send" => s.n <= Cardinality(Received(s.arg) \ s.todo)
      /\ s.pc = "commit" => ws[v][B(s.arg)].sent <= Cardinality(Received(s.arg))
  BY DEF QueueInv, DispatchOk
<1>2. /\ s.arg \in Broadcast /\ crashes \in Nat /\ \A u \in User : inbox[s.arg][u] \in Nat
      /\ Before(v) \subseteq User
  <2>1. s.pc = "send" => s.todo \subseteq User
    BY Here DEF Aware, AwareOfBroadcasts
  <2> QED BY <2>1, TaskFacts DEF Before
<1>3. \A u \in Before(v) : inbox'[s.arg][u] <= crashes'
  BY <1>1, <1>2
<1>4. Before(v)' = Before(v)
  BY DEF Before
<1>5. {u \in User : inbox'[s.arg][u] > 0} = Received(s.arg)
  BY DEF Received
<1> QED BY <1>1, <1>3, <1>4, <1>5 DEF DispatchOk, Received

\* A broadcast that is committed was received by nobody.
LEMMA QueuePublish ==
    ASSUME Inv, QueueInv, NEW t \in Tx, Publish(t)
    PROVE  QueueInv'
<1> DEFINE s == sess[t]
           c == sess[t].arg
           z == [s EXCEPT !.pc = "enqueue"]
<1>1. /\ s.pc = "publish" /\ Commit(t) /\ sess' = [sess EXCEPT ![t] = z]
      /\ UNCHANGED <<queue, inbox, crashes>>
  BY DEF Publish, At, Goto, rest, accessVars
<1>2. s \in Session /\ Runs(s.op, s.pc) /\ AwareOfBroadcasts(s, ws[t], db)
  BY Here DEF Aware
<1>3. s.op # "dispatch"
  BY <1>1, <1>2 DEF Runs, Staff, Act
<1>4. c \in Broadcast /\ B(c) \notin DOMAIN db /\ B(c) \in DOMAIN ws[t] /\ ws[t][B(c)].sent = 0
  BY <1>1, <1>2 DEF AwareOfBroadcasts, NewBroadcast
<1>5. /\ sess'[t].op = s.op /\ sess'[t].arg = c /\ sess'[t].pc = "enqueue"
      /\ \A v \in Tx \ {t} : sess'[v] = sess[v] /\ ws'[v] = ws[v]
  <2>1. z.op = s.op /\ z.arg = c /\ z.pc = "enqueue"
    BY <1>2 DEF Session
  <2> HIDE DEF z
  <2> QED BY <1>1, <2>1 DEF Inv, StoreInv, Commit
<1>6. \A b : Received(b)' = Received(b)
  BY <1>1 DEF Received
<1>7. Received(c) = {} /\ c \notin queue
  BY <1>4, TaskFacts DEF QueueInv, CopyOk
<1>8. ASSUME NEW b \in Broadcast PROVE CopyOk(b)'
  <2>1. CopyOk(b)
    BY DEF QueueInv
  <2>2. (\A v \in Tx : sess'[v].op = "dispatch" => sess'[v].arg # b) =>
           \A v \in Tx : sess[v].op = "dispatch" => sess[v].arg # b
    BY <1>3, <1>5
  <2>3. /\ b # c => (B(b) \in DOMAIN db' <=> B(b) \in DOMAIN db)
        /\ b # c /\ B(b) \in DOMAIN db => db'[B(b)] = db[B(b)]
        /\ B(c) \in DOMAIN db' /\ db'[B(c)] = ws[t][B(c)]
    BY <1>1, <1>4, Published
  <2>4. 0 <= Cardinality(Received(c))
    <3>1. Received(c) \in SUBSET User
      BY TaskFacts
    <3>2. Cardinality(Received(c)) \in Nat
      BY <3>1, Counts
    <3> QED BY <3>2
  <2>5. CASE b = c
    BY <1>1, <1>4, <1>6, <1>7, <2>1, <2>3, <2>4, <2>5 DEF CopyOk
  <2>6. CASE b # c
    BY <1>1, <1>6, <2>1, <2>2, <2>3, <2>6 DEF CopyOk
  <2> QED BY <2>5, <2>6
<1>9. ASSUME NEW v \in Tx PROVE EnqueueOk(v)'
  <2>1. \A w \in Tx : sess[w].pc = "enqueue" => sess[w].arg # c
    BY <1>4, TaskFacts
  <2>2. EnqueueOk(v)
    BY DEF QueueInv
  <2>3. CASE v = t
    BY <1>1, <1>5, <1>6, <1>7, <2>1, <2>3 DEF EnqueueOk
  <2>4. CASE v # t
    BY <1>1, <1>5, <1>6, <2>1, <2>2, <2>4 DEF EnqueueOk
  <2> QED BY <2>3, <2>4
<1>10. ASSUME NEW v \in Tx PROVE DispatchOk(v)'
  <2>1. DispatchOk(v)
    BY DEF QueueInv
  <2>2. CASE v = t
    BY <1>3, <1>5, <2>2 DEF DispatchOk
  <2>3. CASE v # t
    BY <1>1, <1>5, <1>6, <2>1, <2>3 DEF DispatchOk, Before
  <2> QED BY <2>2, <2>3
<1> QED BY <1>8, <1>9, <1>10 DEF QueueInv

\* It is enqueued once.
LEMMA QueueEnqueue ==
    ASSUME Inv, QueueInv, NEW t \in Tx, Enqueue(t)
    PROVE  QueueInv'
<1> DEFINE c == sess[t].arg
<1>1. /\ sess[t].pc = "enqueue" /\ queue' = queue \cup {c} /\ sess' = [sess EXCEPT ![t] = Idle]
      /\ UNCHANGED <<db, ws, inbox, crashes>>
  BY DEF Enqueue, At, Close, store, accessVars
<1>2. sess'[t] = Idle /\ \A v \in Tx \ {t} : sess'[v] = sess[v]
  BY <1>1 DEF Inv
<1>3. /\ c \in Broadcast /\ Received(c) = {}
      /\ \A v \in Tx \ {t} : sess[v].pc = "enqueue" => sess[v].arg # c
  BY <1>1, TaskFacts DEF QueueInv, EnqueueOk
<1>4. \A b : Received(b)' = Received(b)
  BY <1>1 DEF Received
<1>5. sess[t].op # "dispatch"
  BY <1>1, Here DEF Aware, Runs, Act, Staff
<1>6. ASSUME NEW b \in Broadcast PROVE CopyOk(b)'
  <2>1. CopyOk(b)
    BY DEF QueueInv
  <2>2. (\A v \in Tx : sess'[v].op = "dispatch" => sess'[v].arg # b) =>
           \A v \in Tx : sess[v].op = "dispatch" => sess[v].arg # b
    BY <1>2, <1>5
  <2>3. crashes \in Nat /\ (b = c => \A u \in User : inbox[b][u] = 0)
    BY <1>3, TaskFacts
  <2> QED BY <1>1, <1>4, <2>1, <2>2, <2>3 DEF CopyOk
<1>7. ASSUME NEW v \in Tx PROVE EnqueueOk(v)'
  <2>1. EnqueueOk(v)
    BY DEF QueueInv
  <2> QED BY <1>1, <1>2, <1>3, <1>4, <2>1, AtRest DEF EnqueueOk
<1>8. ASSUME NEW v \in Tx PROVE DispatchOk(v)'
  <2>1. DispatchOk(v)
    BY DEF QueueInv
  <2> QED BY <1>1, <1>2, <1>4, <2>1, AtRest, SMTT(30) DEF DispatchOk, Before
<1> QED BY <1>6, <1>7, <1>8 DEF QueueInv

\* A worker takes a task that no other worker has.
LEMMA QueueDispatch ==
    ASSUME Inv, QueueInv, NEW t \in Tx, NEW c \in Broadcast, Dispatch(t, c)
    PROVE  QueueInv'
<1> DEFINE z == Begun("dispatch", Null, c, "audience")
<1>1. /\ sess' = [sess EXCEPT ![t] = z] /\ \E f : Write(t, f) /\ sess[t].op = "none"
      /\ UNCHANGED <<queue, inbox, crashes>> /\ c \in queue
      /\ \A v \in Tx : sess[v].op = "dispatch" => sess[v].arg # c
  BY DispatchMoves DEF Dispatch, rest, accessVars
<1>2. z.op = "dispatch" /\ z.arg = c /\ z.pc = "audience"
  BY DEF Begun, Idle
<1>3. /\ sess'[t] = z /\ \A v \in Tx \ {t} : sess'[v] = sess[v]
      /\ db' = db /\ \A v \in Tx \ {t} : ws'[v] = ws[v]
  BY <1>1 DEF Inv, StoreInv, Write
<1> HIDE DEF z
<1>4. \A b : Received(b)' = Received(b)
  BY <1>1 DEF Received
<1>5. ASSUME NEW b \in Broadcast PROVE CopyOk(b)'
  <2>1. CopyOk(b)
    BY DEF QueueInv
  <2>2. (\A v \in Tx : sess'[v].op = "dispatch" => sess'[v].arg # b) =>
           \A v \in Tx : sess[v].op = "dispatch" => sess[v].arg # b
    BY <1>1, <1>3
  <2> QED BY <1>1, <1>3, <1>4, <2>1, <2>2 DEF CopyOk
<1>6. ASSUME NEW v \in Tx PROVE EnqueueOk(v)'
  <2>1. EnqueueOk(v)
    BY DEF QueueInv
  <2> QED BY <1>1, <1>2, <1>3, <1>4, <2>1 DEF EnqueueOk
<1>7. ASSUME NEW v \in Tx PROVE DispatchOk(v)'
  <2>1. DispatchOk(v) /\ CopyOk(c)
    BY DEF QueueInv
  <2>2. CASE v = t
    <3>1. \A u \in User : inbox[c][u] <= crashes
      BY <1>1, <2>1 DEF CopyOk
    <3>2. /\ sess'[t].arg = c /\ sess'[t].pc = "audience"
          /\ inbox' = inbox /\ crashes' = crashes /\ queue' = queue /\ c \in queue
      BY <1>1, <1>2, <1>3
    <3>3. Before(t)' = User
      BY <3>2 DEF Before
    <3>4. DispatchOk(t)'
      BY <3>1, <3>2, <3>3 DEF DispatchOk
    <3> QED BY <2>2, <3>4
  <2>3. CASE v # t
    <3>1. sess[v].op = "dispatch" => sess[v].arg \in queue
      BY <2>1 DEF DispatchOk
    <3> QED BY <1>1, <1>3, <2>3, <3>1, OtherWorker
  <2> QED BY <2>2, <2>3
<1> QED BY <1>5, <1>6, <1>7 DEF QueueInv

\* It reads whom to send it to, none of whom has received it but for workers that died.
LEMMA QueueAudience ==
    ASSUME Inv, QueueInv, NEW t \in Tx, Audience(t)
    PROVE  QueueInv'
<1> DEFINE s == sess[t]
           c == sess[t].arg
           todo == {u \in User : Exists(t, U(u)) /\ ~Row(t, U(u)).banned}
           z == [[[s EXCEPT !.n = 0] EXCEPT !.todo = todo] EXCEPT !.pc = "send"]
<1>1. /\ s.pc = "audience" /\ sess' = [sess EXCEPT ![t] = z]
      /\ UNCHANGED <<db, ws, queue, inbox, crashes>>
  BY Here DEF Audience, At, Inv, Session, store, rest, accessVars
<1>2. todo \subseteq User
  OBVIOUS
<1> HIDE DEF todo
<1>3. z.op = s.op /\ z.arg = c /\ z.pc = "send" /\ z.todo = todo /\ z.n = 0
  BY Here DEF Session
<1> HIDE DEF z
<1>4. sess'[t] = z /\ \A v \in Tx \ {t} : sess'[v] = sess[v]
  BY <1>1 DEF Inv
<1>5. \A b : Received(b)' = Received(b)
  BY <1>1 DEF Received
<1>6. ASSUME NEW b \in Broadcast PROVE CopyOk(b)'
  <2>1. CopyOk(b)
    BY DEF QueueInv
  <2>2. (\A v \in Tx : sess'[v].op = "dispatch" => sess'[v].arg # b) =>
           \A v \in Tx : sess[v].op = "dispatch" => sess[v].arg # b
    BY <1>3, <1>4
  <2> QED BY <1>1, <1>5, <2>1, <2>2 DEF CopyOk
<1>7. ASSUME NEW v \in Tx PROVE EnqueueOk(v)'
  <2>1. EnqueueOk(v)
    BY DEF QueueInv
  <2> QED BY <1>1, <1>3, <1>4, <1>5, <2>1 DEF EnqueueOk
<1>8. ASSUME NEW v \in Tx PROVE DispatchOk(v)'
  <2>1. DispatchOk(v)
    BY DEF QueueInv
  <2>2. CASE v = t
    <3>1. 0 <= Cardinality(Received(c) \ todo)
      <4>1. Received(c) \ todo \in SUBSET User
        BY TaskFacts
      <4>2. Cardinality(Received(c) \ todo) \in Nat
        BY <4>1, Counts
      <4> QED BY <4>2
    <3>2. s.op = "dispatch"
      BY <1>1, Here DEF Aware, Runs, Act
    <3>3. c \in queue /\ \A u \in User : inbox[c][u] <= crashes
      BY <1>1, <2>1, <2>2, <3>2 DEF DispatchOk, Before
    <3> QED BY <1>1, <1>2, <1>3, <1>4, <1>5, <2>2, <3>1, <3>3 DEF DispatchOk, Before
  <2>3. CASE v # t
    BY <1>1, <1>4, <1>5, <2>1, <2>3 DEF DispatchOk, Before
  <2> QED BY <2>2, <2>3
<1> QED BY <1>6, <1>7, <1>8 DEF QueueInv

\* One more user has a copy, whom the worker will not send another.
LEMMA QueueSendOne ==
    ASSUME Inv, QueueInv, NEW t \in Tx, SendOne(t), NEW c, c = sess[t].arg
    PROVE  QueueInv'
<1> DEFINE s == sess[t]
           z == sess'[t]
<1>1. PICK u \in s.todo :
         /\ inbox' = IF u \notin setup.unreachable
                     THEN [inbox EXCEPT ![sess[t].arg][u] = @ + 1] ELSE inbox
         /\ sess' = [sess EXCEPT ![t].todo = @ \ {u},
                                 ![t].n = IF u \notin setup.unreachable THEN @ + 1 ELSE @]
  BY DEF SendOne
<1> DEFINE ok == u \notin setup.unreachable
<1>2. s.pc = "send" /\ At(t, "send") /\ UNCHANGED <<db, ws, queue, crashes>>
  BY DEF SendOne, At, store, accessVars
<1>3. /\ z.pc = "send" /\ z.op = s.op /\ s.op = "dispatch" /\ z.arg = c
      /\ c \in Broadcast /\ s.todo \subseteq User /\ z.todo = s.todo \ {u}
      /\ s.n \in Nat /\ z.n = IF ok THEN s.n + 1 ELSE s.n
  <2>1. ok \in BOOLEAN
    OBVIOUS
  <2> QED BY <1>1, <1>2, <2>1, SendEffect
<1>4. \A v \in Tx \ {t} : sess'[v] = sess[v]
  BY <1>1 DEF Inv
<1>5. /\ inbox \in [Broadcast -> [User -> Nat]] /\ crashes \in Nat
      /\ c \in queue /\ \A w \in s.todo : inbox[c][w] <= crashes
      /\ s.n <= Cardinality(Received(c) \ s.todo)
  <2>1. DispatchOk(t)
    BY DEF QueueInv
  <2> QED BY <1>2, <1>3, <2>1 DEF DispatchOk, Before, Inv, World
<1>6. /\ \A b \in Broadcast \ {c} : inbox'[b] = inbox[b]
      /\ \A w \in User \ {u} : inbox'[c][w] = inbox[c][w]
      /\ u \in User /\ inbox'[c][u] = IF ok THEN inbox[c][u] + 1 ELSE inbox[c][u]
  BY <1>1, <1>3, <1>5
<1> HIDE DEF z, ok
<1>7. /\ \A b \in Broadcast \ {c} : Received(b)' = Received(b)
      /\ Received(c)' = IF ok THEN Received(c) \cup {u} ELSE Received(c)
  <2>1. \A w \in User : inbox[c][w] \in Nat
    BY <1>3, <1>5
  <2>2. /\ \A w \in User \ {u} : w \in Received(c)' <=> w \in Received(c)
        /\ u \in Received(c)' <=> ok \/ u \in Received(c)
    BY <1>6, <2>1 DEF Received
  <2>3. \A b : Received(b) \subseteq User /\ Received(b)' \subseteq User
    BY DEF Received
  <2>4. Received(c)' = IF ok THEN Received(c) \cup {u} ELSE Received(c)
    BY <2>2, <2>3
  <2> QED BY <1>6, <2>4 DEF Received
<1>8. Received(c) \in SUBSET User /\ Received(c)' \in SUBSET User /\ Received(c) \subseteq Received(c)'
  BY <1>6, <1>7 DEF Received
<1>9. ASSUME NEW b \in Broadcast PROVE CopyOk(b)'
  <2>1. CopyOk(b)
    BY DEF QueueInv
  <2>2. (\A v \in Tx : sess'[v].op = "dispatch" => sess'[v].arg # b) =>
           /\ \A v \in Tx : sess[v].op = "dispatch" => sess[v].arg # b
           /\ b # c
    BY <1>3, <1>4 DEF z
  <2>3. CASE b # c
    BY <1>2, <1>6, <1>7, <2>1, <2>2, <2>3 DEF CopyOk
  <2>4. CASE b = c
    <3>1. \A w \in User : inbox'[c][w] <= crashes + 1
      <4>1. inbox[c][u] \in Nat /\ inbox[c][u] <= crashes /\ crashes \in Nat
        BY <1>5, <1>3, <1>6
      <4>2. inbox'[c][u] <= crashes + 1
        BY <1>6, <4>1
      <4>3. \A w \in User \ {u} : inbox'[c][w] <= crashes + 1
        BY <1>6, <2>1, <2>4 DEF CopyOk
      <4> QED BY <4>2, <4>3
    <3>2. B(c) \in DOMAIN db /\ db[B(c)].sent <= Cardinality(Received(c)')
      <4>1. B(c) \in DOMAIN db
        BY <1>5, TaskFacts
      <4>2. db[B(c)].sent <= Cardinality(Received(c))
        BY <2>1, <2>4, <4>1 DEF CopyOk
      <4>3. Cardinality(Received(c)) <= Cardinality(Received(c)')
        BY <1>8, Counts
      <4>4. Cardinality(Received(c)) \in Nat /\ Cardinality(Received(c)') \in Nat
        BY <1>8, Counts
      <4>5. db[B(c)].sent \in Nat
        <5>1. db[B(c)] \in RowType["broadcast"]
          BY <4>1, Here, Keys DEF Typed
        <5>2. db[B(c)] \in [status : {"queued", "sending", "done"}, sent : 0..Cardinality(User)]
          BY <5>1, RowTypes
        <5> QED BY <5>2
      <4> QED BY <4>1, <4>2, <4>3, <4>4, <4>5
    <3>3. ~\A v \in Tx : sess'[v].op = "dispatch" => sess'[v].arg # c
      BY <1>3 DEF z
    <3>4. CopyOk(c)'
      BY <1>2, <3>1, <3>2, <3>3 DEF CopyOk
    <3> QED BY <2>4, <3>4
  <2> QED BY <2>3, <2>4
<1>10. ASSUME NEW v \in Tx PROVE EnqueueOk(v)'
  <2>1. EnqueueOk(v)
    BY DEF QueueInv
  <2>2. CASE v = t
    BY <1>3, <2>2 DEF EnqueueOk, z
  <2>3. CASE v # t
    <3>1. sess[v].pc = "enqueue" => sess[v].arg \in Broadcast \ {c}
      BY <1>5, <2>1, TaskFacts DEF EnqueueOk
    <3>2. sess'[t].pc # "enqueue" /\ sess'[v] = sess[v]
      BY <1>3, <1>4, <2>3 DEF z
    <3> QED BY <1>2, <1>4, <1>7, <2>1, <3>1, <3>2 DEF EnqueueOk
  <2> QED BY <2>2, <2>3
<1>11. ASSUME NEW v \in Tx PROVE DispatchOk(v)'
  <2>1. DispatchOk(v)
    BY DEF QueueInv
  <2>2. CASE v = t
    <3>1. z.n <= Cardinality(Received(c)' \ z.todo)
      <4> DEFINE old == Received(c) \ s.todo
                 new == Received(c)' \ z.todo
      <4>1. /\ old \in SUBSET User /\ new \in SUBSET User
            /\ ok => new = old \cup {u} /\ u \notin old
            /\ old \subseteq new
        BY <1>3, <1>7, <1>8
      <4>2. s.n <= Cardinality(old)
        BY <1>5
      <4> HIDE DEF old, new
      <4>3. IsFiniteSet(old) /\ Cardinality(old) \in Nat /\ Cardinality(new) \in Nat
        BY <4>1, Counts
      <4>4. CASE ok
        <5>1. Cardinality(old \cup {u}) = Cardinality(old) + 1
          BY <4>1, <4>3, <4>4, FS_AddElement
        <5>2. Cardinality(new) = Cardinality(old) + 1
          BY <4>1, <4>4, <5>1
        <5>3. z.n = s.n + 1 /\ s.n \in Nat
          BY <1>3, <4>4
        <5>4. z.n <= Cardinality(new)
          BY <4>2, <4>3, <5>2, <5>3
        <5> QED BY <5>4 DEF new
      <4>5. CASE ~ok
        <5>1. Cardinality(old) <= Cardinality(new)
          BY <4>1, Counts
        <5> QED BY <1>3, <4>2, <4>3, <4>5, <5>1 DEF new
      <4> QED BY <4>4, <4>5
    <3>2. \A w \in z.todo : inbox'[c][w] <= crashes
      BY <1>3, <1>5, <1>6
    <3> QED BY <1>2, <1>3, <1>5, <2>2, <3>1, <3>2 DEF DispatchOk, Before, z
  <2>3. CASE v # t
    <3>1. sess[v].op = "dispatch" => sess[v].arg \in Broadcast \ {c}
      BY <1>3, <2>3, OneWorker, TaskFacts
    <3>2. sess'[v] = sess[v] /\ ws' = ws /\ queue' = queue /\ crashes' = crashes
      BY <1>2, <1>4, <2>3
    <3> QED BY <1>6, <1>7, <2>1, <3>1, <3>2 DEF DispatchOk, Before
  <2> QED BY <2>2, <2>3
<1> QED BY <1>9, <1>10, <1>11 DEF QueueInv

\* It counts those it has sent it to.
LEMMA QueueTally ==
    ASSUME Inv, QueueInv, NEW t \in Tx, Tally(t), NEW c, c = sess[t].arg
    PROVE  QueueInv'
<1> DEFINE s == sess[t]
           row == [status |-> "done", sent |-> s.n]
           z == [s EXCEPT !.pc = "commit"]
<1>1. /\ s.pc = "send" /\ s.todo = {} /\ sess' = [sess EXCEPT ![t] = z]
      /\ Write(t, Is(B(c), row)) /\ UNCHANGED <<queue, inbox, crashes>>
  BY DEF Tally, At, Goto, rest, accessVars
<1>2. s.op = "dispatch" /\ c \in queue /\ s.n <= Cardinality(Received(c))
  <2>1. DispatchOk(t)
    BY DEF QueueInv
  <2>2. s.op = "dispatch"
    BY <1>1, Here DEF Aware, Runs, Act
  <2>3. Received(c) \ {} = Received(c)
    OBVIOUS
  <2> QED BY <1>1, <2>1, <2>2, <2>3 DEF DispatchOk
<1>3. z.op = s.op /\ z.arg = c /\ z.pc = "commit"
  BY Here DEF Session
<1> HIDE DEF z
<1>4. /\ sess'[t] = z /\ \A v \in Tx \ {t} : sess'[v] = sess[v] /\ ws'[v] = ws[v]
      /\ db' = db /\ ws'[t] = Over(Is(B(c), row), ws[t])
  BY <1>1 DEF Inv, StoreInv, Write
<1>5. ws'[t][B(c)].sent = s.n
  <2> HIDE DEF row
  <2>1. ws'[t][B(c)] = row
    BY <1>4 DEF Over, Is
  <2> QED BY <2>1 DEF row
<1>6. \A b : Received(b)' = Received(b)
  BY <1>1 DEF Received
<1>7. ASSUME NEW b \in Broadcast PROVE CopyOk(b)'
  <2>1. CopyOk(b)
    BY DEF QueueInv
  <2>2. (\A v \in Tx : sess'[v].op = "dispatch" => sess'[v].arg # b) =>
           \A v \in Tx : sess[v].op = "dispatch" => sess[v].arg # b
    BY <1>3, <1>4
  <2> QED BY <1>1, <1>4, <1>6, <2>1, <2>2 DEF CopyOk
<1>8. ASSUME NEW v \in Tx PROVE EnqueueOk(v)'
  <2>1. EnqueueOk(v)
    BY DEF QueueInv
  <2> QED BY <1>1, <1>3, <1>4, <1>6, <2>1 DEF EnqueueOk
<1>9. DispatchOk(t)'
  <2>1. Before(t)' = {}
    BY <1>3, <1>4 DEF Before
  <2>2. /\ sess'[t].arg = c /\ sess'[t].pc = "commit" /\ queue' = queue
        /\ ws'[t][B(c)].sent <= Cardinality(Received(c)')
    BY <1>1, <1>2, <1>3, <1>4, <1>5, <1>6
  <2> QED BY <1>2, <2>1, <2>2 DEF DispatchOk
<1>10. ASSUME NEW v \in Tx \ {t} PROVE DispatchOk(v)'
  <2>1. sess[v].op = "dispatch" => sess[v].arg \in queue
    BY DEF QueueInv, DispatchOk
  <2> QED BY <1>1, <1>4, <2>1, OtherWorker
<1> QED BY <1>7, <1>8, <1>9, <1>10 DEF QueueInv

\* The count is committed, and the task acknowledged.
LEMMA QueueFinishDispatch ==
    ASSUME Inv, QueueInv, NEW t \in Tx, FinishDispatch(t), NEW c, c = sess[t].arg
    PROVE  QueueInv'
<1>1. /\ sess[t].pc = "commit" /\ sess[t].op = "dispatch" /\ Commit(t)
      /\ queue' = queue \ {c} /\ sess' = [sess EXCEPT ![t] = Idle]
      /\ UNCHANGED <<inbox, crashes>>
  BY DEF FinishDispatch, At, Close, accessVars
<1>2. /\ sess'[t] = Idle /\ \A v \in Tx \ {t} : sess'[v] = sess[v] /\ ws'[v] = ws[v]
  BY <1>1 DEF Inv, StoreInv, Commit
<1>3. \A b : Received(b)' = Received(b)
  BY <1>1 DEF Received
<1>4. c \in Broadcast /\ c \in queue /\ ws[t][B(c)].sent <= Cardinality(Received(c))
  BY <1>1, TaskFacts DEF QueueInv, DispatchOk
<1>5. \A v \in Tx \ {t} : sess[v].op = "dispatch" => sess[v].arg # c
  BY <1>1, OneWorker
<1>6. ASSUME NEW b \in Broadcast PROVE CopyOk(b)'
  <2>1. CopyOk(b)
    BY DEF QueueInv
  <2>2. b # c /\ (\A v \in Tx : sess'[v].op = "dispatch" => sess'[v].arg # b) =>
           \A v \in Tx : sess[v].op = "dispatch" => sess[v].arg # b
    BY <1>2
  <2>3. IF B(b) \in DOMAIN db'
        THEN db'[B(b)].sent <= Cardinality(Received(b))
        ELSE Received(b) = {}
    <3>1. CASE B(b) \in DOMAIN ws[t]
      BY <1>1, <1>4, <3>1, Published
    <3>2. CASE B(b) \notin DOMAIN ws[t]
      <4>1. /\ B(b) \in DOMAIN db' <=> B(b) \in DOMAIN db
            /\ B(b) \in DOMAIN db => db'[B(b)] = db[B(b)]
        BY <1>1, <3>2, Published
      <4> QED BY <2>1, <4>1 DEF CopyOk
    <3> QED BY <3>1, <3>2
  <2> QED BY <1>1, <1>3, <2>1, <2>2, <2>3 DEF CopyOk
<1>7. ASSUME NEW v \in Tx PROVE EnqueueOk(v)'
  <2>1. EnqueueOk(v)
    BY DEF QueueInv
  <2> QED BY <1>1, <1>2, <1>3, <2>1, AtRest DEF EnqueueOk
<1>8. DispatchOk(t)'
  BY <1>2, AtRest DEF DispatchOk
<1>9. ASSUME NEW v \in Tx \ {t} PROVE DispatchOk(v)'
  <2>1. sess[v].op = "dispatch" => sess[v].arg \in queue
    BY DEF QueueInv, DispatchOk
  <2> QED BY <1>1, <1>2, <1>5, <2>1, OtherWorker
<1> QED BY <1>6, <1>7, <1>8, <1>9 DEF QueueInv

\* A process dies: what its worker has sent will be sent again.
LEMMA QueueCrash ==
    ASSUME Inv, QueueInv, NEW t \in Tx, Crash(t)
    PROVE  QueueInv'
<1>1. /\ crashes' = crashes + 1 /\ Rollback(t) /\ sess' = [sess EXCEPT ![t] = Idle]
      /\ UNCHANGED <<queue, inbox>>
  BY DEF Crash, Close
<1>2. /\ sess'[t] = Idle /\ \A v \in Tx \ {t} : sess'[v] = sess[v] /\ ws'[v] = ws[v]
      /\ db' = db
  BY <1>1 DEF Inv, StoreInv, Rollback
<1>3. \A b : Received(b)' = Received(b)
  BY <1>1 DEF Received
<1>4. crashes \in Nat /\ \A b \in Broadcast, u \in User : inbox[b][u] \in Nat
  BY TaskFacts
<1>5. ASSUME NEW b \in Broadcast PROVE CopyOk(b)'
  <2>1. CopyOk(b)
    BY DEF QueueInv
  <2>2. \A u \in User : inbox[b][u] <= crashes + 1 /\ inbox[b][u] <= crashes + 1 + 1
    BY <1>4, <2>1 DEF CopyOk
  <2> QED BY <1>1, <1>2, <1>3, <2>1, <2>2 DEF CopyOk
<1>6. ASSUME NEW v \in Tx PROVE EnqueueOk(v)'
  <2>1. EnqueueOk(v)
    BY DEF QueueInv
  <2> QED BY <1>1, <1>2, <1>3, <2>1, AtRest DEF EnqueueOk
<1>7. DispatchOk(t)'
  BY <1>2, AtRest DEF DispatchOk
<1>8. ASSUME NEW v \in Tx \ {t} PROVE DispatchOk(v)'
  <2>1. sess[v].op = "dispatch" => sess[v].arg \in queue
    BY DEF QueueInv, DispatchOk
  <2> QED BY <1>1, <1>2, <2>1, OtherWorker
<1> QED BY <1>5, <1>6, <1>7, <1>8 DEF QueueInv

\* At first there is no broadcast.
LEMMA QueueInit == Init => QueueInv
<1> SUFFICES ASSUME Init PROVE QueueInv
  OBVIOUS
<1>1. /\ sess = [t \in Tx |-> Idle] /\ crashes = 0 /\ queue = {}
      /\ inbox = [b \in Broadcast |-> [u \in User |-> 0]]
  BY DEF Init, AccessInit
<1>2. \A b \in Broadcast : B(b) \notin DOMAIN db
  BY FirstRows, Keys
<1>3. \A b \in Broadcast : Received(b) = {} /\ \A u \in User : inbox[b][u] = 0
  BY <1>1 DEF Received
<1>4. ASSUME NEW b \in Broadcast PROVE CopyOk(b)
  BY <1>1, <1>2, <1>3 DEF CopyOk
<1>5. ASSUME NEW t \in Tx PROVE EnqueueOk(t) /\ DispatchOk(t)
  BY <1>1, AtRest DEF EnqueueOk, DispatchOk
<1> QED BY <1>4, <1>5 DEF QueueInv

\* Every step keeps it.
LEMMA QueueStep == Inv /\ QueueInv /\ [Next]_vars => QueueInv'
<1> SUFFICES ASSUME Inv, QueueInv, [Next]_vars PROVE QueueInv'
  OBVIOUS
<1>1. CASE (\E a \in Admin : Dismiss(a) \/ Demote(a)) /\ UNCHANGED <<queue, inbox>>
  BY <1>1, QueueOperator
<1>2. CASE UNCHANGED <<db, ws, sess, setup, crashes, queue, inbox>>
  BY <1>2, QueueFrame
<1>3. ASSUME NEW t \in Tx, UNCHANGED <<setup, crashes, queue, inbox>>,
             \/ Reads(t)
             \/ ContinueAuth(t)
             \/ InsertUser(t) \/ Refer(t) \/ EnsureReferral(t) \/ Ban(t)
             \/ CreateTicket(t) \/ ReadTicket(t) \/ Post(t) \/ SetStatus(t)
             \/ Compose(t) \/ Finish(t)
      PROVE  QueueInv'
  BY <1>3, QueueReads, QueueOthers
<1>4. ASSUME NEW t \in Tx, Publish(t) \/ Enqueue(t) \/ Audience(t) \/ SendOne(t)
                           \/ Tally(t) \/ FinishDispatch(t) \/ Crash(t)
      PROVE  QueueInv'
  BY <1>4, QueuePublish, QueueEnqueue, QueueAudience, QueueSendOne, QueueTally,
     QueueFinishDispatch, QueueCrash
<1>5. ASSUME NEW t \in Tx, NEW b \in Broadcast, Dispatch(t, b) PROVE QueueInv'
  BY <1>5, QueueDispatch
<1> QED BY <1>1, <1>2, <1>3, <1>4, <1>5, Steps

\* A broadcast reaches a user once, and again only for a worker that died; what is
\* counted as sent was received.
THEOREM SentWasReceived == Spec => []SentIsReceived
<1>1. Inv /\ QueueInv => SentIsReceived
  <2> SUFFICES ASSUME Inv, QueueInv, NEW b \in Broadcast
               PROVE  /\ \A u \in User : inbox[b][u] <= 1 + crashes
                      /\ B(b) \in DOMAIN db =>
                            db[B(b)].sent <= Cardinality({u \in User : inbox[b][u] > 0})
    BY DEF SentIsReceived
  <2>1. /\ \A u \in User : inbox[b][u] <= crashes + 1
        /\ B(b) \in DOMAIN db => db[B(b)].sent <= Cardinality(Received(b))
    BY DEF QueueInv, CopyOk
  <2>2. crashes \in Nat /\ \A u \in User : inbox[b][u] \in Nat
    BY DEF Inv, World
  <2> QED BY <2>1, <2>2 DEF Received
<1> QED BY <1>1, InitInv, StepInv, QueueInit, QueueStep, PTL DEF Spec
-----------------------------------------------------------------------------
\* What the first rows of customers and tickets say.
LEMMA FirstContents ==
    ASSUME Init
    PROVE  /\ \A k \in Ticket : T(k) \in DOMAIN db => db[T(k)].status = "open"
           /\ \A u \in User : U(u) \in DOMAIN db => db[U(u)].referrer = Null
           /\ \A u \in User : R(u) \notin DOMAIN db
<1>1. \A r \in DOMAIN db :
         /\ r[1] = "ticket" => db[r] = NewTicket(setup.opened[r[2]])
         /\ r[1] = "user" => db[r] = NewUser(r[2])[r]
  <2> TAKE r \in DOMAIN db
  <2>1. db[r] = CASE r[1] = "admin" -> Over(Seeded, Members)[r]
                  [] r[1] = "ticket" -> NewTicket(setup.opened[r[2]])
                  [] OTHER -> NewUser(r[2])[r]
    BY DEF Init
  <2> QED BY <2>1
<1>2. ASSUME NEW k \in Ticket, T(k) \in DOMAIN db PROVE db[T(k)].status = "open"
  <2>1. db[T(k)] = NewTicket(setup.opened[T(k)[2]])
    BY <1>1, <1>2, Keys
  <2> QED BY <2>1 DEF NewTicket
<1>3. ASSUME NEW u \in User, U(u) \in DOMAIN db PROVE db[U(u)].referrer = Null
  <2>1. db[U(u)] = NewUser(u)[U(u)]
    BY <1>1, <1>3, Keys DEF U
  <2>2. NewUser(u)[U(u)] = [banned |-> FALSE, referrer |-> Null]
    BY DEF NewUser, Over, Is
  <2> QED BY <2>1, <2>2
<1>4. \A u \in User : R(u) \notin DOMAIN db
  BY FirstRows, Keys
<1> QED BY <1>2, <1>3, <1>4
-----------------------------------------------------------------------------
\* Session t is between its read of ticket k and the end of its transaction.
Handles(t, k) ==
    \/ sess[t].pc \in {"post", "set status"} /\ sess[t].arg = k
    \/ T(k) \in DOMAIN ws[t]

\* The handlers of one ticket do not overlap.
OneAtATicket == \A k \in Ticket : \A t, v \in Tx : Handles(t, k) /\ Handles(v, k) => t = v

\* A ticket that needs the staff says so.
Answered(row) == row.last = "user" => row.status # "answered"

\* What a session knows of the ticket it is about to write.
TicketOk(t) ==
    sess[t].pc \in {"post", "set status"} /\ sess[t].arg \in Ticket =>
        sess[t].seen = db[T(sess[t].arg)].status

DeskInv ==
    /\ \A k \in Ticket : T(k) \in DOMAIN db => Answered(db[T(k)])
    /\ \A t \in Tx : \A k \in Ticket : T(k) \in DOMAIN ws[t] => Answered(ws[t][T(k)])
    /\ \A t \in Tx : TicketOk(t)

\* What session t writes of tickets needs no answer, or says so; it does not go on
\* to write one.
LEMMA DeskMoves ==
    ASSUME Inv, DeskInv, OneAtATicket, NEW t \in Tx,
           \A v \in Tx \ {t} : sess'[v] = sess[v] /\ ws'[v] = ws[v],
           sess'[t].pc \notin {"post", "set status"},
           \/ UNCHANGED <<db, ws>>
           \/ Rollback(t)
           \/ Commit(t)
           \/ \E f : Write(t, f) /\ \A k \in Ticket : T(k) \in DOMAIN f => Answered(f[T(k)])
    PROVE  DeskInv'
<1>1. /\ \A k \in Ticket : T(k) \in DOMAIN db => Answered(db[T(k)])
      /\ \A v \in Tx, k \in Ticket : T(k) \in DOMAIN ws[v] => Answered(ws[v][T(k)])
  BY DEF DeskInv
<1>2. DOMAIN ws = Tx
  BY DEF Inv, StoreInv
<1>3. ASSUME NEW k \in Ticket, T(k) \in DOMAIN ws'[t] PROVE Answered(ws'[t][T(k)])
  <2>1. CASE UNCHANGED <<db, ws>>
    BY <1>1, <1>3, <2>1
  <2>2. CASE Rollback(t) \/ Commit(t)
    <3>1. ws'[t] = NoRows
      BY <1>2, <2>2 DEF Rollback, Commit
    <3> QED BY <1>3, <3>1, Nothing
  <2>3. CASE \E f : Write(t, f) /\ \A j \in Ticket : T(j) \in DOMAIN f => Answered(f[T(j)])
    <3>1. PICK f : Write(t, f) /\ \A j \in Ticket : T(j) \in DOMAIN f => Answered(f[T(j)])
      BY <2>3
    <3>2. ws'[t] = Over(f, ws[t])
      BY <1>2, <3>1 DEF Write
    <3> QED BY <1>1, <1>3, <3>1, <3>2 DEF Over
  <2> QED BY <2>1, <2>2, <2>3
<1>4. \/ db' = db
      \/ Commit(t) /\ db' = Over(ws[t], db)
  BY DEF Rollback, Commit, Write, Visible
<1>5. ASSUME NEW k \in Ticket, T(k) \in DOMAIN db' PROVE Answered(db'[T(k)])
  BY <1>1, <1>4, <1>5 DEF Over
<1>6. ASSUME NEW v \in Tx, sess'[v].pc \in {"post", "set status"}, sess'[v].arg \in Ticket
      PROVE  sess'[v].seen = db'[T(sess'[v].arg)].status
  <2>1. v # t /\ sess'[v] = sess[v]
    BY <1>6
  <2>2. /\ sess[v].arg \in Ticket /\ sess[v].seen = db[T(sess[v].arg)].status
        /\ T(sess[v].arg) \in DOMAIN db
    BY <1>6, <2>1, Here DEF DeskInv, TicketOk, Aware, AwareOfUsers
  <2>3. T(sess[v].arg) \notin DOMAIN ws[t]
    BY <1>6, <2>1, <2>2 DEF OneAtATicket, Handles
  <2>4. db'[T(sess[v].arg)] = db[T(sess[v].arg)]
    BY <1>4, <2>2, <2>3 DEF Over
  <2> QED BY <2>1, <2>2, <2>4
<1>7. \A v \in Tx, k \in Ticket : T(k) \in DOMAIN ws'[v] => Answered(ws'[v][T(k)])
  BY <1>1, <1>3
<1>8. \A v \in Tx : TicketOk(v)'
  BY <1>6 DEF TicketOk
<1> QED BY <1>5, <1>7, <1>8 DEF DeskInv, Answered

\* Whoever writes no ticket.
LEMMA DeskElsewhere ==
    ASSUME Inv, DeskInv, OneAtATicket, NEW t \in Tx, NEW next, NEW S, Moves(t, next, S),
           "ticket" \notin S, next \cap {"post", "set status"} = {}
    PROVE  DeskInv'
<1>1. sess'[t].pc \notin {"post", "set status"}
  BY AtRest DEF Moves
<1>2. \A f : (\A r \in DOMAIN f : r[1] \in S) => \A k \in Ticket : T(k) \notin DOMAIN f
  BY Keys
<1>3. \/ UNCHANGED <<db, ws>>
      \/ Rollback(t)
      \/ Commit(t)
      \/ \E f : Write(t, f) /\ \A k \in Ticket : T(k) \in DOMAIN f => Answered(f[T(k)])
  BY <1>2 DEF Moves
<1>4. \A v \in Tx \ {t} : sess'[v] = sess[v] /\ ws'[v] = ws[v]
  BY DEF Moves
<1> QED BY <1>1, <1>3, <1>4, DeskMoves

\* A new ticket is open.
LEMMA DeskCreate ==
    ASSUME Inv, DeskInv, OneAtATicket, NEW t \in Tx, CreateTicket(t)
    PROVE  DeskInv'
<1>1. PICK k \in Ticket : Write(t, Is(T(k), NewTicket(sess[t].who)))
  BY DEF CreateTicket
<1>2. Answered(NewTicket(sess[t].who))
  BY DEF Answered, NewTicket
<1>3. \A j \in Ticket : T(j) \in DOMAIN Is(T(k), NewTicket(sess[t].who)) =>
         Answered(Is(T(k), NewTicket(sess[t].who))[T(j)])
  BY <1>2, Keys DEF Is
<1>4. /\ \A v \in Tx \ {t} : sess'[v] = sess[v] /\ ws'[v] = ws[v]
      /\ sess'[t].pc \notin {"post", "set status"}
  <2>1. Goto(t, "commit") /\ "commit" \in PCs
    BY DEF CreateTicket, PCs
  <2>2. [sess[t] EXCEPT !.pc = "commit"].pc = "commit"
    BY <2>1, Here, Gone
  <2>3. sess' = [sess EXCEPT ![t] = [sess[t] EXCEPT !.pc = "commit"]]
    BY <2>1 DEF Goto
  <2>4. sess'[t].pc = "commit"
    BY <2>2, <2>3 DEF Inv
  <2> QED BY <2>4, TicketMoves DEF Moves
<1> QED BY <1>1, <1>3, <1>4, DeskMoves

\* What a handler writes of a ticket it has read, which is as it was read.
LEMMA Rewritten ==
    ASSUME Inv, DeskInv, NEW t \in Tx,
           sess[t].pc \in {"post", "set status"}, sess[t].arg \in Ticket
    PROVE  /\ \A status : Changed(t, status) = status
           /\ Row(t, T(sess[t].arg)) \in RowType["ticket"]
           /\ Answered(Row(t, T(sess[t].arg)))
<1>1. /\ sess[t].seen = db[T(sess[t].arg)].status
      /\ T(sess[t].arg) \in DOMAIN db /\ ws[t] = NoRows
  BY Here DEF DeskInv, TicketOk, Aware, AwareOfUsers, Unwritten
<1>2. Row(t, T(sess[t].arg)) = db[T(sess[t].arg)]
  BY <1>1, Nothing DEF Row
<1>3. db[T(sess[t].arg)] \in RowType["ticket"]
  BY <1>1, Here, Keys DEF Typed
<1> QED BY <1>1, <1>2, <1>3 DEF Changed, DeskInv

\* A reply of the customer makes the ticket pending; one of the staff is the last.
LEMMA DeskPost ==
    ASSUME Inv, DeskInv, OneAtATicket, NEW t \in Tx, Post(t)
    PROVE  DeskInv'
<1> DEFINE k == sess[t].arg
           old == Row(t, T(k))
           status == ReplyStatus(Sender(t))
           row == [[old EXCEPT !.status = Changed(t, status)] EXCEPT !.last = Sender(t)]
<1>1. sess[t].pc = "post" /\ Write(t, Is(T(k), row)) /\ Goto(t, "commit")
  <2>1. [Row(t, T(sess[t].arg)) EXCEPT !.status = Changed(t, ReplyStatus(Sender(t))),
                                       !.last = Sender(t)] = row
    OBVIOUS
  <2> QED BY <2>1 DEF Post, At
<1>2. ASSUME k \in Ticket PROVE Answered(row)
  <2>1. Changed(t, status) = status /\ old \in RowType["ticket"]
    <3> HIDE DEF status
    <3>1. sess[t].pc \in {"post", "set status"} /\ sess[t].arg \in Ticket
      BY <1>1, <1>2
    <3> QED BY <3>1, Rewritten
  <2>2. row.last = Sender(t) /\ row.status = status
    <3> HIDE DEF status, old
    <3>1. old \in [user : User, status : {"open", "pending", "answered", "closed"},
                   last : {"user", "admin"}]
      BY <2>1, RowTypes
    <3> QED BY <2>1, <3>1
  <2> HIDE DEF row
  <2> QED BY <2>2 DEF Answered, ReplyStatus
<1> HIDE DEF row
<1>5. \A j \in Ticket : T(j) \in DOMAIN Is(T(k), row) => Answered(Is(T(k), row)[T(j)])
  BY <1>2, Keys DEF Is
<1>6. /\ \A v \in Tx \ {t} : sess'[v] = sess[v] /\ ws'[v] = ws[v]
      /\ sess'[t].pc \notin {"post", "set status"}
  <2>1. "commit" \in PCs
    BY DEF PCs
  <2>2. [sess[t] EXCEPT !.pc = "commit"].pc = "commit"
    BY <2>1, Here, Gone
  <2>3. sess' = [sess EXCEPT ![t] = [sess[t] EXCEPT !.pc = "commit"]]
    BY <1>1 DEF Goto
  <2>4. sess'[t].pc = "commit"
    BY <2>2, <2>3 DEF Inv
  <2> QED BY <2>4, TicketMoves DEF Moves
<1> QED BY <1>1, <1>5, <1>6, DeskMoves

\* A status set by hand: when it is answered, the staff has had the last word.
LEMMA DeskSetStatus ==
    ASSUME Inv, DeskInv, OneAtATicket, NEW t \in Tx, SetStatus(t)
    PROVE  DeskInv'
<1> DEFINE k == sess[t].arg
           old == Row(t, T(k))
<1>1. PICK status \in {"open", "pending", "answered", "closed"} :
         Write(t, Is(T(k), [old EXCEPT !.status = Changed(t, status),
                                       !.last = IF status = "answered" THEN "admin" ELSE @]))
  BY DEF SetStatus, TicketStatus
<1>2. sess[t].pc = "set status" /\ Goto(t, "commit")
  BY DEF SetStatus, At
<1> DEFINE last == IF status = "answered" THEN "admin" ELSE old.last
           row == [[old EXCEPT !.status = Changed(t, status)] EXCEPT !.last = last]
<1>3. Write(t, Is(T(k), row))
  <2>1. [old EXCEPT !.status = Changed(t, status),
                    !.last = IF status = "answered" THEN "admin" ELSE @] = row
    OBVIOUS
  <2> QED BY <1>1, <2>1
<1>4. ASSUME k \in Ticket PROVE Answered(row)
  <2>1. Changed(t, status) = status /\ old \in RowType["ticket"]
    <3>1. sess[t].pc \in {"post", "set status"} /\ sess[t].arg \in Ticket
      BY <1>2, <1>4
    <3> QED BY <3>1, Rewritten
  <2>2. row.status = status /\ row.last = last
    <3> HIDE DEF old, last
    <3>1. old \in [user : User, status : {"open", "pending", "answered", "closed"},
                   last : {"user", "admin"}]
      BY <2>1, RowTypes
    <3> QED BY <2>1, <3>1
  <2> HIDE DEF row
  <2> QED BY <1>1, <2>2 DEF Answered
<1> HIDE DEF row
<1>7. \A j \in Ticket : T(j) \in DOMAIN Is(T(k), row) => Answered(Is(T(k), row)[T(j)])
  BY <1>4, Keys DEF Is
<1>8. /\ \A v \in Tx \ {t} : sess'[v] = sess[v] /\ ws'[v] = ws[v]
      /\ sess'[t].pc \notin {"post", "set status"}
  <2>1. "commit" \in PCs
    BY DEF PCs
  <2>2. [sess[t] EXCEPT !.pc = "commit"].pc = "commit"
    BY <2>1, Here, Gone
  <2>3. sess' = [sess EXCEPT ![t] = [sess[t] EXCEPT !.pc = "commit"]]
    BY <1>2 DEF Goto
  <2>4. sess'[t].pc = "commit"
    BY <2>2, <2>3 DEF Inv
  <2> QED BY <2>4, TicketMoves DEF Moves
<1> QED BY <1>3, <1>7, <1>8, DeskMoves

\* A handler knows the status it has read.
LEMMA DeskRead ==
    ASSUME Inv, DeskInv, OneAtATicket, NEW t \in Tx, ReadTicket(t)
    PROVE  DeskInv'
<1> DEFINE k == sess[t].arg
           seen == Row(t, T(k)).status
           pc == IF At(t, "reply") THEN "post" ELSE "set status"
           z == [[sess[t] EXCEPT !.seen = seen] EXCEPT !.pc = pc]
<1>1. sess[t].pc \in {"reply", "close"} /\ sess[t] \in Session
  BY Here DEF ReadTicket
<1>2. CASE Rollback(t) /\ Close(t)
  <2>1. Moves(t, {}, {})
    BY <1>2, CloseMoves
  <2> QED BY <2>1, DeskElsewhere
<1>3. CASE ~(Rollback(t) /\ Close(t))
  <2>1. /\ Exists(t, T(k)) /\ UNCHANGED <<db, ws>>
        /\ sess' = [sess EXCEPT ![t].seen = seen, ![t].pc = pc]
    BY <1>3 DEF ReadTicket, Refused, store
  <2>2. sess' = [sess EXCEPT ![t] = z]
    BY <1>1, <2>1 DEF Inv, Session
  <2>3. z.arg = k /\ z.seen = seen
    BY <1>1 DEF Session
  <2>4. ws[t] = NoRows
    BY <1>1, Here DEF Aware, Unwritten, Act
  <2>5. seen = db[T(k)].status
    BY <2>4, Nothing DEF Row
  <2> HIDE DEF z, seen
  <2>6. \A v \in Tx \ {t} : sess'[v] = sess[v]
    BY <2>2 DEF Inv
  <2>7. ASSUME NEW v \in Tx PROVE TicketOk(v)'
    <3>1. CASE v = t
      <4>1. sess'[t].arg = k /\ sess'[t].seen = db[T(k)].status /\ db' = db
        BY <2>1, <2>2, <2>3, <2>5 DEF Inv
      <4>2. TicketOk(t)'
        BY <4>1 DEF TicketOk
      <4> QED BY <3>1, <4>2
    <3>2. CASE v # t
      BY <2>1, <2>6, <3>2 DEF DeskInv, TicketOk
    <3> QED BY <3>1, <3>2
  <2> QED BY <2>1, <2>7 DEF DeskInv, Answered
<1> QED BY <1>2, <1>3

\* Neither an operator nor a first step of a handler touches a ticket.
LEMMA DeskStill ==
    ASSUME Inv, DeskInv, UNCHANGED ws,
           \A k \in Ticket : /\ T(k) \in DOMAIN db' <=> T(k) \in DOMAIN db
                             /\ T(k) \in DOMAIN db => db'[T(k)] = db[T(k)],
           \A t \in Tx : sess'[t].pc \in {"post", "set status"} =>
                            /\ sess[t].pc \in {"post", "set status"}
                            /\ sess'[t].arg = sess[t].arg /\ sess'[t].seen = sess[t].seen
    PROVE  DeskInv'
<1>1. ASSUME NEW t \in Tx, sess'[t].pc \in {"post", "set status"}, sess'[t].arg \in Ticket
      PROVE  sess'[t].seen = db'[T(sess'[t].arg)].status
  <2>1. /\ sess[t].seen = db[T(sess[t].arg)].status
        /\ T(sess[t].arg) \in DOMAIN db
    BY <1>1, Here DEF DeskInv, TicketOk, Aware, AwareOfUsers
  <2> QED BY <1>1, <2>1
<1>2. \A t \in Tx : TicketOk(t)'
  BY <1>1 DEF TicketOk
<1> QED BY <1>2 DEF DeskInv, Answered

\* Every step keeps it.
LEMMA DeskStep == Inv /\ DeskInv /\ OneAtATicket /\ [Next]_vars => DeskInv'
<1> SUFFICES ASSUME Inv, DeskInv, OneAtATicket, [Next]_vars PROVE DeskInv'
  OBVIOUS
<1>1. CASE (\E a \in Admin : Dismiss(a) \/ Demote(a)) /\ UNCHANGED <<queue, inbox>>
  <2>1. PICK a \in Admin : Dismiss(a) \/ Demote(a)
    BY <1>1
  <2>2. /\ UNCHANGED ws
        /\ sess' = [t \in Tx |-> IF sess[t].who = a THEN [sess[t] EXCEPT !.late = TRUE] ELSE sess[t]]
    BY <2>1 DEF Dismiss, Demote, accessVars
  <2>3. \A k \in Ticket : /\ T(k) \in DOMAIN db' <=> T(k) \in DOMAIN db
                          /\ T(k) \in DOMAIN db => db'[T(k)] = db[T(k)]
    <3>1. \A k : T(k) # A(a)
      BY Keys
    <3> QED BY <2>1, <3>1 DEF Dismiss, Demote
  <2>4. \A t \in Tx : /\ sess'[t].pc = sess[t].pc /\ sess'[t].arg = sess[t].arg
                      /\ sess'[t].seen = sess[t].seen
    <3>1. \A t \in Tx : sess[t] \in Session
      BY DEF Inv
    <3> QED BY <2>2, <3>1 DEF Session
  <2> QED BY <2>2, <2>3, <2>4, DeskStill
<1>2. CASE UNCHANGED <<db, ws, sess, setup, crashes, queue, inbox>>
  BY <1>2, DeskStill
<1>3. ASSUME NEW t \in Tx, Reads(t) PROVE DeskInv'
  <2>1. CASE UNCHANGED <<db, ws, sess>>
    BY <2>1, DeskStill
  <2>2. CASE \E z : Entry(t, z)
    <3>1. PICK z : Entry(t, z)
      BY <2>2
    <3>2. /\ sess'[t] = z /\ \A v \in Tx \ {t} : sess'[v] = sess[v]
          /\ z.pc \notin {"post", "set status"} /\ UNCHANGED <<db, ws>>
      BY <3>1 DEF Entry, Inv
    <3> QED BY <3>2, DeskStill
  <2> QED BY <1>3, <2>1, <2>2, ReadsEnter
<1>4. ASSUME NEW t \in Tx, ContinueAuth(t) PROVE DeskInv'
  <2>1. Moves(t, {"rotate", "commit"}, {"admin", "token"})
    BY <1>4, AuthMoves
  <2> QED BY <2>1, DeskElsewhere
<1>5. ASSUME NEW t \in Tx, InsertUser(t) \/ Refer(t) \/ EnsureReferral(t) \/ Ban(t) PROVE DeskInv'
  <2>1. Moves(t, {"refer", "ensure referral", "commit"}, {"user", "wallet", "referral"})
    BY <1>5, UserMoves
  <2>2. {"refer", "ensure referral", "commit"} \cap {"post", "set status"} = {}
    OBVIOUS
  <2> QED BY <2>1, <2>2, DeskElsewhere
<1>6. ASSUME NEW t \in Tx,
             \/ Compose(t) \/ Publish(t) \/ Enqueue(t)
             \/ Audience(t) \/ SendOne(t) \/ Tally(t) \/ FinishDispatch(t)
      PROVE  DeskInv'
  <2>1. Moves(t, {"publish", "enqueue", "send", "commit"}, {"broadcast"})
    BY <1>6, BroadcastMoves
  <2> QED BY <2>1, DeskElsewhere
<1>7. ASSUME NEW t \in Tx, Finish(t) \/ Crash(t) PROVE DeskInv'
  <2>1. Moves(t, {}, {})
    BY <1>7, EndMoves
  <2> QED BY <2>1, DeskElsewhere
<1>8. ASSUME NEW t \in Tx, NEW b \in Broadcast, Dispatch(t, b) PROVE DeskInv'
  <2> DEFINE z == Begun("dispatch", Null, b, "audience")
  <2>1. sess' = [sess EXCEPT ![t] = z] /\ \E f : Write(t, f) /\ \A r \in DOMAIN f : r[1] \in {"broadcast"}
    BY <1>8, DispatchMoves
  <2>2. z.pc = "audience"
    BY DEF Begun, Idle
  <2> HIDE DEF z
  <2>3. /\ \A v \in Tx \ {t} : sess'[v] = sess[v] /\ ws'[v] = ws[v]
        /\ sess'[t].pc \notin {"post", "set status"}
    BY <2>1, <2>2 DEF Inv, StoreInv, Write
  <2>4. \A f : (\A r \in DOMAIN f : r[1] \in {"broadcast"}) => \A k \in Ticket : T(k) \notin DOMAIN f
    BY Keys
  <2>5. \E f : Write(t, f) /\ \A k \in Ticket : T(k) \in DOMAIN f => Answered(f[T(k)])
    BY <2>1, <2>4
  <2> QED BY <2>3, <2>5, DeskMoves
<1>9. ASSUME NEW t \in Tx, CreateTicket(t) \/ ReadTicket(t) \/ Post(t) \/ SetStatus(t)
      PROVE  DeskInv'
  BY <1>9, DeskCreate, DeskRead, DeskPost, DeskSetStatus
<1> QED BY <1>1, <1>2, <1>3, <1>4, <1>5, <1>6, <1>7, <1>8, <1>9, Steps

\* It holds at first.
LEMMA DeskInit == Init => DeskInv
<1> SUFFICES ASSUME Init PROVE DeskInv
  OBVIOUS
<1>1. \A t \in Tx : sess[t].pc = "idle" /\ DOMAIN ws[t] = {}
  BY AtRest, Nothing DEF Init, AccessInit
<1>2. \A k \in Ticket : T(k) \in DOMAIN db => Answered(db[T(k)])
  BY FirstContents DEF Answered
<1>3. \A t \in Tx : TicketOk(t)
  BY <1>1 DEF TicketOk
<1> QED BY <1>1, <1>2, <1>3 DEF DeskInv

\* Where the handlers of one ticket do not overlap, a ticket whose last message is
\* the customer's is in the staff's list, or closed, unless the staff has set it to
\* answered by hand after the message, which the API lets it do.
THEOREM RepliesReachStaff == Spec /\ []OneAtATicket => []UserReplyNeedsStaff
<1>1. DeskInv => UserReplyNeedsStaff
  BY DEF DeskInv, Answered, UserReplyNeedsStaff
<1> QED BY <1>1, InitInv, StepInv, DeskInit, DeskStep, PTL DEF Spec
-----------------------------------------------------------------------------
\* The referral links of one user are handled one after another.
OneStart ==
    \A t, v \in Tx :
        sess[t].op = "start" /\ sess[v].op = "start" /\ sess[t].who = sess[v].who => t = v

\* Session t may change who has referred u.
Greets(t, u) == sess[t].op = "start" /\ sess[t].who = u

\* The rows v show of who has referred u what the rows d show.
SameReferrer(v, d, u) ==
    /\ U(u) \in DOMAIN v <=> U(u) \in DOMAIN d
    /\ U(u) \in DOMAIN d => v[U(u)].referrer = d[U(u)].referrer
    /\ R(u) \in DOMAIN v <=> R(u) \in DOMAIN d
    /\ R(u) \in DOMAIN d => v[R(u)] = d[R(u)]

\* The user and the referral, by the rows v, agree.
Agrees(v, u) ==
    IF U(u) \in DOMAIN v
    THEN /\ v[U(u)].referrer # u
         /\ v[U(u)].referrer # Null <=> R(u) \in DOMAIN v
         /\ v[U(u)].referrer # Null => v[R(u)] = v[U(u)].referrer
    ELSE R(u) \notin DOMAIN v

\* What session s, which sees the rows v, knows of the user u it greets.
GreetOk(s, v, u) ==
    /\ s.pc # "ensure referral" => Agrees(v, u)
    /\ s.pc = "insert user" => s.seen = Null
    /\ s.pc = "refer" => U(u) \in DOMAIN v /\ v[U(u)].referrer = s.seen
    /\ s.pc = "ensure referral" =>
          /\ U(u) \in DOMAIN v /\ v[U(u)].referrer = s.arg
          /\ s.arg # u /\ R(u) \notin DOMAIN v

ReferralInv ==
    /\ \A u \in User : Agrees(db, u)
    /\ \A t \in Tx : \A u \in User :
          IF Greets(t, u)
          THEN GreetOk(sess[t], Visible(t), u)
          ELSE SameReferrer(Visible(t), db, u)

\* Rows that show the same.
LEMMA SameShown ==
    ASSUME NEW v, NEW d, NEW u, SameReferrer(v, d, u)
    PROVE  /\ Agrees(d, u) => Agrees(v, u)
           /\ \A s : GreetOk(s, d, u) => GreetOk(s, v, u)
           /\ \A e : SameReferrer(d, e, u) => SameReferrer(v, e, u)
<1>1. Agrees(d, u) => Agrees(v, u)
  BY DEF SameReferrer, Agrees
<1>2. \A s : GreetOk(s, d, u) => GreetOk(s, v, u)
  BY <1>1 DEF SameReferrer, GreetOk
<1>3. \A e : SameReferrer(d, e, u) => SameReferrer(v, e, u)
  BY DEF SameReferrer
<1> QED BY <1>1, <1>2, <1>3

\* The same rows, seen through what transactions have written.
LEMMA SameThrough ==
    ASSUME NEW u
    PROVE  /\ \A v : SameReferrer(v, v, u)
           /\ \A d : SameReferrer(Over(NoRows, d), d, u)
           /\ \A x, v, d : SameReferrer(v, d, u) => SameReferrer(Over(x, v), Over(x, d), u)
           /\ \A x, y, d : DOMAIN x \cap DOMAIN y = {} /\ SameReferrer(Over(x, d), d, u) =>
                 SameReferrer(Over(x, Over(y, d)), Over(y, d), u)
<1>1. \A v : SameReferrer(v, v, u)
  BY DEF SameReferrer
<1>2. \A d : SameReferrer(Over(NoRows, d), d, u)
  BY DEF SameReferrer, Over, NoRows
<1>3. ASSUME NEW x, NEW v, NEW d, SameReferrer(v, d, u)
      PROVE  SameReferrer(Over(x, v), Over(x, d), u)
  BY <1>3 DEF SameReferrer, Over
<1>4. ASSUME NEW x, NEW y, NEW d, DOMAIN x \cap DOMAIN y = {}, SameReferrer(Over(x, d), d, u)
      PROVE  SameReferrer(Over(x, Over(y, d)), Over(y, d), u)
  BY <1>4 DEF SameReferrer, Over
<1> QED BY <1>1, <1>2, <1>3, <1>4

\* Rows over rows over rows.
LEMMA OverOver ==
    ASSUME NEW f, NEW x, NEW d
    PROVE  Over(Over(f, x), d) = Over(f, Over(x, d))
    BY DEF Over
-----------------------------------------------------------------------------
\* A transaction that is rolled back.
LEMMA ReferralRollback ==
    ASSUME Inv, ReferralInv, NEW t \in Tx, Rollback(t), sess'[t].op # "start",
           \A v \in Tx \ {t} : sess'[v] = sess[v]
    PROVE  ReferralInv'
<1>1. db' = db /\ ws'[t] = NoRows /\ \A v \in Tx \ {t} : ws'[v] = ws[v]
  BY DEF Rollback, Inv, StoreInv
<1>2. ASSUME NEW v \in Tx, NEW u \in User
      PROVE  IF Greets(v, u)' THEN GreetOk(sess'[v], Over(ws'[v], db'), u)
                              ELSE SameReferrer(Over(ws'[v], db'), db', u)
  <2>1. CASE v = t
    BY <1>1, <2>1, SameThrough DEF Greets
  <2>2. CASE v # t
    BY <1>1, <2>2 DEF ReferralInv, Visible, Greets
  <2> QED BY <2>1, <2>2
<1>3. \A u \in User : Agrees(db', u)
  BY <1>1 DEF ReferralInv
<1> QED BY <1>2, <1>3 DEF ReferralInv, Visible, Agrees, SameReferrer, GreetOk

\* A transaction that is committed: what it shows becomes what everybody sees, and
\* nobody else greets the same user.
LEMMA ReferralCommit ==
    ASSUME Inv, ReferralInv, OneStart, NEW t \in Tx, Commit(t), sess[t].pc # "ensure referral",
           sess'[t].op # "start", \A v \in Tx \ {t} : sess'[v] = sess[v]
    PROVE  ReferralInv'
<1>1. db' = Over(ws[t], db) /\ ws'[t] = NoRows /\ \A v \in Tx \ {t} : ws'[v] = ws[v]
  BY DEF Commit, Visible, Inv, StoreInv
<1>2. /\ \A u \in User : Agrees(db, u)
      /\ \A v \in Tx, u \in User : IF Greets(v, u) THEN GreetOk(sess[v], Over(ws[v], db), u)
                                                   ELSE SameReferrer(Over(ws[v], db), db, u)
  BY DEF ReferralInv, Visible
<1>3. ASSUME NEW u \in User PROVE Agrees(db', u)
  <2>1. CASE Greets(t, u)
    BY <1>1, <1>2, <2>1 DEF GreetOk
  <2>2. CASE ~Greets(t, u)
    <3>1. SameReferrer(db', db, u)
      BY <1>1, <1>2, <2>2
    <3> QED BY <1>2, <3>1, SameShown
  <2> QED BY <2>1, <2>2
<1>4. ASSUME NEW v \in Tx, NEW u \in User
      PROVE  IF Greets(v, u)' THEN GreetOk(sess'[v], Over(ws'[v], db'), u)
                              ELSE SameReferrer(Over(ws'[v], db'), db', u)
  <2>1. CASE v = t
    BY <1>1, <2>1, SameThrough DEF Greets
  <2>2. CASE v # t /\ Greets(v, u)
    <3>1. ~Greets(t, u)
      BY <2>2 DEF Greets, OneStart
    <3>2. SameReferrer(db', db, u)
      BY <1>1, <1>2, <3>1
    <3>3. SameReferrer(Over(ws[v], db'), Over(ws[v], db), u)
      BY <3>2, SameThrough
    <3>4. GreetOk(sess[v], Over(ws[v], db), u)
      BY <1>2, <2>2
    <3>5. GreetOk(sess[v], Over(ws[v], db'), u)
      BY <3>3, <3>4, SameShown
    <3> QED BY <1>1, <2>2, <3>5 DEF Greets
  <2>3. CASE v # t /\ ~Greets(v, u)
    <3>1. DOMAIN ws[v] \cap DOMAIN ws[t] = {}
      BY <2>3 DEF Inv, StoreInv, Exclusive
    <3>2. SameReferrer(Over(ws[v], db), db, u)
      BY <1>2, <2>3
    <3>3. SameReferrer(Over(ws[v], Over(ws[t], db)), Over(ws[t], db), u)
      BY <3>1, <3>2, SameThrough
    <3> QED BY <1>1, <2>3, <3>3 DEF Greets
  <2> QED BY <2>1, <2>2, <2>3
<1> QED BY <1>3, <1>4 DEF ReferralInv, Visible, Agrees, SameReferrer, GreetOk

\* A transaction that goes on, and writes of no user but the one it greets.
LEMMA ReferralWrite ==
    ASSUME Inv, ReferralInv, NEW t \in Tx, UNCHANGED db,
           \A v \in Tx \ {t} : sess'[v] = sess[v] /\ ws'[v] = ws[v],
           \A u \in User : IF Greets(t, u)'
                           THEN GreetOk(sess'[t], Over(ws'[t], db), u)
                           ELSE /\ ~Greets(t, u)
                                /\ SameReferrer(Over(ws'[t], db), Over(ws[t], db), u)
    PROVE  ReferralInv'
<1>1. /\ \A u \in User : Agrees(db, u)
      /\ \A v \in Tx, u \in User : IF Greets(v, u) THEN GreetOk(sess[v], Over(ws[v], db), u)
                                                   ELSE SameReferrer(Over(ws[v], db), db, u)
  BY DEF ReferralInv, Visible
<1>2. ASSUME NEW v \in Tx, NEW u \in User
      PROVE  IF Greets(v, u)' THEN GreetOk(sess'[v], Over(ws'[v], db'), u)
                              ELSE SameReferrer(Over(ws'[v], db'), db', u)
  <2>1. CASE v = t /\ Greets(t, u)'
    BY <2>1
  <2>2. CASE v = t /\ ~Greets(t, u)'
    <3>1. SameReferrer(Over(ws'[t], db), Over(ws[t], db), u) /\ SameReferrer(Over(ws[t], db), db, u)
      BY <1>1, <2>2
    <3>2. SameReferrer(Over(ws'[t], db), db, u)
      BY <3>1, SameShown
    <3> QED BY <2>2, <3>2
  <2>3. CASE v # t
    BY <1>1, <2>3 DEF Greets
  <2> QED BY <2>1, <2>2, <2>3
<1>3. \A u \in User : Agrees(db', u)
  BY <1>1
<1> QED BY <1>2, <1>3 DEF ReferralInv, Visible, Agrees, SameReferrer, GreetOk

\* What a transaction writes besides users and referrals.
LEMMA OtherRows ==
    ASSUME NEW f, NEW x, NEW d, NEW u, U(u) \notin DOMAIN f, R(u) \notin DOMAIN f
    PROVE  SameReferrer(Over(Over(f, x), d), Over(x, d), u)
    BY DEF SameReferrer, Over

\* Whoever greets nobody and writes no user or referral.
LEMMA ReferralElsewhere ==
    ASSUME Inv, ReferralInv, OneStart, NEW t \in Tx, NEW next, NEW S, Moves(t, next, S),
           sess[t].op # "start", "user" \notin S, "referral" \notin S
    PROVE  ReferralInv'
<1>1. \A v \in Tx \ {t} : sess'[v] = sess[v] /\ ws'[v] = ws[v]
  BY DEF Moves
<1>2. sess'[t].op # "start"
  BY AtRest DEF Moves
<1>3. \A u \in User : ~Greets(t, u) /\ ~Greets(t, u)'
  BY <1>2 DEF Greets
<1>4. CASE UNCHANGED <<db, ws>>
  <2>1. \A u \in User : SameReferrer(Over(ws'[t], db), Over(ws[t], db), u)
    BY <1>4, SameThrough
  <2> QED BY <1>1, <1>3, <1>4, <2>1, ReferralWrite
<1>5. CASE Rollback(t)
  BY <1>1, <1>2, <1>5, ReferralRollback
<1>6. CASE Commit(t) /\ sess[t].pc \in {"commit", "publish"}
  BY <1>1, <1>2, <1>6, ReferralCommit
<1>7. CASE \E f : Write(t, f) /\ \A r \in DOMAIN f : r[1] \in S
  <2>1. PICK f : Write(t, f) /\ \A r \in DOMAIN f : r[1] \in S
    BY <1>7
  <2>2. \A u : U(u) \notin DOMAIN f /\ R(u) \notin DOMAIN f
    BY <2>1, Keys
  <2>3. ws'[t] = Over(f, ws[t]) /\ db' = db
    BY <2>1 DEF Write, Inv, StoreInv
  <2>4. \A u \in User : SameReferrer(Over(ws'[t], db), Over(ws[t], db), u)
    BY <2>2, <2>3, OtherRows
  <2> QED BY <1>1, <1>3, <2>3, <2>4, ReferralWrite
<1> QED BY <1>4, <1>5, <1>6, <1>7 DEF Moves

\* The end of a handler, or of its process.
LEMMA ReferralEnd ==
    ASSUME Inv, ReferralInv, OneStart, NEW t \in Tx, Finish(t) \/ Crash(t)
    PROVE  ReferralInv'
<1>1. \A v \in Tx \ {t} : sess'[v] = sess[v]
  BY EndMoves DEF Moves
<1>2. sess'[t].op # "start"
  <2>1. sess'[t] = Idle
    BY DEF Finish, Crash, Close, Inv
  <2> QED BY <2>1, AtRest
<1>3. CASE Finish(t)
  <2>1. Commit(t) /\ sess[t].pc = "commit"
    BY <1>3 DEF Finish, At
  <2> QED BY <1>1, <1>2, <2>1, ReferralCommit
<1>4. CASE Crash(t)
  <2>1. Rollback(t)
    BY <1>4 DEF Crash
  <2> QED BY <1>1, <1>2, <2>1, ReferralRollback
<1> QED BY <1>3, <1>4

\* A ban leaves the referrer.
LEMMA ReferralBan ==
    ASSUME Inv, ReferralInv, OneStart, NEW t \in Tx, Ban(t)
    PROVE  ReferralInv'
<1> DEFINE k == sess[t].arg
<1>1. sess[t].pc = "ban" /\ sess[t].op # "start"
  BY Here DEF Ban, At, Aware, Runs, Staff, Act
<1>2. /\ \A v \in Tx \ {t} : sess'[v] = sess[v] /\ ws'[v] = ws[v]
      /\ sess'[t].op # "start"
  BY <1>1, UserMoves, AtRest DEF Moves
<1>3. \A u \in User : ~Greets(t, u) /\ ~Greets(t, u)'
  BY <1>1, <1>2 DEF Greets
<1>4. CASE Rollback(t)
  BY <1>2, <1>4, ReferralRollback
<1>5. CASE ~Rollback(t)
  <2>1. PICK banned \in BOOLEAN :
           Exists(t, U(k)) /\ Write(t, Is(U(k), [Row(t, U(k)) EXCEPT !.banned = banned]))
    BY <1>5 DEF Ban, Refused
  <2> DEFINE row == [Row(t, U(k)) EXCEPT !.banned = banned]
  <2>2. /\ Row(t, U(k)) \in [banned : BOOLEAN, referrer : User \cup {Null}]
        /\ U(k) \in DOMAIN Over(ws[t], db) /\ Over(ws[t], db)[U(k)] = Row(t, U(k))
    <3>1. Typed(db) /\ Typed(ws[t])
      BY Here
    <3>2. U(k)[1] = "user"
      BY Keys
    <3>3. Row(t, U(k)) \in RowType[U(k)[1]] /\ U(k) \in DOMAIN Over(ws[t], db)
          /\ Over(ws[t], db)[U(k)] = Row(t, U(k))
      BY <2>1, <3>1, Seen
    <3> HIDE DEF k
    <3> QED BY <3>2, <3>3, RowTypes
  <2>3. row.referrer = Over(ws[t], db)[U(k)].referrer
    BY <2>2
  <2>4. Write(t, Is(U(k), row))
    BY <2>1
  <2> HIDE DEF row
  <2>5. ws'[t] = Over(Is(U(k), row), ws[t]) /\ db' = db
    BY <2>4 DEF Write, Inv, StoreInv
  <2>6. ASSUME NEW u \in User PROVE SameReferrer(Over(ws'[t], db), Over(ws[t], db), u)
    <3>1. CASE u # k
      <4>1. U(u) \notin DOMAIN Is(U(k), row) /\ R(u) \notin DOMAIN Is(U(k), row)
        BY <3>1, Keys DEF Is
      <4> QED BY <2>5, <4>1, OtherRows
    <3>2. CASE u = k
      <4> DEFINE v == Over(ws[t], db)
      <4>1. Over(ws'[t], db) = Over(Is(U(k), row), v)
        BY <2>5, OverOver
      <4>2. U(u) \in DOMAIN v /\ v[U(u)].referrer = row.referrer
        BY <2>2, <2>3, <3>2
      <4> HIDE DEF v
      <4>3. R(u) # U(k)
        BY Keys
      <4>4. SameReferrer(Over(Is(U(k), row), v), v, u)
        BY <3>2, <4>2, <4>3 DEF SameReferrer, Over, Is
      <4> QED BY <4>1, <4>4 DEF v
    <3> QED BY <3>1, <3>2
  <2> QED BY <1>2, <1>3, <2>5, <2>6, ReferralWrite
<1> QED BY <1>4, <1>5

\* What session t knows when it greets, and what a session does that goes on.
LEMMA Greeting ==
    ASSUME Inv, ReferralInv, NEW t \in Tx, NEW pc \in PCs,
           sess[t].pc \in {"insert user", "refer", "ensure referral"}
    PROVE  /\ sess[t].op = "start" /\ sess[t].who \in User /\ Greets(t, sess[t].who)
           /\ sess[t].arg \in User \cup {Null}
           /\ sess[t].pc = "ensure referral" => sess[t].arg \in User
           /\ GreetOk(sess[t], Over(ws[t], db), sess[t].who)
           /\ Goto(t, pc) => /\ \A v \in Tx \ {t} : sess'[v] = sess[v]
                             /\ sess'[t].op = "start" /\ sess'[t].who = sess[t].who
                             /\ sess'[t].pc = pc /\ sess'[t].arg = sess[t].arg
                             /\ sess'[t].seen = sess[t].seen
<1>1. sess[t] \in Session /\ Aware(sess[t], ws[t], db, parent)
  BY Here
<1>2. sess[t].op = "start"
  BY <1>1 DEF Aware, Runs, Staff, Act
<1>3. /\ sess[t].who \in User /\ sess[t].arg \in User \cup {Null}
      /\ sess[t].pc = "ensure referral" => sess[t].arg \in User
  BY <1>1, <1>2 DEF Aware, AwareOfUsers
<1>4. Greets(t, sess[t].who)
  BY <1>2 DEF Greets
<1>5. GreetOk(sess[t], Over(ws[t], db), sess[t].who)
  BY <1>3, <1>4 DEF ReferralInv, Visible
<1>6. ASSUME Goto(t, pc)
      PROVE  /\ \A v \in Tx \ {t} : sess'[v] = sess[v]
             /\ sess'[t].op = "start" /\ sess'[t].who = sess[t].who
             /\ sess'[t].pc = pc /\ sess'[t].arg = sess[t].arg
             /\ sess'[t].seen = sess[t].seen
  <2> DEFINE z == [sess[t] EXCEPT !.pc = pc]
  <2>1. sess' = [sess EXCEPT ![t] = z]
    BY <1>6 DEF Goto
  <2>2. /\ z.op = sess[t].op /\ z.who = sess[t].who /\ z.pc = pc /\ z.arg = sess[t].arg
        /\ z.seen = sess[t].seen
    BY <1>1, Gone
  <2> HIDE DEF z
  <2> QED BY <1>2, <2>1, <2>2 DEF Inv
<1> QED BY <1>2, <1>3, <1>4, <1>5, <1>6

\* A greeting that goes on and writes f, rows of the user u it greets.
LEMMA ReferralGreet ==
    ASSUME Inv, ReferralInv, NEW t \in Tx, NEW u, Greets(t, u), NEW f,
           \A w \in User : w # u => U(w) \notin DOMAIN f /\ R(w) \notin DOMAIN f,
           UNCHANGED db, ws'[t] = Over(f, ws[t]),
           \A v \in Tx \ {t} : sess'[v] = sess[v] /\ ws'[v] = ws[v],
           sess'[t].op = "start", sess'[t].who = sess[t].who,
           GreetOk(sess'[t], Over(f, Over(ws[t], db)), u)
    PROVE  ReferralInv'
<1>1. ASSUME NEW w \in User, w # u PROVE SameReferrer(Over(ws'[t], db), Over(ws[t], db), w)
  BY <1>1, OtherRows
<1>2. Over(ws'[t], db) = Over(f, Over(ws[t], db))
  BY OverOver
<1>3. \A w : Greets(t, w)' <=> w = u
  BY DEF Greets
<1>4. \A w : Greets(t, w) <=> w = u
  BY DEF Greets
<1> QED BY <1>1, <1>2, <1>3, <1>4, ReferralWrite

\* A new user has no referrer.
LEMMA ReferralInsertUser ==
    ASSUME Inv, ReferralInv, NEW t \in Tx, InsertUser(t), NEW u, u = sess[t].who
    PROVE  ReferralInv'
<1>1. sess[t].pc = "insert user" /\ "refer" \in PCs
  BY DEF InsertUser, At, PCs
<1>2. \A v \in Tx \ {t} : sess'[v] = sess[v] /\ ws'[v] = ws[v]
  BY UserMoves DEF Moves
<1>3. CASE Rollback(t) /\ Close(t)
  <2>1. sess'[t].op # "start"
    BY <1>3, AtRest DEF Close, Inv
  <2> QED BY <1>2, <1>3, <2>1, ReferralRollback
<1>4. CASE ~(Rollback(t) /\ Close(t))
  <2> DEFINE v == Over(ws[t], db)
             f == NewUser(u)
  <2>1. ~Exists(t, U(u)) /\ Write(t, f) /\ Goto(t, "refer")
    BY <1>4 DEF InsertUser, Refused
  <2>2. ws'[t] = Over(f, ws[t]) /\ db' = db
    BY <2>1 DEF Write, Inv, StoreInv
  <2>3. /\ U(u) \notin DOMAIN v /\ GreetOk(sess[t], v, u) /\ u \in User /\ Greets(t, u)
    BY <1>1, <2>1, Greeting DEF Exists, Over
  <2>4. R(u) \notin DOMAIN v /\ sess[t].seen = Null
    BY <1>1, <2>3 DEF GreetOk, Agrees
  <2>5. /\ DOMAIN f = {U(u), W(u)}
        /\ f[U(u)].referrer = Null
    <3>1. f[U(u)] = [banned |-> FALSE, referrer |-> Null]
      BY DEF NewUser, Over, Is
    <3> QED BY <3>1 DEF NewUser, Over, Is
  <2> HIDE DEF f, v
  <2>6. /\ U(u) \in DOMAIN Over(f, v) /\ Over(f, v)[U(u)].referrer = Null
        /\ R(u) \notin DOMAIN Over(f, v)
    <3>1. R(u) # U(u) /\ R(u) # W(u)
      BY Keys
    <3> QED BY <2>4, <2>5, <3>1 DEF Over
  <2>7. /\ sess'[t].op = "start" /\ sess'[t].who = sess[t].who /\ sess'[t].pc = "refer"
        /\ sess'[t].seen = Null
    BY <1>1, <2>1, <2>4, Greeting
  <2>8. GreetOk(sess'[t], Over(f, v), u)
    <3>1. Null # u
      BY <2>3, BackOfficeAssumption
    <3> QED BY <2>6, <2>7, <3>1 DEF GreetOk, Agrees
  <2>9. \A w \in User : w # u => U(w) \notin DOMAIN f /\ R(w) \notin DOMAIN f
    BY <2>5, Keys
  <2> QED BY <1>2, <2>2, <2>3, <2>7, <2>8, <2>9, ReferralGreet DEF v
<1> QED BY <1>3, <1>4

\* The referrer is another user, and the user had none.
LEMMA ReferralRefer ==
    ASSUME Inv, ReferralInv, NEW t \in Tx, Refer(t), NEW u, u = sess[t].who
    PROVE  ReferralInv'
<1> DEFINE v == Over(ws[t], db)
           s == sess[t]
<1>1. s.pc = "refer" /\ "commit" \in PCs /\ "ensure referral" \in PCs
  BY DEF Refer, At, PCs
<1>2. \A w \in Tx \ {t} : sess'[w] = sess[w] /\ ws'[w] = ws[w]
  BY UserMoves DEF Moves
<1>3. u \in User /\ Greets(t, u) /\ GreetOk(s, v, u) /\ s.op = "start"
  BY <1>1, Greeting
<1>4. Agrees(v, u) /\ U(u) \in DOMAIN v /\ v[U(u)].referrer = s.seen
  BY <1>1, <1>3 DEF GreetOk
<1>5. CASE Goto(t, "commit") /\ UNCHANGED store
  <2>1. UNCHANGED <<db, ws>>
    BY <1>5 DEF store
  <2>2. /\ sess'[t].op = "start" /\ sess'[t].who = u /\ sess'[t].pc = "commit"
    BY <1>1, <1>5, Greeting
  <2>3. GreetOk(sess'[t], v, u)
    BY <1>4, <2>2 DEF GreetOk
  <2>4. \A w \in User : IF Greets(t, w)'
                        THEN GreetOk(sess'[t], Over(ws'[t], db), w)
                        ELSE /\ ~Greets(t, w)
                             /\ SameReferrer(Over(ws'[t], db), Over(ws[t], db), w)
    BY <1>3, <2>1, <2>2, <2>3, SameThrough DEF Greets
  <2> QED BY <1>2, <2>1, <2>4, ReferralWrite
<1>6. CASE ~(Goto(t, "commit") /\ UNCHANGED store)
  <2> DEFINE row == [Row(t, U(u)) EXCEPT !.referrer = s.arg]
             f == Is(U(u), row)
  <2>1. Referable(t) /\ Write(t, f) /\ Goto(t, "ensure referral")
    BY <1>6 DEF Refer
  <2>2. s.seen = Null /\ s.arg # u
    BY <2>1 DEF Referable
  <2>3. row.referrer = s.arg
    <3>1. Exists(t, U(u))
      BY <1>4 DEF Exists, Over
    <3>2. Row(t, U(u)) \in [banned : BOOLEAN, referrer : User \cup {Null}]
      BY <3>1, Here, Seen, Keys, RowTypes, ZenonT(30)
    <3> QED BY <3>2
  <2> HIDE DEF row
  <2>4. ws'[t] = Over(f, ws[t]) /\ db' = db
    BY <2>1 DEF Write, Inv, StoreInv
  <2>5. DOMAIN f = {U(u)} /\ f[U(u)].referrer = s.arg
    BY <2>3 DEF Is
  <2> HIDE DEF f
  <2>6. R(u) \notin DOMAIN v
    BY <1>4, <2>2 DEF Agrees
  <2> HIDE DEF v
  <2>7. /\ U(u) \in DOMAIN Over(f, v) /\ Over(f, v)[U(u)].referrer = s.arg
        /\ R(u) \notin DOMAIN Over(f, v)
    <3>1. R(u) # U(u)
      BY Keys
    <3> QED BY <2>5, <2>6, <3>1 DEF Over
  <2>8. /\ sess'[t].op = "start" /\ sess'[t].who = s.who /\ sess'[t].pc = "ensure referral"
        /\ sess'[t].arg = s.arg
    BY <1>1, <2>1, Greeting
  <2>9. GreetOk(sess'[t], Over(f, v), u)
    BY <2>2, <2>7, <2>8 DEF GreetOk
  <2>10. \A w \in User : w # u => U(w) \notin DOMAIN f /\ R(w) \notin DOMAIN f
    BY <2>5, Keys
  <2> QED BY <1>2, <1>3, <2>4, <2>8, <2>9, <2>10, ReferralGreet DEF v
<1> QED BY <1>5, <1>6

\* The referral is the user's.
LEMMA ReferralEnsure ==
    ASSUME Inv, ReferralInv, NEW t \in Tx, EnsureReferral(t), NEW u, u = sess[t].who
    PROVE  ReferralInv'
<1> DEFINE v == Over(ws[t], db)
           s == sess[t]
           f == Is(R(u), s.arg)
<1>1. s.pc = "ensure referral" /\ "commit" \in PCs /\ Goto(t, "commit")
  BY DEF EnsureReferral, At, PCs
<1>2. \A w \in Tx \ {t} : sess'[w] = sess[w] /\ ws'[w] = ws[w]
  BY UserMoves DEF Moves
<1>3. u \in User /\ Greets(t, u) /\ GreetOk(s, v, u) /\ s.arg \in User
  BY <1>1, Greeting
<1>4. /\ U(u) \in DOMAIN v /\ v[U(u)].referrer = s.arg
      /\ s.arg # u /\ R(u) \notin DOMAIN v /\ s.arg # Null
  BY <1>1, <1>3, BackOfficeAssumption DEF GreetOk
<1>5. Write(t, f)
  <2>1. ~Exists(t, R(u))
    BY <1>4 DEF Exists, Over
  <2> QED BY <2>1 DEF EnsureReferral
<1>6. ws'[t] = Over(f, ws[t]) /\ db' = db
  BY <1>5 DEF Write, Inv, StoreInv
<1>7. DOMAIN f = {R(u)} /\ f[R(u)] = s.arg
  BY DEF Is
<1> HIDE DEF f, v
<1>8. /\ U(u) \in DOMAIN Over(f, v) /\ Over(f, v)[U(u)].referrer = s.arg
      /\ R(u) \in DOMAIN Over(f, v) /\ Over(f, v)[R(u)] = s.arg
  <2>1. R(u) # U(u)
    BY Keys
  <2> QED BY <1>4, <1>7, <2>1 DEF Over
<1>9. sess'[t].op = "start" /\ sess'[t].who = s.who /\ sess'[t].pc = "commit"
  BY <1>1, Greeting
<1>10. GreetOk(sess'[t], Over(f, v), u)
  BY <1>4, <1>8, <1>9 DEF GreetOk, Agrees
<1>11. \A w \in User : w # u => U(w) \notin DOMAIN f /\ R(w) \notin DOMAIN f
  BY <1>7, Keys
<1> QED BY <1>2, <1>3, <1>6, <1>9, <1>10, <1>11, ReferralGreet DEF v

\* Nothing happens.
LEMMA ReferralStill ==
    ASSUME ReferralInv, UNCHANGED <<db, ws, sess>>
    PROVE  ReferralInv'
<1>1. \A u \in User : Agrees(db', u)
  BY DEF ReferralInv
<1>2. ASSUME NEW v \in Tx, NEW u \in User
      PROVE  IF Greets(v, u)' THEN GreetOk(sess'[v], Over(ws'[v], db'), u)
                              ELSE SameReferrer(Over(ws'[v], db'), db', u)
  BY DEF ReferralInv, Visible, Greets
<1> QED BY <1>1, <1>2 DEF ReferralInv, Visible, Agrees, SameReferrer, GreetOk

\* A greeting starts with what the middleware has read of the user.
LEMMA ReferralReads ==
    ASSUME Inv, ReferralInv, NEW t \in Tx, Reads(t)
    PROVE  ReferralInv'
<1>1. CASE UNCHANGED <<db, ws, sess>>
  BY <1>1, ReferralStill
<1>2. CASE \E z : Entry(t, z)
  <2>1. PICK z : Entry(t, z)
    BY <1>2
  <2>2. /\ sess'[t] = z /\ \A v \in Tx \ {t} : sess'[v] = sess[v]
        /\ sess[t].pc = "idle" /\ UNCHANGED <<db, ws>>
    BY <2>1 DEF Entry, Inv
  <2>3. sess[t].op = "none" /\ ws[t] = NoRows
    BY <2>2, Here DEF Aware, Runs, Act, Unwritten
  <2>4. \A u : ~Greets(t, u)
    BY <2>3 DEF Greets
  <2>5. ASSUME NEW u \in User, Greets(t, u)' PROVE GreetOk(sess'[t], Over(ws'[t], db), u)
    <3>1. z.op = "start" /\ z.who = u
      BY <2>2, <2>5 DEF Greets
    <3>2. \/ z.pc = "insert user" /\ z.seen = Null
          \/ z.pc = "refer" /\ U(u) \in DOMAIN db /\ z.seen = db[U(u)].referrer
      BY <2>1, <2>3, <3>1, Nothing DEF Entry, Exists, Row
    <3>3. Agrees(db, u)
      BY DEF ReferralInv
    <3>4. GreetOk(z, db, u)
      BY <3>2, <3>3 DEF GreetOk
    <3>5. SameReferrer(Over(NoRows, db), db, u)
      BY SameThrough
    <3>6. GreetOk(z, Over(NoRows, db), u)
      BY <3>4, <3>5, SameShown
    <3> QED BY <2>2, <2>3, <3>6
  <2>6. \A u \in User : SameReferrer(Over(ws'[t], db), Over(ws[t], db), u)
    BY <2>2, SameThrough
  <2> QED BY <2>2, <2>4, <2>5, <2>6, ReferralWrite
<1> QED BY <1>1, <1>2, ReadsEnter

\* Who is dismissed or demoted is no user.
LEMMA ReferralOperator ==
    ASSUME Inv, ReferralInv, NEW a \in Admin, Dismiss(a) \/ Demote(a)
    PROVE  ReferralInv'
<1>1. /\ UNCHANGED ws
      /\ sess' = [t \in Tx |-> IF sess[t].who = a THEN [sess[t] EXCEPT !.late = TRUE] ELSE sess[t]]
  BY DEF Dismiss, Demote, accessVars
<1>2. \A u : SameReferrer(db', db, u)
  <2>1. \A u : U(u) # A(a) /\ R(u) # A(a)
    BY Keys
  <2> QED BY <2>1 DEF Dismiss, Demote, SameReferrer
<1>3. \A t \in Tx : /\ sess'[t].op = sess[t].op /\ sess'[t].who = sess[t].who
                    /\ sess'[t].pc = sess[t].pc /\ sess'[t].arg = sess[t].arg
                    /\ sess'[t].seen = sess[t].seen
  <2>1. \A t \in Tx : sess[t] \in Session
    BY DEF Inv
  <2> QED BY <1>1, <2>1 DEF Session
<1>4. /\ \A u \in User : Agrees(db, u)
      /\ \A v \in Tx, u \in User : IF Greets(v, u) THEN GreetOk(sess[v], Over(ws[v], db), u)
                                                   ELSE SameReferrer(Over(ws[v], db), db, u)
  BY DEF ReferralInv, Visible
<1>5. ASSUME NEW v \in Tx, NEW u \in User
      PROVE  IF Greets(v, u)' THEN GreetOk(sess'[v], Over(ws'[v], db'), u)
                              ELSE SameReferrer(Over(ws'[v], db'), db', u)
  <2>1. SameReferrer(Over(ws[v], db'), Over(ws[v], db), u)
    BY <1>2, SameThrough
  <2>2. Greets(v, u)' <=> Greets(v, u)
    BY <1>3 DEF Greets
  <2>3. CASE Greets(v, u)
    <3>1. GreetOk(sess[v], Over(ws[v], db'), u)
      BY <1>4, <2>1, <2>3, SameShown
    <3>2. GreetOk(sess'[v], Over(ws[v], db'), u)
      BY <1>3, <3>1 DEF GreetOk
    <3> QED BY <1>1, <2>2, <2>3, <3>2
  <2>4. CASE ~Greets(v, u)
    <3>1. SameReferrer(Over(ws[v], db), db, u) /\ SameReferrer(db', db, u)
      BY <1>2, <1>4, <2>4
    <3>2. SameReferrer(Over(ws[v], db'), db', u)
      BY <2>1, <3>1 DEF SameReferrer
    <3> QED BY <1>1, <2>2, <2>4, <3>2
  <2> QED BY <2>3, <2>4
<1>6. \A u \in User : Agrees(db', u)
  BY <1>2, <1>4, SameShown
<1> QED BY <1>5, <1>6 DEF ReferralInv, Visible, Agrees, SameReferrer, GreetOk

\* Every step keeps it.
LEMMA ReferralStep == Inv /\ ReferralInv /\ OneStart /\ [Next]_vars => ReferralInv'
<1> SUFFICES ASSUME Inv, ReferralInv, OneStart, [Next]_vars PROVE ReferralInv'
  OBVIOUS
<1>1. CASE (\E a \in Admin : Dismiss(a) \/ Demote(a)) /\ UNCHANGED <<queue, inbox>>
  BY <1>1, ReferralOperator
<1>2. CASE UNCHANGED <<db, ws, sess, setup, crashes, queue, inbox>>
  BY <1>2, ReferralStill
<1>3. ASSUME NEW t \in Tx, Reads(t) PROVE ReferralInv'
  BY <1>3, ReferralReads
<1>4. ASSUME NEW t \in Tx, ContinueAuth(t) PROVE ReferralInv'
  <2>1. Moves(t, {"rotate", "commit"}, {"admin", "token"}) /\ sess[t].op \in AuthOp
    BY <1>4, AuthMoves
  <2> QED BY <2>1, ReferralElsewhere DEF AuthOp
<1>5. ASSUME NEW t \in Tx, InsertUser(t) \/ Refer(t) \/ EnsureReferral(t) \/ Ban(t) PROVE ReferralInv'
  BY <1>5, ReferralInsertUser, ReferralRefer, ReferralEnsure, ReferralBan
<1>6. ASSUME NEW t \in Tx, CreateTicket(t) \/ ReadTicket(t) \/ Post(t) \/ SetStatus(t)
      PROVE  ReferralInv'
  <2>1. /\ Moves(t, {"post", "set status", "commit"}, {"ticket"})
        /\ sess[t].pc \in {"create ticket", "reply", "close", "post", "set status"}
    BY <1>6, TicketMoves
  <2>2. sess[t].op # "start"
    BY <2>1, Here DEF Aware, Runs, Act, Staff
  <2> QED BY <2>1, <2>2, ReferralElsewhere
<1>7. ASSUME NEW t \in Tx,
             \/ Compose(t) \/ Publish(t) \/ Enqueue(t)
             \/ Audience(t) \/ SendOne(t) \/ Tally(t) \/ FinishDispatch(t)
      PROVE  ReferralInv'
  <2>1. Moves(t, {"publish", "enqueue", "send", "commit"}, {"broadcast"})
    BY <1>7, BroadcastMoves
  <2>2. sess[t].op # "start"
    BY <1>7, Here DEF Compose, Publish, Enqueue, Audience, SendOne, Tally, FinishDispatch, At,
       Aware, Runs, Act, Staff
  <2> QED BY <2>1, <2>2, ReferralElsewhere
<1>8. ASSUME NEW t \in Tx, Finish(t) \/ Crash(t) PROVE ReferralInv'
  BY <1>8, ReferralEnd
<1>9. ASSUME NEW t \in Tx, NEW b \in Broadcast, Dispatch(t, b) PROVE ReferralInv'
  <2> DEFINE z == Begun("dispatch", Null, b, "audience")
  <2>1. /\ sess' = [sess EXCEPT ![t] = z]
        /\ \E f : Write(t, f) /\ \A r \in DOMAIN f : r[1] \in {"broadcast"}
        /\ sess[t].op = "none"
    BY <1>9, DispatchMoves
  <2>2. z.op = "dispatch"
    BY DEF Begun, Idle
  <2> HIDE DEF z
  <2>3. PICK f : Write(t, f) /\ \A r \in DOMAIN f : r[1] \in {"broadcast"}
    BY <2>1
  <2>4. \A u : U(u) \notin DOMAIN f /\ R(u) \notin DOMAIN f
    BY <2>3, Keys
  <2>5. /\ \A v \in Tx \ {t} : sess'[v] = sess[v] /\ ws'[v] = ws[v]
        /\ sess'[t].op = "dispatch" /\ ws'[t] = Over(f, ws[t]) /\ db' = db
    BY <2>1, <2>2, <2>3 DEF Inv, StoreInv, Write
  <2>6. \A u \in User : SameReferrer(Over(ws'[t], db), Over(ws[t], db), u)
    BY <2>4, <2>5, OtherRows
  <2>7. \A u : ~Greets(t, u) /\ ~Greets(t, u)'
    BY <2>1, <2>5 DEF Greets
  <2> QED BY <2>5, <2>6, <2>7, ReferralWrite
<1> QED BY <1>1, <1>2, <1>3, <1>4, <1>5, <1>6, <1>7, <1>8, <1>9, Steps

\* It holds at first.
LEMMA ReferralInit == Init => ReferralInv
<1> SUFFICES ASSUME Init PROVE ReferralInv
  OBVIOUS
<1>1. \A t \in Tx : sess[t].op = "none" /\ ws[t] = NoRows
  BY AtRest DEF Init, AccessInit
<1>2. \A t \in Tx, u \in User : ~Greets(t, u)
  BY <1>1 DEF Greets
<1>3. \A u \in User : Agrees(db, u)
  BY FirstContents, BackOfficeAssumption DEF Agrees
<1>4. \A t \in Tx, u \in User : SameReferrer(Visible(t), db, u)
  BY <1>1, SameThrough DEF Visible
<1> QED BY <1>2, <1>3, <1>4 DEF ReferralInv

\* Where the referral links of one user are handled one after another, the referral
\* goes to the referrer the user shows, and nobody refers himself.
THEOREM ReferralsAgree == Spec /\ []OneStart => []ReferralAgrees
<1>1. ReferralInv => ReferralAgrees
  BY DEF ReferralInv, Agrees, ReferralAgrees
<1> QED BY <1>1, InitInv, StepInv, ReferralInit, ReferralStep, PTL DEF Spec
-----------------------------------------------------------------------------
(***************************************************************************)
(* Logins.  Root is defined by recursion over the exchanges; that it       *)
(* exists is shown along the behaviour instead: every exchange extends a   *)
(* function that solves Root's equation (Leads), because the new token is  *)
(* nobody's parent.  What is shown of Root is shown of every solution.     *)
(***************************************************************************)

\* By the exchanges par, first gives for each token the login it goes back to.
Leads(first, par) == first = [n \in Token |-> IF par[n] = Null THEN n ELSE first[par[n]]]

\* Refreshes do not overlap.
OneRefresher ==
    \A t, v \in Tx : "refresh" \in setup.duty[t] /\ "refresh" \in setup.duty[v] => t = v

\* What session s does to the tokens of d: it revokes those it writes, and adds one,
\* of a login or in exchange for its arg.
Exchanges(s, x, d, par) ==
    /\ \A n \in Token : RT(n) \in DOMAIN x =>
          IF RT(n) \in DOMAIN d
          THEN x[RT(n)].revoked
          ELSE s.op \in {"login", "refresh"} /\ par[n] = s.arg /\ (s.op = "refresh" => n = s.n)
    /\ s.op = "login" => s.arg = Null
    /\ s.op = "refresh" => /\ s.arg \in Token /\ RT(s.arg) \in DOMAIN d
                           /\ s.pc = "commit" => RT(s.arg) \in DOMAIN x

\* By first, a login has one live token at most, which is the one a refresh has read.
Single(first) ==
    /\ \A m, n \in Token : Live(m) /\ Live(n) /\ first[m] = first[n] => m = n
    /\ \A t \in Tx : sess[t].op = "refresh" =>
          \A m \in Token : Live(m) /\ first[m] = first[sess[t].arg] => m = sess[t].arg

LoginInv ==
    /\ \A n \in Token : parent[n] # Null => RT(parent[n]) \in DOMAIN db
    /\ \A t \in Tx : /\ sess[t].op = "refresh" => "refresh" \in setup.duty[t]
                     /\ Exchanges(sess[t], ws[t], db, parent)
    /\ \E first : Leads(first, parent)
    /\ \A first : Leads(first, parent) =>
          /\ \A n \in Tokens : first[n] \in Tokens
          /\ OneRefresher => Single(first)

\* par and new differ in the parent of n only, which is nobody's parent.
SameBut(n, par, new) ==
    \A m \in Token : /\ par[m] # n /\ new[m] # n /\ new[m] \in Token \cup {Null}
                     /\ m # n => new[m] = par[m]

\* Then what leads by one leads by the other, but for n.
LEMMA LeadsOn ==
    ASSUME NEW par, NEW new, NEW n \in Token, NEW first, Leads(first, par), SameBut(n, par, new)
    PROVE  \E next : Leads(next, new) /\ \A m \in Token \ {n} : next[m] = first[m]
<1> DEFINE next == [m \in Token |-> IF m # n THEN first[m]
                                    ELSE IF new[n] = Null THEN n ELSE first[new[n]]]
<1>1. \A m \in Token : first[m] = IF par[m] = Null THEN m ELSE first[par[m]]
  BY DEF Leads
<1>2. /\ next = [m \in Token |-> next[m]]
      /\ next[n] = IF new[n] = Null THEN n ELSE first[new[n]]
      /\ \A m \in Token \ {n} : next[m] = first[m]
  OBVIOUS
<1> HIDE DEF next
<1>3. \A m \in Token : new[m] # Null => next[new[m]] = first[new[m]]
  BY <1>2 DEF SameBut
<1>4. \A m \in Token : next[m] = IF new[m] = Null THEN m ELSE next[new[m]]
  BY <1>1, <1>2, <1>3 DEF SameBut
<1>5. Leads(next, new)
  BY <1>2, <1>4 DEF Leads
<1> QED BY <1>2, <1>5

\* A step that gives no token away.
LEMMA LoginStill ==
    ASSUME Inv, LoginInv, UNCHANGED <<parent, setup>>,
           \A n \in Token : /\ RT(n) \in DOMAIN db' <=> RT(n) \in DOMAIN db
                            /\ RT(n) \in DOMAIN db => db'[RT(n)] = db[RT(n)],
           \A t \in Tx : /\ Exchanges(sess'[t], ws'[t], db, parent)
                         /\ sess'[t].op = "refresh" =>
                               /\ "refresh" \in setup.duty[t]
                               /\ \/ sess[t].op = "refresh" /\ sess'[t].arg = sess[t].arg
                                  \/ Live(sess'[t].arg)
    PROVE  LoginInv'
<1>1. \A n \in Token : (Live(n)' <=> Live(n)) /\ (n \in Tokens' <=> n \in Tokens)
  BY DEF Live, Tokens
<1>2. \A t \in Tx : Exchanges(sess'[t], ws'[t], db', parent')
  BY DEF Exchanges
<1>3. \A n \in Token : parent'[n] # Null => RT(parent'[n]) \in DOMAIN db'
  BY DEF LoginInv, Inv
<1>4. ASSUME NEW first, Leads(first, parent), OneRefresher PROVE Single(first)'
  <2>1. Single(first)
    BY <1>4 DEF LoginInv
  <2>2. ASSUME NEW t \in Tx, sess'[t].op = "refresh", NEW m \in Token, Live(m)',
               first[m] = first[sess'[t].arg]
        PROVE  m = sess'[t].arg
    <3>1. Live(m)
      BY <1>1, <2>2
    <3>2. sess'[t].arg \in Token
      BY <2>2 DEF Exchanges
    <3>3. CASE sess[t].op = "refresh" /\ sess'[t].arg = sess[t].arg
      BY <2>1, <2>2, <3>1, <3>3 DEF Single
    <3>4. CASE Live(sess'[t].arg)
      BY <2>1, <2>2, <3>1, <3>2, <3>4 DEF Single
    <3> QED BY <2>2, <3>3, <3>4
  <2>3. \A m, n \in Token : Live(m)' /\ Live(n)' /\ first[m] = first[n] => m = n
    BY <1>1, <2>1 DEF Single
  <2> QED BY <2>2, <2>3 DEF Single
<1>5. OneRefresher' <=> OneRefresher
  BY DEF OneRefresher
<1>6. \A first : Leads(first, parent) => \A n \in Tokens' : first[n] \in Tokens'
  BY <1>1 DEF LoginInv, Tokens
<1>7. \A t \in Tx : sess'[t].op = "refresh" => "refresh" \in setup'.duty[t]
  OBVIOUS
<1>8. \E first : Leads(first, parent')
  BY DEF LoginInv
<1> QED BY <1>2, <1>3, <1>4, <1>5, <1>6, <1>7, <1>8 DEF LoginInv

\* What was live, and what a commit gives away.
LEMMA LiveNext ==
    ASSUME Inv, LoginInv, NEW t \in Tx, Commit(t), NEW n \in Token, Live(n)'
    PROVE  \/ Live(n) /\ RT(n) \notin DOMAIN ws[t]
           \/ RT(n) \in DOMAIN ws[t] \ DOMAIN db
<1>1. db' = Over(ws[t], db)
  BY DEF Commit, Visible
<1>2. CASE RT(n) \in DOMAIN ws[t] \cap DOMAIN db
  <2>1. ws[t][RT(n)].revoked /\ db'[RT(n)] = ws[t][RT(n)]
    BY <1>1, <1>2 DEF LoginInv, Exchanges, Over
  <2> QED BY <2>1 DEF Live
<1>3. CASE RT(n) \notin DOMAIN ws[t]
  BY <1>1, <1>3 DEF Live, Tokens, Over
<1> QED BY <1>2, <1>3

\* The new token of a transaction, and the login it goes back to.
LEMMA NewLeads ==
    ASSUME Inv, LoginInv, NEW t \in Tx, NEW first, Leads(first, parent),
           NEW n \in Token, RT(n) \in DOMAIN ws[t] \ DOMAIN db
    PROVE  \/ sess[t].op = "login" /\ first[n] = n
           \/ /\ sess[t].op = "refresh" /\ n = sess[t].n
              /\ sess[t].arg \in Tokens /\ first[n] = first[sess[t].arg]
<1>1. /\ sess[t].op \in {"login", "refresh"} /\ parent[n] = sess[t].arg
      /\ sess[t].op = "refresh" => n = sess[t].n
      /\ sess[t].op = "login" => sess[t].arg = Null
      /\ sess[t].op = "refresh" => sess[t].arg \in Tokens
  BY DEF LoginInv, Exchanges, Tokens
<1>2. first[n] = IF parent[n] = Null THEN n ELSE first[parent[n]]
  BY DEF Leads
<1>3. Null \notin Tokens
  BY AccessAssumption DEF Tokens
<1> QED BY <1>1, <1>2, <1>3

\* The end of a login, a refresh or any other handler.
LEMMA LoginCommit ==
    ASSUME Inv, LoginInv, NEW t \in Tx, Commit(t), UNCHANGED <<parent, setup>>,
           \A v \in Tx \ {t} : sess'[v] = sess[v],
           sess'[t].op \notin {"login", "refresh"}, sess[t].op = "refresh" => At(t, "commit")
    PROVE  LoginInv'
<1>1. /\ db' = Over(ws[t], db) /\ ws'[t] = NoRows /\ \A v \in Tx \ {t} : ws'[v] = ws[v]
      /\ DOMAIN db' = DOMAIN ws[t] \cup DOMAIN db
  BY EndEffect, EndGrows DEF Inv, StoreInv, Commit, Visible
<1>2. \A n \in Token : parent'[n] # Null => RT(parent'[n]) \in DOMAIN db'
  BY <1>1 DEF LoginInv
<1>3. ASSUME NEW v \in Tx PROVE Exchanges(sess'[v], ws'[v], db', parent')
  <2>1. CASE v = t
    BY <1>1, <2>1, Nothing DEF Exchanges
  <2>2. CASE v # t
    <3>1. Exchanges(sess[v], ws[v], db, parent) /\ DOMAIN ws[v] \cap DOMAIN ws[t] = {}
      BY <2>2 DEF LoginInv, Inv, StoreInv, Exclusive
    <3> QED BY <1>1, <2>2, <3>1 DEF Exchanges
  <2> QED BY <2>1, <2>2
<1>4. ASSUME NEW first, Leads(first, parent), NEW n \in Tokens' PROVE first[n] \in Tokens'
  <2>1. Tokens \subseteq Tokens' /\ n \in Token
    BY <1>1 DEF Tokens
  <2>2. CASE n \in Tokens
    BY <1>4, <2>1, <2>2 DEF LoginInv
  <2>3. CASE n \notin Tokens
    <3>1. RT(n) \in DOMAIN ws[t] \ DOMAIN db
      BY <1>1, <2>1, <2>3 DEF Tokens
    <3>2. first[n] = n \/ (sess[t].arg \in Tokens /\ first[n] = first[sess[t].arg])
      BY <1>4, <2>1, <3>1, NewLeads
    <3> QED BY <1>4, <2>1, <3>2 DEF LoginInv
  <2> QED BY <2>2, <2>3
<1>5. ASSUME NEW first, Leads(first, parent), OneRefresher PROVE Single(first)'
  <2>1. Single(first) /\ \A n \in Tokens : first[n] \in Tokens
    BY <1>5 DEF LoginInv
  <2>2. ASSUME NEW m \in Token, RT(m) \in DOMAIN ws[t] \ DOMAIN db, NEW n \in Token,
               Live(n), RT(n) \notin DOMAIN ws[t], first[m] = first[n]
        PROVE  FALSE
    <3>1. CASE first[m] = m
      BY <2>1, <2>2, <3>1 DEF Live, Tokens
    <3>2. CASE sess[t].op = "refresh" /\ first[m] = first[sess[t].arg]
      <4>1. n = sess[t].arg
        BY <2>1, <2>2, <3>2 DEF Single
      <4>2. RT(sess[t].arg) \in DOMAIN ws[t]
        BY <3>2 DEF LoginInv, Exchanges, At
      <4> QED BY <2>2, <4>1, <4>2
    <3> QED BY <1>5, <2>2, <3>1, <3>2, NewLeads
  <2>3. ASSUME NEW m \in Token, NEW n \in Token, Live(m)', Live(n)', first[m] = first[n]
        PROVE  m = n
    <3>1. CASE Live(m) /\ Live(n)
      BY <2>1, <2>3, <3>1 DEF Single
    <3>2. CASE RT(m) \in DOMAIN ws[t] \ DOMAIN db /\ RT(n) \in DOMAIN ws[t] \ DOMAIN db
      BY <1>5, <2>3, <3>2, NewLeads
    <3> QED BY <2>2, <2>3, <3>1, <3>2, LiveNext
  <2>4. ASSUME NEW v \in Tx, sess'[v].op = "refresh", NEW m \in Token, Live(m)',
               first[m] = first[sess'[v].arg]
        PROVE  m = sess'[v].arg
    <3>1. v # t /\ sess'[v] = sess[v]
      BY <2>4
    <3>2. CASE Live(m)
      BY <2>1, <2>4, <3>1, <3>2 DEF Single
    <3>3. CASE RT(m) \in DOMAIN ws[t] \ DOMAIN db
      <4>1. sess[t].op # "refresh"
        BY <1>5, <2>4, <3>1 DEF LoginInv, OneRefresher
      <4>2. first[m] = m
        BY <1>5, <3>3, <4>1, NewLeads
      <4>3. sess[v].arg \in Tokens
        BY <2>4, <3>1 DEF LoginInv, Exchanges, Tokens
      <4> QED BY <2>1, <2>4, <3>1, <3>3, <4>2, <4>3 DEF Tokens
    <3> QED BY <2>4, <3>2, <3>3, LiveNext
  <2> QED BY <2>3, <2>4 DEF Single
<1>6. OneRefresher' <=> OneRefresher
  BY DEF OneRefresher
<1>7. \A v \in Tx : sess'[v].op = "refresh" => "refresh" \in setup'.duty[v]
  BY DEF LoginInv
<1>8. \E first : Leads(first, parent')
  BY DEF LoginInv
<1> QED BY <1>2, <1>3, <1>4, <1>5, <1>6, <1>7, <1>8 DEF LoginInv

\* The new pair of a login or a refresh.
LEMMA LoginIssue ==
    ASSUME Inv, LoginInv, NEW t \in Tx, Issue(t)
    PROVE  LoginInv'
<1> DEFINE s == sess[t]
           p == s.arg
<1>1. s \in Session /\ Runs(s.op, s.pc) /\ At(t, "issue")
  BY Here DEF Aware, Issue
<1>2. s.op \in {"login", "refresh"} /\ ws[t] = NoRows
  BY <1>1, Here DEF At, Runs, Act, Aware, Unwritten
<1>3. PICK n \in setup.tokens \ Issued :
         LET token == Is(RT(n), [admin |-> s.who, revoked |-> FALSE, replaced |-> Null])
             admin == Is(A(s.who), Row(t, A(s.who)))
         IN /\ Write(t, IF s.op = "login" THEN Over(token, admin) ELSE token)
            /\ parent' = [parent EXCEPT ![n] = p]
            /\ sess' = [sess EXCEPT ![t].n = n,
                           ![t].pc = IF s.op = "login" THEN "commit" ELSE "rotate"]
  BY DEF Issue
<1> DEFINE token == Is(RT(n), [admin |-> s.who, revoked |-> FALSE, replaced |-> Null])
           admin == Is(A(s.who), Row(t, A(s.who)))
           f == IF s.op = "login" THEN Over(token, admin) ELSE token
<1>4. /\ n \in Token /\ n # Null /\ RT(n) \notin DOMAIN db /\ \A v \in Tx : RT(n) \notin DOMAIN ws[v]
      /\ setup' = setup
  BY <1>3, AccessAssumption DEF Issued, Inv, World, AccessSetup, Issue
<1>5. \A m \in Token : RT(m) \in DOMAIN f => m = n
  <2>1. DOMAIN token = {RT(n)} /\ DOMAIN admin = {A(s.who)}
    BY OneRow
  <2> HIDE DEF token, admin
  <2>2. DOMAIN Over(token, admin) = DOMAIN token \cup DOMAIN admin
    BY OverRows
  <2> QED BY <2>1, <2>2, Keys
<1>6. Write(t, f)
  BY <1>3
<1> HIDE DEF f
<1>7. /\ db' = db /\ ws'[t] = Over(f, NoRows) /\ \A v \in Tx \ {t} : ws'[v] = ws[v]
  BY <1>2, <1>6, WriteEffect DEF Inv, StoreInv
<1>8. \A m \in Token : RT(m) \in DOMAIN ws'[t] => m = n
  <2>1. DOMAIN ws'[t] = DOMAIN f \cup DOMAIN NoRows
    BY <1>7 DEF Over
  <2> QED BY <1>5, <2>1, Nothing
<1>9. /\ sess'[t].op = s.op /\ sess'[t].arg = p /\ sess'[t].n = n
      /\ sess'[t].op = "refresh" => sess'[t].pc # "commit"
      /\ \A v \in Tx \ {t} : sess'[v] = sess[v]
  BY <1>1, <1>2, <1>3 DEF Inv, Session
<1>10. /\ s.op = "login" => p = Null
       /\ s.op = "refresh" => p \in Tokens
  BY DEF LoginInv, Exchanges, Tokens
<1>11. /\ parent \in [Token -> Token \cup {Null}] /\ p \in (Token \cup {Null}) \ {n}
       /\ parent' = [parent EXCEPT ![n] = p]
  BY <1>2, <1>3, <1>4, <1>10 DEF Inv, Tokens
<1>12. /\ parent'[n] = p /\ \A m \in Token \ {n} : parent'[m] = parent[m]
       /\ \A m \in Token : parent[m] # n
  BY <1>4, <1>11 DEF LoginInv
<1>13. \A m \in Token : parent'[m] # Null => RT(parent'[m]) \in DOMAIN db'
  BY <1>2, <1>7, <1>10, <1>12 DEF LoginInv, Tokens
<1>14. ASSUME NEW v \in Tx PROVE Exchanges(sess'[v], ws'[v], db', parent')
  <2>1. Exchanges(sess[v], ws[v], db, parent)
    BY DEF LoginInv
  <2>2. CASE v = t
    BY <1>2, <1>4, <1>7, <1>8, <1>9, <1>12, <2>1, <2>2 DEF Exchanges
  <2>3. CASE v # t
    BY <1>4, <1>7, <1>9, <1>12, <2>1, <2>3 DEF Exchanges
  <2> QED BY <2>2, <2>3
<1>15. \E first : Leads(first, parent')
  <2>1. PICK first : Leads(first, parent)
    BY DEF LoginInv
  <2>2. SameBut(n, parent, parent')
    BY <1>11, <1>12 DEF SameBut
  <2> QED BY <1>4, <2>1, <2>2, LeadsOn
<1>16. /\ Tokens' = Tokens /\ n \notin Tokens
       /\ \A m \in Token : (Live(m)' <=> Live(m)) /\ (Live(m) => m \in Tokens)
  BY <1>4, <1>7 DEF Tokens, Live
<1>17. ASSUME NEW first, Leads(first, parent')
       PROVE  /\ \A m \in Tokens' : first[m] \in Tokens'
              /\ OneRefresher' => Single(first)'
  <2>1. PICK old : Leads(old, parent) /\ \A m \in Token \ {n} : old[m] = first[m]
    <3>1. SameBut(n, parent', parent)
      BY <1>11, <1>12 DEF SameBut
    <3> QED BY <1>4, <1>17, <3>1, LeadsOn
  <2>2. \A m \in Tokens : old[m] = first[m]
    BY <1>16, <2>1 DEF Tokens
  <2>3. \A m \in Tokens' : first[m] \in Tokens'
    BY <1>16, <2>1, <2>2 DEF LoginInv
  <2>4. ASSUME OneRefresher' PROVE Single(first)'
    <3>1. Single(old)
      BY <1>4, <2>1, <2>4 DEF LoginInv, OneRefresher
    <3>2. \A v \in Tx : /\ sess'[v].op = sess[v].op /\ sess'[v].arg = sess[v].arg
                        /\ sess[v].op = "refresh" => sess[v].arg \in Tokens
      BY <1>9 DEF LoginInv, Exchanges, Tokens
    <3> QED BY <1>16, <2>2, <3>1, <3>2 DEF Single
  <2> QED BY <2>3, <2>4
<1>18. \A v \in Tx : sess'[v].op = "refresh" => "refresh" \in setup'.duty[v]
  BY <1>4, <1>9 DEF LoginInv
<1> QED BY <1>13, <1>14, <1>15, <1>17, <1>18 DEF LoginInv

\* What is revoked or written of other tables gives no token away.
LEMMA ExchangesOn ==
    ASSUME NEW s, NEW x, NEW d, NEW par, Exchanges(s, x, d, par), NEW z, NEW y,
           \A n \in Token : RT(n) \in DOMAIN y =>
              \/ RT(n) \in DOMAIN x /\ y[RT(n)] = x[RT(n)]
              \/ RT(n) \in DOMAIN d /\ y[RT(n)].revoked,
           z.op = s.op,
           z.op \in {"login", "refresh"} => z.arg = s.arg /\ z.n = s.n,
           z.op = "refresh" /\ z.pc = "commit" => RT(s.arg) \in DOMAIN y
    PROVE  Exchanges(z, y, d, par)
    BY DEF Exchanges

\* A step of t in a handler of no tokens.
LEMMA LoginElsewhere ==
    ASSUME Inv, LoginInv, NEW t \in Tx, UNCHANGED <<parent, setup>>,
           \A v \in Tx \ {t} : sess'[v] = sess[v] /\ ws'[v] = ws[v],
           sess[t].op \notin {"login", "refresh"}, sess'[t].op \notin {"login", "refresh"},
           \/ UNCHANGED <<db, ws>>
           \/ Rollback(t)
           \/ Commit(t)
           \/ \E f : Write(t, f) /\ \A n \in Token : RT(n) \notin DOMAIN f
    PROVE  LoginInv'
<1>1. CASE Commit(t)
  BY <1>1, LoginCommit
<1>2. CASE ~Commit(t)
  <2>1. db' = db
    BY <1>2 DEF Rollback, Write
  <2>2. \A n \in Token : RT(n) \in DOMAIN ws'[t] =>
           RT(n) \in DOMAIN ws[t] /\ ws'[t][RT(n)] = ws[t][RT(n)]
    <3>1. CASE UNCHANGED <<db, ws>>
      BY <3>1
    <3>2. CASE Rollback(t)
      <4>1. DOMAIN ws'[t] = {}
        BY <3>2, EndEffect DEF Inv, StoreInv
      <4> QED BY <4>1
    <3>3. CASE \E f : Write(t, f) /\ \A n \in Token : RT(n) \notin DOMAIN f
      <4>1. PICK f : Write(t, f) /\ \A n \in Token : RT(n) \notin DOMAIN f
        BY <3>3
      <4>2. ws'[t] = Over(f, ws[t])
        BY <4>1, WriteEffect DEF Inv, StoreInv
      <4> QED BY <4>1, <4>2 DEF Over
    <3> QED BY <1>2, <3>1, <3>2, <3>3
  <2>3. \A v \in Tx : Exchanges(sess[v], ws[v], db, parent)
    BY DEF LoginInv
  <2>4. ASSUME NEW v \in Tx PROVE Exchanges(sess'[v], ws'[v], db, parent)
    <3>1. CASE v = t
      BY <2>2, <2>3, <3>1 DEF Exchanges
    <3>2. CASE v # t
      BY <2>3, <3>2
    <3> QED BY <3>1, <3>2
  <2>5. ASSUME NEW v \in Tx, sess'[v].op = "refresh"
        PROVE  /\ "refresh" \in setup.duty[v]
               /\ sess[v].op = "refresh" /\ sess'[v].arg = sess[v].arg
    <3>1. v # t
      BY <2>5
    <3> QED BY <2>5, <3>1 DEF LoginInv
  <2> QED BY <2>1, <2>4, <2>5, LoginStill
<1> QED BY <1>1, <1>2

\* The same, of what Moves says.
LEMMA LoginMoves ==
    ASSUME Inv, LoginInv, NEW t \in Tx, NEW next, NEW S, Moves(t, next, S), "token" \notin S,
           sess[t].op \notin {"login", "refresh"}, UNCHANGED <<parent, setup>>
    PROVE  LoginInv'
<1>1. sess'[t].op \notin {"login", "refresh"}
  BY AtRest DEF Moves
<1>2. \A f : (\A r \in DOMAIN f : r[1] \in S) => \A n \in Token : RT(n) \notin DOMAIN f
  BY Keys
<1>3. \/ UNCHANGED <<db, ws>>
      \/ Rollback(t)
      \/ Commit(t)
      \/ \E f : Write(t, f) /\ \A n \in Token : RT(n) \notin DOMAIN f
  BY <1>2 DEF Moves
<1>4. \A v \in Tx \ {t} : sess'[v] = sess[v] /\ ws'[v] = ws[v]
  BY DEF Moves
<1> QED BY <1>1, <1>3, <1>4, LoginElsewhere

\* The token a refresh or a logout has read is revoked.
LEMMA LoginRevokes ==
    ASSUME Inv, LoginInv, NEW t \in Tx, Rotate(t) \/ Revoke(t)
    PROVE  LoginInv'
<1> DEFINE s == sess[t]
           p == s.arg
           z == [s EXCEPT !.pc = "commit"]
<1>1. /\ s \in Session /\ Aware(s, ws[t], db, parent) /\ Typed(db) /\ Typed(ws[t])
  BY Here
<1>2. /\ Goto(t, "commit") /\ UNCHANGED <<parent, setup>>
      /\ At(t, "rotate") \/ At(t, "revoke")
  BY DEF Rotate, Revoke, accessVars
<1>3. PICK row : Write(t, Is(RT(p), row)) /\ (row = [Row(t, RT(p)) EXCEPT !.revoked = TRUE]
                    \/ row = [Row(t, RT(p)) EXCEPT !.revoked = TRUE, !.replaced = s.n])
  BY DEF Rotate, Revoke
<1>4. p \in Token /\ RT(p) \in DOMAIN db
  BY <1>1, <1>2 DEF At, Aware, AwareOfAccess
<1>5. row.revoked
  <2>1. Row(t, RT(p)) \in RowType["token"]
    BY <1>1, <1>4, Seen, Keys DEF Exists
  <2>2. Row(t, RT(p)) \in [admin : Admin, revoked : BOOLEAN, replaced : Token \cup {Null}]
    BY <2>1, RowTypes
  <2> QED BY <1>3, <2>2
<1>6. /\ db' = db /\ ws'[t] = Over(Is(RT(p), row), ws[t])
      /\ \A v \in Tx \ {t} : ws'[v] = ws[v]
  BY <1>3, WriteEffect DEF Inv, StoreInv
<1>7. /\ RT(p) \in DOMAIN ws'[t] /\ ws'[t][RT(p)] = row
      /\ \A r \in DOMAIN ws'[t] \ {RT(p)} : r \in DOMAIN ws[t] /\ ws'[t][r] = ws[t][r]
  BY <1>6 DEF Over, Is
<1>8. /\ sess'[t] = z /\ z.op = s.op /\ z.arg = s.arg /\ z.n = s.n
      /\ \A v \in Tx \ {t} : sess'[v] = sess[v]
  BY <1>1, <1>2 DEF Goto, Inv, Session
<1> HIDE DEF z
<1>9. ASSUME NEW v \in Tx PROVE Exchanges(sess'[v], ws'[v], db, parent)
  <2>1. Exchanges(sess[v], ws[v], db, parent)
    BY DEF LoginInv
  <2>2. CASE v = t
    BY <1>4, <1>5, <1>7, <1>8, <2>1, <2>2, ExchangesOn
  <2>3. CASE v # t
    BY <1>6, <1>8, <2>1, <2>3
  <2> QED BY <2>2, <2>3
<1>10. \A v \in Tx : /\ sess'[v].op = sess[v].op /\ sess'[v].arg = sess[v].arg
                     /\ sess[v].op = "refresh" => "refresh" \in setup.duty[v]
  BY <1>8 DEF LoginInv
<1> QED BY <1>2, <1>6, <1>9, <1>10, LoginStill

\* What a handler has read of tokens at its first step.
LEMMA ReadsTokens ==
    ASSUME Inv, NEW t \in Tx, Reads(t)
    PROVE  /\ UNCHANGED <<db, ws>> /\ sess[t].op = "none" /\ ws[t] = NoRows
           /\ \A v \in Tx \ {t} : sess'[v] = sess[v]
           /\ sess'[t].op = "login" => sess'[t].arg = Null
           /\ sess'[t].op = "refresh" =>
                 /\ sess'[t].arg \in Token /\ Live(sess'[t].arg)
                 /\ "refresh" \in setup.duty[t] /\ sess'[t].pc = "issue"
<1>1. /\ UNCHANGED <<db, ws>> /\ At(t, "idle")
      /\ sess' = sess \/ \E z : sess' = [sess EXCEPT ![t] = z]
  <2>1. ASSUME NEW op, NEW who, NEW arg, NEW pc, Enter(t, op, who, arg, pc)
        PROVE  \E z : sess' = [sess EXCEPT ![t] = z]
    BY <2>1 DEF Enter
  <2> QED BY <2>1 DEF Reads, Login, CreateAdmin, Refresh, Logout, Answer, Request, Press, Contact,
                      Begin, store
<1>2. sess[t].op = "none" /\ ws[t] = NoRows
  BY <1>1, Here DEF At, Aware, Runs, Act, Unwritten
<1>3. \A v \in Tx \ {t} : sess'[v] = sess[v]
  BY <1>1 DEF Inv
<1>4. ASSUME NEW op, NEW who, NEW arg, NEW pc, Enter(t, op, who, arg, pc)
      PROVE  sess'[t].op = op /\ sess'[t].arg = arg /\ sess'[t].pc = pc
  BY <1>4 DEF Enter, Idle, Inv
<1>5. CASE \E a \in Admin : Login(t, a)
  BY <1>1, <1>2, <1>3, <1>4, <1>5 DEF Login
<1>6. CASE \E a \in Admin : CreateAdmin(t, a)
  <2>1. PICK a \in Admin : Enter(t, "create admin", Null, a, "insert admin")
    BY <1>6 DEF CreateAdmin
  <2>2. sess'[t].op = "create admin"
    BY <1>4, <2>1
  <2> QED BY <1>1, <1>2, <1>3, <2>2
<1>7. CASE \E a \in Admin, n \in Token : Refresh(t, a, n)
  <2>1. PICK a \in Admin, n \in Token : Refresh(t, a, n)
    BY <1>7
  <2>2. Live(n)
    BY <1>2, <2>1, Nothing DEF Refresh, Usable, Exists, Row, Live, Tokens
  <2>3. "refresh" \in setup.duty[t] /\ Enter(t, "refresh", a, n, "issue")
    BY <2>1 DEF Refresh, Begin
  <2> QED BY <1>1, <1>2, <1>3, <1>4, <2>2, <2>3
<1>8. CASE \E a \in Admin, n \in Token : Logout(t, a, n)
  BY <1>1, <1>2, <1>3, <1>4, <1>8 DEF Logout
<1>9. CASE \E a \in Admin : Answer(t, a)
  BY <1>1, <1>2, <1>3, <1>4, <1>9 DEF Answer
<1>10. CASE \E a \in Admin, act \in Act : \E arg \in Object(act) : Request(t, a, act, arg)
  BY <1>1, <1>2, <1>3, <1>4, <1>10 DEF Request
<1>11. CASE \E a \in Admin, act \in Act : \E arg \in Object(act) : Press(t, a, act, arg)
  BY <1>1, <1>2, <1>3, <1>4, <1>11 DEF Press
<1>12. ASSUME NEW u \in User, NEW op \in {"start", "ticket"}, NEW arg, NEW pc, Contact(t, u, op, arg, pc)
       PROVE  sess'[t].op = op
  BY <1>4, <1>12 DEF Contact, Idle, Inv
<1> QED BY <1>1, <1>2, <1>3, <1>5, <1>6, <1>7, <1>8, <1>9, <1>10, <1>11, <1>12 DEF Reads

\* Only a new pair is exchanged for a token.
LEMMA ParentStays ==
    ASSUME Next, \A t \in Tx : ~Issue(t)
    PROVE  parent' = parent
<1>1. CASE AccessNext
  BY <1>1 DEF AccessNext, Dismiss, Demote, ExpireAccess, Lapse, Login, CreateAdmin, Refresh, Logout,
              ContinueAuth, Rotate, Revoke, FinishAuth, InsertAdmin, accessVars
<1>2. ASSUME NEW t \in Tx, Start(t) PROVE parent' = parent
  BY <1>2 DEF Start, Answer, Request, Press, Contact, Dispatch, rest, accessVars
<1>3. ASSUME NEW t \in Tx, Continue(t) PROVE parent' = parent
  <2>1. CASE ContinueAuth(t)
    BY <2>1 DEF ContinueAuth, Rotate, Revoke, FinishAuth, InsertAdmin, accessVars
  <2>2. CASE \/ Finish(t) \/ InsertUser(t) \/ Refer(t) \/ EnsureReferral(t) \/ Ban(t)
             \/ CreateTicket(t) \/ ReadTicket(t) \/ Post(t) \/ SetStatus(t)
    BY <2>2 DEF Finish, InsertUser, Refer, EnsureReferral, Ban, CreateTicket, ReadTicket, Post,
                SetStatus, rest, accessVars
  <2>3. CASE \/ Compose(t) \/ Publish(t) \/ Enqueue(t)
             \/ Audience(t) \/ SendOne(t) \/ Tally(t) \/ FinishDispatch(t)
    BY <2>3 DEF Compose, Publish, Enqueue, Audience, SendOne, Tally, FinishDispatch, rest, accessVars
  <2> QED BY <1>3, <2>1, <2>2, <2>3 DEF Continue
<1>4. ASSUME NEW t \in Tx, Crash(t) PROVE parent' = parent
  BY <1>4 DEF Crash
<1> QED BY <1>1, <1>2, <1>3, <1>4 DEF Next

\* It holds at first.
LEMMA LoginInit == Init => LoginInv
<1> SUFFICES ASSUME Init PROVE LoginInv
  OBVIOUS
<1>1. /\ \A t \in Tx : sess[t] = Idle /\ DOMAIN ws[t] = {}
      /\ \A n \in Token : parent[n] = Null
  BY Nothing DEF Init, AccessInit
<1>2. \A t \in Tx : Exchanges(sess[t], ws[t], db, parent)
  BY <1>1, AtRest DEF Exchanges
<1>3. Leads([n \in Token |-> n], parent)
  BY <1>1 DEF Leads
<1>4. ASSUME NEW first, Leads(first, parent)
      PROVE  (\A n \in Tokens : first[n] \in Tokens) /\ Single(first)
  <2>1. \A n \in Token : first[n] = n
    BY <1>1, <1>4 DEF Leads
  <2>2. \A t \in Tx : sess[t].op # "refresh"
    BY <1>1, AtRest
  <2> QED BY <2>1, <2>2 DEF Tokens, Single
<1>5. \A t \in Tx : sess[t].op # "refresh"
  BY <1>1, AtRest
<1> QED BY <1>1, <1>2, <1>3, <1>4, <1>5 DEF LoginInv

\* The operator's SQL, a step that changes no row, and a first step.
LEMMA LoginRead ==
    ASSUME Inv, LoginInv, UNCHANGED <<parent, setup>>,
           \/ \E a \in Admin : Dismiss(a) \/ Demote(a)
           \/ UNCHANGED <<db, ws, sess>>
           \/ \E t \in Tx : Reads(t)
    PROVE  LoginInv'
<1>1. CASE UNCHANGED <<db, ws, sess>>
  BY <1>1, LoginStill DEF LoginInv
<1>2. CASE \E a \in Admin : Dismiss(a) \/ Demote(a)
  <2>1. PICK a \in Admin : Dismiss(a) \/ Demote(a)
    BY <1>2
  <2>2. /\ UNCHANGED ws
        /\ sess' = [t \in Tx |-> IF sess[t].who = a THEN [sess[t] EXCEPT !.late = TRUE] ELSE sess[t]]
    BY <2>1 DEF Dismiss, Demote
  <2>3. \A n \in Token : /\ RT(n) \in DOMAIN db' <=> RT(n) \in DOMAIN db
                         /\ RT(n) \in DOMAIN db => db'[RT(n)] = db[RT(n)]
    <3>1. \A n : RT(n) # A(a)
      BY Keys
    <3> QED BY <2>1, <3>1 DEF Dismiss, Demote
  <2>4. \A t \in Tx : /\ sess'[t].op = sess[t].op /\ sess'[t].pc = sess[t].pc
                      /\ sess'[t].arg = sess[t].arg /\ sess'[t].n = sess[t].n
    <3>1. \A t \in Tx : sess[t] \in Session
      BY DEF Inv
    <3> QED BY <2>2, <3>1 DEF Session
  <2>5. \A t \in Tx : Exchanges(sess'[t], ws'[t], db, parent)
    BY <2>2, <2>4 DEF LoginInv, Exchanges
  <2> QED BY <2>3, <2>4, <2>5, LoginStill DEF LoginInv
<1>3. CASE \E t \in Tx : Reads(t)
  <2>1. PICK t \in Tx : Reads(t)
    BY <1>3
  <2>2. /\ UNCHANGED <<db, ws>> /\ ws[t] = NoRows
        /\ \A v \in Tx \ {t} : sess'[v] = sess[v]
        /\ sess'[t].op = "login" => sess'[t].arg = Null
        /\ sess'[t].op = "refresh" =>
              /\ sess'[t].arg \in Token /\ Live(sess'[t].arg)
              /\ "refresh" \in setup.duty[t] /\ sess'[t].pc = "issue"
    BY <2>1, ReadsTokens
  <2>3. ASSUME NEW v \in Tx
        PROVE  /\ Exchanges(sess'[v], ws'[v], db, parent)
               /\ sess'[v].op = "refresh" =>
                     /\ "refresh" \in setup.duty[v]
                     /\ \/ sess[v].op = "refresh" /\ sess'[v].arg = sess[v].arg
                        \/ Live(sess'[v].arg)
    <3>1. CASE v = t
      BY <2>2, <3>1, Nothing DEF Exchanges, Live, Tokens
    <3>2. CASE v # t
      BY <2>2, <3>2 DEF LoginInv
    <3> QED BY <3>1, <3>2
  <2> QED BY <2>2, <2>3, LoginStill
<1> QED BY <1>1, <1>2, <1>3

\* Every step keeps it.
LEMMA LoginsKept == Inv /\ LoginInv /\ [Next]_vars => LoginInv'
<1> SUFFICES ASSUME Inv, LoginInv, [Next]_vars, \A t \in Tx : ~Issue(t) PROVE LoginInv'
  BY LoginIssue
<1>1. parent' = parent
  BY ParentStays DEF vars, accessVars
<1>2. CASE (\E a \in Admin : Dismiss(a) \/ Demote(a)) /\ UNCHANGED <<queue, inbox>>
  BY <1>1, <1>2, LoginRead DEF Dismiss, Demote, accessVars
<1>3. CASE UNCHANGED <<db, ws, sess, setup, crashes, queue, inbox>>
  BY <1>1, <1>3, LoginRead
<1>4. ASSUME NEW t \in Tx, Reads(t), setup' = setup PROVE LoginInv'
  BY <1>1, <1>4, LoginRead
<1>5. ASSUME NEW t \in Tx, ContinueAuth(t), setup' = setup PROVE LoginInv'
  <2>1. /\ Moves(t, {"rotate", "commit"}, {"admin", "token"})
        /\ Runs(sess[t].op, sess[t].pc)
    BY <1>5, AuthMoves, Here DEF Aware
  <2>2. \A v \in Tx \ {t} : sess'[v] = sess[v] /\ ws'[v] = ws[v]
    BY <2>1 DEF Moves
  <2>3. CASE Rotate(t) \/ Revoke(t)
    BY <2>3, LoginRevokes
  <2>4. CASE FinishAuth(t)
    <3>1. Commit(t) /\ At(t, "commit") /\ sess'[t] = Idle
      BY <2>4 DEF FinishAuth, Close, Inv
    <3> QED BY <1>1, <1>5, <2>2, <3>1, AtRest, LoginCommit
  <2>5. CASE InsertAdmin(t)
    <3>1. sess[t].op = "create admin"
      BY <2>1, <2>5 DEF InsertAdmin, At, Runs, Act
    <3>2. sess'[t].op \notin {"login", "refresh"}
      BY <2>1, <3>1, AtRest DEF Moves
    <3>3. Rollback(t) \/ \E f : Write(t, f) /\ \A n \in Token : RT(n) \notin DOMAIN f
      <4>1. \A a, row : \A n \in Token : RT(n) \notin DOMAIN Is(A(a), row)
        <5> TAKE a, row
        <5>1. DOMAIN Is(A(a), row) = {A(a)}
          BY OneRow
        <5>2. \A n \in Token : RT(n) # A(a)
          BY Keys
        <5> QED BY <5>1, <5>2
      <4> QED BY <2>5, <4>1 DEF InsertAdmin
    <3> QED BY <1>1, <1>5, <2>2, <3>1, <3>2, <3>3, LoginElsewhere
  <2> QED BY <1>5, <2>3, <2>4, <2>5 DEF ContinueAuth
<1>6. ASSUME NEW t \in Tx, setup' = setup,
             InsertUser(t) \/ Refer(t) \/ EnsureReferral(t) \/ Ban(t)
      PROVE  LoginInv'
  <2>1. /\ Moves(t, {"refer", "ensure referral", "commit"}, {"user", "wallet", "referral"})
        /\ sess[t].pc \in {"insert user", "refer", "ensure referral", "ban"}
    BY <1>6, UserMoves
  <2>2. sess[t].op \notin {"login", "refresh"}
    <3>1. Runs(sess[t].op, sess[t].pc)
      BY Here DEF Aware
    <3> QED BY <2>1, <3>1 DEF Runs, Staff, Act
  <2> QED BY <1>1, <1>6, <2>1, <2>2, LoginMoves
<1>7. ASSUME NEW t \in Tx, setup' = setup,
             CreateTicket(t) \/ ReadTicket(t) \/ Post(t) \/ SetStatus(t)
      PROVE  LoginInv'
  <2>1. /\ Moves(t, {"post", "set status", "commit"}, {"ticket"})
        /\ sess[t].pc \in {"create ticket", "reply", "close", "post", "set status"}
    BY <1>7, TicketMoves
  <2>2. sess[t].op \notin {"login", "refresh"}
    <3>1. Runs(sess[t].op, sess[t].pc)
      BY Here DEF Aware
    <3> QED BY <2>1, <3>1 DEF Runs, Staff, Act
  <2> QED BY <1>1, <1>7, <2>1, <2>2, LoginMoves
<1>8. ASSUME NEW t \in Tx,
             \/ Compose(t) \/ Publish(t) \/ Enqueue(t)
             \/ Audience(t) \/ SendOne(t) \/ Tally(t) \/ FinishDispatch(t)
      PROVE  LoginInv'
  <2>1. Moves(t, {"publish", "enqueue", "send", "commit"}, {"broadcast"})
    BY <1>8, BroadcastMoves
  <2>2. sess[t].pc \in {"broadcast", "publish", "enqueue", "audience", "send"} \/ sess[t].op = "dispatch"
    BY <1>8 DEF Compose, Publish, Enqueue, Audience, SendOne, Tally, FinishDispatch, At
  <2>3. sess[t].op \notin {"login", "refresh"}
    <3>1. Runs(sess[t].op, sess[t].pc)
      BY Here DEF Aware
    <3> QED BY <2>2, <3>1 DEF Runs, Staff, Act
  <2>4. setup' = setup
    BY <1>8 DEF Compose, Publish, Enqueue, Audience, SendOne, Tally, FinishDispatch, rest, accessVars
  <2> QED BY <1>1, <2>1, <2>3, <2>4, LoginMoves
<1>9. ASSUME NEW t \in Tx, Finish(t), setup' = setup PROVE LoginInv'
  <2>1. Moves(t, {}, {}) /\ sess[t].op \notin {"login", "refresh"}
    BY <1>9, EndMoves DEF Finish
  <2> QED BY <1>1, <1>9, <2>1, LoginMoves
<1>10. ASSUME NEW t \in Tx, Crash(t) PROVE LoginInv'
  <2>1. /\ db' = db /\ DOMAIN ws'[t] = {} /\ sess'[t] = Idle /\ setup' = setup
        /\ \A v \in Tx \ {t} : sess'[v] = sess[v] /\ ws'[v] = ws[v]
    BY <1>10, EndEffect DEF Crash, Rollback, Close, Inv, StoreInv
  <2>2. ASSUME NEW v \in Tx
        PROVE  /\ Exchanges(sess'[v], ws'[v], db, parent)
               /\ sess'[v].op = "refresh" =>
                     /\ "refresh" \in setup.duty[v]
                     /\ sess[v].op = "refresh" /\ sess'[v].arg = sess[v].arg
    <3>1. CASE v = t
      BY <2>1, <3>1, AtRest DEF Exchanges
    <3>2. CASE v # t
      BY <2>1, <3>2 DEF LoginInv
    <3> QED BY <3>1, <3>2
  <2> QED BY <1>1, <2>1, <2>2, LoginStill
<1>11. ASSUME NEW t \in Tx, NEW b \in Broadcast, Dispatch(t, b) PROVE LoginInv'
  <2>1. /\ sess' = [sess EXCEPT ![t] = Begun("dispatch", Null, b, "audience")]
        /\ \E f : Write(t, f) /\ \A r \in DOMAIN f : r[1] \in {"broadcast"}
        /\ sess[t].op = "none" /\ setup' = setup
    BY <1>11, DispatchMoves DEF Dispatch, rest, accessVars
  <2>2. sess'[t].op = "dispatch"
    BY <2>1 DEF Begun, Idle, Inv
  <2>3. /\ \A v \in Tx \ {t} : sess'[v] = sess[v] /\ ws'[v] = ws[v]
        /\ \E f : Write(t, f) /\ \A n \in Token : RT(n) \notin DOMAIN f
    BY <2>1, Keys DEF Inv, StoreInv, Write
  <2> QED BY <1>1, <2>1, <2>2, <2>3, LoginElsewhere
<1> QED BY <1>2, <1>3, <1>4, <1>5, <1>6, <1>7, <1>8, <1>9, <1>10, <1>11, Steps

\* Where refreshes do not overlap, a login has at most one live token, however many
\* refreshes, logouts and crashes there are and whichever answers are lost.
THEOREM LoginsHaveOneToken == Spec => []OneSessionPerLogin
<1>1. Inv /\ LoginInv => OneSessionPerLogin
  <2> SUFFICES ASSUME Inv, LoginInv, Cardinality({t \in Tx : "refresh" \in setup.duty[t]}) <= 1,
                      NEW m \in Token, NEW n \in Token, Live(m), Live(n), Root[m] = Root[n]
               PROVE  m = n
    BY DEF OneSessionPerLogin
  <2> DEFINE S == {t \in Tx : "refresh" \in setup.duty[t]}
  <2>1. Leads(Root, parent)
    <3>1. \E first : Leads(first, parent)
      BY DEF LoginInv
    <3>2. Root = CHOOSE first : Leads(first, parent)
      BY DEF Root, Leads
    <3> QED BY <3>1, <3>2
  <2>2. OneRefresher
    <3>1. IsFiniteSet(S)
      BY PoolAssumption, FS_Subset
    <3>2. Cardinality(S) \in Nat /\ Cardinality(S) <= 1
      BY <3>1, FS_CardinalityType
    <3>3. ASSUME NEW t \in S, NEW v \in S, t # v PROVE FALSE
      <4>1. IsFiniteSet(S \ {t}) /\ Cardinality(S \ {t}) = Cardinality(S) - 1
        BY <3>1, FS_RemoveElement
      <4>2. Cardinality(S \ {t}) = 0
        BY <3>1, <3>2, <4>1, FS_CardinalityType
      <4>3. S \ {t} = {}
        BY <4>1, <4>2, FS_EmptySet
      <4> QED BY <3>3, <4>3
    <3> QED BY <3>3 DEF OneRefresher
  <2>3. Single(Root)
    BY <2>1, <2>2 DEF LoginInv
  <2> QED BY <2>3 DEF Single
<1> QED BY <1>1, InitInv, StepInv, LoginInit, LoginsKept, PTL DEF Spec
=============================================================================
