---------------------------- MODULE Subscriptions ----------------------------
(***************************************************************************)
(* The life of a subscription after it is paid: provisioning and renewal on  *)
(* a panel (fulfilment_service, integrations/panels), the sync of usage and  *)
(* expiry, and the alerts (alerts_service, notification_service), run by     *)
(* the bots and by Celery tasks, each in a transaction of its own.           *)
(*                                                                           *)
(* An action is one statement or one call of the panel or of Telegram.  The  *)
(* jobs load all active subscriptions first, as seen, and assign to those    *)
(* objects; the changed columns wait for the flush at the end, in dirty.     *)
(***************************************************************************)
EXTENDS RowStore, Naturals, FiniteSets

CONSTANTS Sub,          \* subscription ids 1..n; the panel account of a new one
          Setup,        \* deployments: what runs, and settings (see SetupType)
          MaxCrashes,   \* bound on crashes
          Null          \* no subscription, no account

\* duty: the operations of each transaction slot; kind: the panel's software, or
\* "manual" for plans without a panel; duration: of the plan; sold: active at
\* the start; fresh: those that may be bought; customer: gets every message, or
\* some, or has blocked the bot; bans: may the admins ban him, and lift it again;
\* panelAdmin: may the panel's admin extend and remove accounts; last: bound on
\* time.
SetupType == [duty : [Tx -> SUBSET {"expiry", "usage", "sync", "buy", "stock"}],
              kind : {"marzban", "xui", "manual"}, duration : Nat, sold : SUBSET Sub,
              fresh : SUBSET Sub, customer : {"reachable", "flaky", "blocked"},
              bans : BOOLEAN, panelAdmin : BOOLEAN, last : Nat]

ASSUME SubAssumption == /\ Setup \subseteq SetupType
                        /\ MaxCrashes \in Nat
                        /\ Null \notin Sub

VARIABLES setup,        \* the deployment, chosen at the start
          sess,         \* sess[t]: the task or handler running in transaction t
          now,          \* time
          panel,        \* panel[a]: the account a on the panel
          inbox,        \* messages Telegram has delivered, by recipient and kind
          banned,       \* users.is_banned of the customer
          spared,       \* alerts that a committed scan passed over for a ban
          crashes       \* handlers killed so far

vars == <<db, ws, setup, sess, now, panel, inbox, banned, spared, crashes>>
-----------------------------------------------------------------------------
S(i) == <<"subscription", i>>
N(i, kind) == <<"notification", i, kind>>       \* UNIQUE (user, kind, reference)
LowStock == <<"setting">>                       \* low_inv_alert_<plan>: the day of it

Kind == {"7", "3", "1", "expired", "80", "90", "100"}

\* Usage in steps: below 80 per cent, 80, 90, 100.
Level == 0..3

NewRow(account, at) ==
    [account |-> account, status |-> "active", expires |-> at + setup.duration,
     used |-> 0, level |-> 0, tags |-> {}]

NoAccount == [state |-> "none", used |-> 0, expires |-> 0]
NewAccount(at) == [state |-> "on", used |-> 0, expires |-> at + setup.duration]

Idle == [op |-> "none", pc |-> "idle", i |-> Null, old |-> Null, kind |-> "7", at |-> 0,
         seen |-> NoRows, dirty |-> NoRows, banned |-> FALSE, spared |-> {}]

Init ==
    /\ setup \in Setup
    /\ db = [r \in {S(i) : i \in setup.sold} |->
                NewRow(IF setup.kind = "manual" THEN Null ELSE r[2], 0)]
    /\ ws = [t \in Tx |-> NoRows]
    /\ sess = [t \in Tx |-> Idle]
    /\ now = 0
    /\ panel = [a \in Sub |-> IF a \in setup.sold /\ setup.kind # "manual" THEN NewAccount(0)
                              ELSE NoAccount]
    /\ inbox = [m \in (Sub \X Kind) \cup ({Null} \X (0..setup.last)) |-> 0]
    /\ banned = FALSE /\ spared = {}
    /\ crashes = 0
-----------------------------------------------------------------------------
At(t, pc) == sess[t].pc = pc

Goto(t, pc) == sess' = [sess EXCEPT ![t].pc = pc]

Begin(t, op) == At(t, "idle") /\ op \in setup.duty[t]

Close(t) == sess' = [sess EXCEPT ![t] = Idle]

Finish(t) ==
    /\ At(t, "commit")
    /\ Commit(t)
    /\ spared' = spared \cup sess[t].spared
    /\ Close(t)
    /\ UNCHANGED <<setup, now, panel, inbox, banned, crashes>>

\* The worker is killed, or an error nobody catches.  Celery delivers the task
\* again (acks_late), and beat starts it again anyway.
Crash(t) ==
    /\ ~At(t, "idle")
    /\ crashes < MaxCrashes
    /\ crashes' = crashes + 1
    /\ Rollback(t)
    /\ Close(t)
    /\ UNCHANGED <<setup, now, panel, inbox, banned, spared>>

\* The flush at the end of a job: UPDATE of the columns that were assigned.
FlushColumns(t) ==
    /\ At(t, "flush")
    /\ Write(t, [r \in {q \in DOMAIN sess[t].dirty : DOMAIN sess[t].dirty[q] # {}} |->
                   Over(sess[t].dirty[r], Row(t, r))])
    /\ Goto(t, "commit")
    /\ UNCHANGED <<setup, now, panel, inbox, banned, spared, crashes>>
-----------------------------------------------------------------------------
\* Alerts.

Active(t) == {r \in DOMAIN Visible(t) : r[1] = "subscription" /\ Row(t, r).status = "active"}

\* A job loads the active subscriptions and their owner, whose objects are not
\* read again; the sync those with a panel account.
LoadActive(t, op) ==
    LET rows == {r \in Active(t) : op = "sync" => Row(t, r).account # Null}
    IN /\ Begin(t, op)
       /\ sess' = [sess EXCEPT ![t] =
             [Idle EXCEPT !.op = op, !.at = now, !.banned = banned,
                          !.seen = [r \in rows |-> Row(t, r)], !.pc = IF op = "sync" THEN "sync" ELSE "scan"]]
       /\ UNCHANGED <<store, setup, now, panel, inbox, banned, spared, crashes>>

\* The session is done with the row r.
Without(f, r) == [s \in DOMAIN f \ {r} |-> f[s]]

\* _EXPIRY_STEPS, a day or more being one unit of time: 7, 3 and 1 day.
Step == <<"7", "3", "1">>

\* Mutant of Past: a subscription expires a day early.
PastSoon(s, at) == s.expires <= at + 1

Past(s, at) == s.expires <= at

\* The steps reached and not yet told; scan_expiring takes the first.
Reached(s, at) == {n \in DOMAIN Step : s.expires <= at + 4 - n /\ Step[n] \notin s.tags}

\* Mutant of ExpiryAlert: only the closest step is told.
ExpiryAlertClosest(s, at) ==
    CASE Past(s, at) /\ "expired" \notin s.tags -> "expired"
      [] ~Past(s, at) /\ Reached(s, at) # {} ->
            Step[CHOOSE n \in Reached(s, at) : \A m \in Reached(s, at) : n >= m]
      [] OTHER -> "none"

\* Mutant of ExpiryAlert: the steps not yet told come before the expiry.
ExpiryAlertSteps(s, at) ==
    CASE Reached(s, at) # {} ->
            Step[CHOOSE n \in Reached(s, at) : \A m \in Reached(s, at) : n <= m]
      [] Reached(s, at) = {} /\ Past(s, at) /\ "expired" \notin s.tags -> "expired"
      [] OTHER -> "none"

ExpiryAlert(s, at) ==
    CASE Past(s, at) /\ "expired" \notin s.tags -> "expired"
      [] ~Past(s, at) /\ Reached(s, at) # {} ->
            Step[CHOOSE n \in Reached(s, at) : \A m \in Reached(s, at) : n <= m]
      [] OTHER -> "none"

UsageAlert(s) == IF s.used > s.level THEN <<"80", "90", "100">>[s.used] ELSE "none"

Alert(op, s, at) == IF op = "usage" THEN UsageAlert(s) ELSE ExpiryAlert(s, at)

\* Mutant of Columns: the alert is remembered and the status is not written.
ColumnsOfAlert(op, s, at) ==
    LET kind == Alert(op, s, at)
    IN IF kind = "none" THEN NoRows
       ELSE IF op = "usage" THEN [level |-> s.used] ELSE [tags |-> s.tags \cup {kind}]

\* The columns scan_expiring and scan_usage assign to a subscription.
Columns(op, s, at) ==
    Over(ColumnsOfAlert(op, s, at),
         IF op = "expiry" /\ Past(s, at) THEN [status |-> "expired"] ELSE NoRows)

\* One subscription of scan_expiring or scan_usage, up to notify's claim.  The
\* columns are assigned for a banned owner, too, who is not told.
Inspect(t) ==
    /\ At(t, "scan")
    /\ \E r \in DOMAIN sess[t].seen :
          LET row == sess[t].seen[r]
              kind == Alert(sess[t].op, row, sess[t].at)
              told == CASE kind = "none" -> sess[t]
                        [] kind # "none" /\ sess[t].banned ->
                              [sess[t] EXCEPT !.spared = @ \cup {<<r[2], kind>>}]
                        [] OTHER -> [sess[t] EXCEPT !.i = r[2], !.kind = kind, !.pc = "claim"]
          IN sess' = [sess EXCEPT ![t] =
                [told EXCEPT !.seen = Without(@, r),
                             !.dirty = Over(Is(r, Columns(sess[t].op, row, sess[t].at)), @)]]
    /\ UNCHANGED <<store, setup, now, panel, inbox, banned, spared, crashes>>

EndOfScan(t) ==
    /\ sess[t].pc \in {"scan", "sync"} /\ DOMAIN sess[t].seen = {}
    /\ Goto(t, "flush")
    /\ UNCHANGED <<store, setup, now, panel, inbox, banned, spared, crashes>>

Claimed(t) == N(sess[t].i, sess[t].kind)

\* Mutant of Claim: every claim is taken for new.
ClaimAgain(t) ==
    /\ At(t, "claim")
    /\ Write(t, Is(Claimed(t), FALSE))
    /\ Goto(t, "send")
    /\ UNCHANGED <<setup, now, panel, inbox, banned, spared, crashes>>

\* _claim: INSERT ... ON CONFLICT DO NOTHING, which waits for another
\* transaction that has inserted the row and not yet ended.
Claim(t) ==
    /\ At(t, "claim")
    /\ \/ /\ ~Exists(t, Claimed(t))
          /\ Write(t, Is(Claimed(t), FALSE))
          /\ Goto(t, "send")
       \/ /\ Exists(t, Claimed(t))
          /\ Goto(t, "scan")
          /\ UNCHANGED store
    /\ UNCHANGED <<setup, now, panel, inbox, banned, spared, crashes>>

\* What send_message may come to: Telegram delivers and says so, delivers and the
\* answer is lost, or does not deliver.
Outcome == [reachable |-> {"sent"}, flaky |-> {"sent", "unanswered", "failed"},
            blocked |-> {"failed"}]

\* send_message before the commit; sent_at only if Telegram says so.  The claim
\* stays whatever comes of it.
Send(t) ==
    /\ At(t, "send")
    /\ \E outcome \in Outcome[setup.customer] :
          /\ inbox' = IF outcome = "failed" THEN inbox
                      ELSE [inbox EXCEPT ![<<sess[t].i, sess[t].kind>>] = @ + 1]
          /\ IF outcome = "sent" THEN Write(t, Is(Claimed(t), TRUE)) ELSE UNCHANGED store
    /\ Goto(t, "scan")
    /\ UNCHANGED <<setup, now, panel, banned, spared, crashes>>

\* check_low_inventory, when the stock of the plan is low: the admins are told, or
\* Telegram fails, then the day is written.
ReadStock(t) ==
    /\ Begin(t, "stock")
    /\ ~(Exists(t, LowStock) /\ Row(t, LowStock) = now)
    /\ sess' = [sess EXCEPT ![t] = [Idle EXCEPT !.op = "stock", !.pc = "tell", !.at = now]]
    /\ UNCHANGED <<store, setup, now, panel, inbox, banned, spared, crashes>>

TellAdmins(t) ==
    /\ At(t, "tell")
    /\ \/ inbox' = [inbox EXCEPT ![<<Null, sess[t].at>>] = @ + 1]
       \/ inbox' = inbox
    /\ Goto(t, "tick off")
    /\ UNCHANGED <<store, setup, now, panel, banned, spared, crashes>>

TickOff(t) ==
    /\ At(t, "tick off")
    /\ Write(t, Is(LowStock, sess[t].at))
    /\ Goto(t, "commit")
    /\ UNCHANGED <<setup, now, panel, inbox, banned, spared, crashes>>
-----------------------------------------------------------------------------
\* Panels.

\* Mutant of Remote: the panel's status is stored as it is.
RemoteVerbatim(a) ==
    [used |-> panel[a].used, expires |-> panel[a].expires, status |-> panel[a].state]

\* What sync_all copies from the panel's answer: usage, expiry, and disabled
\* unless the account is active there.
Remote(a) == Over([used |-> panel[a].used, expires |-> panel[a].expires],
                  IF panel[a].state = "on" THEN NoRows ELSE [status |-> "disabled"])

\* One subscription of sync_all.  A panel that does not answer, or does not know
\* the account, leaves it as it is.
SyncUser(t) ==
    /\ At(t, "sync")
    /\ \E r \in DOMAIN sess[t].seen :
          LET a == sess[t].seen[r].account
          IN \E columns \in {NoRows} \cup (IF panel[a].state \in {"on", "off"}
                                           THEN {Remote(a)} ELSE {}) :
                sess' = [sess EXCEPT ![t].seen = Without(@, r),
                                     ![t].dirty = Over(Is(r, columns), @)]
    /\ UNCHANGED <<store, setup, now, panel, inbox, banned, spared, crashes>>

\* provision for a new subscription i of a plan with a panel: a purchase, or the
\* renewal of the subscription old, whatever its status, since the button stays
\* in the chat.
Provision(t, i, old) ==
    /\ Begin(t, "buy") /\ setup.kind # "manual"
    /\ i \in setup.fresh
    /\ \A u \in Tx : sess[u].op = "buy" => sess[u].i # i
    /\ ~Exists(t, S(i)) /\ panel[i].state = "none"
    /\ old # Null => Exists(t, S(old))
    /\ sess' = [sess EXCEPT ![t] =
          [Idle EXCEPT !.op = "buy", !.i = i, !.old = old, !.at = now,
                       !.pc = IF old = Null THEN "create"
                              ELSE IF setup.kind = "marzban" THEN "extend" ELSE "look up"]]
    /\ UNCHANGED <<store, setup, now, panel, inbox, banned, spared, crashes>>

\* The account the session provisions.
Account(t) == IF sess[t].old = Null THEN sess[t].i ELSE Row(t, S(sess[t].old)).account

\* PanelIntegrationError: the panel is inactive, refuses the login or the
\* request.  Nothing of the subscription is written (Checkout has the order).
PanelError(t) ==
    /\ sess[t].pc \in {"create", "extend", "look up"}
    /\ Rollback(t)
    /\ Close(t)
    /\ UNCHANGED <<setup, now, panel, inbox, banned, spared, crashes>>

\* Mutant of CreateUser: the panel's answer is not looked at.
CreateUserUnchecked(t) ==
    /\ At(t, "create")
    /\ \/ panel' = [panel EXCEPT ![Account(t)] = NewAccount(sess[t].at)]
       \/ panel' = panel
    /\ Goto(t, "insert")
    /\ UNCHANGED <<store, setup, now, inbox, banned, spared, crashes>>

CreateUser(t) ==
    /\ At(t, "create")
    /\ panel[Account(t)].state \notin {"on", "off"}
    /\ panel' = [panel EXCEPT ![Account(t)] = NewAccount(sess[t].at)]
    /\ Goto(t, "insert")
    /\ UNCHANGED <<store, setup, now, inbox, banned, spared, crashes>>

\* X-UI's renew_user asks for the account first; any answer but 200 counts as
\* none.
LookUp(t) ==
    /\ At(t, "look up")
    /\ \/ panel[Account(t)].state \in {"on", "off"} /\ Goto(t, "reset")
       \/ Goto(t, "create")
    /\ UNCHANGED <<store, setup, now, panel, inbox, banned, spared, crashes>>

Extended(account, at) == [account EXCEPT !.state = "on", !.expires = at + setup.duration]

\* The new quota and expiry: Marzban's PUT, which does not stop at an error but
\* goes on to the reset, and creates an account that is gone; X-UI's
\* updateClient, which comes after the reset.
Extend(t) ==
    LET a == Account(t)
    IN /\ At(t, "extend")
       /\ \/ /\ panel[a].state \in {"on", "off"}
             /\ panel' = [panel EXCEPT ![a] = Extended(@, sess[t].at)]
             /\ Goto(t, IF setup.kind = "marzban" THEN "reset" ELSE "insert")
          \/ /\ setup.kind = "marzban" /\ panel[a].state = "gone"
             /\ panel' = panel /\ Goto(t, "create")
          \/ /\ setup.kind = "marzban"
             /\ panel' = panel /\ Goto(t, "reset in vain")
       /\ UNCHANGED <<store, setup, now, inbox, banned, spared, crashes>>

\* The traffic counter is reset; nobody looks at the answer.
ResetTraffic(t) ==
    LET a == Account(t)
    IN /\ sess[t].pc \in {"reset", "reset in vain"}
       /\ \/ panel' = [panel EXCEPT ![a].used = 0]
          \/ panel' = panel
       /\ \/ At(t, "reset in vain") /\ Close(t)
          \/ At(t, "reset") /\ Goto(t, IF setup.kind = "marzban" THEN "insert" ELSE "extend")
       /\ UNCHANGED <<store, setup, now, inbox, banned, spared, crashes>>

\* _deliver_panel's subscription, then the end of the one it renews.
InsertSubscription(t) ==
    /\ At(t, "insert")
    /\ Write(t, Is(S(sess[t].i), NewRow(Account(t), sess[t].at)))
    /\ Goto(t, IF sess[t].old = Null THEN "commit" ELSE "retire")
    /\ UNCHANGED <<setup, now, panel, inbox, banned, spared, crashes>>

Retire(t) ==
    /\ At(t, "retire")
    /\ Write(t, Is(S(sess[t].old), [Row(t, S(sess[t].old)) EXCEPT !.status = "disabled"]))
    /\ Goto(t, "commit")
    /\ UNCHANGED <<setup, now, panel, inbox, banned, spared, crashes>>

\* The panel's side: traffic, the panel's own switch-off when the quota or the
\* time is used up, and its admin.
UseTraffic(a) ==
    /\ panel[a].state = "on" /\ panel[a].used < 3
    /\ "usage" \in UNION {setup.duty[t] : t \in Tx}
    /\ panel' = [panel EXCEPT ![a].used = @ + 1]
    /\ UNCHANGED <<store, setup, sess, now, inbox, banned, spared, crashes>>

SwitchOff(a) ==
    /\ panel[a].state = "on"
    /\ panel[a].used = 3 \/ panel[a].expires <= now
    /\ panel' = [panel EXCEPT ![a].state = "off"]
    /\ UNCHANGED <<store, setup, sess, now, inbox, banned, spared, crashes>>

AtPanel(a) ==
    /\ setup.panelAdmin /\ panel[a].state \in {"on", "off"}
    /\ \/ panel' = [panel EXCEPT ![a].state = "on", ![a].expires = now + setup.duration]
       \/ panel' = [panel EXCEPT ![a].state = "gone"]
    /\ UNCHANGED <<store, setup, sess, now, inbox, banned, spared, crashes>>

\* toggle_ban and the API: set_banned, and its commit.
SetBanned ==
    /\ setup.bans
    /\ banned' = ~banned
    /\ UNCHANGED <<store, setup, sess, now, panel, inbox, spared, crashes>>

Tick ==
    /\ now < setup.last
    /\ now' = now + 1
    /\ UNCHANGED <<store, setup, sess, panel, inbox, banned, spared, crashes>>
-----------------------------------------------------------------------------
Continue(t) ==
    \/ Inspect(t) \/ EndOfScan(t) \/ Claim(t) \/ Send(t)
    \/ TellAdmins(t) \/ TickOff(t)
    \/ SyncUser(t)
    \/ PanelError(t) \/ CreateUser(t) \/ LookUp(t) \/ Extend(t) \/ ResetTraffic(t)
    \/ InsertSubscription(t) \/ Retire(t)
    \/ FlushColumns(t) \/ Finish(t)

Next ==
    \/ Tick \/ SetBanned
    \/ \E a \in Sub : UseTraffic(a) \/ SwitchOff(a) \/ AtPanel(a)
    \/ \E t \in Tx :
          \/ \E op \in {"expiry", "usage", "sync"} : LoadActive(t, op)
          \/ ReadStock(t)
          \/ \E i \in Sub, old \in Sub \cup {Null} : Provision(t, i, old)
          \/ Continue(t)
          \/ Crash(t)

\* beat starts the expiry job every hour; a task goes on when its answer or its
\* lock is there.
Fairness ==
    \A t \in Tx : SF_vars(LoadActive(t, "expiry")) /\ SF_vars(Continue(t))

Spec == Init /\ [][Next]_vars /\ Fairness
-----------------------------------------------------------------------------
RowType == [subscription |->
               [account : Sub \cup {Null}, status : {"active", "expired", "disabled"},
                expires : Nat, used : Level, level : Level,
                tags : SUBSET {"7", "3", "1", "expired"}],
            notification |-> BOOLEAN, setting |-> 0..setup.last]

\* Types; usage and expiry are only ever told of rows that exist.
TypeOK ==
    /\ \A f \in {db} \cup {ws[t] : t \in Tx} : \A r \in DOMAIN f : f[r] \in RowType[r[1]]
    /\ \A t \in Tx : DOMAIN sess[t].dirty \subseteq DOMAIN db
    /\ spared \subseteq Sub \X Kind
    /\ panel \in [Sub -> [state : {"none", "on", "off", "gone"}, used : Level, expires : Nat]]
    /\ crashes \in 0..MaxCrashes

Known == {i \in Sub : S(i) \in DOMAIN db}
Status(i) == db[S(i)].status

\* "an alert of a given kind for a given subscription is sent at most once"
\* (notification_service.py), whatever overlaps and although one job overwrites
\* the tags of another; only a rollback after the message was sent repeats it.
\* The same for the low-stock alert of a day.
AlertedOnce == \A m \in DOMAIN inbox : inbox[m] <= 1 + crashes

\* A subscription is marked expired only when its time is over, however the scan
\* overlaps renewals and other scans.  (A sync that overlaps it may write a later
\* time over a row just marked.)
ExpiredHasRunOut == \A i \in Known : Status(i) = "expired" => db[S(i)].expires <= now

\* The alert of subscription i is claimed, and has arrived where Telegram does not
\* fail; or he was banned when a scan that has committed came to it.
Told(i, kind) ==
    \/ <<i, kind>> \in spared
    \/ /\ N(i, kind) \in DOMAIN db
       /\ setup.customer = "reachable" => inbox[<<i, kind>>] > 0

\* The owner of a subscription marked expired has been told so, whatever overlaps,
\* however often a scan dies, and also when he is banned and let in again: whoever
\* was not banned when the row was marked has the message.
ExpiredIsTold == \A i \in Known : Status(i) = "expired" => Told(i, "expired")

\* Who pays for a panel subscription has an account on the panel, unless the
\* panel's admin removed it, and it lasts as long as the row says: no failure
\* between the panel and the commit, and no sync, breaks that.
PanelHonours ==
    \A i \in Known : LET a == db[S(i)].account
                     IN a # Null /\ Status(i) = "active" =>
                          \/ panel[a].state = "gone"
                          \/ panel[a].state # "none" /\ panel[a].expires >= db[S(i)].expires

\* The alerts of a subscription come in the order 7, 3, 1, none left out but by a
\* ban: a short subscription, or one the job saw late, is told all of them.
StepsInOrder ==
    \A i \in Known : /\ N(i, "3") \in DOMAIN db => Told(i, "7")
                     /\ N(i, "1") \in DOMAIN db => Told(i, "3")

\* Where the expiry job runs, a subscription that has run out does not stay
\* active: the job finds it, or a renewal has ended it, however often a job dies.
RunsOut(i) == i \in Known /\ Status(i) = "active" /\ db[S(i)].expires <= now

ExpiryIsNoticed ==
    "expiry" \in UNION {setup.duty[t] : t \in Tx} => \A i \in Sub : RunsOut(i) ~> ~RunsOut(i)
=============================================================================
