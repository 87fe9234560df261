CONSTANTS
    t1 = t1
    t2 = t2
    Tx = {t1, t2}
    root = root
    member = member
    Admin = {root, member}
    Token = {1, 2, 3}
    User = {1, 2, 3}
    Ticket = {1}
    Broadcast = {1}
    MaxCrashes = 1
    Null = Null
    Setup <- MCSetup
SPECIFICATION Spec
INVARIANTS
    TypeOK
    ExchangedIsRevoked
    OneSessionPerLogin
    DismissedIsOut
    ActsAreAllowed
    ReferralAgrees
    UserReplyNeedsStaff
    SentIsReceived
PROPERTY BroadcastGoesOut
CHECK_DEADLOCK FALSE
