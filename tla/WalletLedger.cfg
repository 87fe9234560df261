CONSTANTS
    Tx = {t1, t2}
    User = {alice, bob}
    Amount <- MCAmount
    MaxLog = 1
    MaxCalls = 2
SPECIFICATION FairSpec
INVARIANTS
    TypeOK
    LedgerReconciles
PROPERTIES
    ImplementsLedger
    EveryCallEnds
