CONSTANTS
    t1 = t1
    t2 = t2
    Tx = {t1, t2}
    Payment = {1, 2}
    MaxTransfers = 1
    MaxCrashes = 1
    RunsPerDay = 2
    Null = Null
    Setup <- MCSetup
SPECIFICATION Spec
INVARIANTS
    TypeOK
    CreditedOnce
    CreditIsBacked
    OnePaymentPerTransfer
PROPERTIES
    CreditedIsApproved
    PaidIsCredited
CHECK_DEADLOCK FALSE
