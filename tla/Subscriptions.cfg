CONSTANTS
    t1 = t1
    t2 = t2
    Tx = {t1, t2}
    Sub = {1, 2}
    MaxCrashes = 1
    Null = Null
    Setup <- MCSetup
SPECIFICATION Spec
INVARIANTS
    TypeOK
    AlertedOnce
    ExpiredIsTold
    ExpiredHasRunOut
    PanelHonours
    StepsInOrder
PROPERTY ExpiryIsNoticed
CHECK_DEADLOCK FALSE
