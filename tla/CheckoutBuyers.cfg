CONSTANTS
    t1 = t1
    t2 = t2
    t3 = t3
    Tx = {t1, t2, t3}
    User <- MCUser
    Customer = {"alice", "bob"}
    Order = {1, 2, 3}
    Config = {1, 2}
    Copy = {1, 2}
    None = None
    Offer <- Manual
    Price = 2
    Discount = 1
    MaxUses = 1
    PerUserLimit = 1
    Referrer <- MCReferrer
    Reward = 1
    Funds <- MCFunds
    Reverify = {TRUE, FALSE}
    Duty <- BuyersAndJob
SPECIFICATION FairSpec
INVARIANTS
    SoldOnce
    MoneyConserved
PROPERTIES
    OverdueIsCleared
