CONSTANTS
    t1 = t1
    t2 = t2
    t3 = t3
    Tx = {t1}
    User <- MCUser
    Customer = {"bob"}
    Order = {1}
    Config = {1}
    Copy = {1, 2}
    None = None
    Offer <- AllOffers
    Price = 2
    Discount = 1
    MaxUses = 1
    PerUserLimit = 1
    Referrer <- MCReferrer
    Reward = 0
    Funds <- MCFunds
    Reverify = {TRUE, FALSE}
    Duty <- BuyersAndJob
SPECIFICATION Spec
INVARIANT ChargedIsFulfilled
CHECK_DEADLOCK FALSE
