SPECIFICATION Spec
CONSTANTS
    Listing = {l1}
    Auction = {a1}
    Menus <- OneLot
    u1 = u1
    u2 = u2
    u3 = u3
    User = {u1, u2, u3}
    Seller <- OneSeller
    Buyer = {u1}
    Willing <- Rivals
    None = none
    Amount = {1, 2}
    Reserve = 2
    Methods = {"native", "offchain", "bundle"}
    Operations = {"execute", "cancel", "recover", "view", "batch", "confirm"}
    Proc = {p1, p2}
    Cron = {c1}
    MaxCalls = 2
    MaxTx = 3
    MaxFaults = 1
INVARIANT SoldIsPaid
CHECK_DEADLOCK FALSE
