\* As built: a hold is released or settled after its expiry.
CONSTANTS
    Workers = {w1}
    Accounts = {"a"}
    Keys = {"k1", "k2", "k3"}
    NumberOf <- OwnNumbers
    Submitted <- SweepClients
    Opening <- OneFunded
    SweepBatch = 1
    MaxTime = 1
    Works = {}
    None = None
SPECIFICATION Spec
INVARIANT ClosedInTime
