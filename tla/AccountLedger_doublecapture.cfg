\* Two settlements of a hold under two keys and two business numbers.
CONSTANTS
    Workers = {w1, w2}
    Accounts = {"a"}
    Keys = {"k1", "k2", "k3"}
    NumberOf <- OwnNumbers
    Submitted <- CaptureClients
    Opening <- OneFunded
    SweepBatch = 1
    MaxTime = 1
    Works = {}
    None = None
SPECIFICATION Spec
INVARIANT CaptureWithinHold
