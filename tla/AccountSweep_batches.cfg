\* The decodings repaired: two connections, holds that expire, and their sweep.
CONSTANTS
    Workers = {w1, w2}
    Accounts = {"a"}
    Keys = {"k1", "k2", "k3"}
    NumberOf <- OwnNumbers
    Submitted <- SweepClients
    Opening <- OneFunded
    SweepBatch = 2
    MaxTime = 1
    Works = {"hold.expires_at", "sweep.amount", "replay.snapshot", "transfer.ledger",
             "replay.transfer"}
    None = None
SPECIFICATION SweepSpec
SYMMETRY Symmetry
INVARIANT TimeInv ClosedInTime
PROPERTY ClosedHoldsStay ImplementsBook SweepsMissNone
