\* The code as built: two connections, holds closed under several keys.
CONSTANTS
    Workers = {w1, w2}
    Accounts = {"a", "b"}
    Keys = {"k1", "k2", "k3"}
    NumberOf <- SharedNumber
    Submitted <- HoldClients
    Opening <- OneFunded
    SweepBatch = 1
    MaxTime = 1
    Works = {}
    None = None
SPECIFICATION Spec
SYMMETRY Symmetry
INVARIANT TypeOK Conserved EachKeyOnce BalancesMatchHistory CaptureWithinHold
PROPERTY ClosedHoldsStay ImplementsBook
