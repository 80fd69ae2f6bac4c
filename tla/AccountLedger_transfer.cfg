\* The code as written: transfers in opposite directions around two holds, a sweep; requests end.
CONSTANTS
    Workers = {w1, w2}
    Accounts = {"a", "b"}
    Keys = {"k1", "k2", "k3"}
    NumberOf <- OwnNumbers
    Submitted <- TransferClients
    Opening <- BothFunded
    SweepBatch = 1
    MaxTime = 0
    Works = {"hold.expires_at", "sweep.amount", "replay.snapshot", "transfer.ledger",
             "replay.transfer"}
    None = None
SPECIFICATION FairSpec
INVARIANT BookInv HistoryInv HoldsBackFrozen ChargedAsSettled
PROPERTY ImplementsBook EveryRequestEnds
