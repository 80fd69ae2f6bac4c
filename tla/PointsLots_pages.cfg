\* The code as built, one lot per page: an expiring lot is passed over.
CONSTANTS
    Workers = {w1}
    Submitted <- Savers
    LotPage = 1
    SweepBatch = 1
    MaxTime = 2
    Works = {}
    None = None
SPECIFICATION Spec
PROPERTY SoonestExpiryFirst
