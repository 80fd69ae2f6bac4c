\* Two connections; lots are drawn on two per page; holds can be created.
\* Clients whose requests have all been committed ask for nothing more.
CONSTANTS
    Workers = {w1, w2}
    Submitted <- Spenders
    LotPage = 2
    SweepBatch = 1
    MaxTime = 1
    Works = {"hold.spendable"}
    None = None
SPECIFICATION Spec
SYMMETRY Symmetry
INVARIANT TypeOK LotsMatchBalance AllocationsMatch DrawInv
PROPERTY SoonestFirstOnPage RefusedForLack
CHECK_DEADLOCK FALSE
