\* Two connections; sweeps can commit; credits, a hold and a reconciliation in between.
\* Clients whose requests have all been committed ask for nothing more.
CONSTANTS
    Workers = {w1, w2}
    Submitted <- Sweepers
    LotPage = 1
    SweepBatch = 1
    MaxTime = 1
    Works = {"sweep.snapshot", "hold.spendable", "reconcile.sum"}
    None = None
SPECIFICATION Spec
SYMMETRY Symmetry
INVARIANT LotsInv
PROPERTY AlarmsHaveCause
CHECK_DEADLOCK FALSE
