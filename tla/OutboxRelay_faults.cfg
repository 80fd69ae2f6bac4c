\* Two overlapping calls, each of which may be lost at any of its steps.
CONSTANTS
    Events = {"e", "f", "late"}
    CreatedAt <- Times
    Callers = {c1, c2}
    BatchSizes <- Sizes
    Default = Default
    DefaultLimit = 1
    MaxLimit = 2
    Faults = {"claim", "count", "answer"}
    None = None
SPECIFICATION FairSpec
INVARIANT RInv ReturnedOnce
PROPERTY ForwardedOrLost
