\* Two overlapping calls, pages of one row.
CONSTANTS
    Calls = {c1, c2}
    Writes <- Some
    Dialogs = {"withdraw"}
    PageSize = 1
    MaxLoaded = 2
    Start = 1
    MaxTime = 2
    FirstCursor = TRUE
SYMMETRY Interchangeable
SPECIFICATION Spec
INVARIANT TypeOK Gapless ShownOnce FlagsHonest
