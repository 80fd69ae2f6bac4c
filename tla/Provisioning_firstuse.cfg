\* Two connections and two threads whose generators share a worker id.
CONSTANTS
    Workers = {w1, w2}
    Threads = {t1, t2}
    Currencies <- Codes
    Rank <- Alphabet
    Purposes = {"GENERAL"}
    Submitted <- FirstUse
    IdsPerTick = 1
    Opening <- OldAccounts
    Start = 2
    MaxTime = 3
SPECIFICATION FairSpec
INVARIANT TypeOK NamedAccountsExist AnswersAgree NothingLost RivalsHarmless
PROPERTY OverviewComplete InsertsEnd
