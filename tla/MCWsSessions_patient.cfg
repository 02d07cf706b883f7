SPECIFICATION FairSpec
CONSTANTS
    w1 = w1
    w2 = w2
    w3 = w3
    t1 = t1
    t2 = t2
    t3 = t3
    Workers = {w1, w2, w3}
    Tabs = {t1, t2, t3}
    Names <- MCNames
    ThreadOf <- MCThreadOf
    CONNECTIONS = 2
    Patient = TRUE
    Takes <- MCTakes
    Browsing = {w1}
    Pushing <- MCPushing
    NoWorker = NoWorker
    NoTab = NoTab
    NoName = NoName
INVARIANTS TypeOK ShownInOwnTab  ObeyedByOwnThread RefusedOnlyWhenFull
CHECK_DEADLOCK FALSE
PROPERTIES SlotsAreReset OpenIsPinged
