SPECIFICATION FairSpec
CONSTANTS
    w1 = w1
    w2 = w2
    w3 = w3
    t1 = t1
    t2 = t2
    t3 = t3
    Workers = {w1}
    Tabs = {t1, t2}
    Names <- MCNames
    ThreadOf <- MCThreadOf
    CONNECTIONS = 2
    Patient = FALSE
    Takes <- AllTakes
    Browsing = {w1}
    Pushing <- MCPushing
    NoWorker = NoWorker
    NoTab = NoTab
    NoName = NoName
PROPERTIES SlotsAreReset
CHECK_DEADLOCK FALSE
