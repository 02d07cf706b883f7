SPECIFICATION FairSpec
CONSTANTS
    w1 = w1
    w2 = w2
    p1 = p1
    NoWriter = NoWriter
    Writers = {w1, w2}
    Readers = {r1, r2}
    Recreate = {r2}
    Creators = {w1}
    Proc <- OneProcess
    Capacity = 2
    Limit = 9
    MaxSize = 2
    MaxSent = 3
    MaxPipes = 2
PROPERTIES ImplementsChannel LockIsFreed HandedOn
CHECK_DEADLOCK FALSE
