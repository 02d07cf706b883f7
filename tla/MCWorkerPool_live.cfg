SPECIFICATION FairSpec
CONSTANTS
    MGSQLEN = 1
    NoSocket = NoSocket
    Master = Master
    Free = Free
    Workers = {w1, w2}
    Flaky = {w2}
    Stuck = {w1}
    Sockets = {s1, s2}
PROPERTIES AcceptedIsTaken StopsIfAllAwake
CHECK_DEADLOCK FALSE
