SPECIFICATION Spec
CONSTANTS
    MGSQLEN = 2
    NoSocket = NoSocket
    Master = Master
    Free = Free
    Workers = {w1, w2, w3}
    Flaky = {w1, w3}
    Stuck = {w2}
    Sockets = {s1, s2, s3, s4}
SYMMETRY SocketSymmetry
PROPERTY ImplementsFifo
INVARIANTS TypeOK FreedOnlyWhenQuiet NoStall
CHECK_DEADLOCK FALSE
