SPECIFICATION FairSpec
CONSTANTS
    main = main
    t1 = t1
    t2 = t2
    Main = main
    Threads = {main, t1, t2}
    MaxDepth = 1
INVARIANT StopsOnlyIfTold
PROPERTY PassesGate
