SPECIFICATION Spec
CONSTANTS
    main = main
    t1 = t1
    t2 = t2
    Main = main
    Threads = {main, t1}
    MaxDepth = 1
INVARIANT WaitsOnlyStepping
