SPECIFICATION FairSpec
CONSTANTS
    Servers = {s1, s2}
    Stoppers = {p1, p2}
    MaxCalls = 3
    MaxFiles = 4
    Nobody = Nobody
INVARIANTS TypeOK FileIsThere StopsAreAnsweredOnce
PROPERTIES StopStops
CHECK_DEADLOCK FALSE
