SPECIFICATION UsbFairSpec
CONSTANTS
    Readers = {r1, r2}
    Timeout = 1
    MaxStarts = 3
    Tokens = {TRUE}
INVARIANT OffIsDown
PROPERTIES NullIsDown SomeoneHears
CHECK_DEADLOCK FALSE
