SPECIFICATION Spec
CONSTANTS
    Assets <- MCAssets
    Requests <- MCRequests
    IndexFiles <- MCIndexFiles
    Starts <- MCStarts
    MaxHeaders = 5
    BufLen = 1
    ArrSize = 1
    MaxTicks = 1
    MaxHops = 2
INVARIANTS
    ReadAsSent
    AnswersAreWhole
    ListingIsWhole
    NotModifiedIsTrue
    RedirectHelps
PROPERTIES
    Answered
CHECK_DEADLOCK FALSE
