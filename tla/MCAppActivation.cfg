CONSTANTS
    Apps = {a, b}
    Packages = {p}
    Active = Active
    MaxObjects = 10
    MaxViews = 2
    MaxPresses = 3
    MaxDeaths = 2
    MaxTicks = 1
    Partial = Partial
    None = None
SPECIFICATION Spec
INVARIANTS
    ChosenIsKept
    ServiceMatches
    TrackedIsHooked
