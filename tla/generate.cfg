CONSTANTS
    Runs = {r1, r2}
    Hosts = {"gpu"}
    Providers = {"glm"}
    Engines = {}
    Ids = {1}
    MaxTokens = 2
    MaxRetries = 1
    Supports = {"none", "native", "combined"}
    MaxPicks = 1
    MaxTroubles = 2
    MaxAhead = 0
    None = None
SPECIFICATION Spec
SYMMETRY MCSymmetry
INVARIANTS TypeOK Delivered RunsStayApart ScreenIsOwn StopWorks PickerIsCurrent
