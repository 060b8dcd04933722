SPECIFICATION HSpec
CONSTANTS
    Calls = {c1}
    Streams = {s1}
    Loads = {l1, l2}
    Unloads = {u1}
    Shutdowns = {z1}
    MaxSteps = 1
    Adopted = adopted
    NoBackend = none
    Free = free
INVARIANTS TypeOK SafeUse SoleCloser SlotStaysTrue
PROPERTIES KeepsPromise RequestsSettle
CHECK_DEADLOCK FALSE
