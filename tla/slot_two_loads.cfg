SPECIFICATION HSpec
CONSTANTS
    Calls = {}
    Streams = {}
    Loads = {l1, l2}
    Unloads = {u1}
    Shutdowns = {}
    MaxSteps = 1
    Adopted = adopted
    NoBackend = none
    Free = free
INVARIANTS OneLoad
CHECK_DEADLOCK FALSE
