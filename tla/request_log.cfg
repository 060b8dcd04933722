SPECIFICATION FairSpec
CONSTANTS
    Calls = {c1, c2, c3, c4}
    QueueSize = 3
    BatchSize = 2
INVARIANTS LogTypeOK Accounted
PROPERTIES NoOvertaking EntriesSettle
CHECK_DEADLOCK FALSE
