SPECIFICATION Spec
CONSTANTS
    Threads = {t1, t2}
    Sids = {s1, s2}
    MaxSessions = 1
    TTL = 1
    MaxTime = 2
    MaxIds = 2
    None = none
SYMMETRY SessionSymmetry
INVARIANTS TypeOK Lockstep SnapshotIsOwn NoExpiredSession
CHECK_DEADLOCK FALSE
