SPECIFICATION FairSpec
CONSTANTS
    Hosts = {h1, h2}
    Flows = {1, 2}
    Read = {h1}
    MaxActs = 1
    MaxTroubles = 1
    None = none
INVARIANTS TypeOK PieceIsCurrent PageSettles
PROPERTIES LoadIsFollowed
CHECK_DEADLOCK FALSE
