SPECIFICATION FairSpec
CONSTANTS
    Users = {u1, u2}
    Polls = {p1}
    Names = {1, 2}
    Slots = {"gpu", "glm"}
    NameOf <- MCNameOf
    Variants = {"glm"}
    Hosts = {1}
    None = none
INVARIANTS TypeOK SafeUse
PROPERTIES RequestsEnd
CHECK_DEADLOCK FALSE
