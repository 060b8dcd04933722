SPECIFICATION Spec
CONSTANTS
    Users = {u1, u2}
    Polls = {}
    Names = {1, 2}
    Slots = {"gpu", "glm"}
    NameOf <- MCNameOf
    Variants = {"glm"}
    Hosts = {1}
    None = none
INVARIANTS AllClosed
CHECK_DEADLOCK FALSE
