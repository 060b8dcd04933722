SPECIFICATION CatalogueSpec
CONSTANTS
    Lists = {a, b, c}
    Reloads = {r1}
    MaxModels = 1
    TTL = 1
    MaxTime = 2
    NoEntry = none
SYMMETRY CatalogueSymmetry
INVARIANTS CatalogueTypeOK CatalogueSeesReload
PROPERTIES AnswersAreCurrent
CHECK_DEADLOCK FALSE
