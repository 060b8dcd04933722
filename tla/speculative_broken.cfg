SPECIFICATION Spec
CONSTANTS
    Tokens = {0, 1}
    NCtx = 4
    NBatch = 2
    MaxIds = 5
    MaxTokens = 3
    Gamma = 2
    MaxPrompt = 1
    Greedy <- MCGreedy
    Requests <- MCRequests
INVARIANTS SameAsGreedy
CHECK_DEADLOCK FALSE
