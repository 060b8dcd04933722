CONSTANTS
  None = None
  Specials <- MCSpecials
  Vocabulary <- MCVocabulary
  InternBase = 10
  Provider <- MCProviders
  Asks <- MCAsks
  MaxRetries = 1
  MaxCalls = 2
  MaxRestarts = 1
  MaxNoise = 1
SPECIFICATION Spec
CHECK_DEADLOCK FALSE
INVARIANTS TypeOK ContextIsSent NeverRefused StreamIsInOrder LogHoldsTheStream UsageIsCharged
