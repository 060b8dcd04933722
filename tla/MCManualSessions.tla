-------------------------- MODULE MCManualSessions --------------------------
EXTENDS ManualSessions

SessionSymmetry == Permutations(Threads) \cup Permutations(Sids)
=============================================================================
