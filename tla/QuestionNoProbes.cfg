SPECIFICATION FairSpec
CONSTANTS
  Questions = {"q1", "q2"}
  MaxCycles = 2
  MaxProbes = 1
  MaxAttempts = 2
  MaxLinesAtDeath = 8
INVARIANT
  NoProbesLeft
