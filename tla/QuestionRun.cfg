SPECIFICATION RegimeSpec
CONSTANTS
  Questions = {"q1", "q2"}
  MaxCycles = 2
  MaxProbes = 1
  MaxAttempts = 2
  MaxLinesAtDeath = 8
INVARIANTS
  TypeOK
  StateSealsCycle
  AllOrNothing
  ContextOnce
  RunNamesLastCycle
PROPERTIES
  UnaskedStaysAvailable
  RunEnds
