SPECIFICATION FairSpec
CONSTANTS
  Runners = {r1, r2}
  CaseCount = 1
  DirectFirst <- FirstCase
  DirectConcurrency = 1
  BayesConcurrency = 1
  StaleAfter = 1
  Refusals = {"none"}
  MaxFaults = 0
  Answers = {"right", "wrong"}
PROPERTY
  TerminalIsImmutable
