SPECIFICATION FairSpec
CONSTANTS
  Runners = {r1}
  CaseCount = 2
  DirectFirst <- FirstCase
  DirectConcurrency = 1
  BayesConcurrency = 1
  StaleAfter = 1
  Refusals = {"none"}
  MaxFaults = 1
  Answers = {"answer"}
PROPERTY
  ResumeSkipsNoWork
