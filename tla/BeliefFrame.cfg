SPECIFICATION Spec
CONSTANTS
  Setups <- AllSetups
  Events <- AllEvents
  Units = 40
  Grain = 8
  ReserveUnits = 2
  InitialOpen = 160
  RetireBelow = 64
  SpawnPrior = 32
  ReframeFrom = 192
  ReframeDrop = 32
  ReframeFloor = 16
  MaxRevisions = 2
  MaxActive = 5
  MaxProposals = 2
  MaxCycle = 3
  MaxBatch = 2
  MaxTargets = 6
INVARIANTS
  TypeOK
  RevalidationPasses
  ReserveHeld
  UpdatesAreFresh
  OpenPosteriorsAudited
  UnresolvedAudited
  ModelReasoningCannotCondemn
  ActiveWithinLimit
PROPERTIES
  RetiredStaysOut
