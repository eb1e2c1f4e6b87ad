SPECIFICATION Spec
CONSTANTS
  MaxProviderAttempts = 2
  Faults = {"timeout", "provider_error", "unreadable", "undecodable"}
  MaxCycles = 2
  MaxAttempts = 2
  OutputLimit = 1
  PipeSize = 1
  MaxOutput = 2
  MaxCycleAtDeath = 1
  MaxInFlight = 1
  Setups <- MCSetups
INVARIANTS TypeOK TelemetryTellsAttempts CaptureHonest StrayOnlyIfMissed FramedCanBeProbed OneEndAndLast CaseNamesItsError FailureNamesTask TroubleIsASignal
PROPERTY KeepsRunPromise
