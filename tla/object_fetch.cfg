SPECIFICATION Spec
CONSTANTS
  Streams <- MCStreams
  Versioned <- MCVersioned
  Setups <- MCSetups
  MaxRetries = 2
  Retries = 1
INVARIANTS WindowHeld SegmentsAccounted SuccessIsWhole
PROPERTY StreamsComplete
CHECK_DEADLOCK FALSE
