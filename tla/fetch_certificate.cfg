SPECIFICATION Spec
CONSTANTS
  Streams <- MCStreams
  Versioned <- MCVersioned
  Setups <- MCUncached
  MaxRetries = 2
  Retries = 1
PROPERTY ConsumeCompletes
CHECK_DEADLOCK FALSE
