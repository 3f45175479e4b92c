SPECIFICATION Spec
CONSTANTS
  Environments <- MCEnvironments
  Flags <- MCFlags
  Reaper = "init"
CHECK_DEADLOCK FALSE
PROPERTY Starts
INVARIANTS
  OneAck
  AckIsTrue
  NoLeak
