SPECIFICATION Spec
CONSTANTS
  Inputs <- PrefixInputs
  Stored <- MCStored
  IpBits = 4
  PortBits = 2
  TimeBits = 4
  WordBits = 6
  StartTime = 2
  MaxTime = 2
INVARIANT
  PrefixNotation
CHECK_DEADLOCK FALSE
