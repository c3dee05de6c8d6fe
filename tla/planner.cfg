SPECIFICATION Spec
CONSTANTS
  Inputs <- MCInputs
  Stored <- MCStored
  IpBits = 4
  PortBits = 2
  TimeBits = 4
  WordBits = 6
  StartTime = 2
  MaxTime = 3
INVARIANTS
  ParsesGrammar
  NodesFreed
  PlanProper
  PlanSelects
  CharacterSelects
CHECK_DEADLOCK FALSE
