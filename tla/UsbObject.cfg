SPECIFICATION Spec
CONSTANTS
  Owner = o
  Users = {u}
  Classes <- Both
  Interfaces = 2
  Devices = 2
  Parts = 2
  MaxOpens = 2
  MaxCalls <- ThreeAndTwo
INVARIANTS
  TypeOK
  HandleHeld
  Unmixed
PROPERTIES
  Returns
CHECK_DEADLOCK FALSE
