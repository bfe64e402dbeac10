SPECIFICATION Spec
CONSTANTS
  Blocks = {1, 4}
  OutOfRange = {64}
  Plain <- OneData
  Wrap = 3
  Operands = {1}
  Params <- Started
INVARIANTS
  TypeOK
  Served
  MemoryAsTold
