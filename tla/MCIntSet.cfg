CONSTANTS
  LongBit = 3
  SizeBound = 8
SPECIFICATION Spec
INVARIANTS
  HasMembers
  FindsNext
