CONSTANTS
  x = x
  NUL = NUL
  Byte <- MCByte
  Stale = Stale
  SizeMax = 7
  InitialSize = 2
  RefMax = 2
  Client = {c1, c2}
  Input <- MCInput
  Scribbles = FALSE
SPECIFICATION Spec
CHECK_DEADLOCK FALSE
INVARIANTS
  TypeOK
  StringInv
  FreedWithLastHolder
PROPERTIES
  ImplementsByteString
