CONSTANTS
  a = a
  b = b
  c = c
  Elem = {a, b, c}
  NoElem = NoElem
  Unique = {a}
  Key <- MCKey
  SizeMax = 6
SPECIFICATION Spec
INVARIANTS
  LocatorsCurrent
  HeapInv
PROPERTIES
  ImplementsBag
  CallsEnd
