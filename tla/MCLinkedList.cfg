CONSTANTS
  Cell = {c1, c2, c3, c4, c5}
  Value = {v, w}
  NULL = NULL
  Wild = Wild
SPECIFICATION Spec
SYMMETRY Addresses
INVARIANTS
  ListInv
  LookupsAgree
PROPERTIES
  VisitsEachOnce
