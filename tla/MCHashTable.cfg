CONSTANTS
  a = a
  b = b
  c = c
  d = d
  Elem = {e1, e2, e3, e4}
  Key = {a, b, c, d}
  Value = {v, w}
  Rank <- MCRank
  Hash <- MCHash
  GoodSizes <- MCGoodSizes
  Request = {2, 9}
  NULL = NULL
  MaxDetached = 1
SPECIFICATION Spec
SYMMETRY Objects
INVARIANTS
  TableInv
PROPERTIES
  VisitsEachOnce
  ImplementsDictionary
