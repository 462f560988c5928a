CONSTANTS
  Tree = {t}
  Key <- MCKey
  Value = {v}
  Rank <- MCRank
  Slot = {0}
  NULL = NULL
  Free = Free
  MaxDetached = 0
SPECIFICATION Spec
INVARIANTS
  TreeInv
  QueriesAgree
