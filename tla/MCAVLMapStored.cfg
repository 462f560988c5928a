CONSTANTS
  Tree = {t, u}
  k1 = k1
  k2 = k2
  k3 = k3
  Key = {k1, k2, k3}
  Value = {v, w}
  Rank <- MCRank
  Slot = {0, 1, 2}
  NULL = NULL
  Free = Free
  MaxDetached = 1
SPECIFICATION MapSpec
PROPERTIES
  StoredPutHasNoEffect
