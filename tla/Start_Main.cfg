SPECIFICATION FairSpec
CONSTANTS
  d1 = d1  d2 = d2  k1 = k1  o1 = o1
  Owner = Owner  Foreign = Foreign  None = None
  Procs <- TwoProcs
  Fresh <- OneKey
  Overrides <- OneOverride
INVARIANTS TypeOK OneInCharge
PROPERTIES NeverSeizes KeyKept EventuallyUp
