SPECIFICATION FairSpec
CONSTANTS
  a1 = a1  v1 = v1  v2 = v2  None = None
  Clients <- TwoClients
  Requests <- Pairs
  Contents <- TwoContents
  Times <- TwoTimes
  Keep = 4
  Edited <- OneNode
  MaxEdits = 1
  MaxTime = 1
  MaxFrames = 2
  MayCancel = TRUE
INVARIANTS TypeOK TreeWhole NodesOnceParentsFirst CancelNotLost ResultIsHonest
PROPERTIES WaitEnds TreesComplete
