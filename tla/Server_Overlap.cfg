SPECIFICATION FairSpec
CONSTANTS
  Daemons = {d1, d2}
  Inodes = {n1, n2, n3}
  Plain = Plain
  MaxStarts = 2
  MaxClients = 1
  None = None
PROPERTY RemovesOnlyStale
CHECK_DEADLOCK FALSE
