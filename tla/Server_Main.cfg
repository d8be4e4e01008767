SPECIFICATION FairSpec
CONSTANTS
  Daemons = {d1, d2}
  Inodes = {n1, n2, n3}
  Plain = Plain
  MaxStarts = 3
  MaxClients = 1
  None = None
INVARIANTS TypeOK ServingIsReachable LateNotServed
PROPERTIES OnlyStaleRemoved ShutdownEnds
CHECK_DEADLOCK FALSE
