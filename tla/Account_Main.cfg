SPECIFICATION FairSpec
CONSTANTS
  Keys = {k1, k2}
  BadSecret = bad
  MaxLaunches = 2
  MaxTaps = 3
  MaxFrames = 1
  None = None
INVARIANTS TypeOK SignersAreOwned SignedInIsSaved
PROPERTIES LogoutForgetsFirst EventuallySettled
CHECK_DEADLOCK FALSE
