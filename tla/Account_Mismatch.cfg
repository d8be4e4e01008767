SPECIFICATION Spec
CONSTANTS
  Keys = {k1, k2}
  BadSecret = bad
  MaxLaunches = 1
  MaxTaps = 2
  MaxFrames = 0
  None = None
SYMMETRY KeySymmetry
INVARIANT SavedLoginMatches
CHECK_DEADLOCK FALSE
