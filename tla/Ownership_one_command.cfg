SPECIFICATION Spec
CONSTANTS
  Pages = {1, 2}
  Elsewhere = {3}
  Destinations = {3}
  Commands = {c1}
  MaxOps = 3
  MaxEdits = 2
  MaxCrashes = 1
  c1 = c1
  c2 = c2
INVARIANT WatermarkCovers
PROPERTY OwnedBytesSurvive
PROPERTY EditedNeverDeleted
PROPERTY TreeFollowsSpec
CHECK_DEADLOCK FALSE
