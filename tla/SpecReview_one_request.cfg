SPECIFICATION Spec
CONSTANTS
  entity = entity
  secret = secret
  page = page
  hand = hand
  flag = flag
  b1 = b1
  b2 = b2
  Rows <- AllRows
  Nested <- Subtree
  FileOf <- Layer
  NFiles = 4
  LogFile = 3
  HighRisk = {secret}
  Manual = {hand}
  Selections <- Picked
  Batches = {b1, b2}
  Reviewers = {"web"}
  GenerateAnytime = FALSE
  MaxSaves = 3
  MaxCrashes = 1
INVARIANT TrailExplainsRows
INVARIANT HighRiskDecidedAlone
PROPERTY UndoOnlyUngenerated
SYMMETRY BatchSymmetry
CHECK_DEADLOCK FALSE
