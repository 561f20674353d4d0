SPECIFICATION WritesSpec
CONSTANTS
  c1 = c1
  c2 = c2
  c3 = c3
  k1 = k1
  k2 = k2
  open = open
  doing = doing
  q1 = q1
  q2 = q2
  Ids = {c1, c2, c3}
  UpsertKeys = {k1, k2}
  ColumnValues = {open, doing}
  Limit <- OneInDoing
  Files <- OneFile
  Selections <- SentTwice
  Tables <- OpenBoard
  Requests = {q1, q2}
  MaxRequests = 3
INVARIANT OvershootBounded
PROPERTY UndoPutsBack
PROPERTY ImportKeepsKeys
SYMMETRY Alike
CHECK_DEADLOCK FALSE
