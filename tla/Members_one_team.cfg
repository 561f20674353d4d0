SPECIFICATION Spec
CONSTANTS
  ann = ann
  bob = bob
  cy = cy
  m1 = m1
  m2 = m2
  m3 = m3
  m4 = m4
  i1 = i1
  q1 = q1
  q2 = q2
  Users = {ann, bob, cy}
  Ids = {m1, m2, m3, m4}
  Invites = {i1}
  Teams <- AnnAndBob
  Requests = {q1, q2}
  MaxRequests = 3
INVARIANT OneRowPerUser
INVARIANT InvitationSpent
PROPERTY LastOwnerLostByRace
SYMMETRY Alike
CHECK_DEADLOCK FALSE
