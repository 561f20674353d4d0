SPECIFICATION Spec
CONSTANTS
  e1 = e1
  e2 = e2
  today = today
  w1 = w1
  w2 = w2
  s1 = s1
  s2 = s2
  Servers = {s1, s2}
  Ttl = 1
  Bounds <- Small
  Keys = {e1, e2}
  Windows = {today}
  Workers = {w1, w2}
  ServerOf <- OnTwoServers
INVARIANT TypeOK
INVARIANT MailsExplained
INVARIANT DecidedLately
INVARIANT DigestBooks
INVARIANT ClaimsFinished
SYMMETRY Alike
CHECK_DEADLOCK FALSE
