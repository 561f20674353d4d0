SPECIFICATION Spec
CONSTANTS
  ann = ann
  bob = bob
  w1 = w1
  w2 = w2
  f1 = f1
  f2 = f2
  Clients = {ann, bob}
  Writers = {w1, w2}
  FanOuts = {f1, f2}
  MaxMessages = 2
  Bounds <- Small
INVARIANT TypeOK
INVARIANT NoSilentStaleness
PROPERTY PollingCatchesUp
CHECK_DEADLOCK FALSE
