SPECIFICATION Spec
CONSTANTS
  p1 = p1
  p2 = p2
  gw = gw
  twin = twin
  k1 = k1
  k2 = k2
  kg = kg
  api = api
  gateway = gateway
  Process = {p1, p2, gw, twin}
  IndexKey <- MCIndexKey
  NumberKey <- MCNumberKey
  NoAgent = NoAgent
  MaxAgent = 2
  MaxReset = 1
  MaxCrash = 1
INVARIANTS
  TypeOK
  TableSound
  NoSharedID
PROPERTIES
  StableIdentity
CHECK_DEADLOCK FALSE
