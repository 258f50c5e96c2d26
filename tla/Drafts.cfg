CONSTANTS
  a1 = a1
  a2 = a2
  eth0 = eth0
  eth1 = eth1
  w1 = w1
  w2 = w2
  p1 = p1
  p2 = p2
  k1 = k1
  k2 = k2
  v0 = v0
  v1 = v1
  pd = pd
  None = None
  Admins = {a1, a2}
  Tunnels = {w1, w2}
  Devices = {eth0}
  Nics = {eth0, eth1}
  Routes <- MCRoutes
  InitNet <- MCInit
  Edits <- MCEdits
  Changes <- MCChanges
  Imports <- MCImports
  MaxRev = 3
  MaxTokens = 3
  MaxQueue = 2
SPECIFICATION Spec
CHECK_DEADLOCK FALSE
INVARIANTS
  TypeOK
  AppliedOnce
  AcceptedRecognised
PROPERTIES
  NoLostUpdate
  DraftNotLost
