CONSTANTS
  n1 = n1
  n2 = n2
  x1 = x1
  x2 = x2
  None = None
  Off = Off
  Mixed = Mixed
  Nets <- MCNets
  Addrs <- MCAddrs
  Actors = {admin}
  Proposals <- MCProposalsIPv6Only
  Gens <- MCGens
  MaxRev = 2
  MaxIds = 1
  MaxFaults = 2
  MaxCrashes = 1
SPECIFICATION Spec
PROPERTY RestoresRetained
