CONSTANTS
  n1 = n1
  n2 = n2
  x1 = x1
  x2 = x2
  None = None
  Off = Off
  Mixed = Mixed
  Nets <- MCNets
  Addrs <- MCAddrs
  Actors = {admin}
  Proposals <- MCProposals
  Gens <- MCGens
  MaxRev = 3
  MaxIds = 2
  MaxFaults = 2
  MaxCrashes = 1
SPECIFICATION Spec
INVARIANTS
  TypeOK
  AtomicOutcome
  ReplyTruthful
  ServesAccepted
  RetryOnlyReopens
  PredecessorOlder
  ConfirmsWhatWasShown
  HealthTruthful
PROPERTIES
  ImplementsStore
  ServedBeforeAccepted
  ReopensOnlyAccepted
