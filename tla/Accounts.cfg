\* Two administrators on two connections and the console; three accounts can be
\* created, so that a name can be used again; one failing write and one crash.
SPECIFICATION Spec
SYMMETRY MCSymmetry
CONSTANTS
  ann = ann
  bob = bob
  p1 = p1
  p2 = p2
  k1 = k1
  k2 = k2
  t1 = t1
  t2 = t2
  Users <- MCUsers
  Passwords <- MCPasswords
  Tokens <- MCTokens
  Threads <- MCThreads
  None = None
  MaxSessions = 1
  MaxSubject = 3
  MaxVersion = 2
  MaxRequests = 3
  MaxFaults = 1
  MaxCrashes = 1
INVARIANTS
  TypeOK
  AdministratorRemains
  RevocationLasts
  SessionProvesPassword
PROPERTIES
  RefusedForGood
  ChangedByAdministrator
