\* Two stagings, reboots and manual rollbacks and an edit, any five of these in any
\* order, and one failing call or end of a process anywhere.
CONSTANTS
  rA = rA
  rB = rB
  rC = rC
  rD = rD
  old = old
  new = new
  First = rA
  Releases <- MCReleases
  Name <- MCName
  Nets = {n1, n2}
  None = None
  Limit <- MCLimit
  MaxFailures = 1
  MaxRequests = 5
SYMMETRY MCSymmetry
SPECIFICATION Spec
INVARIANTS
  TypeOK
  RejectedRestored
PROPERTIES
  ManualNotUndone
  RestoresOnlyRejected
  RestoresPreUpdateNetwork
  JudgesOnlyUpdates
  ManualOutcomeTrue
