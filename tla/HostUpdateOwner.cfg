\* The same without failing calls and crashes.
CONSTANTS
  rA = rA
  rB = rB
  rC = rC
  rD = rD
  old = old
  new = new
  First = rA
  Releases <- MCReleases
  Name <- MCName
  Nets = {n1, n2}
  None = None
  Limit <- MCLimit
  MaxFailures = 0
  MaxRequests = 7
SYMMETRY MCSymmetry
SPECIFICATION Spec
PROPERTY HealthNotUndone
