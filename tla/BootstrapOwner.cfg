\* A submission after the UI gave up on an earlier one.
SPECIFICATION Spec
SYMMETRY MCSymmetry
CONSTANTS
  MaxRequests = 2
  h1 = h1
  h2 = h2
  o1 = o1
  Hosts <- MCHosts
  Opts <- MCOpts
  None = None
  Limit <- MCLimit
  MaxFailures = 0
PROPERTIES
  OwnerKept
