\* Two submissions, one console addressing; failing calls and crashes, four
\* together, so that a marker can fail to be written, confirmed and removed.
SPECIFICATION Spec
SYMMETRY MCSymmetry
CONSTANTS
  MaxRequests = 2
  h1 = h1
  h2 = h2
  o1 = o1
  Hosts <- MCHosts
  Opts <- MCOpts
  None = None
  Limit <- MCLimit
  MaxFailures = 4
INVARIANTS
  TypeOK
  OwnershipAtomic
  AnswerTruthful
  ServicesOnlyOwned
  AttemptUndone
