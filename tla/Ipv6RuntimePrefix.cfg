CONSTANTS
  wan0 = wan0
  wan1 = wan1
  lan0 = lan0
  lan1 = lan1
  pA = pA
  pB = pB
  s1 = s1
  s2 = s2
  None = None
  Wans <- MCWans
  Lans = {lan0, lan1}
  Delegations = {pA, pB}
  Servers = {s1, s2}
  Leases <- MCLeases
  Configs <- MCConfigsDelegated
  MaxNameservers = 1
  Limit <- MCLimitQuiet
  MaxEvents = 3
SPECIFICATION Spec
PROPERTY FollowsPrefix
