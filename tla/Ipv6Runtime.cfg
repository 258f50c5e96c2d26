\* Five of two leases, expiries or late scripts, a Router Advertisement on a
\* WAN, an apply, a restart and a failing call, in any order.
CONSTANTS
  wan0 = wan0
  wan1 = wan1
  lan0 = lan0
  lan1 = lan1
  pA = pA
  pB = pB
  s1 = s1
  s2 = s2
  None = None
  Wans <- MCWans
  Lans = {lan0, lan1}
  Delegations = {pA, pB}
  Servers = {s1, s2}
  Leases <- MCLeases
  Configs <- MCConfigs
  MaxNameservers = 1
  Limit <- MCLimit
  MaxEvents = 5
SPECIFICATION Spec
INVARIANT TypeOK
PROPERTIES
  AdvertisesRouted
  HostsFollow
  ResolversFollow
