SPECIFICATION Spec
CONSTANTS
  DeadCooldown = 1
  CountCap = 2
  FI = FI
  RU = RU
  Codes = {FI, RU}
  NoCountry = NoCountry
  Proxies = {p, q}
  NoRuntime = NoRuntime
  NoSnapshot = NoSnapshot
  Exits <- MCExits
  Probes <- MCRouteProbes
  Expiries = {FALSE}
  MaxFailures = 1
  MaxRestarts = 1
INVARIANTS
  SnapshotIsOne
  ServedIsCurrent
  EvidenceIsDurable
  RestartFailsClosed
PROPERTY
  DeathNeedsWitness
