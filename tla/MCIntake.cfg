SPECIFICATION Spec
CONSTANTS
  SourceCount = 2
  Feeds <- MCFeeds
  MaxAge = 1
  Dedicated = {1}
  PoolFallback = TRUE
  Hosts = {"h", "H"}
  Literals = {}
  Racers = {"r1", "r2"}
  MaxResolving = 2
  Probes = {1, 2}
  MaxProbing = 2
  Exits = {"e"}
  Places = {"x", "y"}
  NoPlace = ""
  NoExit = "none"
INVARIANTS
  SourcesRemembered
  AttributionAgrees
  DroppedOnlyIfNobodyAnswers
  ExitsAgree
PROPERTY
  RefreshEnds
