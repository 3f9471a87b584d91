SPECIFICATION FairSpec
CONSTANT
  Clients = {"gateway", "prober", "reprober", "checker", "pool"}
INVARIANTS
  TypeOK
  AtMostOneCore
  ReleaseNeverBlocks
  NoHoldAndWait
  NoCoreLeft
PROPERTY
  JobsEnd
