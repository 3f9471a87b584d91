SPECIFICATION Spec
CONSTANTS
  NoMetrics = NoMetrics
  MaxVersion = 3
INVARIANTS
  TypeOK
  EvidenceIsServed
  EnrichmentLands
PROPERTY
  KeepsPromise
CHECK_DEADLOCK FALSE
