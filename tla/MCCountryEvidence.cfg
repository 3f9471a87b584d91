SPECIFICATION Spec
CONSTANTS
  Codes = {FI, RU, DE}
  NoCountry = NoCountry
SYMMETRY Symmetry
INVARIANTS
  TypeOK
  StatusIsTrue
  IncludedIsClean
  UnprobedIsResolved
  EvidenceSettles
PROPERTY
  ReopeningNeedsTwo
