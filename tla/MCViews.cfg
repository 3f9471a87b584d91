SPECIFICATION Spec
CONSTANTS
  Codes = {"a", "b"}
  NoCountry = ""
  Listings <- MCListings
  Requests <- MCRequests
  Labels = {"x"}
  ExitID <- MCExitID
INVARIANTS
  ServedAsProbed
  ProbedAsConfigured
  ViewIsClean
  DocumentsResolve
  TrafficAsAsked
