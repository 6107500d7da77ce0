SPECIFICATION Spec
CONSTANTS
  Path = {1, 2, 3}
  Above <- Below
  Matched = {2, 3}
  MaxRuns = 3
  MaxChanges = 2
CHECK_DEADLOCK FALSE
INVARIANTS
  StrayFilesAreOfUnlistedRuns
  ManifestIsOfOneGeneration
  AttestationIdentifiesTheBytes
PROPERTY OwnersBytesSurvive
