SPECIFICATION Spec
CONSTANTS
  Paths <- MCPaths
  Extends <- MCExtends
  Contents <- MCContents
  Scenarios <- BackScenarios
INVARIANTS
  SuccessMeansUploaded
