SPECIFICATION Spec
CONSTANTS
  Paths <- MCPaths
  Extends <- MCExtends
  Contents <- MCContents
  Scenarios <- MCScenarios
INVARIANTS
  TypeOK
  SuccessMeansUploaded
  UploadedPlanIsEmpty
PROPERTIES
  MarkersFollowFiles
  KeepsPromise
