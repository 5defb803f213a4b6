SPECIFICATION Spec
CONSTANTS
  SequenceDefaults <- MCSequenceDefaults
  SearchItems <- MCSearchItems
  Blueprints <- NumberBlueprints
  Tables <- NumberTables
  Scenarios <- PrecisionScenarios
INVARIANTS
  PrecisionIsAltered
