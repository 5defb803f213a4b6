SPECIFICATION Spec
CONSTANTS
  SequenceDefaults <- MCSequenceDefaults
  SearchItems <- MCSearchItems
  Blueprints <- MCBlueprints
  Tables <- MCTables
  Scenarios <- MCScenarios
INVARIANTS
  SuccessMeansAsDeclared
  TwoAppliesComplete
  NothingDueMeansInStep
  StatementsAreAccepted
PROPERTIES
  DeclaredColumnsKeepRows
