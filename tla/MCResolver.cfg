SPECIFICATION FairSpec
CONSTANTS
  Objects <- MCObjects
  TypeOf <- MCTypeOf
  Within <- MCWithin
  Uses <- MCUses
  DependsOn <- MCDependsOn
  PublicOf <- MCPublicOf
  Scenarios <- MCScenarios
INVARIANTS
  ConvergedPlanIsEmpty
  AppliedWasPlanned
  DropsAsPlanned
  StatementsAreAccepted
  DestroyLeavesNothing
  SuccessMeansInStep
  CacheIsFresh
PROPERTIES
  OnlyUnwantedIsLost
  SafeApplyKeepsData
  EveryRunEnds
