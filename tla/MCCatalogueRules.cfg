SPECIFICATION Spec
CONSTANTS
  Objects <- MCObjects
  TypeOf <- MCTypeOf
  Within <- MCWithin
  Uses <- MCUses
  DependsOn <- MCDependsOn
  SameName <- MCSameName
  Flagged <- MCFlagged
  Scenarios <- RuleScenarios
INVARIANTS
  RulesAreBack
