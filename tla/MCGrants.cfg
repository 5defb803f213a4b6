SPECIFICATION Spec
CONSTANTS
  Roles <- MCRoles
  RoleResolver <- MCRoleResolver
  Objects <- MCObjects
  TypeOf <- MCTypeOf
  Privileges <- MCPrivileges
  Account = "acc"
  None = "none"
  Scenarios <- MCScenarios
INVARIANTS
  SuccessMeansGranted
  TwoAppliesAreEnough
  GrantedPlanIsEmpty
PROPERTIES
  EntitledIsKept
