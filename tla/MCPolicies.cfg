SPECIFICATION Spec
CONSTANTS
  Kept = Kept
  New = New
  Old = Old
  User = User
  Account = Account
  None = None
  Names <- MCNames
  Targets <- MCTargets
  Orders <- MCOrders
  Starts <- AllStarts
  MaxFaults = 1
INVARIANTS
  TwoAppliesSettle
  OneApplySettles
  SettledPlanIsEmpty
