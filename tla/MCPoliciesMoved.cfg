SPECIFICATION Spec
CONSTANTS
  Kept = Kept
  New = New
  Old = Old
  User = User
  Account = Account
  None = None
  Names <- MCNames
  Targets <- MCTargets
  Orders <- MCOrders
  Starts <- MovedStarts
  MaxFaults = 0
INVARIANT OneApplyMoves
