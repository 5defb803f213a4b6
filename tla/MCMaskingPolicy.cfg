SPECIFICATION Spec
CONSTANTS
  Kept = Kept
  New = New
  Old = Old
  None = None
  Policies <- MCPolicies
  Columns = {Id, Mail}
  Starts <- CarefulStarts
  MaxApplies = 3
  MaxFaults = 2
INVARIANTS
  TypeOK
  NothingIsRefused
  SuccessMeansInPlace
PROPERTIES
  MovingStaysMasked
  ArrivedStaysMasked
