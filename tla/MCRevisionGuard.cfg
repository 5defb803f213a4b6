SPECIFICATION Spec
CONSTANTS
  Base = Base
  Left = Left
  Right = Right
  Merge = Merge
  Table = Table
  View = View
  First = First
  Second = Second
  None = None
  Half = Half
  Undeclared = Undeclared
  Commits <- MCCommits
  Ancestors <- MCAncestors
  Objects = {View, Table}
  Content <- MCContent
  Writes <- MCWrites
  Appliers = {First, Second}
  Clones <- MCClones
INVARIANTS
  TypeOK
  StampsNameTheWriter
  MergedIsNotRefused
PROPERTIES
  NeverBackwards
CONSTRAINT OneAtATime
