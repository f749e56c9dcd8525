\* Timestamps stored finer than a Date can say.
SPECIFICATION Spec
CONSTANTS
  Columns = {"id", "name", "at", "group"}
  Timestamps = {"at"}
  Precision = 2
  Ids = {1, 2, 3}
  Names <- AllNames
  Times = {0, 1, 2}
  GroupIds = {1, 2}
  Configs <- TimeWalks
  DefaultLimit = 2
  MaxPageSize = 2
INVARIANT InOrder
