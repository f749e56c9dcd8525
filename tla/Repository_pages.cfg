\* Every kind of list, with writes between any two statements.
SPECIFICATION Spec
CONSTANTS
  Columns = {"id", "name", "at", "group"}
  Timestamps = {"at"}
  Precision = 1
  Ids = {1, 2, 3}
  Names <- AllNames
  Times = {0, 1}
  GroupIds = {1, 2}
  Configs <- Pages
  DefaultLimit = 2
  MaxPageSize = 2
INVARIANTS AnswerAgrees WalkExact InOrder StableSeenOnce
