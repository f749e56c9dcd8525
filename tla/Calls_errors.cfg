CONSTANTS
  Absent = Absent
  Undefined = Undefined
  r1 = r1
  r2 = r2
  s1 = s1
  s2 = s2
  Requests = {r1, r2}
  Sessions = {s1, s2}
  CallIds = {1, 2}
  Scenarios <- MCScenarios
SPECIFICATION Spec
SYMMETRY Symmetry
CHECK_DEADLOCK FALSE
INVARIANTS ContextOfSession AsThrown TransportsAgree LogTellsAnswer 
