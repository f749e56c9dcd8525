\* A slow reader warms the shared pool after a view left it.
SPECIFICATION Spec
CONSTANTS
  Tasks = {p1, p2}
  Users = {u1}
  Views = {v1}
  Names = {n1}
  States = {s1}
  SharedPool = SharedPool
  Absent = Absent
  Miss = Miss
  Faults = FALSE
  MaxWrites = 2
SYMMETRY Symmetry
INVARIANTS RestrictedIsHidden
