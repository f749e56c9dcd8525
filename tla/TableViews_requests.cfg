\* One view and every kind of request with failures, whose stale pools time out,
\* or two views that compete for names.
SPECIFICATION FairSpec
CONSTANTS
  Tasks = {p1, p2}
  Users = {u1, u2}
  Views = {v1, v2}
  Names = {n1, n2}
  States = {s1}
  SharedPool = SharedPool
  Absent = Absent
  Miss = Miss
  Faults = TRUE
  MaxWrites = 3
SYMMETRY Symmetry
CONSTRAINT OneViewOrMutations
INVARIANTS PrivateStaysPrivate ExactWhenUndisturbed CheckDecides
PROPERTIES NoLostUpdate EventuallyCoherent
