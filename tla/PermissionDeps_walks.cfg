\* Every graph over three permissions, every set of given codes.
SPECIFICATION FairSpec
CONSTANTS
  Codes = {a, b, c}
  Ghosts = {g}
INVARIANTS ClosureExact LockSound LockComplete FilterKeepsUsable FilterExactAcyclic
PROPERTIES Terminates
