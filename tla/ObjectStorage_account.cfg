\* Two callers of one account, two buckets, two credentials, one fault, four
\* deployments.
SPECIFICATION Spec
CONSTANTS
  Absent = Absent
  Callers = {c1, c2}
  Names = {n1, n2}
  Keys = {k1}
  Credentials = {t1, t2}
  Configs <- MCConfigs
  MaxFaults = 1
SYMMETRY Symmetry
CHECK_DEADLOCK FALSE
INVARIANTS Reconciles ToldTruth CredentialFits
PROPERTIES WritesWhereTold
