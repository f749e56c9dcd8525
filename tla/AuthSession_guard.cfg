\* Sessions in two tabs, or signed requests of apps; two requests at a time.
SPECIFICATION Spec
CONSTANTS
  Absent = Absent
  Values = {"POST", "/people", "body", "v"}
  Requests = {p1, p2}
  Tabs = {t1, t2}
  Sessions = {"s1", "s2"}
  SessionType <- TypeOf
  Apps = {"app"}
  AppType <- AppTypeOf
  Contents <- SomeContents
  Configs <- SomeConfigs
  AccessLife = 1
  RefreshLife = 2
  MaxSkew = 1
  MaxDrift = 1
  MaxNow = 3
SYMMETRY Symmetry
INVARIANTS OneSession CsrfBeforeHandler Answered
PROPERTIES GuardDecides SignatureDecides
