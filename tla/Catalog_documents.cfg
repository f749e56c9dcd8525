\* The documents of a site, and one edit of any of them.
SPECIFICATION Spec
CONSTANTS
  Perms = {"view", "edit", "other"}
  Codes = {"a", "b", "gone"}
  PlanCodes = {"full", "part"}
  Services = {"GITEA", "MAIL"}
  SiteTypes = {"OUTLET", "WAREHOUSE"}
  Scopes = {"ORG", "SITE"}
  Snapshots <- SomeSnapshots
  Roles <- SomeRoles
  LockDocs <- SomeLocks
  Filtered <- KeptOf
  Order <- Listing
  Absent = Absent
  Null = Null
  EditedCodes = {"a"}
  MaxEdits = 1
INVARIANTS UsableInFull MatrixAgrees
PROPERTIES UpgradeUnlocks DenyOnlyTakes ProvisionOnlyUnlocks
