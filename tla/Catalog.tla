------------------------------- MODULE Catalog -------------------------------
(***************************************************************************)
(* catalog-resolver: what a user may do at a site, computed from documents *)
(* that change independently of each other: the catalog version, the plan, *)
(* the site's deny-list, the provisioned services and the user's role.     *)
(* The resolvers are pure; the actions are the edits of the documents, and *)
(* the properties relate what the resolvers answer about one state, or     *)
(* about the states before and after an edit.                              *)
(*                                                                         *)
(* A document maps a feature code and a bucket to a set of permissions, to *)
(* Absent (undefined), or in a deny-list to Null.  Of the walks over the   *)
(* prerequisites, two compute closures whatever cycles there are, as       *)
(* PermissionDeps_proof shows; the third, of filterGrantedByDeps, is known *)
(* here by what is shown of it there.                                      *)
(***************************************************************************)
EXTENDS Integers, Sequences

CONSTANTS Perms, Codes, PlanCodes, Services, SiteTypes, Scopes,
          Snapshots,    \* the versions that may be published
          Roles,        \* the documents of base roles
          LockDocs,     \* the deny-lists a site may start with
          Filtered(_, _), \* what filterGrantedByDeps keeps of granted codes
          Absent, Null,
          EditedCodes,  \* the features whose grants and locks are edited
          MaxEdits      \* bound on the edits

UiPlatforms == {"web", "mobile"}
ApiBuckets == {"graphql", "http"}
Platforms == UiPlatforms \cup ApiBuckets
\* What stored documents may have: the buckets and the one from before the split.
Stored == Platforms \cup {"app"}
Clients == {"web", "ios", "android", "graphql", "http"}
Bucket(client) == IF client \in {"ios", "android"} THEN "mobile" ELSE client

Unlocks == [Codes -> [Stored -> (SUBSET Perms) \cup {Absent}]]
Denies == [Codes -> [Stored -> (SUBSET Perms) \cup {Absent, Null}]]
Nothing == [f \in Codes |-> [b \in Stored |-> Absent]]

\* What is stored: plans and roles with no deny-list in them, features whose
\* permissions are codes; undefined and null are no list, no code and no scope.
ASSUME DocumentsAssumption ==
  /\ Absent \notin Scopes \cup PlanCodes \cup {Null}
  /\ \A S \in SUBSET Perms : S # Absent /\ S # Null
  /\ Roles \subseteq Unlocks
  /\ LockDocs \subseteq Denies
  /\ EditedCodes \subseteq Codes
  /\ \A s \in Snapshots :
       /\ s.plans \in [PlanCodes -> Unlocks]
       /\ \A i \in DOMAIN s.refs : s.refs[i].code \in Codes
       /\ DOMAIN s.features \subseteq Nat
       /\ \A i \in DOMAIN s.features : LET v == s.features[i] IN
            /\ v.code \in Codes
            /\ v.ui \subseteq UiPlatforms
            /\ DOMAIN v.perms \subseteq Perms
ASSUME EditsAssumption == MaxEdits \in Nat

VARIABLES snapshot,  \* features, refs of the business's apps, plans
          planCode,
          locks,     \* the site's deny-list
          custom,    \* is the user's role a custom one?
          base, additions, revoked, \* its parts; of another role only base
          services,  \* provisioned for the org
          edits

vars == <<snapshot, planCode, locks, custom, base, additions, revoked, services, edits>>

TypeOK ==
  /\ snapshot \in Snapshots
  /\ planCode \in PlanCodes \cup {Absent}
  /\ locks \in Denies
  /\ custom \in BOOLEAN
  /\ base \in Unlocks /\ additions \in Unlocks
  /\ revoked \in Denies
  /\ services \subseteq Services
  /\ edits \in 0..MaxEdits

Init ==
  /\ snapshot \in Snapshots
  /\ planCode \in PlanCodes \cup {Absent}
  /\ custom \in BOOLEAN
  /\ base \in Roles
  /\ locks \in LockDocs
  /\ additions = Nothing /\ revoked = Nothing
  /\ services = {}
  /\ edits = 0

-----------------------------------------------------------------------------
(* Documents.                                                              *)

\* The legacy bucket stands in for an API bucket that is absent.
NormalizeApiBuckets(doc) ==
  [f \in Codes |-> [b \in Stored |->
     IF b \in ApiBuckets /\ doc[f][b] = Absent THEN doc[f]["app"] ELSE doc[f][b]]]

Members(codes) == IF codes = Absent THEN {} ELSE codes

\* composeRoleGrants: (base and additions) without what is revoked.  Null
\* revokes the membership, a list keeps it; only the platforms of today are
\* looked at.
ComposeRoleGrants(b0, add, rev) ==
  [f \in Codes |-> [b \in Stored |->
     CASE b = "app" \/ rev[f][b] = Null \/ (b0[f][b] = Absent /\ add[f][b] = Absent) -> Absent
       [] OTHER -> (Members(b0[f][b]) \cup Members(add[f][b])) \ Members(rev[f][b])]]

-----------------------------------------------------------------------------
(* Prerequisites.                                                          *)

\* The least set with the prerequisites of c and with theirs.
Prereqs(needs, c) ==
  {d \in Perms : \A S \in SUBSET Perms :
     needs[c] \subseteq S /\ (\A x \in S : needs[x] \subseteq S) => d \in S}
Closure(needs, c) == Prereqs(needs, c) \ {c}
Acyclic(needs) == \A c \in Perms : c \notin Prereqs(needs, c)
\* Edges to permissions outside `present` are dropped.
DependsMap(perms, present) ==
  [c \in Perms |-> IF c \in present THEN (perms[c].needs \cap present) \ {c} ELSE {}]
\* Faulty variant: only the directly locked permissions are locked.
CascadeNothing(codes, direct, needs) == codes \cap direct
CascadeLocked(codes, direct, needs) ==
  {c \in codes : ({c} \cup Closure(needs, c)) \cap direct # {}}

\* With a cycle the walk may keep a code that lacks a prerequisite, depending on
\* the order of the lists; it drops no code that has all of them, and without a
\* cycle it keeps no other (PermissionDeps_proof: FilterComplete, FilterSoundAcyclic).
WithAll(granted, needs) == {c \in granted : Closure(needs, c) \subseteq granted}
ASSUME FilterAssumption ==
  \A granted \in SUBSET Perms : \A needs \in [Perms -> SUBSET Perms] :
    (\A c \in Perms : c \notin needs[c]) =>
      /\ WithAll(granted, needs) \subseteq Filtered(granted, needs)
      /\ Filtered(granted, needs) \subseteq granted
      /\ Acyclic(needs) => Filtered(granted, needs) \subseteq WithAll(granted, needs)
FilterGrantedByDeps(granted, needs) == Filtered(granted, needs)

-----------------------------------------------------------------------------
(* buildSiteCatalog.                                                       *)

Plans == [p \in PlanCodes |-> NormalizeApiBuckets(snapshot.plans[p])]
Membership(f) == IF planCode = Absent THEN [b \in Stored |-> Absent] ELSE Plans[planCode][f]
SiteLocks == NormalizeApiBuckets(locks)

\* snapshot.features is a sequence: findFeatureByCode answers its first.
VariantOf(code, scope) ==
  LET found == {i \in DOMAIN snapshot.features :
                  /\ snapshot.features[i].code = code
                  /\ scope # Absent => snapshot.features[i].scope = scope} IN
  IF found = {} THEN Absent
  ELSE snapshot.features[CHOOSE i \in found : \A j \in found : i <= j]

SurfaceAllows(surfaces, bucket) == surfaces = Absent \/ bucket \in surfaces
Offered(v, bucket) ==
  IF bucket \in ApiBuckets THEN SurfaceAllows(v.surfaces, bucket) ELSE v.ui # {}

\* The feature at a place in the apps.
Referenced(i) == VariantOf(snapshot.refs[i].code, snapshot.refs[i].scope)

\* The places of the features a request sees.
Exposed(bucket, siteType, scope) ==
  {i \in DOMAIN snapshot.refs : LET v == Referenced(i) IN
     /\ scope # Absent => snapshot.refs[i].scope = scope
     /\ v # Absent
     /\ Offered(v, bucket)
     /\ siteType # Absent => siteType \in v.types}

\* Faulty variant: Null is no lock.
LockedByCode(f, bucket, c) == SiteLocks[f][bucket] \notin {Absent, Null} /\ c \in SiteLocks[f][bucket]
IsSiteLockedOnPlatform(f, bucket, c) ==
  \/ SiteLocks[f][bucket] = Null
  \/ SiteLocks[f][bucket] # Absent /\ c \in SiteLocks[f][bucket]

\* Faulty variant: a missing service is reported before the plan.
ServiceReasonFirst(planLocked, siteLocked, missing) ==
  CASE missing # {} -> "SERVICE"
    [] missing = {} /\ planLocked -> "PLAN"
    [] missing = {} /\ ~planLocked /\ siteLocked -> "SITE"
    [] OTHER -> "none"
ResolveLockReason(planLocked, siteLocked, missing) ==
  CASE planLocked -> "PLAN"
    [] ~planLocked /\ siteLocked -> "SITE"
    [] ~planLocked /\ ~siteLocked /\ missing # {} -> "SERVICE"
    [] OTHER -> "none"

Here(v) == {c \in DOMAIN v.perms : v.perms[c].here}
UnmetServices(v) == v.services \ services

\* Faulty variant: a plan is offered for the permission alone.
PlansUnlockingCode(f, closure, c, bucket) == {p \in PlanCodes : c \in Members(Plans[p][f][bucket])}
PlansUnlockingClosure(f, closure, c, bucket) ==
  {p \in PlanCodes : Plans[p][f][bucket] # Absent /\ closure \subseteq Plans[p][f][bucket]}
PlansIncludingFeature(f, bucket) == {p \in PlanCodes : Plans[p][f][bucket] # Absent}

Needs(v) == DependsMap(v.perms, Here(v))
PlanLocked(v, bucket) == Here(v) \ Members(Membership(v.code)[bucket])
SiteLocked(v, bucket) == {c \in Here(v) : IsSiteLockedOnPlatform(v.code, bucket, c)}
PermissionReason(v, bucket, c) ==
  LET closure == {c} \cup Closure(Needs(v), c)
      cascaded == CascadeLocked(Here(v), PlanLocked(v, bucket) \cup SiteLocked(v, bucket), Needs(v)) IN
  ResolveLockReason(c \in cascaded /\ closure \cap PlanLocked(v, bucket) # {},
                    c \in cascaded /\ closure \cap SiteLocked(v, bucket) # {},
                    UnmetServices(v))
UnlockPlans(v, bucket, c) ==
  IF PermissionReason(v, bucket, c) = "PLAN"
  THEN PlansUnlockingClosure(v.code, {c} \cup Closure(Needs(v), c), c, bucket) ELSE {}
BuildPermissions(v, bucket) ==
  {[code |-> c, reason |-> PermissionReason(v, bucket, c), unlockPlans |-> UnlockPlans(v, bucket, c)] :
     c \in Here(v)}

FeatureReason(v, bucket) ==
  ResolveLockReason(Membership(v.code)[bucket] = Absent, SiteLocks[v.code][bucket] = Null, UnmetServices(v))
CatalogEntry(v, bucket) ==
  [code |-> v.code, reason |-> FeatureReason(v, bucket),
   unlockPlans |-> IF FeatureReason(v, bucket) = "PLAN" THEN PlansIncludingFeature(v.code, bucket) ELSE {},
   ui |-> v.ui,
   perms |-> BuildPermissions(v, bucket)]

-----------------------------------------------------------------------------
(* resolveUserFeatures.                                                    *)

\* The caller composes a custom role; any other it hands over as it is stored.
RoleDocument == IF custom THEN ComposeRoleGrants(base, additions, revoked) ELSE base
\* Faulty variant: a document from before the split is read as it is.
RoleAsStored == RoleDocument
RoleFeatures == NormalizeApiBuckets(RoleDocument)

\* An API client loads nothing; a user interface needs its route.
HasRoute(entry, client) ==
  \/ client \in ApiBuckets
  \/ client \in {"ios", "android"} /\ "mobile" \in entry.ui
  \/ client = "web" /\ "web" \in entry.ui

\* Of several variants of a code the last one in the apps is kept.
CatalogMap(client, siteType, scope) ==
  LET exposed == Exposed(Bucket(client), siteType, scope)
      last == {i \in exposed : \A j \in DOMAIN snapshot.refs :
                 j > i /\ snapshot.refs[j].code = snapshot.refs[i].code => j \notin exposed} IN
  {CatalogEntry(v, Bucket(client)) : v \in {Referenced(i) : i \in last}}

\* The features each other plan has that the current one lacks.
PlanAdds(p, bucket, scope) ==
  {f \in Codes : /\ Plans[p][f][bucket] # Absent
                 /\ Membership(f)[bucket] = Absent
                 /\ VariantOf(f, scope) # Absent}

FeatureDeps(code, scope) ==
  LET v == VariantOf(code, scope) IN DependsMap(v.perms, DOMAIN v.perms)
GrantedPermissions(code, bucket, scope) ==
  FilterGrantedByDeps(RoleFeatures[code][bucket], FeatureDeps(code, scope))
UserFeature(entry, bucket, scope) ==
  LET granted == GrantedPermissions(entry.code, bucket, scope) IN
  [code |-> entry.code,
   permissions |-> granted,
   lockReason |-> entry.reason,
   lockedPermissions |-> {[code |-> q.code, reason |-> q.reason] :
                            q \in {q \in entry.perms : q.reason # "none" /\ q.code \in granted}},
   upsell |-> {<<p, PlanAdds(p, bucket, scope) \ {entry.code}>> :
                 p \in IF entry.reason = "PLAN" THEN entry.unlockPlans ELSE {}}]
ResolveUserFeatures(client, siteType, scope) ==
  LET bucket == Bucket(client) IN
  {UserFeature(entry, bucket, scope) :
     entry \in {e \in CatalogMap(client, siteType, scope) :
                  RoleFeatures[e.code][bucket] # Absent /\ HasRoute(e, client)}}

-----------------------------------------------------------------------------
(* buildSiteMatrix, buildPlanMatrix.                                       *)

MatrixPlatforms(v) == v.ui \cup {b \in ApiBuckets : SurfaceAllows(v.surfaces, b)}
IsPlanMember(entry) == \E b \in Stored : entry[b] # Absent
\* A cell of the matrix, for a permission of the business.
Cell(v, bucket, c) ==
  LET inPlan == c \in Members(Membership(v.code)[bucket]) IN
  [inPlan |-> inPlan,
   selected |-> inPlan /\ ~IsSiteLockedOnPlatform(v.code, bucket, c),
   availableIn |-> IF inPlan THEN {}
                   ELSE {p \in PlanCodes \ {planCode} : c \in Members(Plans[p][v.code][bucket])}]
\* Faulty variant: the matrix hands the stored deny-list on.
MatrixStoredLocks == locks
MatrixLocks == SiteLocks
MatrixFeatures(allScopes, siteType) ==
  {i \in DOMAIN snapshot.refs : LET v == Referenced(i) IN
     /\ planCode # Absent
     /\ allScopes \/ snapshot.refs[i].scope = "SITE"
     /\ v # Absent
     /\ siteType # Absent => siteType \in v.types}

-----------------------------------------------------------------------------
(* Edits of the documents, made by the programs that store them.           *)

Edit == edits < MaxEdits /\ edits' = edits + 1

Publish ==
  /\ Edit /\ snapshot' \in Snapshots \ {snapshot}
  /\ UNCHANGED <<planCode, locks, custom, base, additions, revoked, services>>
ChangePlan(p) ==
  /\ Edit /\ p # planCode /\ planCode' = p
  /\ UNCHANGED <<snapshot, locks, custom, base, additions, revoked, services>>
\* The editor starts from the deny-list of the matrix.  Null locks a platform,
\* a set some codes of it.
Lock ==
  /\ Edit
  /\ \E f \in EditedCodes, b \in Platforms, deny \in {Null} \cup {{c} : c \in Perms} :
       /\ MatrixLocks[f][b] # Null
       /\ locks' = [MatrixLocks EXCEPT ![f][b] = IF deny = Null THEN Null ELSE Members(@) \cup deny]
  /\ UNCHANGED <<snapshot, planCode, custom, base, additions, revoked, services>>
Provision(s) ==
  /\ Edit /\ s \notin services /\ services' = services \cup {s}
  /\ UNCHANGED <<snapshot, planCode, locks, custom, base, additions, revoked>>
Grant ==
  /\ Edit /\ custom
  /\ \E f \in EditedCodes, b \in Platforms, c \in Perms :
       additions' = [additions EXCEPT ![f][b] = Members(@) \cup {c}]
  /\ UNCHANGED <<snapshot, planCode, locks, custom, base, revoked, services>>
Revoke ==
  /\ Edit /\ custom
  /\ \E f \in EditedCodes, b \in Platforms, deny \in {Null} \cup {{c} : c \in Perms} :
       /\ revoked[f][b] # Null
       /\ revoked' = [revoked EXCEPT ![f][b] = IF deny = Null THEN Null ELSE Members(@) \cup deny]
  /\ UNCHANGED <<snapshot, planCode, locks, custom, base, additions, services>>

Settled == edits = MaxEdits /\ UNCHANGED vars

Next ==
  \/ Publish \/ Lock \/ Grant \/ Revoke \/ Settled
  \/ \E p \in PlanCodes \cup {Absent} : ChangePlan(p)
  \/ \E s \in Services : Provision(s)
Spec == Init /\ [][Next]_vars

-----------------------------------------------------------------------------
(* Properties.                                                             *)

\* Requests that name a scope: a code then has one variant.
Requests == Clients \X SiteTypes \X Scopes
Answer(r) == ResolveUserFeatures(r[1], r[2], r[3])
Locked(f) == {p.code : p \in f.lockedPermissions}
\* What the user may do: the granted permissions that are not locked.
Usable(r) == UNION {{f.code} \X (f.permissions \ Locked(f)) : f \in Answer(r)}

\* What a stored role grants on a platform; what it grants on `app` it grants on
\* the API platforms it has no list for.
GrantedBy(doc, code, bucket) ==
  IF bucket \in ApiBuckets /\ doc[code][bucket] = Absent
  THEN Members(doc[code]["app"]) ELSE Members(doc[code][bucket])

\* A permission the user may use is of use: its feature is not locked, and where
\* prerequisites form no cycle each one the business knows is usable too, although
\* grants and locks are filtered over different graphs.  And nothing is withheld: of
\* the features shown, what the role grants with its prerequisites, in today's shape
\* or that of before the split, and no lock reaches, is usable.
UsableInFull ==
  \A r \in Requests :
    /\ \A f \in Answer(r) :
         LET v == VariantOf(f.code, r[3])
             usable == f.permissions \ Locked(f) IN
         \A c \in usable \cap Here(v) :
           /\ f.lockReason = "none"
           /\ Acyclic(FeatureDeps(f.code, r[3])) => v.perms[c].needs \cap Here(v) \subseteq usable
    /\ \A e \in CatalogMap(r[1], r[2], r[3]) :
         LET granted == GrantedBy(RoleDocument, e.code, Bucket(r[1])) IN
         \A q \in e.perms :
           /\ HasRoute(e, r[1]) /\ q.reason = "none"
           /\ {q.code} \cup Closure(FeatureDeps(e.code, r[3]), q.code) \subseteq granted
           => <<e.code, q.code>> \in Usable(r)

\* The matrix an administrator edits and the catalog users get agree: a
\* permission is unlocked where its cell and those of all its prerequisites
\* are selected and the services are there.
MatrixAgrees ==
  \A t \in SiteTypes : \A i \in MatrixFeatures(FALSE, t) :
    LET v == VariantOf(snapshot.refs[i].code, "SITE")
        needs == DependsMap(v.perms, Here(v)) IN
    \A b \in MatrixPlatforms(v) :
      /\ i \in Exposed(b, t, "SITE")
      /\ \A p \in CatalogEntry(v, b).perms :
           p.reason = "none" <=>
             /\ UnmetServices(v) = {}
             /\ \A d \in {p.code} \cup Closure(needs, p.code) : Cell(v, b, d).selected

\* What the plan locks of a feature.
LockedByPlan(v, bucket) == {q.code : q \in {q \in CatalogEntry(v, bucket).perms : q.reason = "PLAN"}}

\* The plans offered for a locked permission are exactly those under which
\* the plan no longer locks it.
UpgradeUnlocks ==
  [][\A p \in PlanCodes : ChangePlan(p) =>
       \A i \in Exposed("web", Absent, Absent) \cup Exposed("graphql", Absent, Absent), b \in Platforms :
         \A q \in CatalogEntry(Referenced(i), b).perms :
           q.reason = "PLAN" => (p \in q.unlockPlans <=> q.code \notin LockedByPlan(Referenced(i), b)')]_vars

\* Locking and revoking only ever take away, for every request.  (Where
\* prerequisites form a cycle, what filterGrantedByDeps keeps of fewer grants need
\* not be less.)
DenyOnlyTakes ==
  [][Lock \/ Revoke => \A r \in Requests :
       \A x \in Usable(r)' \ Usable(r) : Revoke /\ ~Acyclic(FeatureDeps(x[1], r[3]))]_vars

\* What a feature's answer is once the service is there: if it was the last one
\* missing, nothing is locked for want of services any more.
Served(f, scope, service) ==
  IF UnmetServices(VariantOf(f.code, scope)) \subseteq {service}
  THEN [f EXCEPT !.lockReason = IF @ = "SERVICE" THEN "none" ELSE @,
                 !.lockedPermissions = {p \in @ : p.reason # "SERVICE"}]
  ELSE f

\* Provisioning a service opens what was locked for want of services, as soon as the
\* feature has all of them, and changes nothing else: a lock of the plan or of the
\* site, the grants and the upsell stay as they were.
ProvisionOnlyUnlocks ==
  [][\A s \in Services : Provision(s) =>
       \A r \in Requests : Answer(r)' = {Served(f, r[3], s) : f \in Answer(r)}]_vars
=============================================================================
