---------------------------- MODULE Catalog_proof ----------------------------
(***************************************************************************)
(* Proofs about Catalog, for all documents that can be stored.  Most of    *)
(* what the catalog answers is computed from sets of permissions, so the   *)
(* arguments are about the prerequisites of a permission (a closed set,    *)
(* and the least one) and about which documents an edit leaves alone.  An  *)
(* edit is compared with the state before it by facts that hold in every   *)
(* state (ReasonsRead, AnswersRead, ...), read in both.                    *)
(***************************************************************************)
EXTENDS Catalog, WellFoundedInduction, TLAPS

-----------------------------------------------------------------------------
(* Prerequisites.                                                          *)

\* The prerequisites of a prerequisite are among those of the permission.
LEMMA ClosureDown ==
  ASSUME NEW needs, NEW c, NEW d \in Closure(needs, c)
  PROVE  {d} \cup Closure(needs, d) \subseteq {c} \cup Closure(needs, c)
<1> SUFFICES ASSUME NEW e \in Closure(needs, d), e # c
             PROVE  e \in Closure(needs, c)
  OBVIOUS
<1>1. ASSUME NEW S \in SUBSET Perms, needs[c] \subseteq S, \A x \in S : needs[x] \subseteq S
      PROVE  e \in S
  <2>1. d \in S
    BY <1>1 DEF Closure, Prereqs
  <2> QED
    BY <1>1, <2>1 DEF Closure, Prereqs
<1> QED
  BY <1>1 DEF Closure, Prereqs

\* A direct prerequisite is one.
LEMMA ClosureDirect ==
  ASSUME NEW needs, NEW c, needs[c] \subseteq Perms
  PROVE  needs[c] \subseteq {c} \cup Closure(needs, c)
  BY DEF Closure, Prereqs

\* All prerequisites are among the permissions the edges lead to.
LEMMA ClosureWithin ==
  ASSUME NEW present \in SUBSET Perms, NEW perms, NEW c \in Perms
  PROVE  Closure(DependsMap(perms, present), c) \subseteq present
<1>1. \A x \in Perms : DependsMap(perms, present)[x] \subseteq present
  BY DEF DependsMap
<1> QED
  BY <1>1 DEF Closure, Prereqs

LEMMA DependsOn ==
  ASSUME NEW present \in SUBSET Perms, NEW perms, NEW c \in present
  PROVE  DependsMap(perms, present)[c] = (perms[c].needs \cap present) \ {c}
  BY DEF DependsMap

\* What filterGrantedByDeps keeps: nothing that is not granted, all that has its
\* prerequisites, and without a cycle nothing else.
LEMMA FilterKeeps ==
  ASSUME NEW present \in SUBSET Perms, NEW perms, NEW S \in SUBSET Perms
  PROVE  LET needs == DependsMap(perms, present) IN
         /\ WithAll(S, needs) \subseteq FilterGrantedByDeps(S, needs)
         /\ FilterGrantedByDeps(S, needs) \subseteq S
         /\ Acyclic(needs) => FilterGrantedByDeps(S, needs) = WithAll(S, needs)
<1> DEFINE needs == DependsMap(perms, present)
<1>1. needs \in [Perms -> SUBSET Perms] /\ \A c \in Perms : c \notin needs[c]
  BY DEF DependsMap
<1> HIDE DEF needs
<1>2. /\ WithAll(S, needs) \subseteq Filtered(S, needs)
      /\ Filtered(S, needs) \subseteq S
      /\ Acyclic(needs) => Filtered(S, needs) \subseteq WithAll(S, needs)
  BY <1>1, FilterAssumption
<1> QED
  BY <1>2 DEF FilterGrantedByDeps, needs

\* What stays granted of fewer grants stays granted.
LEMMA FilterMonotone ==
  ASSUME NEW present \in SUBSET Perms, NEW perms, Acyclic(DependsMap(perms, present)),
         NEW S, NEW T \in SUBSET Perms, S \subseteq T
  PROVE  FilterGrantedByDeps(S, DependsMap(perms, present))
           \subseteq FilterGrantedByDeps(T, DependsMap(perms, present))
<1> DEFINE needs == DependsMap(perms, present)
<1>1. S \in SUBSET Perms
  OBVIOUS
<1>2. /\ FilterGrantedByDeps(S, needs) = WithAll(S, needs)
      /\ FilterGrantedByDeps(T, needs) = WithAll(T, needs)
  BY <1>1, FilterKeeps
<1>3. WithAll(S, needs) \subseteq WithAll(T, needs)
  BY DEF WithAll
<1> QED
  BY <1>2, <1>3

\* A granted permission's prerequisites are granted.
LEMMA FilterDown ==
  ASSUME NEW present \in SUBSET Perms, NEW perms, Acyclic(DependsMap(perms, present)),
         NEW S \in SUBSET Perms, NEW c \in FilterGrantedByDeps(S, DependsMap(perms, present)),
         NEW d \in Closure(DependsMap(perms, present), c)
  PROVE  d \in FilterGrantedByDeps(S, DependsMap(perms, present))
<1> DEFINE needs == DependsMap(perms, present)
<1>1. FilterGrantedByDeps(S, needs) = WithAll(S, needs)
  BY FilterKeeps
<1>2. {d} \cup Closure(needs, d) \subseteq {c} \cup Closure(needs, c)
  BY ClosureDown
<1> HIDE DEF needs
<1>3. c \in S /\ Closure(needs, c) \subseteq S /\ d \in Closure(needs, c)
  BY <1>1 DEF WithAll, needs
<1>4. d \in WithAll(S, needs)
  BY <1>2, <1>3 DEF WithAll
<1> QED
  BY <1>1, <1>4 DEF needs

-----------------------------------------------------------------------------
(* Types.                                                                  *)

LEMMA Lists ==
  ASSUME NEW S \in SUBSET Perms
  PROVE  S # Absent /\ S # Null /\ Members(S) = S
  BY DocumentsAssumption DEF Members

LEMMA UnlockEntry ==
  ASSUME NEW doc \in Unlocks, NEW f \in Codes, NEW b \in Stored
  PROVE  doc[f][b] = Absent \/ doc[f][b] \in SUBSET Perms
  BY DEF Unlocks

LEMMA DenyEntry ==
  ASSUME NEW doc \in Denies, NEW f \in Codes, NEW b \in Stored
  PROVE  doc[f][b] = Absent \/ doc[f][b] = Null \/ doc[f][b] \in SUBSET Perms
  BY DEF Denies

LEMMA NormalizedDeny ==
  ASSUME NEW doc \in Denies
  PROVE  NormalizeApiBuckets(doc) \in Denies
<1>1. "app" \in Stored
  BY DEF Stored
<1>2. ASSUME NEW f \in Codes, NEW b \in Stored
      PROVE  (IF b \in ApiBuckets /\ doc[f][b] = Absent THEN doc[f]["app"] ELSE doc[f][b])
               \in (SUBSET Perms) \cup {Absent, Null}
  BY <1>1 DEF Denies
<1> QED
  BY <1>2 DEF Denies, NormalizeApiBuckets

LEMMA NormalizedUnlock ==
  ASSUME NEW doc \in Unlocks
  PROVE  NormalizeApiBuckets(doc) \in Unlocks
<1>1. "app" \in Stored
  BY DEF Stored
<1>2. ASSUME NEW f \in Codes, NEW b \in Stored
      PROVE  (IF b \in ApiBuckets /\ doc[f][b] = Absent THEN doc[f]["app"] ELSE doc[f][b])
               \in (SUBSET Perms) \cup {Absent}
  BY <1>1 DEF Unlocks
<1> QED
  BY <1>2 DEF Unlocks, NormalizeApiBuckets

LEMMA ComposedUnlock ==
  ASSUME NEW b0 \in Unlocks, NEW add \in Unlocks, NEW rev
  PROVE  ComposeRoleGrants(b0, add, rev) \in Unlocks
<1>1. ASSUME NEW f \in Codes, NEW b \in Stored
      PROVE  (CASE b = "app" \/ rev[f][b] = Null \/ (b0[f][b] = Absent /\ add[f][b] = Absent) -> Absent
                [] OTHER -> (Members(b0[f][b]) \cup Members(add[f][b])) \ Members(rev[f][b]))
               \in (SUBSET Perms) \cup {Absent}
  <2>1. Members(b0[f][b]) \in SUBSET Perms /\ Members(add[f][b]) \in SUBSET Perms
    BY UnlockEntry DEF Members
  <2>2. (Members(b0[f][b]) \cup Members(add[f][b])) \ Members(rev[f][b]) \in SUBSET Perms
    BY <2>1
  <2> QED
    BY <2>2
<1> QED
  BY <1>1 DEF Unlocks, ComposeRoleGrants

\* The role a resolver reads maps to lists of permissions.
LEMMA RoleType ==
  ASSUME TypeOK
  PROVE  RoleDocument \in Unlocks /\ RoleFeatures \in Unlocks
<1>1. RoleDocument \in Unlocks
  BY ComposedUnlock DEF TypeOK, RoleDocument
<1> QED
  BY <1>1, NormalizedUnlock DEF RoleFeatures

LEMMA PlatformStored == Platforms \subseteq Stored
  BY DEF Stored

LEMMA NothingTypes == Nothing \in Unlocks /\ Nothing \in Denies
  BY DEF Nothing, Unlocks, Denies

LEMMA Entered ==
  ASSUME NEW V, NEW doc \in [Codes -> [Stored -> V]], NEW f \in Codes, NEW b \in Stored, NEW x \in V
  PROVE  [doc EXCEPT ![f][b] = x] \in [Codes -> [Stored -> V]]
  OBVIOUS

LEMMA InitType == Init => TypeOK
  BY NothingTypes, DocumentsAssumption, EditsAssumption DEF Init, TypeOK

\* A deny-list with one more entry is a deny-list.
LEMMA Denied ==
  ASSUME NEW doc \in Denies, NEW f \in Codes, NEW b \in Stored, doc[f][b] # Null,
         NEW deny \in {Null} \cup {{c} : c \in Perms}
  PROVE  /\ [doc EXCEPT ![f][b] = IF deny = Null THEN Null ELSE Members(@) \cup deny] \in Denies
         /\ (IF deny = Null THEN Null ELSE Members(doc[f][b]) \cup deny) # Absent
<1> DEFINE x == IF deny = Null THEN Null ELSE Members(doc[f][b]) \cup deny
<1>1. Members(doc[f][b]) \in SUBSET Perms
  BY DenyEntry, Lists DEF Members
<1>2. x = Null \/ x \in SUBSET Perms
  BY <1>1
<1>3. x # Absent
  BY <1>2, Lists, DocumentsAssumption
<1> QED
  BY <1>2, <1>3, Entered DEF Denies

LEMMA LockStep ==
  ASSUME TypeOK, Lock
  PROVE  \E f \in Codes, b \in Platforms, x \in {Null} \cup SUBSET Perms :
           /\ SiteLocks[f][b] # Null /\ x # Absent
           /\ x = Null \/ (x \in SUBSET Perms /\ Members(SiteLocks[f][b]) \subseteq x)
           /\ locks' = [SiteLocks EXCEPT ![f][b] = x] /\ locks' \in Denies
           /\ UNCHANGED <<snapshot, planCode, custom, base, additions, revoked, services>>
<1>1. PICK f \in EditedCodes, b \in Platforms, deny \in {Null} \cup {{c} : c \in Perms} :
        /\ SiteLocks[f][b] # Null
        /\ locks' = [SiteLocks EXCEPT ![f][b] = IF deny = Null THEN Null ELSE Members(@) \cup deny]
  BY DEF Lock, MatrixLocks
<1>2. f \in Codes /\ b \in Stored /\ SiteLocks \in Denies
  BY DocumentsAssumption, PlatformStored, NormalizedDeny DEF TypeOK, SiteLocks
<1> DEFINE x == IF deny = Null THEN Null ELSE Members(SiteLocks[f][b]) \cup deny
<1>3. x # Absent /\ locks' \in Denies
  BY <1>1, <1>2, Denied
<1>4. Members(SiteLocks[f][b]) \in SUBSET Perms
  BY <1>1, <1>2, DenyEntry, Lists DEF Members
<1>5. x = Null \/ (x \in SUBSET Perms /\ Members(SiteLocks[f][b]) \subseteq x)
  BY <1>4
<1>6. locks' = [SiteLocks EXCEPT ![f][b] = x]
  BY <1>1
<1>7. UNCHANGED <<snapshot, planCode, custom, base, additions, revoked, services>>
  BY DEF Lock
<1> HIDE DEF x
<1> QED
  BY <1>1, <1>2, <1>3, <1>5, <1>6, <1>7

LEMMA RevokeStep ==
  ASSUME TypeOK, Revoke
  PROVE  \E f \in Codes, b \in Platforms, x \in {Null} \cup SUBSET Perms :
           /\ custom /\ revoked[f][b] # Null
           /\ x = Null \/ (x \in SUBSET Perms /\ Members(revoked[f][b]) \subseteq x)
           /\ revoked' = [revoked EXCEPT ![f][b] = x] /\ revoked' \in Denies
           /\ UNCHANGED <<snapshot, planCode, locks, custom, base, additions, services>>
<1>1. PICK f \in EditedCodes, b \in Platforms, deny \in {Null} \cup {{c} : c \in Perms} :
        /\ revoked[f][b] # Null
        /\ revoked' = [revoked EXCEPT ![f][b] = IF deny = Null THEN Null ELSE Members(@) \cup deny]
  BY DEF Revoke
<1>2. f \in Codes /\ b \in Stored /\ revoked \in Denies
  BY DocumentsAssumption, PlatformStored DEF TypeOK
<1> DEFINE x == IF deny = Null THEN Null ELSE Members(revoked[f][b]) \cup deny
<1>3. revoked' \in Denies
  BY <1>1, <1>2, Denied
<1>4. Members(revoked[f][b]) \in SUBSET Perms
  BY <1>1, <1>2, DenyEntry, Lists DEF Members
<1>5. x = Null \/ (x \in SUBSET Perms /\ Members(revoked[f][b]) \subseteq x)
  BY <1>4
<1>6. revoked' = [revoked EXCEPT ![f][b] = x]
  BY <1>1
<1>7. UNCHANGED <<snapshot, planCode, locks, custom, base, additions, services>>
  BY DEF Revoke
<1> HIDE DEF x
<1> QED
  BY <1>1, <1>2, <1>3, <1>5, <1>6, <1>7 DEF Revoke

LEMMA GrantType ==
  ASSUME TypeOK, Grant
  PROVE  additions' \in Unlocks
<1>1. PICK f \in EditedCodes, b \in Platforms, c \in Perms :
        additions' = [additions EXCEPT ![f][b] = Members(@) \cup {c}]
  BY DEF Grant
<1>2. f \in Codes /\ b \in Stored /\ additions \in Unlocks
  BY DocumentsAssumption, PlatformStored DEF TypeOK
<1>3. Members(additions[f][b]) \cup {c} \in SUBSET Perms
  BY <1>2, UnlockEntry, Lists DEF Members
<1> QED
  BY <1>1, <1>2, <1>3, Entered DEF Unlocks

LEMMA NextType == TypeOK /\ [Next]_vars => TypeOK'
<1> SUFFICES ASSUME TypeOK, [Next]_vars PROVE TypeOK'
  OBVIOUS
<1>1. ASSUME Edit PROVE edits' \in 0..MaxEdits
  BY <1>1, EditsAssumption DEF Edit, TypeOK
<1>2. CASE Publish
  BY <1>1, <1>2 DEF Publish, TypeOK
<1>3. CASE Lock
  BY <1>1, <1>3, LockStep DEF Lock, TypeOK
<1>4. CASE Grant
  BY <1>1, <1>4, GrantType DEF Grant, TypeOK
<1>5. CASE Revoke
  BY <1>1, <1>5, RevokeStep DEF Revoke, TypeOK
<1>6. ASSUME NEW p \in PlanCodes \cup {Absent}, ChangePlan(p) PROVE TypeOK'
  BY <1>1, <1>6 DEF ChangePlan, TypeOK
<1>7. ASSUME NEW s \in Services, Provision(s) PROVE TypeOK'
  BY <1>1, <1>7 DEF Provision, TypeOK
<1>8. CASE UNCHANGED vars
  BY <1>8 DEF vars, TypeOK
<1> QED
  BY <1>2, <1>3, <1>4, <1>5, <1>6, <1>7, <1>8 DEF Next, Settled

\* Type correctness: the stored documents stay documents.
THEOREM TypeCorrect == Spec => []TypeOK
  BY InitType, NextType, PTL DEF Spec

\* A non-empty set of natural numbers has a least one.
LEMMA LeastBy ==
  ASSUME NEW Less, IsWellFoundedOn(Less, Nat), NEW T, T \subseteq Nat, T # {}
  PROVE  \E x \in T : \A y \in T : ~(<<y, x>> \in Less)
  BY WFMin

LEMMA LeastElement ==
  ASSUME NEW T, T \subseteq Nat, T # {}
  PROVE  \E i \in T : \A j \in T : i <= j
<1> DEFINE Less == OpToRel(<, Nat)
<1>1. IsWellFoundedOn(Less, Nat)
  BY NatLessThanWellFounded
<1>2. \A x, y \in Nat : x < y => <<x, y>> \in Less
  BY DEF OpToRel
<1> HIDE DEF Less
<1>3. PICK x \in T : \A y \in T : ~(<<y, x>> \in Less)
  BY <1>1, LeastBy
<1>4. \A y \in T : ~(y < x)
  BY <1>2, <1>3, Zenon
<1>5. \A y \in T : x <= y
  BY <1>4
<1> QED
  BY <1>5

\* What findFeatureByCode finds has the code it was asked for.
LEMMA VariantFound ==
  ASSUME TypeOK, NEW code, NEW scope, VariantOf(code, scope) # Absent
  PROVE  LET v == VariantOf(code, scope) IN
         /\ v.code = code /\ code \in Codes
         /\ v.ui \subseteq UiPlatforms
         /\ DOMAIN v.perms \subseteq Perms
         /\ Here(v) \subseteq DOMAIN v.perms
<1> DEFINE found == {i \in DOMAIN snapshot.features :
                       /\ snapshot.features[i].code = code
                       /\ scope # Absent => snapshot.features[i].scope = scope}
           first == CHOOSE i \in found : \A j \in found : i <= j
<1>1. snapshot \in Snapshots
  BY DEF TypeOK
<1>2. found # {} /\ VariantOf(code, scope) = snapshot.features[first]
  BY DEF VariantOf
<1>3. found \subseteq Nat
  BY <1>1, DocumentsAssumption
<1>4. \E i \in found : \A j \in found : i <= j
  <2> HIDE DEF found
  <2> QED
    BY <1>2, <1>3, LeastElement
<1>5. first \in found
  BY <1>4
<1>6. \A i \in found : LET v == snapshot.features[i] IN
        /\ v.code = code /\ code \in Codes /\ v.ui \subseteq UiPlatforms /\ DOMAIN v.perms \subseteq Perms
  BY <1>1, DocumentsAssumption
<1> HIDE DEF found, first
<1> QED
  BY <1>2, <1>5, <1>6 DEF Here

-----------------------------------------------------------------------------
(* Lock reasons.                                                           *)

LEMMA Reasons ==
  ASSUME NEW planLocked \in BOOLEAN, NEW siteLocked \in BOOLEAN, NEW missing
  PROVE  LET reason == ResolveLockReason(planLocked, siteLocked, missing) IN
         /\ reason = "none" <=> ~planLocked /\ ~siteLocked /\ missing = {}
         /\ reason = "PLAN" <=> planLocked
         /\ reason = "SITE" <=> ~planLocked /\ siteLocked
         /\ reason = "SERVICE" <=> ~planLocked /\ ~siteLocked /\ missing # {}
  BY DEF ResolveLockReason

\* The reason of a permission is that of what locks it or a prerequisite.
LEMMA ReasonIs ==
  ASSUME NEW v, NEW b, NEW c \in Here(v)
  PROVE  LET closure == {c} \cup Closure(Needs(v), c) IN
         PermissionReason(v, b, c) =
           ResolveLockReason(closure \cap PlanLocked(v, b) # {}, closure \cap SiteLocked(v, b) # {},
                             UnmetServices(v))
<1> DEFINE closure == {c} \cup Closure(Needs(v), c)
           cascaded == CascadeLocked(Here(v), PlanLocked(v, b) \cup SiteLocked(v, b), Needs(v))
           planLocked == c \in cascaded /\ closure \cap PlanLocked(v, b) # {}
           siteLocked == c \in cascaded /\ closure \cap SiteLocked(v, b) # {}
<1>1. c \in cascaded <=> closure \cap (PlanLocked(v, b) \cup SiteLocked(v, b)) # {}
  BY DEF CascadeLocked
<1>2. /\ planLocked <=> closure \cap PlanLocked(v, b) # {}
      /\ siteLocked <=> closure \cap SiteLocked(v, b) # {}
  BY <1>1
<1>3. PermissionReason(v, b, c) = ResolveLockReason(planLocked, siteLocked, UnmetServices(v))
  BY DEF PermissionReason
<1>4. /\ planLocked = (closure \cap PlanLocked(v, b) # {})
      /\ siteLocked = (closure \cap SiteLocked(v, b) # {})
  BY <1>2
<1> HIDE DEF planLocked, siteLocked
<1> QED
  BY <1>3, <1>4

\* A permission is unlocked when it and its prerequisites are in the plan and
\* not denied, and the services are there.
LEMMA UnlockedReason ==
  ASSUME NEW v, NEW b, NEW c \in Here(v)
  PROVE  LET closure == {c} \cup Closure(Needs(v), c) IN
         /\ PermissionReason(v, b, c) = "none" <=>
              /\ closure \cap PlanLocked(v, b) = {}
              /\ closure \cap SiteLocked(v, b) = {}
              /\ UnmetServices(v) = {}
         /\ PermissionReason(v, b, c) = "PLAN" <=> closure \cap PlanLocked(v, b) # {}
<1> DEFINE closure == {c} \cup Closure(Needs(v), c)
           planLocked == closure \cap PlanLocked(v, b) # {}
           siteLocked == closure \cap SiteLocked(v, b) # {}
<1>1. PermissionReason(v, b, c) = ResolveLockReason(planLocked, siteLocked, UnmetServices(v))
  BY ReasonIs
<1>2. planLocked \in BOOLEAN /\ siteLocked \in BOOLEAN
  OBVIOUS
<1>3. /\ ~planLocked <=> closure \cap PlanLocked(v, b) = {}
      /\ ~siteLocked <=> closure \cap SiteLocked(v, b) = {}
  OBVIOUS
<1> HIDE DEF planLocked, siteLocked
<1> QED
  BY <1>1, <1>2, <1>3, Reasons

\* A feature with an unlocked permission is unlocked.
LEMMA FeatureUnlocked ==
  ASSUME NEW v, NEW b, NEW c \in Here(v), PermissionReason(v, b, c) = "none"
  PROVE  FeatureReason(v, b) = "none"
<1>1. c \notin PlanLocked(v, b) /\ c \notin SiteLocked(v, b) /\ UnmetServices(v) = {}
  BY UnlockedReason
<1>2. Membership(v.code)[b] # Absent
  BY <1>1 DEF PlanLocked, Members
<1>3. SiteLocks[v.code][b] # Null
  BY <1>1 DEF SiteLocked, IsSiteLockedOnPlatform
<1> QED
  BY <1>1, <1>2, <1>3, Reasons DEF FeatureReason

\* The prerequisites of an unlocked permission are unlocked.
LEMMA UnlockedDown ==
  ASSUME NEW v, NEW b, NEW c \in Here(v), PermissionReason(v, b, c) = "none",
         NEW d \in Here(v), d \in Closure(Needs(v), c)
  PROVE  PermissionReason(v, b, d) = "none"
<1>1. {d} \cup Closure(Needs(v), d) \subseteq {c} \cup Closure(Needs(v), c)
  BY ClosureDown
<1> QED
  BY <1>1, UnlockedReason

-----------------------------------------------------------------------------
(* Answers.                                                                *)

\* What is answered of a feature.
LockedOf(v, b, granted) ==
  {[code |-> c, reason |-> PermissionReason(v, b, c)] :
     c \in {d \in granted \cap Here(v) : PermissionReason(v, b, d) # "none"}}
UpsellOf(v, b, scope, reason) ==
  {<<p, PlanAdds(p, b, scope) \ {v.code}>> :
     p \in IF reason = "PLAN" THEN PlansIncludingFeature(v.code, b) ELSE {}}
FeatureOf(v, b, scope) ==
  [code |-> v.code,
   permissions |-> GrantedPermissions(v.code, b, scope),
   lockReason |-> FeatureReason(v, b),
   lockedPermissions |-> LockedOf(v, b, GrantedPermissions(v.code, b, scope)),
   upsell |-> UpsellOf(v, b, scope, FeatureReason(v, b))]

LEMMA UserFeatureIs ==
  ASSUME NEW v, NEW b, NEW scope
  PROVE  UserFeature(CatalogEntry(v, b), b, scope) = FeatureOf(v, b, scope)
<1> DEFINE entry == CatalogEntry(v, b)
           granted == GrantedPermissions(v.code, b, scope)
           perms == BuildPermissions(v, b)
           plans == PlansIncludingFeature(v.code, b)
           reason == FeatureReason(v, b)
<1>1. /\ entry.code = v.code /\ entry.reason = reason /\ entry.perms = perms
      /\ entry.unlockPlans = IF reason = "PLAN" THEN plans ELSE {}
  BY DEF CatalogEntry
<1>2. \A q \in perms : q.code \in Here(v) /\ q.reason = PermissionReason(v, b, q.code)
  BY DEF BuildPermissions
<1>3. ASSUME NEW c \in Here(v)
      PROVE  \E q \in perms : q.code = c /\ q.reason = PermissionReason(v, b, c)
  <2> DEFINE q == [code |-> c, reason |-> PermissionReason(v, b, c), unlockPlans |-> UnlockPlans(v, b, c)]
  <2>1. q \in perms /\ q.code = c /\ q.reason = PermissionReason(v, b, c)
    BY DEF BuildPermissions
  <2> QED
    BY <2>1
<1> HIDE DEF granted, perms, plans, reason, entry
<1>4. {[code |-> q.code, reason |-> q.reason] : q \in {q \in perms : q.reason # "none" /\ q.code \in granted}}
        = LockedOf(v, b, granted)
  BY <1>2, <1>3 DEF LockedOf
<1>5. (IF reason = "PLAN" THEN entry.unlockPlans ELSE {}) = IF reason = "PLAN" THEN plans ELSE {}
  BY <1>1
<1>6. UserFeature(entry, b, scope) =
        [code |-> v.code, permissions |-> granted, lockReason |-> reason,
         lockedPermissions |-> LockedOf(v, b, granted),
         upsell |-> {<<p, PlanAdds(p, b, scope) \ {v.code}>> : p \in IF reason = "PLAN" THEN plans ELSE {}}]
  BY <1>1, <1>4, <1>5 DEF UserFeature, granted
<1> QED
  BY <1>6 DEF FeatureOf, UpsellOf, granted, plans, reason, entry

LEMMA LockedCodes ==
  ASSUME NEW v, NEW b, NEW scope, NEW c
  PROVE  LET f == UserFeature(CatalogEntry(v, b), b, scope) IN
         /\ f.code = v.code /\ f.lockReason = FeatureReason(v, b)
         /\ f.permissions = GrantedPermissions(v.code, b, scope)
         /\ c \in Locked(f) <=> /\ c \in f.permissions /\ c \in Here(v)
                                /\ PermissionReason(v, b, c) # "none"
<1> DEFINE f == UserFeature(CatalogEntry(v, b), b, scope)
           granted == GrantedPermissions(v.code, b, scope)
<1>1. f = FeatureOf(v, b, scope)
  BY UserFeatureIs
<1>2. /\ f.code = v.code /\ f.lockReason = FeatureReason(v, b) /\ f.permissions = granted
      /\ f.lockedPermissions = LockedOf(v, b, granted)
  BY <1>1 DEF FeatureOf
<1> HIDE DEF f, granted
<1>3. c \in Locked(f) <=> /\ c \in granted /\ c \in Here(v) /\ PermissionReason(v, b, c) # "none"
  <2>1. ASSUME c \in granted, c \in Here(v), PermissionReason(v, b, c) # "none"
        PROVE  c \in Locked(f)
    <3> DEFINE q == [code |-> c, reason |-> PermissionReason(v, b, c)]
    <3>1. q \in f.lockedPermissions /\ q.code = c
      BY <1>2, <2>1 DEF LockedOf
    <3> QED
      BY <3>1 DEF Locked
  <2>2. ASSUME NEW q \in f.lockedPermissions, q.code = c
        PROVE  c \in granted /\ c \in Here(v) /\ PermissionReason(v, b, c) # "none"
    BY <1>2, <2>2 DEF LockedOf
  <2> QED
    BY <2>1, <2>2 DEF Locked
<1> QED
  BY <1>2, <1>3 DEF f, granted

\* What the catalog lists of a feature.
LEMMA Listed ==
  ASSUME NEW v, NEW b, NEW p \in CatalogEntry(v, b).perms
  PROVE  /\ p.code \in Here(v) /\ p.reason = PermissionReason(v, b, p.code)
         /\ p.unlockPlans = UnlockPlans(v, b, p.code)
  BY DEF CatalogEntry, BuildPermissions

LEMMA Buckets ==
  ASSUME NEW client \in Clients
  PROVE  Bucket(client) \in Platforms /\ Bucket(client) \in Stored /\ Bucket(client) # "app"
  BY DEF Clients, Bucket, Platforms, Stored, UiPlatforms, ApiBuckets

\* The code of what the catalog shows is that of the apps' reference, and with a
\* scope it is the variant of that scope.
LEMMA Shows ==
  ASSUME TypeOK, NEW b, NEW siteType, NEW scope, scope # Absent, NEW i \in Exposed(b, siteType, scope)
  PROVE  LET v == Referenced(i) IN
         /\ v = VariantOf(v.code, scope) /\ v # Absent /\ v.code = snapshot.refs[i].code
         /\ v.code \in Codes /\ DOMAIN v.perms \subseteq Perms /\ Here(v) \subseteq DOMAIN v.perms
<1> DEFINE ref == snapshot.refs[i]
           v == VariantOf(ref.code, scope)
<1>1. ref.scope = scope /\ v # Absent
  BY DEF Exposed, Referenced
<1>2. v.code = ref.code /\ v.code \in Codes /\ DOMAIN v.perms \subseteq Perms /\ Here(v) \subseteq DOMAIN v.perms
  BY <1>1, VariantFound
<1>3. Referenced(i) = v
  BY <1>1 DEF Referenced
<1>4. v = VariantOf(v.code, scope)
  BY <1>2
<1> HIDE DEF v
<1> QED
  BY <1>1, <1>2, <1>3, <1>4

LEMMA Answered ==
  ASSUME TypeOK, NEW r \in Requests, NEW f \in Answer(r)
  PROVE  LET v == VariantOf(f.code, r[3])
             b == Bucket(r[1]) IN
         /\ v # Absent /\ f = UserFeature(CatalogEntry(v, b), b, r[3])
         /\ v.code = f.code /\ DOMAIN v.perms \subseteq Perms /\ Here(v) \subseteq DOMAIN v.perms
         /\ RoleFeatures[f.code][b] \in SUBSET Perms
<1> DEFINE b == Bucket(r[1])
<1>1. r[1] \in Clients /\ r[3] # Absent
  BY DocumentsAssumption DEF Requests
<1>2. PICK entry \in CatalogMap(r[1], r[2], r[3]) :
        f = UserFeature(entry, b, r[3]) /\ RoleFeatures[entry.code][b] # Absent
  BY DEF Answer, ResolveUserFeatures
<1>3. PICK i \in Exposed(b, r[2], r[3]) : entry = CatalogEntry(Referenced(i), b)
  BY <1>2 DEF CatalogMap
<1>4. PICK v : v = Referenced(i)
  OBVIOUS
<1>5. /\ v = VariantOf(v.code, r[3]) /\ v # Absent /\ v.code \in Codes
      /\ DOMAIN v.perms \subseteq Perms /\ Here(v) \subseteq DOMAIN v.perms
  BY <1>1, <1>3, <1>4, Shows
<1>6. f = UserFeature(CatalogEntry(v, b), b, r[3]) /\ f.code = v.code
  BY <1>2, <1>3, <1>4, LockedCodes
<1>7. RoleFeatures[v.code][b] # Absent
  BY <1>2, <1>3, <1>4 DEF CatalogEntry
<1>8. b \in Stored /\ RoleFeatures \in Unlocks
  BY <1>1, Buckets, RoleType
<1>9. RoleFeatures[v.code][b] \in SUBSET Perms
  BY <1>5, <1>7, <1>8, UnlockEntry
<1> HIDE DEF b
<1> QED
  BY <1>5, <1>6, <1>9 DEF b

\* Nothing usable hangs on something that is not.
LEMMA UsableDown ==
  ASSUME TypeOK, NEW r \in Requests, NEW f \in Answer(r),
         NEW c \in (f.permissions \ Locked(f)) \cap Here(VariantOf(f.code, r[3]))
  PROVE  /\ f.lockReason = "none"
         /\ Acyclic(FeatureDeps(f.code, r[3])) =>
              VariantOf(f.code, r[3]).perms[c].needs \cap Here(VariantOf(f.code, r[3]))
                \subseteq f.permissions \ Locked(f)
<1> DEFINE v == VariantOf(f.code, r[3])
           b == Bucket(r[1])
           all == DependsMap(v.perms, DOMAIN v.perms)
<1>1. /\ f = UserFeature(CatalogEntry(v, b), b, r[3])
      /\ v.code = f.code /\ DOMAIN v.perms \subseteq Perms /\ Here(v) \subseteq DOMAIN v.perms
      /\ RoleFeatures[f.code][b] \in SUBSET Perms
  BY Answered
<1>2. f.permissions = FilterGrantedByDeps(RoleFeatures[f.code][b], all) /\ FeatureDeps(f.code, r[3]) = all
  BY <1>1, LockedCodes DEF GrantedPermissions, FeatureDeps
<1> HIDE DEF v, b
<1>3. c \in Here(v)
  BY DEF v
<1>4. PermissionReason(v, b, c) = "none"
  BY <1>1, <1>3, LockedCodes
<1>5. f.lockReason = "none"
  BY <1>1, <1>3, <1>4, LockedCodes, FeatureUnlocked
<1>6. ASSUME NEW d \in v.perms[c].needs \cap Here(v), d # c, Acyclic(all)
      PROVE  d \in f.permissions \ Locked(f)
  <2>1. d \in Needs(v)[c] /\ Needs(v)[c] \subseteq Perms
    BY <1>1, <1>3, <1>6, DependsOn DEF Needs
  <2>2. d \in Closure(Needs(v), c)
    BY <1>6, <2>1, ClosureDirect
  <2>3. PermissionReason(v, b, d) = "none"
    BY <1>3, <1>4, <2>2, UnlockedDown
  <2>4. d \in all[c] /\ all[c] \subseteq Perms
    BY <1>1, <1>3, <1>6, DependsOn
  <2>5. d \in Closure(all, c)
    BY <1>6, <2>4, ClosureDirect
  <2>6. d \in f.permissions
    BY <1>1, <1>2, <1>6, <2>5, FilterDown
  <2> QED
    BY <1>1, <2>3, <2>6, LockedCodes
<1>7. ASSUME Acyclic(all) PROVE v.perms[c].needs \cap Here(v) \subseteq f.permissions \ Locked(f)
  BY <1>6, <1>7
<1> HIDE DEF all
<1> QED
  BY <1>2, <1>5, <1>7 DEF v

\* What the role grants with all prerequisites and nothing locks is usable.
LEMMA NothingWithheld ==
  ASSUME TypeOK, NEW r \in Requests, NEW e \in CatalogMap(r[1], r[2], r[3]), NEW q \in e.perms,
         HasRoute(e, r[1]), q.reason = "none",
         {q.code} \cup Closure(FeatureDeps(e.code, r[3]), q.code)
           \subseteq GrantedBy(RoleDocument, e.code, Bucket(r[1]))
  PROVE  <<e.code, q.code>> \in Usable(r)
<1> DEFINE b == Bucket(r[1])
           f == UserFeature(e, b, r[3])
<1>1. r[1] \in Clients /\ r[3] # Absent
  BY DocumentsAssumption DEF Requests
<1>2. PICK i \in Exposed(b, r[2], r[3]) : e = CatalogEntry(Referenced(i), b)
  BY DEF CatalogMap
<1>3. PICK v : v = Referenced(i)
  OBVIOUS
<1>4. /\ v = VariantOf(v.code, r[3]) /\ v.code \in Codes /\ DOMAIN v.perms \subseteq Perms
      /\ e = CatalogEntry(v, b) /\ e.code = v.code
  BY <1>1, <1>2, <1>3, Shows DEF CatalogEntry
<1> DEFINE all == DependsMap(v.perms, DOMAIN v.perms)
           granted == RoleFeatures[v.code][b]
<1>5. b \in Stored /\ "app" \in Stored /\ RoleFeatures \in Unlocks
  BY <1>1, Buckets, RoleType DEF Stored
<1>6. GrantedBy(RoleDocument, e.code, b) = Members(granted)
  BY <1>4, <1>5 DEF GrantedBy, RoleFeatures, NormalizeApiBuckets
<1>7. FeatureDeps(e.code, r[3]) = all
  BY <1>4 DEF FeatureDeps
<1>8. q.code \in Members(granted) /\ Closure(all, q.code) \subseteq Members(granted)
  BY <1>6, <1>7
<1>9. granted # Absent /\ granted \in SUBSET Perms /\ Members(granted) = granted
  BY <1>4, <1>5, <1>8, UnlockEntry DEF Members
<1>10. f \in Answer(r)
  BY <1>4, <1>9 DEF Answer, ResolveUserFeatures
<1>11. q.code \in Here(v) /\ q.reason = PermissionReason(v, b, q.code)
  BY <1>4, Listed
<1>12. /\ f.code = v.code /\ f.permissions = FilterGrantedByDeps(granted, all)
       /\ q.code \notin Locked(f)
  <2>1. /\ f.code = v.code /\ f.permissions = GrantedPermissions(v.code, b, r[3])
        /\ q.code \notin Locked(f)
    BY <1>4, <1>11, LockedCodes
  <2>2. GrantedPermissions(v.code, b, r[3]) = FilterGrantedByDeps(granted, all)
    BY <1>4, <1>7 DEF GrantedPermissions
  <2> QED
    BY <2>1, <2>2
<1> HIDE DEF f, all, granted
<1>13. q.code \in WithAll(granted, all)
  BY <1>8, <1>9 DEF WithAll
<1>14. q.code \in f.permissions
  BY <1>4, <1>9, <1>12, <1>13, FilterKeeps DEF all
<1>15. <<e.code, q.code>> \in {f.code} \X (f.permissions \ Locked(f))
  BY <1>4, <1>12, <1>14
<1> QED
  BY <1>10, <1>15 DEF Usable

LEMMA UsableFull == TypeOK => UsableInFull
  BY UsableDown, NothingWithheld DEF UsableInFull

\* Two computations of the lock agree.
LEMMA Matrix == TypeOK => MatrixAgrees
<1> SUFFICES ASSUME TypeOK, NEW t \in SiteTypes, NEW i \in MatrixFeatures(FALSE, t),
                    NEW b \in MatrixPlatforms(VariantOf(snapshot.refs[i].code, "SITE"))
             PROVE  LET v == VariantOf(snapshot.refs[i].code, "SITE")
                        needs == DependsMap(v.perms, Here(v)) IN
                    /\ i \in Exposed(b, t, "SITE")
                    /\ \A p \in CatalogEntry(v, b).perms :
                         p.reason = "none" <=>
                           /\ UnmetServices(v) = {}
                           /\ \A d \in {p.code} \cup Closure(needs, p.code) : Cell(v, b, d).selected
  BY DEF MatrixAgrees
<1> DEFINE ref == snapshot.refs[i]
           v == VariantOf(ref.code, "SITE")
<1>1. i \in DOMAIN snapshot.refs /\ ref.scope = "SITE" /\ v # Absent /\ (t # Absent => t \in v.types)
  BY DEF MatrixFeatures, Referenced
<1>2. v.ui \subseteq UiPlatforms /\ DOMAIN v.perms \subseteq Perms /\ Here(v) \subseteq DOMAIN v.perms
  BY <1>1, VariantFound
<1>3. Offered(v, b)
  BY <1>2 DEF Offered, MatrixPlatforms, UiPlatforms, ApiBuckets
<1>4. i \in Exposed(b, t, "SITE")
  BY <1>1, <1>3 DEF Exposed, Referenced
<1> HIDE DEF v
<1>5. ASSUME NEW p \in CatalogEntry(v, b).perms
      PROVE  p.reason = "none" <=>
               /\ UnmetServices(v) = {}
               /\ \A d \in {p.code} \cup Closure(Needs(v), p.code) : Cell(v, b, d).selected
  <2>1. p.code \in Here(v) /\ p.reason = PermissionReason(v, b, p.code)
    BY Listed
  <2>2. {p.code} \cup Closure(Needs(v), p.code) \subseteq Here(v)
    BY <1>2, <2>1, ClosureWithin DEF Needs
  <2>3. ASSUME NEW d \in Here(v)
        PROVE  Cell(v, b, d).selected <=> d \notin PlanLocked(v, b) /\ d \notin SiteLocked(v, b)
    BY DEF Cell, PlanLocked, SiteLocked
  <2> QED
    BY <2>1, <2>2, <2>3, UnlockedReason
<1> QED
  BY <1>4, <1>5 DEF v, Needs

\* Usable in full: a permission a user may use sits in an unlocked feature and, where
\* the prerequisites of its feature form no cycle, comes with every one the business
\* knows, although resolveUserFeatures filters grants and buildPermissions cascades
\* locks over different graphs; and what the role grants, in either shape, with its
\* prerequisites is usable unless something locks it.
THEOREM FullUse == Spec => []UsableInFull
  BY TypeCorrect, UsableFull, PTL

\* Two computations of one lock: buildSiteMatrix and buildSiteCatalog agree on
\* every permission of every feature of a site.
THEOREM MatrixAndCatalog == Spec => []MatrixAgrees
  BY TypeCorrect, Matrix, PTL

-----------------------------------------------------------------------------
(* Edits.                                                                  *)

\* What each state says of reasons and answers, to be read in two states.
ReasonsRead ==
  \A v, b : \A c \in Here(v) :
    LET closure == {c} \cup Closure(Needs(v), c) IN
    /\ PermissionReason(v, b, c) = "none" <=>
         /\ closure \cap PlanLocked(v, b) = {}
         /\ closure \cap SiteLocked(v, b) = {}
         /\ UnmetServices(v) = {}
    /\ PermissionReason(v, b, c) = "PLAN" <=> closure \cap PlanLocked(v, b) # {}
EntriesRead ==
  \A v, b : CatalogEntry(v, b).perms =
    {[code |-> c, reason |-> PermissionReason(v, b, c), unlockPlans |-> UnlockPlans(v, b, c)] : c \in Here(v)}

LEMMA ReadReasons == ReasonsRead
  BY UnlockedReason DEF ReasonsRead
LEMMA ReadReasonsAfter == ReasonsRead'
  BY ReadReasons, PTL
LEMMA ReadEntries == EntriesRead
  BY DEF EntriesRead, CatalogEntry, BuildPermissions
LEMMA ReadEntriesAfter == EntriesRead'
  BY ReadEntries, PTL

LEMMA SameVariant ==
  ASSUME UNCHANGED snapshot, NEW code, NEW scope
  PROVE  VariantOf(code, scope)' = VariantOf(code, scope)
  BY DEF VariantOf

\* Under the other plan exactly the memberships of that plan count.
LEMMA UpgradeStep ==
  ASSUME TypeOK, NEW p \in PlanCodes, ChangePlan(p), NEW v, NEW b,
         DOMAIN v.perms \subseteq Perms, NEW c \in Here(v), PermissionReason(v, b, c) = "PLAN"
  PROVE  p \in UnlockPlans(v, b, c) <=> PermissionReason(v, b, c)' # "PLAN"
<1> DEFINE closure == {c} \cup Closure(Needs(v), c)
           entry == Plans[p][v.code][b]
<1>1. closure \subseteq Here(v)
  BY ClosureWithin DEF Needs, Here
<1>2. Plans' = Plans /\ planCode' = p /\ p # Absent
  BY DocumentsAssumption DEF ChangePlan, Plans
<1>3. PlanLocked(v, b)' = Here(v) \ Members(entry)
  BY <1>2 DEF PlanLocked, Membership
<1>4. PermissionReason(v, b, c)' = "PLAN" <=> closure \cap PlanLocked(v, b)' # {}
  BY ReadReasonsAfter DEF ReasonsRead
<1>5. p \in UnlockPlans(v, b, c) <=> entry # Absent /\ closure \subseteq entry
  BY DEF UnlockPlans, PlansUnlockingClosure
<1> QED
  BY <1>1, <1>3, <1>4, <1>5 DEF Members

LEMMA PlanLockedAfter ==
  ASSUME NEW v, NEW b, NEW c \in Here(v)
  PROVE  c \in LockedByPlan(v, b)' <=> PermissionReason(v, b, c)' = "PLAN"
<1>1. CatalogEntry(v, b).perms' =
        {[code |-> d, reason |-> PermissionReason(v, b, d)', unlockPlans |-> UnlockPlans(v, b, d)'] : d \in Here(v)}
  BY ReadEntriesAfter DEF EntriesRead
<1>2. LockedByPlan(v, b)' = {q.code : q \in {q \in CatalogEntry(v, b).perms' : q.reason = "PLAN"}}
  BY DEF LockedByPlan
<1> DEFINE x == [code |-> c, reason |-> PermissionReason(v, b, c)', unlockPlans |-> UnlockPlans(v, b, c)']
<1>3. x \in CatalogEntry(v, b).perms' /\ x.code = c /\ x.reason = PermissionReason(v, b, c)'
  BY <1>1
<1>4. \A q \in CatalogEntry(v, b).perms' : q.reason = PermissionReason(v, b, q.code)'
  BY <1>1
<1> HIDE DEF x
<1> QED
  BY <1>2, <1>3, <1>4

LEMMA UpgradeOffers ==
  ASSUME TypeOK, NEW p \in PlanCodes, ChangePlan(p), NEW v, NEW b, DOMAIN v.perms \subseteq Perms,
         NEW q \in CatalogEntry(v, b).perms, q.reason = "PLAN"
  PROVE  p \in q.unlockPlans <=> q.code \notin LockedByPlan(v, b)'
<1>1. q.code \in Here(v) /\ PermissionReason(v, b, q.code) = "PLAN" /\ q.unlockPlans = UnlockPlans(v, b, q.code)
  BY Listed
<1>2. p \in q.unlockPlans <=> PermissionReason(v, b, q.code)' # "PLAN"
  BY <1>1, UpgradeStep
<1> QED
  BY <1>1, <1>2, PlanLockedAfter

LEMMA UpgradeNext ==
  ASSUME TypeOK, NEW p \in PlanCodes, ChangePlan(p),
         NEW i \in Exposed("web", Absent, Absent) \cup Exposed("graphql", Absent, Absent), NEW b \in Platforms,
         NEW q \in CatalogEntry(Referenced(i), b).perms, q.reason = "PLAN"
  PROVE  p \in q.unlockPlans <=> q.code \notin LockedByPlan(Referenced(i), b)'
<1>1. Referenced(i) # Absent
  BY DEF Exposed
<1>2. DOMAIN Referenced(i).perms \subseteq Perms
  BY <1>1, VariantFound DEF Referenced
<1>3. Referenced(i)' = Referenced(i)
  BY DEF ChangePlan, Referenced, VariantOf
<1>4. PICK v : v = Referenced(i) /\ v = Referenced(i)'
  BY <1>3
<1>5. LockedByPlan(Referenced(i), b)' = LockedByPlan(v, b)'
  BY <1>4
<1> QED
  BY <1>2, <1>4, <1>5, UpgradeOffers

\* The plans offered for a locked permission are exactly those that unlock it:
\* unlockPlans is computed from all plans, the lock from the current one.
THEOREM UpgradeOffersHold == Spec => UpgradeUnlocks
<1>1. TypeOK /\ [Next]_vars =>
        [\A p \in PlanCodes : ChangePlan(p) =>
           \A i \in Exposed("web", Absent, Absent) \cup Exposed("graphql", Absent, Absent), b \in Platforms :
             \A q \in CatalogEntry(Referenced(i), b).perms :
               q.reason = "PLAN" => (p \in q.unlockPlans <=> q.code \notin LockedByPlan(Referenced(i), b)')]_vars
  BY UpgradeNext
<1> QED
  BY <1>1, TypeCorrect, PTL DEF Spec, UpgradeUnlocks

-----------------------------------------------------------------------------
(* Answers before and after an edit.                                       *)

\* The places a request's answer is made of.
Latest(r) ==
  LET exposed == Exposed(Bucket(r[1]), r[2], r[3]) IN
  {i \in exposed : \A j \in DOMAIN snapshot.refs :
     j > i /\ snapshot.refs[j].code = snapshot.refs[i].code => j \notin exposed}
Shown(r) ==
  {i \in Latest(r) : LET v == Referenced(i) IN
     /\ RoleFeatures[v.code][Bucket(r[1])] # Absent
     /\ HasRoute([ui |-> v.ui], r[1])}

AnswersRead ==
  \A r : Answer(r) = {UserFeature(CatalogEntry(Referenced(i), Bucket(r[1])), Bucket(r[1]), r[3]) : i \in Shown(r)}
FeaturesRead ==
  \A v, b, scope :
    LET f == UserFeature(CatalogEntry(v, b), b, scope) IN
    /\ f.code = v.code /\ f.lockReason = FeatureReason(v, b)
    /\ f.permissions = GrantedPermissions(v.code, b, scope)
    /\ \A c : c \in Locked(f) <=> /\ c \in f.permissions /\ c \in Here(v)
                                 /\ PermissionReason(v, b, c) # "none"
UsesRead ==
  \A r, x : x \in Usable(r) <=>
    \E i \in Shown(r) : \E c \in GrantedPermissions(Referenced(i).code, Bucket(r[1]), r[3]) :
      LET v == Referenced(i) IN
      x = <<v.code, c>> /\ (c \in Here(v) => PermissionReason(v, Bucket(r[1]), c) = "none")

LEMMA ReadAnswers == AnswersRead
<1> SUFFICES ASSUME NEW r
             PROVE  Answer(r) = {UserFeature(CatalogEntry(Referenced(i), Bucket(r[1])), Bucket(r[1]), r[3]) : i \in Shown(r)}
  BY DEF AnswersRead
<1> DEFINE b == Bucket(r[1])
           E(i) == CatalogEntry(Referenced(i), b)
           shown == {e \in CatalogMap(r[1], r[2], r[3]) : RoleFeatures[e.code][b] # Absent /\ HasRoute(e, r[1])}
<1>1. CatalogMap(r[1], r[2], r[3]) = {E(i) : i \in Latest(r)}
  BY DEF CatalogMap, Latest
<1>2. \A i : E(i).code = Referenced(i).code /\ E(i).ui = Referenced(i).ui
  BY DEF CatalogEntry
<1>3. \A i : HasRoute(E(i), r[1]) <=> HasRoute([ui |-> Referenced(i).ui], r[1])
  BY <1>2 DEF HasRoute
<1>4. \A i \in Latest(r) : i \in Shown(r) <=> RoleFeatures[E(i).code][b] # Absent /\ HasRoute(E(i), r[1])
  BY <1>2, <1>3 DEF Shown
<1>5. Shown(r) \subseteq Latest(r)
  BY DEF Shown
<1>6. Answer(r) = {UserFeature(e, b, r[3]) : e \in shown}
  BY DEF Answer, ResolveUserFeatures
<1> HIDE DEF E, b
<1>7. shown = {E(i) : i \in Shown(r)}
  BY <1>1, <1>4, <1>5
<1> HIDE DEF shown
<1>8. Answer(r) = {UserFeature(E(i), b, r[3]) : i \in Shown(r)}
  BY <1>6, <1>7
<1> QED
  BY <1>8 DEF E, b

LEMMA ReadFeatures == FeaturesRead
  BY LockedCodes DEF FeaturesRead

LEMMA ReadUses == UsesRead
<1> SUFFICES ASSUME NEW r, NEW x
             PROVE  x \in Usable(r) <=>
                      \E i \in Shown(r) : \E c \in GrantedPermissions(Referenced(i).code, Bucket(r[1]), r[3]) :
                        /\ x = <<Referenced(i).code, c>>
                        /\ c \in Here(Referenced(i)) => PermissionReason(Referenced(i), Bucket(r[1]), c) = "none"
  BY DEF UsesRead
<1> DEFINE b == Bucket(r[1])
           F(i) == UserFeature(CatalogEntry(Referenced(i), b), b, r[3])
<1>1. Answer(r) = {F(i) : i \in Shown(r)}
  BY ReadAnswers DEF AnswersRead
<1>2. ASSUME NEW i
      PROVE  /\ F(i).code = Referenced(i).code
             /\ F(i).permissions = GrantedPermissions(Referenced(i).code, b, r[3])
             /\ \A c : c \in Locked(F(i)) <=> /\ c \in F(i).permissions /\ c \in Here(Referenced(i))
                                             /\ PermissionReason(Referenced(i), b, c) # "none"
  BY ReadFeatures DEF FeaturesRead
<1> HIDE DEF F, b
<1>3. x \in Usable(r) <=> \E i \in Shown(r) : x \in {F(i).code} \X (F(i).permissions \ Locked(F(i)))
  BY <1>1 DEF Usable
<1>4. \A i : x \in {F(i).code} \X (F(i).permissions \ Locked(F(i))) <=>
               \E c \in F(i).permissions \ Locked(F(i)) : x = <<F(i).code, c>>
  OBVIOUS
<1>5. x \in Usable(r) <=>
        \E i \in Shown(r) : \E c \in F(i).permissions \ Locked(F(i)) : x = <<F(i).code, c>>
  BY <1>3, <1>4
<1>6. x \in Usable(r) <=>
        \E i \in Shown(r) : \E c \in GrantedPermissions(Referenced(i).code, b, r[3]) :
          /\ x = <<Referenced(i).code, c>>
          /\ c \in Here(Referenced(i)) => PermissionReason(Referenced(i), b, c) = "none"
  BY <1>2, <1>5
<1> QED
  BY <1>6 DEF b

LEMMA ReadAnswersAfter == AnswersRead'
  BY ReadAnswers, PTL
LEMMA ReadFeaturesAfter == FeaturesRead'
  BY ReadFeatures, PTL
LEMMA ReadUsesAfter == UsesRead'
  BY ReadUses, PTL

LEMMA SameReferenced ==
  ASSUME UNCHANGED snapshot, NEW i
  PROVE  Referenced(i)' = Referenced(i)
  BY DEF Referenced, VariantOf

LEMMA SameLatest ==
  ASSUME UNCHANGED snapshot, NEW r
  PROVE  Latest(r)' = Latest(r)
<1>1. \A b, t, s : Exposed(b, t, s)' = Exposed(b, t, s)
  BY SameReferenced DEF Exposed
<1> QED
  BY <1>1 DEF Latest

\* What is granted of a feature's list, the same graph before and after.
GrantsRead ==
  \A code, b, scope :
    GrantedPermissions(code, b, scope) = FilterGrantedByDeps(RoleFeatures[code][b], FeatureDeps(code, scope))
LEMMA ReadGrants == GrantsRead
  BY DEF GrantsRead, GrantedPermissions
LEMMA ReadGrantsAfter == GrantsRead'
  BY ReadGrants, PTL
LEMMA SameDeps ==
  ASSUME UNCHANGED snapshot, NEW code, NEW scope
  PROVE  FeatureDeps(code, scope)' = FeatureDeps(code, scope)
  BY DEF FeatureDeps, VariantOf

\* What is usable, was: with the same or fewer grants of its feature and no lock less.
LEMMA UsableShrinks ==
  ASSUME TypeOK, UNCHANGED snapshot, NEW r, r[3] # Absent, NEW b, b = Bucket(r[1]), NEW x \in Usable(r)',
         \A v : /\ x[1] = v.code /\ v = VariantOf(v.code, r[3])
                /\ v.code \in Codes /\ DOMAIN v.perms \subseteq Perms
                /\ RoleFeatures[v.code][b]' # Absent
                => /\ RoleFeatures[v.code][b] # Absent
                   /\ GrantedPermissions(v.code, b, r[3])' \subseteq GrantedPermissions(v.code, b, r[3]),
         \A v : v.code \in Codes /\ DOMAIN v.perms \subseteq Perms =>
           \A c \in Here(v) : PermissionReason(v, b, c)' = "none" => PermissionReason(v, b, c) = "none"
  PROVE  x \in Usable(r)
<1>1. \A i : Referenced(i)' = Referenced(i)
  BY SameReferenced
<1>2. \E i \in Shown(r)' : \E c \in GrantedPermissions(Referenced(i).code, b, r[3])' :
        /\ x = <<Referenced(i)'.code, c>>
        /\ c \in Here(Referenced(i)') => PermissionReason(Referenced(i), b, c)' = "none"
  BY ReadUsesAfter DEF UsesRead
<1>3. ASSUME NEW i \in Shown(r)', NEW v, v = Referenced(i),
             NEW c \in GrantedPermissions(Referenced(i).code, b, r[3])',
             x = <<Referenced(i)'.code, c>>,
             c \in Here(Referenced(i)') => PermissionReason(Referenced(i), b, c)' = "none"
      PROVE  x \in Usable(r)
  <2>1. /\ c \in GrantedPermissions(v.code, b, r[3])'
        /\ x = <<v.code, c>>
        /\ c \in Here(v) => PermissionReason(v, b, c)' = "none"
    BY <1>1, <1>3
  <2>2. /\ i \in Latest(r) /\ RoleFeatures[v.code][b]' # Absent /\ HasRoute([ui |-> v.ui], r[1])
    BY <1>1, <1>3, SameLatest DEF Shown
  <2>3. v.code \in Codes /\ DOMAIN v.perms \subseteq Perms /\ v = VariantOf(v.code, r[3])
    BY <1>3, <2>2, Shows DEF Latest
  <2>4. /\ RoleFeatures[v.code][b] # Absent
        /\ c \in GrantedPermissions(v.code, b, r[3])
    BY <2>1, <2>2, <2>3
  <2>5. i \in Shown(r)
    BY <1>3, <2>2, <2>4 DEF Shown
  <2>6. c \in Here(v) => PermissionReason(v, b, c) = "none"
    BY <2>1, <2>3
  <2>7. \E j \in Shown(r) : \E d \in GrantedPermissions(Referenced(j).code, b, r[3]) :
          /\ x = <<Referenced(j).code, d>>
          /\ d \in Here(Referenced(j)) => PermissionReason(Referenced(j), b, d) = "none"
    BY <1>3, <2>1, <2>4, <2>5, <2>6
  <2> QED
    BY <2>7, ReadUses DEF UsesRead
<1> QED
  BY <1>2, <1>3

LEMMA EnteredAt ==
  ASSUME NEW V, NEW doc \in [Codes -> [Stored -> V]], NEW f, NEW b, NEW x,
         NEW after, after = [doc EXCEPT ![f][b] = x],
         NEW g \in Codes, NEW c \in Stored
  PROVE  after[g][c] = IF g = f /\ c = b THEN x ELSE doc[g][c]
<1>1. CASE g = f
  <2>1. after[g] = [doc[g] EXCEPT ![b] = x]
    BY <1>1
  <2>2. doc[g] \in [Stored -> V]
    OBVIOUS
  <2> QED
    BY <1>1, <2>1, <2>2
<1>2. CASE g # f
  BY <1>2
<1> QED
  BY <1>1, <1>2

\* The lists of a feature, but for what is entered.
OneEntered(after, doc, g, f, b, x) ==
  \A d \in Stored : after[g][d] = IF g = f /\ d = b THEN x ELSE doc[g][d]

\* What was normalised once stays as it is, but for what is entered.
LEMMA NormalizedOnce ==
  ASSUME NEW doc, NEW f, NEW b \in Platforms, NEW x, x # Absent, NEW g \in Codes, NEW entered,
         OneEntered(entered, NormalizeApiBuckets(doc), g, f, b, x)
  PROVE  OneEntered(NormalizeApiBuckets(entered), NormalizeApiBuckets(doc), g, f, b, x)
<1>1. "app" \in Stored /\ "app" \notin Platforms /\ "app" \notin ApiBuckets /\ b \in Stored
  BY DEF Stored, Platforms, UiPlatforms, ApiBuckets
<1>2. PICK once : once = NormalizeApiBuckets(doc)
  OBVIOUS
<1>3. \A c \in ApiBuckets : once[g][c] = Absent => once[g]["app"] = Absent
  BY <1>1, <1>2 DEF NormalizeApiBuckets, Stored, Platforms
<1>4. \A c \in Stored : NormalizeApiBuckets(entered)[g][c] =
        IF c \in ApiBuckets /\ entered[g][c] = Absent THEN entered[g]["app"] ELSE entered[g][c]
  BY DEF NormalizeApiBuckets
<1>5. \A d \in Stored : entered[g][d] = IF g = f /\ d = b THEN x ELSE once[g][d]
  BY <1>2 DEF OneEntered
<1> SUFFICES ASSUME NEW c \in Stored
             PROVE  NormalizeApiBuckets(entered)[g][c] = IF g = f /\ c = b THEN x ELSE once[g][c]
  BY <1>2 DEF OneEntered
<1> QED
  BY <1>1, <1>3, <1>4, <1>5

LEMMA LockGrows ==
  ASSUME TypeOK, Lock, NEW b \in Platforms
  PROVE  /\ UNCHANGED <<snapshot, planCode, custom, base, additions, revoked, services>>
         /\ \A f \in Codes : \A c \in Perms :
              IsSiteLockedOnPlatform(f, b, c) => IsSiteLockedOnPlatform(f, b, c)'
<1>1. PICK f \in Codes, b0 \in Platforms, x \in {Null} \cup SUBSET Perms :
        /\ SiteLocks[f][b0] # Null /\ x # Absent
        /\ x = Null \/ (x \in SUBSET Perms /\ Members(SiteLocks[f][b0]) \subseteq x)
        /\ locks' = [SiteLocks EXCEPT ![f][b0] = x] /\ locks' \in Denies
        /\ UNCHANGED <<snapshot, planCode, custom, base, additions, revoked, services>>
  BY LockStep
<1>2. ASSUME NEW g \in Codes
      PROVE  SiteLocks'[g][b] = IF g = f /\ b = b0 THEN x ELSE SiteLocks[g][b]
  <2>1. SiteLocks = NormalizeApiBuckets(locks) /\ SiteLocks' = NormalizeApiBuckets(locks')
    BY DEF SiteLocks
  <2>2. SiteLocks \in [Codes -> [Stored -> (SUBSET Perms) \cup {Absent, Null}]]
    BY <2>1, NormalizedDeny DEF TypeOK, Denies
  <2>3. \A d \in Stored : locks'[g][d] = IF g = f /\ d = b0 THEN x ELSE SiteLocks[g][d]
    BY <1>1, <2>2, EnteredAt
  <2>4. b \in Stored /\ b0 \in Platforms /\ x # Absent
    BY <1>1, PlatformStored
  <2>5. PICK entered : entered = locks'
    OBVIOUS
  <2>6. OneEntered(entered, NormalizeApiBuckets(locks), g, f, b0, x)
    BY <2>1, <2>3, <2>5 DEF OneEntered
  <2>7. OneEntered(NormalizeApiBuckets(entered), NormalizeApiBuckets(locks), g, f, b0, x)
    BY <2>4, <2>6, NormalizedOnce
  <2> QED
    BY <2>1, <2>4, <2>5, <2>7 DEF OneEntered
<1>3. ASSUME NEW g \in Codes, NEW c \in Perms, IsSiteLockedOnPlatform(g, b, c)
      PROVE  IsSiteLockedOnPlatform(g, b, c)'
  <2>1. SiteLocks[g][b] = Null \/ (SiteLocks[g][b] # Absent /\ c \in SiteLocks[g][b])
    BY <1>3 DEF IsSiteLockedOnPlatform
  <2>2. SiteLocks'[g][b] = Null \/ (SiteLocks'[g][b] # Absent /\ c \in SiteLocks'[g][b])
    BY <1>1, <1>2, <2>1 DEF Members
  <2> QED
    BY <2>2 DEF IsSiteLockedOnPlatform
<1> QED
  BY <1>1, <1>3

LEMMA ReasonStays ==
  ASSUME NEW v, NEW b, NEW c \in Here(v),
         PlanLocked(v, b) \subseteq PlanLocked(v, b)',
         SiteLocked(v, b) \subseteq SiteLocked(v, b)',
         UnmetServices(v) \subseteq UnmetServices(v)',
         PermissionReason(v, b, c)' = "none"
  PROVE  PermissionReason(v, b, c) = "none"
<1> DEFINE closure == {c} \cup Closure(Needs(v), c)
<1>1. /\ closure \cap PlanLocked(v, b)' = {}
      /\ closure \cap SiteLocked(v, b)' = {}
      /\ UnmetServices(v)' = {}
  BY ReadReasonsAfter DEF ReasonsRead
<1>2. /\ closure \cap PlanLocked(v, b) = {}
      /\ closure \cap SiteLocked(v, b) = {}
      /\ UnmetServices(v) = {}
  BY <1>1
<1> QED
  BY <1>2, ReadReasons DEF ReasonsRead

LEMMA LockTakes ==
  ASSUME TypeOK, Lock, NEW r \in Requests
  PROVE  Usable(r)' \subseteq Usable(r)
<1> SUFFICES ASSUME NEW x \in Usable(r)' PROVE x \in Usable(r)
  OBVIOUS
<1>1. PICK b : b = Bucket(r[1])
  OBVIOUS
<1>2. b \in Platforms /\ r[3] # Absent
  BY <1>1, Buckets, DocumentsAssumption DEF Requests
<1>3. UNCHANGED <<snapshot, planCode, custom, base, additions, revoked, services>>
  BY <1>2, LockGrows
<1>4. \A code : /\ RoleFeatures'[code][b] = RoleFeatures[code][b]
                /\ GrantedPermissions(code, b, r[3])' = GrantedPermissions(code, b, r[3])
  <2>1. RoleFeatures' = RoleFeatures
    BY <1>3 DEF RoleFeatures, RoleDocument
  <2> QED
    BY <1>3, <2>1, SameDeps, ReadGrants, ReadGrantsAfter DEF GrantsRead
<1>5. ASSUME NEW v, v.code \in Codes, DOMAIN v.perms \subseteq Perms,
             NEW c \in Here(v), PermissionReason(v, b, c)' = "none"
      PROVE  PermissionReason(v, b, c) = "none"
  <2>1. PlanLocked(v, b)' = PlanLocked(v, b)
    BY <1>3 DEF PlanLocked, Membership, Plans
  <2>2. UnmetServices(v)' = UnmetServices(v)
    BY <1>3 DEF UnmetServices
  <2>3. Here(v) \subseteq Perms
    BY <1>5 DEF Here
  <2>4. SiteLocked(v, b) \subseteq SiteLocked(v, b)'
    BY <1>2, <1>5, <2>3, LockGrows DEF SiteLocked
  <2> QED
    BY <1>5, <2>1, <2>2, <2>4, ReasonStays
<1> QED
  BY <1>1, <1>2, <1>3, <1>4, <1>5, UsableShrinks

\* A custom role answers what was composed: it has no list from before the split.
LEMMA RoleComposed ==
  ASSUME custom, NEW f \in Codes, NEW b \in Platforms
  PROVE  RoleFeatures[f][b] =
           IF revoked[f][b] = Null \/ (base[f][b] = Absent /\ additions[f][b] = Absent) THEN Absent
           ELSE (Members(base[f][b]) \cup Members(additions[f][b])) \ Members(revoked[f][b])
<1> PICK doc : doc = ComposeRoleGrants(base, additions, revoked)
  OBVIOUS
<1>1. "app" \in Stored /\ b \in Stored /\ b # "app"
  BY DEF Stored, Platforms, UiPlatforms, ApiBuckets
<1>2. doc[f]["app"] = Absent
  BY <1>1 DEF ComposeRoleGrants
<1>3. doc[f][b] =
        IF revoked[f][b] = Null \/ (base[f][b] = Absent /\ additions[f][b] = Absent) THEN Absent
        ELSE (Members(base[f][b]) \cup Members(additions[f][b])) \ Members(revoked[f][b])
  BY <1>1 DEF ComposeRoleGrants
<1>4. RoleFeatures[f][b] = IF b \in ApiBuckets /\ doc[f][b] = Absent THEN doc[f]["app"] ELSE doc[f][b]
  BY <1>1 DEF RoleFeatures, RoleDocument, NormalizeApiBuckets
<1> QED
  BY <1>2, <1>3, <1>4

ComposedRead == custom =>
  \A f \in Codes, b \in Platforms : RoleFeatures[f][b] =
    IF revoked[f][b] = Null \/ (base[f][b] = Absent /\ additions[f][b] = Absent) THEN Absent
    ELSE (Members(base[f][b]) \cup Members(additions[f][b])) \ Members(revoked[f][b])
LEMMA ReadComposed == ComposedRead
  BY RoleComposed DEF ComposedRead
LEMMA ReadComposedAfter == ComposedRead'
  BY ReadComposed, PTL

LEMMA RevokeTakes ==
  ASSUME TypeOK, Revoke, NEW r \in Requests, NEW x \in Usable(r)', Acyclic(FeatureDeps(x[1], r[3]))
  PROVE  x \in Usable(r)
<1>1. PICK b : b = Bucket(r[1])
  OBVIOUS
<1>2. b \in Platforms /\ b \in Stored /\ r[3] # Absent
  BY <1>1, Buckets, DocumentsAssumption DEF Requests
<1>3. PICK f \in Codes, b0 \in Platforms, y \in {Null} \cup SUBSET Perms :
        /\ custom /\ revoked[f][b0] # Null
        /\ y = Null \/ (y \in SUBSET Perms /\ Members(revoked[f][b0]) \subseteq y)
        /\ revoked' = [revoked EXCEPT ![f][b0] = y] /\ revoked' \in Denies
        /\ UNCHANGED <<snapshot, planCode, locks, custom, base, additions, services>>
  BY RevokeStep
<1>4. ASSUME NEW g \in Codes, RoleFeatures[g][b]' # Absent
      PROVE  RoleFeatures[g][b] # Absent /\ RoleFeatures[g][b]' \subseteq RoleFeatures[g][b]
  <2>1. revoked \in [Codes -> [Stored -> (SUBSET Perms) \cup {Absent, Null}]]
    BY DEF TypeOK, Denies
  <2>2. revoked'[g][b] = IF g = f /\ b = b0 THEN y ELSE revoked[g][b]
    BY <1>2, <1>3, <2>1, EnteredAt
  <2> DEFINE granted == Members(base[g][b]) \cup Members(additions[g][b])
  <2>3. RoleFeatures[g][b] =
          IF revoked[g][b] = Null \/ (base[g][b] = Absent /\ additions[g][b] = Absent) THEN Absent
          ELSE granted \ Members(revoked[g][b])
    BY <1>2, <1>3, RoleComposed
  <2>4. RoleFeatures[g][b]' =
          IF revoked'[g][b] = Null \/ (base[g][b] = Absent /\ additions[g][b] = Absent) THEN Absent
          ELSE granted \ Members(revoked'[g][b])
    BY <1>2, <1>3, ReadComposedAfter DEF ComposedRead
  <2>5. granted \in SUBSET Perms
    BY <1>2, UnlockEntry, Lists DEF TypeOK, Members
  <2> HIDE DEF granted
  <2>6. revoked'[g][b] # Null /\ ~(base[g][b] = Absent /\ additions[g][b] = Absent)
    BY <1>4, <2>4
  <2>7. revoked[g][b] # Null /\ Members(revoked[g][b]) \subseteq Members(revoked'[g][b])
    BY <1>3, <2>2, <2>6, Lists
  <2>8. granted \ Members(revoked[g][b]) # Absent
    BY <2>5, Lists
  <2> QED
    BY <2>3, <2>4, <2>6, <2>7, <2>8
<1>5. ASSUME NEW v, NEW c \in Here(v), PermissionReason(v, b, c)' = "none"
      PROVE  PermissionReason(v, b, c) = "none"
  <2>1. PlanLocked(v, b)' = PlanLocked(v, b) /\ SiteLocked(v, b)' = SiteLocked(v, b)
    BY <1>3 DEF PlanLocked, SiteLocked, IsSiteLockedOnPlatform, SiteLocks, Membership, Plans
  <2>2. UnmetServices(v)' = UnmetServices(v)
    BY <1>3 DEF UnmetServices
  <2> QED
    BY <1>5, <2>1, <2>2, ReasonStays
<1>6. ASSUME NEW v, x[1] = v.code, v = VariantOf(v.code, r[3]), v.code \in Codes, DOMAIN v.perms \subseteq Perms,
             RoleFeatures[v.code][b]' # Absent
      PROVE  /\ RoleFeatures[v.code][b] # Absent
             /\ GrantedPermissions(v.code, b, r[3])' \subseteq GrantedPermissions(v.code, b, r[3])
  <2>1. RoleFeatures[v.code][b] # Absent /\ RoleFeatures[v.code][b]' \subseteq RoleFeatures[v.code][b]
    BY <1>4, <1>6
  <2>2. RoleFeatures[v.code][b] \in SUBSET Perms
    BY <1>2, <1>6, <2>1, RoleType, UnlockEntry
  <2>3. FeatureDeps(v.code, r[3]) = DependsMap(v.perms, DOMAIN v.perms)
    BY <1>6 DEF FeatureDeps
  <2>4. Acyclic(DependsMap(v.perms, DOMAIN v.perms))
    BY <1>6, <2>3
  <2>5. /\ GrantedPermissions(v.code, b, r[3])' = FilterGrantedByDeps(RoleFeatures[v.code][b]', FeatureDeps(v.code, r[3])')
        /\ GrantedPermissions(v.code, b, r[3]) = FilterGrantedByDeps(RoleFeatures[v.code][b], FeatureDeps(v.code, r[3]))
    BY ReadGrants, ReadGrantsAfter DEF GrantsRead
  <2>6. FeatureDeps(v.code, r[3])' = FeatureDeps(v.code, r[3])
    BY <1>3, SameDeps
  <2> QED
    BY <1>6, <2>1, <2>2, <2>3, <2>4, <2>5, <2>6, FilterMonotone
<1> QED
  BY <1>1, <1>2, <1>3, <1>5, <1>6, UsableShrinks

\* A denial never gives: whatever site is locked or role revoked from, what is usable
\* shrinks, although null, a list and the older shape of a document mean different
\* things in each; a revocation may only leave the permissions of a feature with cyclic
\* prerequisites otherwise.
THEOREM DenialTakes == Spec => DenyOnlyTakes
<1>1. TypeOK /\ [Next]_vars =>
        [Lock \/ Revoke => \A r \in Requests :
           \A x \in Usable(r)' \ Usable(r) : Revoke /\ ~Acyclic(FeatureDeps(x[1], r[3]))]_vars
  BY LockTakes, RevokeTakes
<1> QED
  BY <1>1, TypeCorrect, PTL DEF Spec, DenyOnlyTakes

\* The reasons of a feature and of its permissions, to be read in two states.
ReasonsAre ==
  \A v, b :
    /\ FeatureReason(v, b) =
         ResolveLockReason(Membership(v.code)[b] = Absent, SiteLocks[v.code][b] = Null, UnmetServices(v))
    /\ \A c \in Here(v) : LET closure == {c} \cup Closure(Needs(v), c) IN
         PermissionReason(v, b, c) =
           ResolveLockReason(closure \cap PlanLocked(v, b) # {}, closure \cap SiteLocked(v, b) # {},
                             UnmetServices(v))
LEMMA ReadReasonsAre == ReasonsAre
  BY ReasonIs DEF ReasonsAre, FeatureReason
LEMMA ReadReasonsAreAfter == ReasonsAre'
  BY ReadReasonsAre, PTL

AnswersAre == \A v, b, scope : UserFeature(CatalogEntry(v, b), b, scope) = FeatureOf(v, b, scope)
LEMMA ReadAnswersAre == AnswersAre
  BY UserFeatureIs DEF AnswersAre
LEMMA ReadAnswersAreAfter == AnswersAre'
  BY ReadAnswersAre, PTL

\* The reason once the service is there.
ServedReason(v, s, reason) == IF reason = "SERVICE" /\ UnmetServices(v) \subseteq {s} THEN "none" ELSE reason

LEMMA ProvisionReasons ==
  ASSUME NEW s \in Services, Provision(s), NEW v, NEW b
  PROVE  /\ FeatureReason(v, b)' = ServedReason(v, s, FeatureReason(v, b))
         /\ \A c \in Here(v) : PermissionReason(v, b, c)' = ServedReason(v, s, PermissionReason(v, b, c))
<1>1. /\ Membership(v.code)[b]' = Membership(v.code)[b]
      /\ SiteLocks[v.code][b]' = SiteLocks[v.code][b]
      /\ PlanLocked(v, b)' = PlanLocked(v, b) /\ SiteLocked(v, b)' = SiteLocked(v, b)
  BY DEF Provision, PlanLocked, SiteLocked, IsSiteLockedOnPlatform, SiteLocks, Membership, Plans
<1>2. UnmetServices(v)' = UnmetServices(v) \ {s}
  BY DEF Provision, UnmetServices
<1>3. FeatureReason(v, b)' = ServedReason(v, s, FeatureReason(v, b))
  <2> DEFINE p == Membership(v.code)[b] = Absent
             q == SiteLocks[v.code][b] = Null
  <2>1. FeatureReason(v, b) = ResolveLockReason(p, q, UnmetServices(v))
    BY ReadReasonsAre DEF ReasonsAre
  <2>2. FeatureReason(v, b)' = ResolveLockReason(p, q, UnmetServices(v) \ {s})
    BY <1>1, <1>2, ReadReasonsAreAfter DEF ReasonsAre
  <2>3. p \in BOOLEAN /\ q \in BOOLEAN
    OBVIOUS
  <2> HIDE DEF p, q
  <2> QED
    BY <2>1, <2>2, <2>3 DEF ServedReason, ResolveLockReason
<1>4. ASSUME NEW c \in Here(v)
      PROVE  PermissionReason(v, b, c)' = ServedReason(v, s, PermissionReason(v, b, c))
  <2> DEFINE closure == {c} \cup Closure(Needs(v), c)
             p == closure \cap PlanLocked(v, b) # {}
             q == closure \cap SiteLocked(v, b) # {}
  <2>1. PermissionReason(v, b, c) = ResolveLockReason(p, q, UnmetServices(v))
    BY ReadReasonsAre DEF ReasonsAre
  <2>2. PermissionReason(v, b, c)' = ResolveLockReason(p, q, UnmetServices(v) \ {s})
    BY <1>1, <1>2, ReadReasonsAreAfter DEF ReasonsAre
  <2>3. p \in BOOLEAN /\ q \in BOOLEAN
    OBVIOUS
  <2> HIDE DEF p, q
  <2> QED
    BY <2>1, <2>2, <2>3 DEF ServedReason, ResolveLockReason
<1> QED
  BY <1>3, <1>4

\* A feature's answer before and after a service is provisioned.
LEMMA FeatureServed ==
  ASSUME NEW s \in Services, Provision(s), NEW v, NEW b, NEW scope, v = VariantOf(v.code, scope)
  PROVE  FeatureOf(v, b, scope)' = Served(FeatureOf(v, b, scope), scope, s)
<1> DEFINE granted == GrantedPermissions(v.code, b, scope)
           reason == FeatureReason(v, b)
           f == FeatureOf(v, b, scope)
           met == UnmetServices(v) \subseteq {s}
           Before == LockedOf(v, b, granted)
           After == LockedOf(v, b, granted)'
           upsell == UpsellOf(v, b, scope, reason)
<1>1. UNCHANGED <<snapshot, planCode, locks, custom, base, additions, revoked>>
  BY DEF Provision
<1>2. granted' = granted
  BY <1>1, SameVariant DEF GrantedPermissions, FeatureDeps, RoleFeatures, RoleDocument
<1>3. reason' = ServedReason(v, s, reason)
  BY ProvisionReasons
<1>4. After = {[code |-> c, reason |-> ServedReason(v, s, PermissionReason(v, b, c))] :
                 c \in {d \in granted \cap Here(v) : ServedReason(v, s, PermissionReason(v, b, d)) # "none"}}
  <2>1. After = {[code |-> c, reason |-> PermissionReason(v, b, c)'] :
                   c \in {d \in granted \cap Here(v) : PermissionReason(v, b, d)' # "none"}}
    BY <1>2 DEF LockedOf
  <2>2. \A c \in granted \cap Here(v) :
          PermissionReason(v, b, c)' = ServedReason(v, s, PermissionReason(v, b, c))
    BY ProvisionReasons
  <2> HIDE DEF granted, After
  <2> QED
    BY <2>1, <2>2
<1>5. After = IF met THEN {p \in Before : p.reason # "SERVICE"} ELSE Before
  <2> DEFINE R(c) == PermissionReason(v, b, c)
             S(c) == ServedReason(v, s, R(c))
             D == granted \cap Here(v)
  <2>1. /\ Before = {[code |-> c, reason |-> R(c)] : c \in {d \in D : R(d) # "none"}}
        /\ After = {[code |-> c, reason |-> S(c)] : c \in {d \in D : S(d) # "none"}}
    BY <1>4 DEF LockedOf
  <2>2. \A c : S(c) = IF met /\ R(c) = "SERVICE" THEN "none" ELSE R(c)
    BY DEF ServedReason
  <2> HIDE DEF R, S, D, Before, After, met
  <2>3. CASE ~met
    <3>1. \A c : S(c) = R(c)
      BY <2>2, <2>3
    <3> QED
      BY <2>1, <2>3, <3>1
  <2>4. CASE met
    <3>1. \A d \in D : S(d) # "none" <=> R(d) # "none" /\ R(d) # "SERVICE"
      BY <2>2, <2>4
    <3>2. \A d \in D : S(d) # "none" => S(d) = R(d)
      BY <2>2
    <3>3. After \subseteq {p \in Before : p.reason # "SERVICE"}
      BY <2>1, <3>1, <3>2
    <3>4. ASSUME NEW p \in Before, p.reason # "SERVICE" PROVE p \in After
      <4>1. PICK c \in D : R(c) # "none" /\ p = [code |-> c, reason |-> R(c)]
        BY <2>1
      <4>2. S(c) # "none" /\ S(c) = R(c)
        BY <3>1, <3>2, <3>4, <4>1
      <4> QED
        BY <2>1, <4>1, <4>2
    <3> QED
      BY <2>4, <3>3, <3>4
  <2> QED
    BY <2>3, <2>4
<1>6. upsell' = upsell
  <2>1. reason' = "PLAN" <=> reason = "PLAN"
    BY <1>3 DEF ServedReason
  <2>2. /\ PlansIncludingFeature(v.code, b)' = PlansIncludingFeature(v.code, b)
        /\ \A p : PlanAdds(p, b, scope)' = PlanAdds(p, b, scope)
    BY <1>1, SameVariant DEF PlansIncludingFeature, PlanAdds, Plans, Membership
  <2> QED
    BY <2>1, <2>2 DEF UpsellOf
<1>7. f = [code |-> v.code, permissions |-> granted, lockReason |-> reason,
           lockedPermissions |-> Before, upsell |-> upsell]
  BY DEF FeatureOf
<1>8. f' = [code |-> v.code, permissions |-> granted, lockReason |-> reason',
            lockedPermissions |-> After, upsell |-> upsell]
  BY <1>2, <1>6 DEF FeatureOf
<1>9. Served(f, scope, s) =
        IF met THEN [f EXCEPT !.lockReason = IF @ = "SERVICE" THEN "none" ELSE @,
                              !.lockedPermissions = {p \in @ : p.reason # "SERVICE"}]
        ELSE f
  <2>1. f.code = v.code
    BY <1>7
  <2> HIDE DEF f
  <2> QED
    BY <2>1 DEF Served
<1>10. reason' = IF met /\ reason = "SERVICE" THEN "none" ELSE reason
  BY <1>3 DEF ServedReason
<1> HIDE DEF granted, reason, f, met, Before, After, upsell
<1>11. f' = Served(f, scope, s)
  BY <1>5, <1>7, <1>8, <1>9, <1>10
<1> QED
  BY <1>11 DEF f

LEMMA ProvisionGives ==
  ASSUME TypeOK, NEW s \in Services, Provision(s), NEW r \in Requests
  PROVE  Answer(r)' = {Served(f, r[3], s) : f \in Answer(r)}
<1> DEFINE b == Bucket(r[1])
           V(i) == Referenced(i)
<1>1. /\ UNCHANGED <<snapshot, planCode, locks, custom, base, additions, revoked>>
      /\ r[3] # Absent
  BY DocumentsAssumption DEF Provision, Requests
<1>2. \A i : V(i)' = V(i)
  BY <1>1, SameReferenced
<1>3. Shown(r)' = Shown(r)
  <2>1. Latest(r)' = Latest(r) /\ RoleFeatures' = RoleFeatures
    BY <1>1, SameLatest DEF RoleFeatures, RoleDocument
  <2> QED
    BY <1>2, <2>1 DEF Shown
<1>4. Answer(r) = {FeatureOf(V(i), b, r[3]) : i \in Shown(r)}
  BY ReadAnswers, ReadAnswersAre DEF AnswersRead, AnswersAre
<1>5. Answer(r)' = {FeatureOf(V(i), b, r[3])' : i \in Shown(r)'}
  BY ReadAnswersAfter, ReadAnswersAreAfter DEF AnswersRead, AnswersAre
<1>6. ASSUME NEW i \in Shown(r)
      PROVE  FeatureOf(V(i), b, r[3])' = Served(FeatureOf(V(i), b, r[3]), r[3], s)
  <2>1. PICK v : v = V(i)
    OBVIOUS
  <2>2. v = VariantOf(v.code, r[3])
    BY <1>1, <2>1, Shows DEF Shown, Latest
  <2>3. FeatureOf(v, b, r[3])' = Served(FeatureOf(v, b, r[3]), r[3], s)
    BY <2>2, FeatureServed
  <2>4. FeatureOf(V(i), b, r[3])' = FeatureOf(v, b, r[3])'
    BY <1>2, <2>1
  <2> QED
    BY <2>1, <2>3, <2>4
<1> HIDE DEF V, b
<1> QED
  BY <1>3, <1>4, <1>5, <1>6

\* A service only gives back, and gives back all that waited for it: where it was the
\* last one missing the feature and its permissions locked for want of services open;
\* the locks of plan and site, the grants and the upsell of every answer stay.
THEOREM ProvisionUnlocks == Spec => ProvisionOnlyUnlocks
<1>1. TypeOK /\ [Next]_vars =>
        [\A s \in Services : Provision(s) =>
           \A r \in Requests : Answer(r)' = {Served(f, r[3], s) : f \in Answer(r)}]_vars
  BY ProvisionGives
<1> QED
  BY <1>1, TypeCorrect, PTL DEF Spec, ProvisionOnlyUnlocks
=============================================================================
