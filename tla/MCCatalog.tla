----------------------------- MODULE MCCatalog -----------------------------
(* Instances of Catalog for TLC. *)
EXTENDS Catalog, DepsWalk

Perm(here, needs) == [here |-> here, needs |-> needs]
\* view, edit which needs it, and a permission of another business that edit
\* needs as well in one version.
PermsOf(extra) ==
  [c \in {"view", "edit", "other"} |->
     CASE c = "view" -> Perm(TRUE, {})
       [] c = "edit" -> Perm(TRUE, {"view"} \cup extra)
       [] OTHER -> Perm(FALSE, {"view"})]
Variant(code, scope, extra) ==
  [code |-> code, scope |-> scope, types |-> SiteTypes, perms |-> PermsOf(extra),
   ui |-> {"web", "mobile"}, surfaces |-> Absent, services |-> {}]
\* other needs edit and view, and edit needs other.
Tangled ==
  [c \in {"view", "edit", "other"} |->
     Perm(TRUE, CASE c = "view" -> {} [] c = "edit" -> {"other"} [] OTHER -> {"edit", "view"})]
Headless == [Variant("b", "SITE", {}) EXCEPT !.ui = {}, !.surfaces = {"graphql"}, !.types = {"OUTLET"}]
WithServices(v, some) == [v EXCEPT !.services = some, !.ui = {"web"}, !.surfaces = ApiBuckets]

Unlocked(web, graphql, http, app) ==
  [b \in Stored |-> CASE b = "web" -> web [] b = "graphql" -> graphql [] b = "http" -> http
                      [] b = "app" -> app [] OTHER -> {"view", "edit"}]
Both == {"view", "edit"}
\* A plan with all that a site needs, one with edit but not view and a legacy bucket.
PlanDocs ==
  [p \in PlanCodes |->
     [f \in Codes |-> IF p = "full" THEN Unlocked(Both, Perms, Both, Absent)
                      ELSE IF f = "a" THEN Unlocked({"edit"}, Absent, {"view"}, Both)
                      ELSE Nothing[f]]]
Ref(code, scope) == [code |-> code, scope |-> scope]
Refs == <<Ref("b", "SITE"), Ref("a", "SITE"), Ref("a", "ORG"), Ref("gone", "SITE")>>
SomeSnapshots ==
  {[features |-> <<Variant("a", "SITE", {}), Variant("a", "ORG", {"other"}), WithServices(Headless, Services)>>,
    refs |-> Refs, plans |-> PlanDocs],
   [features |-> <<WithServices(Variant("a", "SITE", {"other"}), {"GITEA"}),
                   [Headless EXCEPT !.perms = Tangled], Variant("a", "ORG", {})>>,
    refs |-> Refs, plans |-> PlanDocs]}
\* A role with everything, one from before the API buckets were split, one that has
\* a list for one of them.
SomeRoles ==
  {[f \in Codes |-> IF f = "gone" THEN Nothing[f] ELSE Unlocked(Both, Both, Both, Absent)],
   [f \in Codes |-> Unlocked(Perms, Absent, Absent, IF f = "a" THEN Both ELSE {"edit", "other"})],
   [f \in Codes |-> IF f = "a" THEN Unlocked(Perms, {"edit"}, Absent, Both) ELSE Nothing[f]]}
\* No lock, and an API bucket of its own beside a legacy one.
SomeLocks == {Nothing, [Nothing EXCEPT !["a"]["graphql"] = Null, !["a"]["app"] = {"edit"}]}
Listing == <<"other", "edit", "view">>
\* The walk as a function of sets: TLC evaluates what a function is applied to once.
Kept ==
  [granted \in SUBSET Perms, edges \in SUBSET (Perms \X Perms) |-> WalkGranted(granted, edges)]
KeptOf(granted, needs) == Kept[granted, UNION {{c} \X needs[c] : c \in Perms}]
=============================================================================
