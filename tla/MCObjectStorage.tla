-------------------------- MODULE MCObjectStorage --------------------------
(* Instances of ObjectStorage for TLC. *)
EXTENDS ObjectStorage, TLC

Admin == {"createBucket", "deleteBucket"}
\* Tenants' buckets and credentials abroad, and at home without revocations, a bucket
\* for each tenant without defaults, and a provider of one bucket with its usage.
Tenants(jurisdiction) ==
  [jurisdiction |-> jurisdiction, defaultBucket |-> Absent, publicBucket |-> Absent, publicUrl |-> FALSE,
   ops |-> Admin \cup {"createScopedToken"} \cup IF jurisdiction = "eu" THEN {"deleteCredential"} ELSE {}]
PerTenant == [Tenants("default") EXCEPT !.ops = Admin \cup {"enablePublicAccess", "upload", "delete"}]
OneBucket(n) ==
  [Tenants("default") EXCEPT !.defaultBucket = n, !.publicBucket = n, !.publicUrl = TRUE,
                             !.ops = {"createBucket", "upload", "uploadPublic", "getBucketUsage"}]
MCConfigs == {Tenants("default"), Tenants("eu"), PerTenant} \cup {OneBucket(n) : n \in Names}
Symmetry == Permutations(Callers) \cup Permutations(Credentials) \cup Permutations(Names)
=============================================================================
