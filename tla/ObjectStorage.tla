--------------------------- MODULE ObjectStorage ---------------------------
(***************************************************************************)
(* R2BucketProvisioner, R2StorageProvider and BucketUsageReader against an *)
(* account at Cloudflare: buckets, objects, scoped credentials and usage   *)
(* samples, changed by callers that run side by side.                      *)
(*                                                                         *)
(* Every call is one request (the first credential of a provisioner, two); *)
(* the account serves it at any later moment, and the request or its       *)
(* answer may be lost, or answered by an error of the provider: then the   *)
(* call rejects and nobody retries for the caller.  The account, its       *)
(* numbers for "exists" (10004) and "not found" (10006), and what the      *)
(* callers do, are external.                                               *)
(***************************************************************************)
EXTENDS Naturals, FiniteSets

CONSTANTS Absent, Callers,
          Names,      \* of buckets
          Keys,       \* of objects
          Credentials,
          Configs,    \* [jurisdiction, defaultBucket, publicBucket, publicUrl, ops]: ops are asked for
          MaxFaults

Jurisdictions == {"default", "eu"}
Buckets == Names \X Jurisdictions
ObjectOps == {"upload", "uploadPublic", "delete"}
Ops == ObjectOps \cup {"createBucket", "deleteBucket", "enablePublicAccess", "createScopedToken", "deleteCredential",
                      "getBucketUsage"}

ASSUME StorageAssumption ==
  /\ MaxFaults \in Nat /\ Absent \notin Names /\ \A keys \in SUBSET Keys : keys # Absent
  /\ IsFiniteSet(Keys)
  /\ Configs \subseteq [jurisdiction : Jurisdictions, defaultBucket : Names \cup {Absent}, publicBucket : Names \cup {Absent},
                        publicUrl : BOOLEAN, ops : SUBSET Ops]

VARIABLES config,
          bucket,     \* the objects of a bucket, Absent when there is none
          public,     \* buckets with a public domain
          token,      \* a credential: what it was asked for and what it opens
          groupId,    \* bucketItemWriteGroupId is resolved
          held,       \* credentials the callers were told
          sample,     \* the newest usage sample of a bucket
          faults,
          call

vars == <<config, bucket, public, token, groupId, held, sample, faults, call>>
account == <<bucket, public, token>>

Asked(op, n, ns, k, id) ==
  [op |-> op, name |-> n, names |-> ns, key |-> k, id |-> id, phase |-> "idle", reply |-> Absent,
   there |-> FALSE, sample |-> 0, outcome |-> Absent, usage |-> Absent]
NoCall == Asked("none", Absent, {}, Absent, Absent)
NoToken == [phase |-> "unminted", names |-> {}, scope |-> {}]

Init == /\ config \in Configs
        /\ bucket = [b \in Buckets |-> Absent] /\ public = {}
        /\ token = [id \in Credentials |-> NoToken]
        /\ groupId = FALSE /\ held = {}
        /\ sample = [n \in Names |-> Absent]
        /\ faults = 0
        /\ call = [c \in Callers |-> NoCall]

Exists(b) == bucket[b] # Absent
\* Only createBucket sends the jurisdiction; a request without it is about "default".
Created(n) == <<n, config.jurisdiction>>
Addressed(n) == <<n, "default">>
\* Faulty variant: the credential forgets the jurisdiction.
DefaultScope(names) == names \X {"default"}
Scope(names) == names \X {config.jurisdiction}

\* Faulty variant: the configured bucket comes first.
ConfiguredFirst(n, fallback) == IF fallback # Absent THEN fallback ELSE n
RequireBucket(n, fallback) == IF n # Absent THEN n ELSE fallback
Fallback(op) == IF op = "uploadPublic" THEN config.publicBucket ELSE config.defaultBucket

-----------------------------------------------------------------------------
(* A call until its request is out.                                        *)

FirstPhase(op) == IF op = "createScopedToken" /\ ~groupId THEN "lookup" ELSE "asking"
\* A credential is asked for a list of buckets.  A call that names no bucket and has
\* none configured ends here: requireBucket throws, as the S3 client does for delete.
Start(c, op, n, ns, k, id) ==
  /\ call[c].phase = "idle" /\ op \in config.ops
  /\ IF op \in ObjectOps THEN k \in Keys /\ id = Absent ELSE k = Absent /\ (op = "deleteCredential" <=> id # Absent)
  /\ op = "createScopedToken" <=> ns # {}
  /\ IF op = "createScopedToken" THEN n = Absent ELSE n = Absent => op \in ObjectOps \cup {"deleteCredential"}
  /\ LET asked == Asked(op, n, ns, k, id) IN
     call' = [call EXCEPT ![c] =
                IF op \in ObjectOps /\ RequireBucket(n, Fallback(op)) = Absent
                THEN [asked EXCEPT !.outcome = "rejected"]
                ELSE [asked EXCEPT !.phase = FirstPhase(op)]]
  /\ UNCHANGED <<config, account, groupId, held, sample, faults>>

-----------------------------------------------------------------------------
(* The account serves a request.                                           *)

Serve(c, reply, there) ==
  /\ call' = [call EXCEPT ![c] = [@ EXCEPT !.phase = "served", !.reply = reply, !.there = there]]
  /\ UNCHANGED <<config, groupId, held, sample, faults>>
Asking(c, op) == call[c].phase = "asking" /\ call[c].op = op

ServeCreateBucket(c) ==
  LET b == Created(call[c].name) IN
  /\ Asking(c, "createBucket")
  /\ bucket' = IF Exists(b) THEN bucket ELSE [bucket EXCEPT ![b] = {}]
  /\ Serve(c, IF Exists(b) THEN "exists" ELSE "ok", TRUE)
  /\ UNCHANGED <<public, token>>

ServeDeleteBucket(c) ==
  LET b == Addressed(call[c].name)
      reply == IF ~Exists(b) THEN "not found" ELSE IF bucket[b] # {} THEN "not empty" ELSE "ok" IN
  /\ Asking(c, "deleteBucket")
  /\ bucket' = IF reply = "ok" THEN [bucket EXCEPT ![b] = Absent] ELSE bucket
  /\ public' = IF reply = "ok" THEN public \ {b} ELSE public
  /\ Serve(c, reply, bucket'[Created(call[c].name)] # Absent)
  /\ UNCHANGED token

ServePublicAccess(c) ==
  LET b == Addressed(call[c].name) IN
  /\ Asking(c, "enablePublicAccess")
  /\ public' = IF Exists(b) THEN public \cup {b} ELSE public
  /\ Serve(c, IF Exists(b) THEN "ok" ELSE "not found", Exists(b))
  /\ UNCHANGED <<bucket, token>>

\* The lookup of the permission group, which createScopedToken awaits first.
ServeLookup(c) ==
  /\ call[c].phase = "lookup"
  /\ call' = [call EXCEPT ![c].phase = "looked up"]
  /\ UNCHANGED <<config, account, groupId, held, sample, faults>>
ServeToken(c) ==
  /\ Asking(c, "createScopedToken")
  /\ \E id \in Credentials :
       /\ token[id].phase = "unminted"
       /\ token' = [token EXCEPT ![id] = [phase |-> "live", names |-> call[c].names, scope |-> Scope(call[c].names)]]
       /\ call' = [call EXCEPT ![c] = [@ EXCEPT !.phase = "served", !.reply = "ok", !.id = id, !.there = TRUE]]
  /\ UNCHANGED <<config, bucket, public, groupId, held, sample, faults>>
ServeRevoke(c) ==
  LET id == call[c].id
      live == token[id].phase = "live" IN
  /\ Asking(c, "deleteCredential")
  /\ token' = IF live THEN [token EXCEPT ![id].phase = "revoked"] ELSE token
  /\ Serve(c, IF live THEN "ok" ELSE "not found", FALSE)
  /\ UNCHANGED <<bucket, public>>

\* Objects: deleting one that is not there is answered like deleting one that is.
ServeObject(c) ==
  LET r == call[c]
      b == Addressed(RequireBucket(r.name, Fallback(r.op))) IN
  /\ r.phase = "asking" /\ r.op \in ObjectOps
  /\ bucket' = [bucket EXCEPT ![b] = IF ~Exists(b) THEN @ ELSE IF r.op = "delete" THEN @ \ {r.key} ELSE @ \cup {r.key}]
  /\ Serve(c, IF Exists(b) THEN "ok" ELSE "not found", Exists(b) /\ r.op # "delete")
  /\ UNCHANGED <<public, token>>

\* Samples are taken now and then, and leave the window of the query.
Sample(n) ==
  /\ "getBucketUsage" \in config.ops
  /\ sample' = [sample EXCEPT ![n] = IF Exists(Created(n)) THEN Cardinality(bucket[Created(n)]) ELSE Absent]
  /\ UNCHANGED <<config, account, groupId, held, faults, call>>
ServeUsage(c) ==
  /\ Asking(c, "getBucketUsage")
  /\ LET newest == sample[call[c].name] IN
     call' = [call EXCEPT ![c] = [@ EXCEPT !.phase = "served", !.reply = IF newest = Absent THEN "none" ELSE "ok",
                                           !.sample = IF newest = Absent THEN 0 ELSE newest]]
  /\ UNCHANGED <<config, account, groupId, held, sample, faults>>

\* The provider answers with some other error.
ServeError(c) ==
  /\ call[c].phase \in {"lookup", "asking"} /\ faults < MaxFaults
  /\ faults' = faults + 1
  /\ call' = [call EXCEPT ![c].phase = "served", ![c].reply = "error"]
  /\ UNCHANGED <<config, account, groupId, held, sample>>

-----------------------------------------------------------------------------
(* The answer arrives, or never does.                                      *)

\* Faulty variant: what is there already cannot be created.
OnlyOk(op, reply) == reply = "ok"
\* Faulty variant: any answer of a deletion will do.
AnyDeletion(op, reply) ==
  \/ reply = "ok"
  \/ op = "createBucket" /\ reply = "exists"
  \/ op = "deleteBucket" /\ reply # "error"
Accepts(op, reply) ==
  \/ reply = "ok"
  \/ op = "createBucket" /\ reply = "exists"
  \/ op = "deleteBucket" /\ reply = "not found"

\* What getBucketUsage answers; Absent when it rejects.
Usage(r) == IF r.reply = "ok" THEN r.sample ELSE IF r.reply = "none" THEN 0 ELSE Absent

\* uploadPublic builds the URL when the object is stored.
Outcome(r) ==
  CASE r.op = "getBucketUsage" -> IF Usage(r) # Absent THEN "resolved" ELSE "rejected"
    [] r.op = "uploadPublic" -> IF r.reply = "ok" /\ config.publicUrl THEN "resolved" ELSE "rejected"
    [] OTHER -> IF Accepts(r.op, r.reply) THEN "resolved" ELSE "rejected"

Receive(c) ==
  LET r == call[c]
      outcome == Outcome(r) IN
  /\ r.phase = "served"
  /\ call' = [call EXCEPT ![c].phase = "idle", ![c].outcome = outcome,
                         ![c].usage = IF r.op = "getBucketUsage" THEN Usage(r) ELSE Absent]
  /\ held' = IF r.op = "createScopedToken" /\ outcome = "resolved" THEN held \cup {r.id} ELSE held
  /\ UNCHANGED <<config, account, groupId, sample, faults>>
\* resolveBucketItemWriteGroupId keeps the group and createScopedToken goes on.
ReceiveGroup(c) ==
  /\ call[c].phase = "looked up"
  /\ groupId' = TRUE
  /\ call' = [call EXCEPT ![c].phase = "asking"]
  /\ UNCHANGED <<config, account, held, sample, faults>>
Lose(c) ==
  /\ call[c].phase # "idle" /\ faults < MaxFaults
  /\ faults' = faults + 1
  /\ call' = [call EXCEPT ![c].phase = "idle", ![c].reply = "lost", ![c].outcome = "rejected"]
  /\ UNCHANGED <<config, account, groupId, held, sample>>

Asks(c) ==
  \E op \in config.ops, n \in Names \cup {Absent}, ns \in SUBSET Names, k \in Keys \cup {Absent}, id \in held \cup {Absent} :
    Start(c, op, n, ns, k, id)
Served(c) == \/ ServeCreateBucket(c) \/ ServeDeleteBucket(c) \/ ServePublicAccess(c) \/ ServeLookup(c) \/ ServeToken(c)
             \/ ServeRevoke(c) \/ ServeObject(c) \/ ServeUsage(c) \/ ServeError(c)
Next == \/ \E c \in Callers : Asks(c) \/ Served(c) \/ Receive(c) \/ ReceiveGroup(c) \/ Lose(c)
        \/ \E n \in Names : Sample(n)
Spec == Init /\ [][Next]_vars

-----------------------------------------------------------------------------

Calls == [op : Ops \cup {"none"}, name : Names \cup {Absent}, names : SUBSET Names, key : Keys \cup {Absent}, id : Credentials \cup {Absent},
          phase : {"idle", "lookup", "looked up", "asking", "served"},
          reply : {"ok", "exists", "not found", "not empty", "none", "error", "lost", Absent}, there : BOOLEAN,
          sample : 0..Cardinality(Keys), outcome : {"resolved", "rejected", Absent},
          usage : 0..Cardinality(Keys) \cup {Absent}]
TypeOK ==
  /\ config \in Configs
  /\ bucket \in [Buckets -> (SUBSET Keys) \cup {Absent}] /\ public \in SUBSET Buckets
  /\ token \in [Credentials -> [phase : {"unminted", "live", "revoked"}, names : SUBSET Names, scope : SUBSET Buckets]]
  /\ groupId \in BOOLEAN /\ held \in SUBSET Credentials
  /\ sample \in [Names -> 0..Cardinality(Keys) \cup {Absent}] /\ faults \in 0..MaxFaults
  /\ call \in [Callers -> Calls]

Ended(c, op, outcome) == call[c].phase = "idle" /\ call[c].op = op /\ call[c].outcome = outcome

\* "Provisioning can be re-run to reconcile": whatever earlier calls lost and other
\* callers do meanwhile, creating a bucket and deleting an empty one fail only when
\* the provider failed or the answer was lost.
Reconciles ==
  \A c \in Callers :
    /\ Ended(c, "createBucket", "rejected") => call[c].reply \in {"lost", "error"}
    /\ Ended(c, "deleteBucket", "rejected") => call[c].reply \in {"lost", "error", "not empty"}

\* A success is true: when the account served the call the bucket created was
\* there, the bucket deleted was not (where the provisioner's jurisdiction is the
\* default one), a credential that was revoked stays so, and a usage of zero is
\* the newest sample, or there was none: not a query that failed.
ToldTruth ==
  \A c \in Callers :
    /\ Ended(c, "createBucket", "resolved") => call[c].there
    /\ Ended(c, "deleteBucket", "resolved") /\ config.jurisdiction = "default" => ~call[c].there
    /\ Ended(c, "deleteCredential", "resolved") => token[call[c].id].phase = "revoked"
    /\ Ended(c, "getBucketUsage", "resolved") /\ call[c].usage = 0 => call[c].reply # "error" /\ call[c].sample = 0

\* A credential opens the buckets it was asked for that this provisioner made, and
\* no other tenant's, also when a bucket is deleted and made again.
CredentialFits ==
  \A id \in held : \A b \in Buckets : Exists(b) => (b \in token[id].scope <=> b[1] \in token[id].names)

\* What the account has served a call, and what the answer on its way says of it.
Minted(id) == token[id].phase # "unminted"
Requested(r) ==
  /\ r.phase \in {"lookup", "looked up"} => r.op = "createScopedToken"
  /\ r.phase \in {"asking", "served"} =>
       /\ r.op \in Ops
       /\ r.op \notin ObjectOps \cup {"createScopedToken", "deleteCredential"} => r.name \in Names
       /\ r.op \in ObjectOps => r.key \in Keys /\ RequireBucket(r.name, Fallback(r.op)) \in Names
  /\ r.op = "createScopedToken" /\ r.phase = "asking" => groupId
  /\ r.op = "deleteCredential" => r.id \in held
ServedTruly(r) ==
  r.phase = "served" =>
    /\ r.op = "createBucket" => r.reply \in {"ok", "exists", "error"} /\ (r.reply # "error" => r.there)
    /\ r.op = "deleteBucket" =>
         /\ r.reply \in {"ok", "not found", "not empty", "error"}
         /\ r.reply \in {"ok", "not found"} /\ config.jurisdiction = "default" => ~r.there
    /\ r.op = "createScopedToken" /\ r.reply = "ok" => r.id \in Credentials /\ Minted(r.id)
    /\ r.op = "deleteCredential" /\ r.reply = "ok" => token[r.id].phase = "revoked"
    /\ r.op = "getBucketUsage" /\ r.reply = "none" => r.sample = 0
AccountInv ==
  /\ \A b \in Buckets : Exists(b) => b[2] = config.jurisdiction
  /\ \A b \in public : Exists(b)
  /\ \A id \in Credentials : Minted(id) => groupId /\ token[id].scope = Scope(token[id].names)
  /\ \A id \in held : Minted(id)

\* The inductive invariant (see ObjectStorage_proof).
IInv ==
  /\ TypeOK
  /\ AccountInv
  /\ \A c \in Callers : Requested(call[c]) /\ ServedTruly(call[c])
  /\ Reconciles /\ ToldTruth

\* An object changes only in the bucket its caller named, or in the configured
\* one when the caller named none: never in another tenant's.
WritesWhereTold ==
  [][\A b \in Buckets : Exists(b) /\ bucket'[b] # bucket[b] /\ bucket'[b] # Absent
       => \E c \in Callers : /\ call[c].phase = "asking" /\ call'[c].phase = "served"
                             /\ IF call[c].name # Absent THEN call[c].name = b[1] ELSE Fallback(call[c].op) = b[1]]_vars
=============================================================================
