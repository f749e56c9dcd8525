------------------------ MODULE ObjectStorage_proof ------------------------
(***************************************************************************)
(* Theorems about ObjectStorage, for any number of callers, buckets,       *)
(* credentials and faults, and any deployment.                             *)
(***************************************************************************)
EXTENDS ObjectStorage, FiniteSetTheorems, TLAPS

\* What a call that has ended was told, by its own record.
ToldOf(r) ==
  r.phase = "idle" =>
    /\ r.op = "createBucket" /\ r.outcome = "rejected" => r.reply \in {"lost", "error"}
    /\ r.op = "deleteBucket" /\ r.outcome = "rejected" => r.reply \in {"lost", "error", "not empty"}
    /\ r.op = "createBucket" /\ r.outcome = "resolved" => r.there
    /\ r.op = "deleteBucket" /\ r.outcome = "resolved" /\ config.jurisdiction = "default" => ~r.there
    /\ r.op = "deleteCredential" /\ r.outcome = "resolved" => token[r.id].phase = "revoked"
    /\ r.op = "getBucketUsage" /\ r.outcome = "resolved" /\ r.usage = 0 => r.reply # "error" /\ r.sample = 0

LEMMA TellsPerCall == Reconciles /\ ToldTruth <=> \A c \in Callers : ToldOf(call[c])
BY DEF Reconciles, ToldTruth, Ended, ToldOf

\* Credentials and what they know only ever go forward.
Forward == /\ groupId => groupId'
           /\ held \subseteq held'
           /\ \A id \in Credentials : /\ Minted(id) => Minted(id)'
                                      /\ token[id].phase = "revoked" => token'[id].phase = "revoked"

\* The variables but the calls keep their types.
AccountType ==
  /\ config \in Configs
  /\ bucket \in [Buckets -> (SUBSET Keys) \cup {Absent}] /\ public \in SUBSET Buckets
  /\ token \in [Credentials -> [phase : {"unminted", "live", "revoked"}, names : SUBSET Names, scope : SUBSET Buckets]]
  /\ groupId \in BOOLEAN /\ held \in SUBSET Credentials
  /\ sample \in [Names -> 0..Cardinality(Keys) \cup {Absent}] /\ faults \in 0..MaxFaults

\* A step of one call spares the others.
LEMMA CallStep ==
  ASSUME IInv, NEW c \in Callers, NEW r \in Calls, call' = [call EXCEPT ![c] = r], config' = config,
         AccountType', AccountInv', Forward, Requested(r)', ServedTruly(r)', ToldOf(r)'
  PROVE  IInv'
<1>1. call'[c] = r /\ \A q \in Callers \ {c} : call'[q] = call[q]
  BY DEF IInv, TypeOK
<1>2. TypeOK'
  BY DEF IInv, TypeOK, AccountType
<1>3. ASSUME NEW q \in Callers \ {c} PROVE Requested(call[q])' /\ ServedTruly(call[q])' /\ ToldOf(call[q])'
  <2>1. Requested(call[q]) /\ ServedTruly(call[q]) /\ ToldOf(call[q]) /\ call'[q] = call[q] /\ call[q] \in Calls
    BY <1>1, TellsPerCall DEF IInv, TypeOK
  <2>2. Requested(call[q])'
    BY <2>1 DEF Requested, Fallback, Forward
  <2>3. call[q].op = "deleteCredential" => call[q].id \in Credentials
    BY <2>1 DEF Requested, IInv, TypeOK
  <2>4. ServedTruly(call[q])'
    BY <2>1, <2>3 DEF ServedTruly, Forward
  <2>5. ToldOf(call[q])'
    BY <2>1, <2>3 DEF ToldOf, Forward
  <2> QED
    BY <2>2, <2>4, <2>5
<1>4. \A q \in Callers : Requested(call[q])' /\ ServedTruly(call[q])' /\ ToldOf(call[q])'
  BY <1>1, <1>3
<1>5. Reconciles' /\ ToldTruth'
  BY <1>4 DEF Reconciles, ToldTruth, Ended, ToldOf
<1> QED
  BY <1>2, <1>4, <1>5 DEF IInv

LEMMA Unchanging ==
  ASSUME IInv, UNCHANGED <<config, bucket, public, token>>, groupId' = groupId, held' = held
  PROVE  AccountInv' /\ Forward
BY DEF IInv, AccountInv, Forward, Minted, Exists, Scope

LEMMA Typed ==
  ASSUME IInv
  PROVE  /\ AccountType
         /\ config \in [jurisdiction : Jurisdictions, defaultBucket : Names \cup {Absent}, publicBucket : Names \cup {Absent},
                        publicUrl : BOOLEAN, ops : SUBSET Ops]
         /\ \A c \in Callers : call[c] \in Calls
BY StorageAssumption DEF IInv, TypeOK, AccountType

LEMMA StartKeeps ==
  ASSUME IInv, NEW c \in Callers, NEW op \in Ops, NEW n \in Names \cup {Absent}, NEW ns \in SUBSET Names,
         NEW k \in Keys \cup {Absent}, NEW id \in held \cup {Absent}, Start(c, op, n, ns, k, id)
  PROVE  IInv'
<1> DEFINE asked == Asked(op, n, ns, k, id)
           r == IF op \in ObjectOps /\ RequireBucket(n, Fallback(op)) = Absent
                THEN [asked EXCEPT !.outcome = "rejected"]
                ELSE [asked EXCEPT !.phase = FirstPhase(op)]
<1>1. call' = [call EXCEPT ![c] = r] /\ UNCHANGED <<config, account, groupId, held, sample, faults>>
  BY DEF Start
<1>2. /\ n = Absent => op \in ObjectOps \cup {"createScopedToken", "deleteCredential"}
      /\ op = "deleteCredential" <=> id # Absent
      /\ op \in ObjectOps => k \in Keys
  BY DEF Start, ObjectOps
<1>3. id \in Credentials \cup {Absent}
  BY Typed DEF AccountType
<1>4. asked \in Calls /\ asked.op = op /\ asked.name = n /\ asked.key = k /\ asked.id = id /\ asked.phase = "idle"
  <2>1. 0 \in 0..Cardinality(Keys)
    BY StorageAssumption, FS_CardinalityType
  <2> QED
    BY <1>3, <2>1 DEF Calls, Asked
<1>5. FirstPhase(op) \in {"lookup", "asking"} /\ (FirstPhase(op) = "lookup" => op = "createScopedToken")
      /\ (op = "createScopedToken" /\ FirstPhase(op) = "asking" => groupId)
  BY DEF FirstPhase
<1>6. RequireBucket(n, Fallback(op)) \in Names \cup {Absent}
  BY Typed DEF RequireBucket, Fallback
<1> HIDE DEF asked
<1>7. PICK R \in Calls :
        /\ call' = [call EXCEPT ![c] = R]
        /\ R.op = op /\ R.name = n /\ R.key = k /\ R.id = id
        /\ \/ R.phase = "idle" /\ op \in ObjectOps
           \/ /\ R.phase = FirstPhase(op)
              /\ op \in ObjectOps => RequireBucket(n, Fallback(op)) # Absent
  <2>1. [asked EXCEPT !.outcome = "rejected"] \in Calls /\ [asked EXCEPT !.phase = FirstPhase(op)] \in Calls
    BY <1>4, <1>5, ZenonT(60) DEF Calls
  <2>2. CASE op \in ObjectOps /\ RequireBucket(n, Fallback(op)) = Absent
    <3> [asked EXCEPT !.outcome = "rejected"] \in Calls
      BY <2>1
    <3> WITNESS [asked EXCEPT !.outcome = "rejected"] \in Calls
    <3> QED
      BY <1>1, <1>4, <2>2 DEF Calls
  <2>3. CASE ~(op \in ObjectOps /\ RequireBucket(n, Fallback(op)) = Absent)
    <3> [asked EXCEPT !.phase = FirstPhase(op)] \in Calls
      BY <2>1
    <3> WITNESS [asked EXCEPT !.phase = FirstPhase(op)] \in Calls
    <3> QED
      BY <1>1, <1>4, <2>3 DEF Calls
  <2> QED
    BY <2>2, <2>3
<1> HIDE DEF r
<1>8. Fallback(op)' = Fallback(op)
  BY <1>1 DEF Fallback
<1>9. Requested(R)'
  BY <1>1, <1>2, <1>5, <1>6, <1>7, <1>8, StorageAssumption DEF Requested, ObjectOps, RequireBucket, Ops
<1>10. ServedTruly(R)' /\ ToldOf(R)'
  BY <1>5, <1>7 DEF ServedTruly, ToldOf, ObjectOps
<1>11. AccountType' /\ AccountInv' /\ Forward
  BY <1>1, Typed, Unchanging DEF AccountType, account
<1> QED
  BY <1>1, <1>7, <1>9, <1>10, <1>11, CallStep

-----------------------------------------------------------------------------
(* The account serves.                                                     *)

Replies == {"ok", "exists", "not found", "not empty", "none", "error", "lost"}

\* Answered is the record of a call whose request the account has served.
Answered(r, reply, there) == [r EXCEPT !.phase = "served", !.reply = reply, !.there = there]
LEMMA AnsweredType ==
  ASSUME NEW r \in Calls, NEW reply \in Replies, NEW there \in BOOLEAN, NEW a, a = Answered(r, reply, there)
  PROVE  /\ a \in Calls /\ a.phase = "served" /\ a.reply = reply /\ a.there = there
         /\ a.op = r.op /\ a.name = r.name /\ a.key = r.key /\ a.id = r.id /\ a.sample = r.sample
<1>1. [r EXCEPT !.phase = "served"] \in Calls
  BY ZenonT(60) DEF Calls
<1>2. ASSUME NEW x \in Calls PROVE [x EXCEPT !.reply = reply] \in Calls
  BY ZenonT(150) DEF Calls, Replies
<1>3. ASSUME NEW x \in Calls PROVE [x EXCEPT !.there = there] \in Calls
  BY ZenonT(60) DEF Calls
<1>4. a \in Calls
  BY <1>1, <1>2, <1>3 DEF Answered
<1>5. /\ a.phase = "served" /\ a.reply = reply /\ a.there = there
      /\ a.op = r.op /\ a.name = r.name /\ a.key = r.key /\ a.id = r.id /\ a.sample = r.sample
  BY DEF Calls, Answered
<1> QED
  BY <1>4, <1>5

\* Serving keeps the invariant when the account does, and the answer is true.
LEMMA ServeStep ==
  ASSUME IInv, NEW c \in Callers, call[c].phase = "asking",
         NEW reply \in Replies, NEW there \in BOOLEAN, Serve(c, reply, there),
         NEW r \in Calls, r = call[c], NEW a \in Calls, a = Answered(r, reply, there),
         AccountType', AccountInv', Forward, ServedTruly(a)'
  PROVE  IInv'
<1>1. call' = [call EXCEPT ![c] = a] /\ UNCHANGED <<config, groupId, held, sample, faults>>
  BY DEF Serve, Answered
<1>2. a.phase = "served" /\ a.op = r.op /\ a.name = r.name /\ a.key = r.key /\ a.id = r.id
  BY AnsweredType
<1>3. Requested(r) /\ r.phase = "asking"
  BY DEF IInv
<1>4. Requested(a)'
  BY <1>1, <1>2, <1>3 DEF Requested, Fallback, RequireBucket
<1>5. ToldOf(a)'
  BY <1>2 DEF ToldOf
<1> QED
  BY <1>1, <1>4, <1>5, CallStep

\* What the callers' invariants say of a request that is out.
LEMMA Out ==
  ASSUME IInv, NEW c \in Callers, call[c].phase = "asking"
  PROVE  /\ call[c] \in Calls /\ Requested(call[c])
         /\ call[c].op \notin ObjectOps \cup {"createScopedToken", "deleteCredential"} =>
              /\ call[c].name \in Names
              /\ Created(call[c].name) \in Buckets /\ Addressed(call[c].name) \in Buckets
BY Typed DEF IInv, Requested, Created, Addressed, Buckets, Jurisdictions

\* The buckets and public domains may change while each bucket stays in the
\* provisioner's jurisdiction.
LEMMA BucketsOnly ==
  ASSUME IInv, UNCHANGED <<config, token, groupId, held>>,
         \A b \in Buckets : Exists(b)' => b[2] = config.jurisdiction, \A b \in public' : Exists(b)'
  PROVE  AccountInv' /\ Forward
BY DEF IInv, AccountInv, Forward, Minted, Scope

LEMMA CreateBucketKeeps ==
  ASSUME IInv, NEW c \in Callers, ServeCreateBucket(c)
  PROVE  IInv'
<1> DEFINE b == Created(call[c].name)
<1>1. call[c].phase = "asking" /\ call[c].op = "createBucket"
  BY DEF ServeCreateBucket, Asking
<1>2. PICK r \in Calls : r = call[c]
  BY <1>1, Out
<1>3. PICK reply \in Replies, there \in BOOLEAN : reply = (IF Exists(b) THEN "exists" ELSE "ok") /\ there = TRUE
  BY DEF Replies
<1>4. /\ Serve(c, reply, there) /\ UNCHANGED <<public, token>>
      /\ bucket' = IF Exists(b) THEN bucket ELSE [bucket EXCEPT ![b] = {}]
  BY <1>3 DEF ServeCreateBucket
<1>5. b \in Buckets /\ b[2] = config.jurisdiction
  BY <1>1, Out DEF Created, ObjectOps
<1>6. UNCHANGED <<config, groupId, held, sample, faults>>
  BY <1>4 DEF Serve
<1>7. AccountType'
  BY <1>4, <1>6, Typed DEF AccountType
<1>8. AccountInv' /\ Forward
  <2>1. \A x \in Buckets : Exists(x)' => x[2] = config.jurisdiction
    BY <1>4, <1>5, Typed DEF AccountType, IInv, AccountInv, Exists
  <2>2. \A x \in public' : Exists(x)'
    BY <1>4, <1>5, Typed DEF AccountType, IInv, AccountInv, Exists
  <2> QED
    BY <1>4, <1>6, <2>1, <2>2, BucketsOnly
<1>9. PICK a \in Calls : a = Answered(r, reply, there)
  BY AnsweredType
<1>10. ServedTruly(a)'
  <2>1. a.reply \in {"ok", "exists"} /\ a.there /\ a.op = "createBucket"
    <3>1. a.reply = reply /\ a.there = there /\ a.op = r.op
      BY <1>9, AnsweredType
    <3> QED
      BY <1>1, <1>2, <1>3, <3>1
  <2> QED
    BY <2>1 DEF ServedTruly
<1> QED
  BY <1>1, <1>2, <1>4, <1>7, <1>8, <1>9, <1>10, ServeStep

LEMMA DeleteBucketKeeps ==
  ASSUME IInv, NEW c \in Callers, ServeDeleteBucket(c)
  PROVE  IInv'
<1> DEFINE b == Addressed(call[c].name)
           made == Created(call[c].name)
<1>1. call[c].phase = "asking" /\ call[c].op = "deleteBucket"
  BY DEF ServeDeleteBucket, Asking
<1>2. PICK r \in Calls : r = call[c]
  BY <1>1, Out
<1>3. PICK reply \in Replies, there \in BOOLEAN :
        /\ reply = IF ~Exists(b) THEN "not found" ELSE IF bucket[b] # {} THEN "not empty" ELSE "ok"
        /\ there = (bucket'[made] # Absent)
  BY DEF Replies
<1>4. /\ Serve(c, reply, there) /\ UNCHANGED token
      /\ bucket' = IF reply = "ok" THEN [bucket EXCEPT ![b] = Absent] ELSE bucket
      /\ public' = IF reply = "ok" THEN public \ {b} ELSE public
  BY <1>3 DEF ServeDeleteBucket
<1>5. b \in Buckets /\ (config.jurisdiction = "default" => made = b)
  BY <1>1, Out DEF Created, Addressed, ObjectOps
<1>6. UNCHANGED <<config, groupId, held, sample, faults>>
  BY <1>4 DEF Serve
<1>7. AccountType'
  BY <1>4, <1>5, <1>6, Typed DEF AccountType
<1>8. AccountInv' /\ Forward
  <2>1. \A x \in Buckets : bucket'[x] \in {bucket[x], Absent} /\ (bucket'[x] # bucket[x] => x = b /\ reply = "ok")
    BY <1>4, <1>5, Typed DEF AccountType
  <2>2. \A x \in Buckets : Exists(x)' => x[2] = config.jurisdiction
    BY <2>1 DEF IInv, AccountInv, Exists
  <2>3. \A x \in public' : Exists(x)'
    BY <1>4, <2>1, Typed DEF AccountType, IInv, AccountInv, Exists
  <2> QED
    BY <1>4, <1>6, <2>2, <2>3, BucketsOnly
<1>9. PICK a \in Calls : a = Answered(r, reply, there)
  BY AnsweredType
<1>10. ServedTruly(a)'
  <2>1. a.reply = reply /\ a.there = there /\ a.op = r.op
    BY <1>9, AnsweredType
  <2>2. reply \in {"ok", "not found", "not empty"}
    BY <1>3
  <2>3. ASSUME reply \in {"ok", "not found"}, config.jurisdiction = "default" PROVE ~there
    BY <1>3, <1>4, <1>5, <2>3, Typed DEF AccountType, Exists
  <2> QED
    BY <1>1, <1>2, <1>6, <2>1, <2>2, <2>3 DEF ServedTruly
<1> QED
  BY <1>1, <1>2, <1>4, <1>7, <1>8, <1>9, <1>10, ServeStep

LEMMA PublicAccessKeeps ==
  ASSUME IInv, NEW c \in Callers, ServePublicAccess(c)
  PROVE  IInv'
<1> DEFINE b == Addressed(call[c].name)
<1>1. call[c].phase = "asking" /\ call[c].op = "enablePublicAccess"
  BY DEF ServePublicAccess, Asking
<1>2. PICK r \in Calls : r = call[c]
  BY <1>1, Out
<1>3. PICK reply \in Replies, there \in BOOLEAN :
        reply = (IF Exists(b) THEN "ok" ELSE "not found") /\ there = Exists(b)
  BY DEF Replies, Exists
<1>4. /\ Serve(c, reply, there) /\ UNCHANGED <<bucket, token>>
      /\ public' = IF Exists(b) THEN public \cup {b} ELSE public
  BY <1>3 DEF ServePublicAccess
<1>5. b \in Buckets
  BY <1>1, Out DEF ObjectOps
<1>6. UNCHANGED <<config, groupId, held, sample, faults>>
  BY <1>4 DEF Serve
<1>7. AccountType'
  BY <1>4, <1>5, <1>6, Typed DEF AccountType
<1>8. AccountInv' /\ Forward
  BY <1>4, <1>6, BucketsOnly DEF IInv, AccountInv, Exists
<1>9. PICK a \in Calls : a = Answered(r, reply, there)
  BY AnsweredType
<1>10. ServedTruly(a)'
  <2>1. a.op = r.op
    BY <1>9, AnsweredType
  <2> QED
    BY <1>1, <1>2, <2>1 DEF ServedTruly
<1> QED
  BY <1>1, <1>2, <1>4, <1>7, <1>8, <1>9, <1>10, ServeStep

LEMMA ObjectKeeps ==
  ASSUME IInv, NEW c \in Callers, ServeObject(c)
  PROVE  IInv'
<1> DEFINE b == Addressed(RequireBucket(call[c].name, Fallback(call[c].op)))
<1>1. call[c].phase = "asking" /\ call[c].op \in ObjectOps
  BY DEF ServeObject
<1>2. PICK r \in Calls : r = call[c]
  BY <1>1, Out
<1>3. PICK reply \in Replies, there \in BOOLEAN :
        reply = (IF Exists(b) THEN "ok" ELSE "not found") /\ there = (Exists(b) /\ r.op # "delete")
  BY DEF Replies, Exists
<1>4. /\ Serve(c, reply, there) /\ UNCHANGED <<public, token>>
      /\ bucket' = [bucket EXCEPT ![b] = IF ~Exists(b) THEN @ ELSE IF r.op = "delete" THEN @ \ {r.key} ELSE @ \cup {r.key}]
  BY <1>2, <1>3 DEF ServeObject
<1>5. b \in Buckets /\ r.key \in Keys
  BY <1>1, <1>2, Out DEF Requested, Addressed, Buckets, Jurisdictions
<1>6. UNCHANGED <<config, groupId, held, sample, faults>>
  BY <1>4 DEF Serve
<1>7. bucket' \in [Buckets -> (SUBSET Keys) \cup {Absent}] /\ AccountType'
  <2>1. Exists(b) => bucket[b] \in SUBSET Keys
    BY <1>5, Typed DEF AccountType, Exists
  <2>2. bucket' \in [Buckets -> (SUBSET Keys) \cup {Absent}]
    BY <1>4, <1>5, <2>1, Typed DEF AccountType
  <2> QED
    BY <1>4, <1>6, <2>2, Typed DEF AccountType
<1>8. AccountInv' /\ Forward
  <2>1. Exists(b) => bucket[b] \in SUBSET Keys
    BY <1>5, Typed DEF AccountType, Exists
  <2>2. \A x \in Buckets : Exists(x)' <=> Exists(x)
    BY <1>4, <1>5, <2>1, StorageAssumption, Typed DEF AccountType, Exists
  <2> QED
    BY <1>4, <1>6, <2>2, BucketsOnly, Typed DEF IInv, AccountInv, AccountType
<1>9. PICK a \in Calls : a = Answered(r, reply, there)
  BY AnsweredType
<1>10. ServedTruly(a)'
  <2>1. a.op = r.op
    BY <1>9, AnsweredType
  <2> QED
    BY <1>1, <1>2, <2>1 DEF ServedTruly, ObjectOps
<1> QED
  BY <1>1, <1>2, <1>4, <1>7, <1>8, <1>9, <1>10, ServeStep

LEMMA LookupKeeps ==
  ASSUME IInv, NEW c \in Callers, ServeLookup(c)
  PROVE  IInv'
<1>1. PICK r \in Calls : r = call[c] /\ r.phase = "lookup"
  BY Typed DEF ServeLookup
<1>2. PICK a \in Calls : a = [r EXCEPT !.phase = "looked up"]
  BY DEF Calls
<1>3. a.phase = "looked up" /\ a.op = r.op /\ a.name = r.name /\ a.key = r.key /\ a.id = r.id
  BY <1>2 DEF Calls
<1>4. call' = [call EXCEPT ![c] = a] /\ UNCHANGED <<config, account, groupId, held, sample, faults>>
  BY <1>1, <1>2 DEF ServeLookup
<1>5. Requested(r) /\ r.op = "createScopedToken"
  BY <1>1 DEF IInv, Requested
<1>6. Requested(a)'
  BY <1>1, <1>3, <1>5 DEF Requested
<1>7. ServedTruly(a)' /\ ToldOf(a)'
  BY <1>3 DEF ServedTruly, ToldOf
<1>8. AccountType' /\ AccountInv' /\ Forward
  BY <1>4, Typed, Unchanging DEF AccountType, account
<1> QED
  BY <1>4, <1>6, <1>7, <1>8, CallStep

LEMMA TokenKeeps ==
  ASSUME IInv, NEW c \in Callers, ServeToken(c)
  PROVE  IInv'
<1>1. PICK r \in Calls : r = call[c] /\ r.phase = "asking" /\ r.op = "createScopedToken"
  BY Typed DEF ServeToken, Asking
<1>2. PICK id \in Credentials :
        /\ token[id].phase = "unminted"
        /\ token' = [token EXCEPT ![id] = [phase |-> "live", names |-> r.names, scope |-> Scope(r.names)]]
        /\ call' = [call EXCEPT ![c] = [@ EXCEPT !.phase = "served", !.reply = "ok", !.id = id, !.there = TRUE]]
  BY <1>1 DEF ServeToken
<1>3. UNCHANGED <<config, bucket, public, groupId, held, sample, faults>>
  BY DEF ServeToken
<1>4. Requested(r) /\ r.names \subseteq Names /\ groupId
  BY <1>1 DEF IInv, Requested, Calls
<1>5. [r EXCEPT !.phase = "served", !.reply = "ok", !.id = id, !.there = TRUE] \in Calls
  <2>1. ASSUME NEW x \in Calls PROVE [x EXCEPT !.phase = "served"] \in Calls
    BY ZenonT(60) DEF Calls
  <2>2. ASSUME NEW x \in Calls PROVE [x EXCEPT !.reply = "ok"] \in Calls
    BY ZenonT(60) DEF Calls
  <2>3. ASSUME NEW x \in Calls PROVE [x EXCEPT !.id = id] \in Calls
    BY ZenonT(60) DEF Calls
  <2>4. ASSUME NEW x \in Calls PROVE [x EXCEPT !.there = TRUE] \in Calls
    BY ZenonT(60) DEF Calls
  <2> QED
    BY <2>1, <2>2, <2>3, <2>4
<1>6. PICK a \in Calls : a = [r EXCEPT !.phase = "served", !.reply = "ok", !.id = id, !.there = TRUE]
  BY <1>5
<1>7. a.phase = "served" /\ a.op = r.op /\ a.name = r.name /\ a.key = r.key /\ a.id = id /\ a.reply = "ok"
  BY <1>6 DEF Calls
<1>8. call' = [call EXCEPT ![c] = a]
  BY <1>1, <1>2, <1>6
<1> DEFINE minted == [phase |-> "live", names |-> r.names, scope |-> Scope(r.names)]
<1>9. /\ minted \in [phase : {"unminted", "live", "revoked"}, names : SUBSET Names, scope : SUBSET Buckets]
      /\ minted.phase = "live" /\ minted.scope = Scope(minted.names)
  BY <1>4, Typed DEF Scope, Buckets
<1>10. token' = [token EXCEPT ![id] = minted]
  BY <1>2
<1> HIDE DEF minted
<1>11. token'[id] = minted /\ \A other \in Credentials \ {id} : token'[other] = token[other]
  BY <1>10, Typed DEF AccountType
<1>12. AccountType'
  BY <1>3, <1>9, <1>10, Typed DEF AccountType
<1>13. Forward
  BY <1>2, <1>3, <1>9, <1>11 DEF Forward, Minted
<1>14. AccountInv'
  <2>1. ASSUME NEW other \in Credentials, Minted(other)'
        PROVE  groupId' /\ token'[other].scope = token'[other].names \X {config'.jurisdiction}
    <3>1. CASE other = id
      BY <1>3, <1>4, <1>9, <1>11, <3>1 DEF Scope
    <3>2. CASE other # id
      BY <1>3, <1>4, <1>11, <2>1, <3>2 DEF IInv, AccountInv, Minted, Scope
    <3> QED
      BY <3>1, <3>2
  <2>2. \A other \in held' : Minted(other)'
    BY <1>3, <1>13, Typed DEF IInv, AccountInv, Forward, AccountType
  <2> QED
    BY <1>3, <2>1, <2>2 DEF IInv, AccountInv, Exists, Scope
<1>15. Requested(a)'
  BY <1>1, <1>4, <1>7 DEF Requested, ObjectOps, Ops
<1>16. ServedTruly(a)' /\ ToldOf(a)'
  BY <1>1, <1>7, <1>9, <1>11 DEF ServedTruly, ToldOf, Minted
<1> QED
  BY <1>3, <1>8, <1>12, <1>13, <1>14, <1>15, <1>16, CallStep

LEMMA RevokeKeeps ==
  ASSUME IInv, NEW c \in Callers, ServeRevoke(c)
  PROVE  IInv'
<1>1. PICK r \in Calls : r = call[c] /\ r.phase = "asking" /\ r.op = "deleteCredential"
  BY Typed DEF ServeRevoke, Asking
<1> DEFINE live == token[r.id].phase = "live"
<1>2. PICK reply \in Replies, there \in BOOLEAN : reply = (IF live THEN "ok" ELSE "not found") /\ there = FALSE
  BY DEF Replies
<1>3. /\ Serve(c, reply, there) /\ UNCHANGED <<bucket, public>>
      /\ token' = IF live THEN [token EXCEPT ![r.id].phase = "revoked"] ELSE token
  BY <1>1, <1>2 DEF ServeRevoke
<1>4. UNCHANGED <<config, groupId, held, sample, faults>>
  BY <1>3 DEF Serve
<1>5. Requested(r) /\ r.id \in held /\ r.id \in Credentials
  BY <1>1, Typed DEF IInv, Requested, AccountType
<1>6. \A id \in Credentials :
        /\ token'[id].names = token[id].names /\ token'[id].scope = token[id].scope
        /\ token'[id].phase = IF live /\ id = r.id THEN "revoked" ELSE token[id].phase
  BY <1>3, <1>5, Typed DEF AccountType
<1>7. AccountType'
  BY <1>3, <1>4, <1>5, Typed DEF AccountType
<1>8. Forward
  BY <1>4, <1>6 DEF Forward, Minted
<1>9. AccountInv'
  <2>1. \A id \in Credentials : Minted(id)' => Minted(id)
    BY <1>6 DEF Minted
  <2>2. \A id \in held' : Minted(id)'
    BY <1>4, <1>8, Typed DEF IInv, AccountInv, Forward, AccountType
  <2> QED
    BY <1>3, <1>4, <1>6, <2>1, <2>2 DEF IInv, AccountInv, Exists, Scope
<1>10. PICK a \in Calls : a = Answered(r, reply, there)
  BY AnsweredType
<1>11. ServedTruly(a)'
  <2>1. a.reply = reply /\ a.op = r.op /\ a.id = r.id
    BY <1>10, AnsweredType
  <2> QED
    BY <1>1, <1>2, <1>5, <1>6, <2>1 DEF ServedTruly
<1> QED
  BY <1>1, <1>3, <1>7, <1>8, <1>9, <1>10, <1>11, ServeStep

LEMMA UsageKeeps ==
  ASSUME IInv, NEW c \in Callers, ServeUsage(c)
  PROVE  IInv'
<1>1. PICK r \in Calls : r = call[c] /\ r.phase = "asking" /\ r.op = "getBucketUsage"
  BY Typed DEF ServeUsage, Asking
<1>2. Requested(r) /\ r.name \in Names
  BY <1>1 DEF IInv, Requested, ObjectOps
<1> DEFINE newest == sample[r.name]
<1>3. newest \in 0..Cardinality(Keys) \cup {Absent} /\ 0 \in 0..Cardinality(Keys)
  BY <1>2, StorageAssumption, FS_CardinalityType, Typed DEF AccountType
<1>4. PICK reply \in {"ok", "none"}, n \in 0..Cardinality(Keys) :
        /\ reply = IF newest = Absent THEN "none" ELSE "ok"
        /\ n = IF newest = Absent THEN 0 ELSE newest
  BY <1>3
<1>5. /\ call' = [call EXCEPT ![c] = [r EXCEPT !.phase = "served", !.reply = reply, !.sample = n]]
      /\ UNCHANGED <<config, account, groupId, held, sample, faults>>
  BY <1>1, <1>4 DEF ServeUsage
<1>6. [r EXCEPT !.phase = "served", !.reply = reply, !.sample = n] \in Calls
  <2>1. ASSUME NEW x \in Calls PROVE [x EXCEPT !.phase = "served"] \in Calls
    BY ZenonT(60) DEF Calls
  <2>2. ASSUME NEW x \in Calls PROVE [x EXCEPT !.reply = reply] \in Calls
    BY ZenonT(60) DEF Calls
  <2>3. ASSUME NEW x \in Calls PROVE [x EXCEPT !.sample = n] \in Calls
    BY ZenonT(60) DEF Calls
  <2> QED
    BY <2>1, <2>2, <2>3
<1>7. PICK a \in Calls : a = [r EXCEPT !.phase = "served", !.reply = reply, !.sample = n]
  BY <1>6
<1>8. /\ a.phase = "served" /\ a.op = r.op /\ a.name = r.name /\ a.key = r.key /\ a.id = r.id
      /\ a.reply = reply /\ a.sample = n
  BY <1>7 DEF Calls
<1>9. call' = [call EXCEPT ![c] = a]
  BY <1>5, <1>7
<1>10. AccountType' /\ AccountInv' /\ Forward
  BY <1>5, Typed, Unchanging DEF AccountType, account
<1>11. Requested(a)'
  BY <1>1, <1>2, <1>8 DEF Requested, ObjectOps
<1>12. ServedTruly(a)' /\ ToldOf(a)'
  BY <1>1, <1>4, <1>8 DEF ServedTruly, ToldOf
<1> QED
  BY <1>5, <1>9, <1>10, <1>11, <1>12, CallStep

LEMMA ErrorKeeps ==
  ASSUME IInv, NEW c \in Callers, ServeError(c)
  PROVE  IInv'
<1>1. PICK r \in Calls : r = call[c] /\ r.phase \in {"lookup", "asking"}
  BY Typed DEF ServeError
<1>2. /\ call' = [call EXCEPT ![c] = [r EXCEPT !.phase = "served", !.reply = "error"]]
      /\ faults' = faults + 1 /\ faults < MaxFaults /\ UNCHANGED <<config, account, groupId, held, sample>>
  BY <1>1 DEF ServeError
<1>3. [r EXCEPT !.phase = "served", !.reply = "error"] \in Calls
  <2>1. ASSUME NEW x \in Calls PROVE [x EXCEPT !.phase = "served"] \in Calls
    BY ZenonT(60) DEF Calls
  <2>2. ASSUME NEW x \in Calls PROVE [x EXCEPT !.reply = "error"] \in Calls
    BY ZenonT(60) DEF Calls
  <2> QED
    BY <2>1, <2>2
<1>4. PICK a \in Calls : a = [r EXCEPT !.phase = "served", !.reply = "error"]
  BY <1>3
<1>5. /\ a.phase = "served" /\ a.op = r.op /\ a.name = r.name /\ a.key = r.key /\ a.id = r.id /\ a.reply = "error"
  BY <1>4 DEF Calls
<1>6. call' = [call EXCEPT ![c] = a]
  BY <1>2, <1>4
<1>7. AccountType' /\ AccountInv' /\ Forward
  BY <1>2, StorageAssumption, Typed, Unchanging DEF AccountType, account
<1>8. Requested(a)'
  <2>1. Requested(r)
    BY <1>1 DEF IInv
  <2> QED
    BY <1>1, <1>2, <1>5, <2>1 DEF Requested, Fallback, RequireBucket, ObjectOps, Ops
<1>9. ServedTruly(a)' /\ ToldOf(a)'
  BY <1>5 DEF ServedTruly, ToldOf
<1> QED
  BY <1>2, <1>6, <1>7, <1>8, <1>9, CallStep

LEMMA SampleKeeps ==
  ASSUME IInv, NEW n \in Names, Sample(n)
  PROVE  IInv'
<1>1. UNCHANGED <<config, bucket, public, token, groupId, held, faults, call>>
  BY DEF Sample, account
<1>2. sample' \in [Names -> 0..Cardinality(Keys) \cup {Absent}]
  <2> DEFINE b == Created(n)
  <2>1. b \in Buckets
    BY Typed DEF Created, Buckets
  <2>2. ASSUME Exists(b) PROVE Cardinality(bucket[b]) \in 0..Cardinality(Keys)
    <3>1. bucket[b] \subseteq Keys
      BY <2>1, <2>2, Typed DEF AccountType, Exists
    <3> QED
      BY <3>1, StorageAssumption, FS_Subset, FS_CardinalityType
  <2> QED
    BY <2>2, Typed DEF AccountType, Sample
<1>3. TypeOK'
  BY <1>1, <1>2 DEF IInv, TypeOK
<1> QED
  BY <1>1, <1>3 DEF IInv, AccountInv, Exists, Minted, Scope, Requested, Fallback, ServedTruly, Reconciles, ToldTruth, Ended

-----------------------------------------------------------------------------
(* The callers hear of it, or do not.                                      *)

LEMMA ReceiveKeeps ==
  ASSUME IInv, NEW c \in Callers, Receive(c)
  PROVE  IInv'
<1>1. PICK r \in Calls : r = call[c] /\ r.phase = "served"
  BY Typed DEF Receive
<1>2. PICK outcome \in {"resolved", "rejected"} : outcome = Outcome(r)
  BY DEF Outcome
<1>3. PICK usage \in 0..Cardinality(Keys) \cup {Absent} : usage = IF r.op = "getBucketUsage" THEN Usage(r) ELSE Absent
  <2>1. r.sample \in 0..Cardinality(Keys)
    BY DEF Calls
  <2>2. 0 \in 0..Cardinality(Keys)
    BY StorageAssumption, FS_CardinalityType
  <2> QED
    BY <2>1, <2>2 DEF Usage
<1>4. /\ call' = [call EXCEPT ![c] = [r EXCEPT !.phase = "idle", !.outcome = outcome, !.usage = usage]]
      /\ held' = IF r.op = "createScopedToken" /\ outcome = "resolved" THEN held \cup {r.id} ELSE held
      /\ UNCHANGED <<config, account, groupId, sample, faults>>
  BY <1>1, <1>2, <1>3 DEF Receive
<1>5. [r EXCEPT !.phase = "idle", !.outcome = outcome, !.usage = usage] \in Calls
  <2>1. ASSUME NEW x \in Calls PROVE [x EXCEPT !.phase = "idle"] \in Calls
    BY ZenonT(60) DEF Calls
  <2>2. ASSUME NEW x \in Calls PROVE [x EXCEPT !.outcome = outcome] \in Calls
    BY ZenonT(60) DEF Calls
  <2>3. ASSUME NEW x \in Calls PROVE [x EXCEPT !.usage = usage] \in Calls
    BY ZenonT(60) DEF Calls
  <2> QED
    BY <2>1, <2>2, <2>3
<1>6. PICK a \in Calls : a = [r EXCEPT !.phase = "idle", !.outcome = outcome, !.usage = usage]
  BY <1>5
<1>7. /\ a.phase = "idle" /\ a.op = r.op /\ a.name = r.name /\ a.key = r.key /\ a.id = r.id
      /\ a.reply = r.reply /\ a.sample = r.sample /\ (a.there <=> r.there)
      /\ a.outcome = outcome /\ a.usage = usage
  BY <1>6 DEF Calls
<1>8. call' = [call EXCEPT ![c] = a]
  BY <1>4, <1>6
<1>9. Requested(r) /\ ServedTruly(r)
  BY <1>1 DEF IInv
<1>10. r.op = "createScopedToken" /\ outcome = "resolved" => r.id \in Credentials /\ Minted(r.id)
  BY <1>1, <1>2, <1>9 DEF ServedTruly, Outcome, Accepts
<1>11. AccountType'
  BY <1>4, <1>10, Typed DEF AccountType, account
<1>12. AccountInv' /\ Forward
  BY <1>4, <1>10 DEF IInv, AccountInv, Forward, Minted, Exists, Scope, account
<1>13. Requested(a)'
  BY <1>4, <1>7, <1>9 DEF Requested
<1>14. ServedTruly(a)'
  BY <1>7 DEF ServedTruly
<1>15. ToldOf(a)'
  <2>1. a.op = "createBucket" /\ a.outcome = "rejected" => a.reply \in {"lost", "error"}
    BY <1>1, <1>2, <1>7, <1>9 DEF Outcome, Accepts, ServedTruly
  <2>2. a.op = "deleteBucket" /\ a.outcome = "rejected" => a.reply \in {"lost", "error", "not empty"}
    BY <1>1, <1>2, <1>7, <1>9 DEF Outcome, Accepts, ServedTruly
  <2>3. a.op = "createBucket" /\ a.outcome = "resolved" => a.there
    BY <1>1, <1>2, <1>7, <1>9 DEF Outcome, Accepts, ServedTruly
  <2>4. a.op = "deleteBucket" /\ a.outcome = "resolved" /\ config.jurisdiction = "default" => ~a.there
    BY <1>1, <1>2, <1>7, <1>9 DEF Outcome, Accepts, ServedTruly
  <2>5. a.op = "deleteCredential" /\ a.outcome = "resolved" => token[a.id].phase = "revoked"
    BY <1>1, <1>2, <1>7, <1>9 DEF Outcome, Accepts, ServedTruly
  <2>6. a.op = "getBucketUsage" /\ a.outcome = "resolved" /\ a.usage = 0 => a.reply # "error" /\ a.sample = 0
    BY <1>1, <1>2, <1>3, <1>7, <1>9 DEF Outcome, Usage, ServedTruly
  <2>7. config' = config /\ token' = token
    BY <1>4 DEF account
  <2>8. ToldOf(a)
    BY <2>1, <2>2, <2>3, <2>4, <2>5, <2>6, Zenon DEF ToldOf
  <2> QED
    BY <2>7, <2>8 DEF ToldOf
<1> QED
  BY <1>4, <1>8, <1>11, <1>12, <1>13, <1>14, <1>15, CallStep

LEMMA ReceiveGroupKeeps ==
  ASSUME IInv, NEW c \in Callers, ReceiveGroup(c)
  PROVE  IInv'
<1>1. PICK r \in Calls : r = call[c] /\ r.phase = "looked up"
  BY Typed DEF ReceiveGroup
<1>2. PICK a \in Calls : a = [r EXCEPT !.phase = "asking"]
  BY DEF Calls
<1>3. a.phase = "asking" /\ a.op = r.op /\ a.name = r.name /\ a.key = r.key /\ a.id = r.id
  BY <1>2 DEF Calls
<1>4. call' = [call EXCEPT ![c] = a] /\ groupId' = TRUE /\ UNCHANGED <<config, account, held, sample, faults>>
  BY <1>1, <1>2 DEF ReceiveGroup
<1>5. Requested(r) /\ r.op = "createScopedToken"
  BY <1>1 DEF IInv, Requested
<1>6. Requested(a)'
  BY <1>3, <1>4, <1>5 DEF Requested, ObjectOps, Ops
<1>7. ServedTruly(a)' /\ ToldOf(a)'
  BY <1>3 DEF ServedTruly, ToldOf
<1>8. AccountType' /\ AccountInv' /\ Forward
  BY <1>4, Typed DEF IInv, AccountInv, Forward, Minted, Exists, Scope, AccountType, account
<1> QED
  BY <1>4, <1>6, <1>7, <1>8, CallStep

LEMMA LoseKeeps ==
  ASSUME IInv, NEW c \in Callers, Lose(c)
  PROVE  IInv'
<1>1. PICK r \in Calls : r = call[c]
  BY Typed
<1>2. /\ call' = [call EXCEPT ![c] = [r EXCEPT !.phase = "idle", !.reply = "lost", !.outcome = "rejected"]]
      /\ faults' = faults + 1 /\ faults < MaxFaults /\ UNCHANGED <<config, account, groupId, held, sample>>
  BY <1>1 DEF Lose
<1>3. [r EXCEPT !.phase = "idle", !.reply = "lost", !.outcome = "rejected"] \in Calls
  <2>1. ASSUME NEW x \in Calls PROVE [x EXCEPT !.phase = "idle"] \in Calls
    BY ZenonT(60) DEF Calls
  <2>2. ASSUME NEW x \in Calls PROVE [x EXCEPT !.reply = "lost"] \in Calls
    BY ZenonT(60) DEF Calls
  <2>3. ASSUME NEW x \in Calls PROVE [x EXCEPT !.outcome = "rejected"] \in Calls
    BY ZenonT(60) DEF Calls
  <2> QED
    BY <2>1, <2>2, <2>3
<1>4. PICK a \in Calls : a = [r EXCEPT !.phase = "idle", !.reply = "lost", !.outcome = "rejected"]
  BY <1>3
<1>5. a.phase = "idle" /\ a.op = r.op /\ a.id = r.id /\ a.reply = "lost" /\ a.outcome = "rejected"
  BY <1>4 DEF Calls
<1>6. call' = [call EXCEPT ![c] = a]
  BY <1>2, <1>4
<1>7. AccountType' /\ AccountInv' /\ Forward
  BY <1>2, StorageAssumption, Typed, Unchanging DEF AccountType, account
<1>8. Requested(a)'
  BY <1>1, <1>2, <1>5 DEF IInv, Requested
<1>9. ServedTruly(a)' /\ ToldOf(a)'
  BY <1>5 DEF ServedTruly, ToldOf
<1> QED
  BY <1>2, <1>6, <1>7, <1>8, <1>9, CallStep

-----------------------------------------------------------------------------
(* The theorems.                                                           *)

LEMMA InitHolds == Init => IInv
<1> SUFFICES ASSUME Init PROVE IInv
  OBVIOUS
<1>1. NoCall \in Calls /\ NoCall.phase = "idle" /\ NoCall.op = "none"
  <2>1. 0 \in 0..Cardinality(Keys)
    BY StorageAssumption, FS_CardinalityType
  <2> QED
    BY <2>1 DEF NoCall, Asked, Calls
<1>2. NoToken \in [phase : {"unminted", "live", "revoked"}, names : SUBSET Names, scope : SUBSET Buckets]
      /\ NoToken.phase = "unminted"
  BY DEF NoToken
<1>3. TypeOK
  <2>1. bucket \in [Buckets -> (SUBSET Keys) \cup {Absent}] /\ sample \in [Names -> 0..Cardinality(Keys) \cup {Absent}]
    BY DEF Init
  <2>2. token \in [Credentials -> [phase : {"unminted", "live", "revoked"}, names : SUBSET Names, scope : SUBSET Buckets]]
    BY <1>2 DEF Init
  <2>3. call \in [Callers -> Calls]
    BY <1>1 DEF Init
  <2>4. faults \in 0..MaxFaults /\ config \in Configs /\ public = {} /\ groupId = FALSE /\ held = {}
    BY StorageAssumption DEF Init
  <2> QED
    BY <2>1, <2>2, <2>3, <2>4 DEF TypeOK
<1>4. AccountInv
  BY <1>2 DEF Init, AccountInv, Exists, Minted
<1>5. \A c \in Callers : call[c] = NoCall
  BY DEF Init
<1>6. \A c \in Callers : Requested(call[c]) /\ ServedTruly(call[c]) /\ ToldOf(call[c])
  BY <1>1, <1>5 DEF Requested, ServedTruly, ToldOf
<1> QED
  BY <1>3, <1>4, <1>6, TellsPerCall DEF IInv

\* Every request served, answered or lost preserves the invariant.
THEOREM Inductive == Spec => []IInv
<1>1. IInv /\ [Next]_vars => IInv'
  <2> SUFFICES ASSUME IInv, [Next]_vars PROVE IInv'
    OBVIOUS
  <2>1. ASSUME NEW c \in Callers, Asks(c) PROVE IInv'
    <3>1. PICK op \in config.ops, n \in Names \cup {Absent}, ns \in SUBSET Names, k \in Keys \cup {Absent},
               id \in held \cup {Absent} :
            Start(c, op, n, ns, k, id)
      BY <2>1 DEF Asks
    <3>2. op \in Ops
      BY Typed
    <3> QED
      BY <3>1, <3>2, StartKeeps
  <2>2. ASSUME NEW c \in Callers, Served(c) PROVE IInv'
    BY <2>2, CreateBucketKeeps, DeleteBucketKeeps, PublicAccessKeeps, LookupKeeps, TokenKeeps, RevokeKeeps, ObjectKeeps,
       UsageKeeps, ErrorKeeps DEF Served
  <2>3. ASSUME NEW c \in Callers, Receive(c) \/ ReceiveGroup(c) \/ Lose(c) PROVE IInv'
    BY <2>3, ReceiveKeeps, ReceiveGroupKeeps, LoseKeeps
  <2>4. ASSUME NEW n \in Names, Sample(n) PROVE IInv'
    BY <2>4, SampleKeeps
  <2>5. CASE UNCHANGED vars
    BY <2>5 DEF vars, IInv, TypeOK, AccountInv, Exists, Minted, Scope, Requested, Fallback, ServedTruly, Reconciles, ToldTruth, Ended
  <2> QED
    BY <2>1, <2>2, <2>3, <2>4, <2>5 DEF Next
<1> QED
  BY <1>1, InitHolds, PTL DEF Spec

\* The variables keep their types.
THEOREM TypeCorrect == Spec => []TypeOK
<1>1. IInv => TypeOK
  BY DEF IInv
<1> QED
  BY <1>1, Inductive, PTL

\* Creating a bucket and deleting an empty one can be repeated by anybody at any
\* time (createBucket, deleteBucket).
THEOREM Retries == Spec => []Reconciles
<1>1. IInv => Reconciles
  BY DEF IInv
<1> QED
  BY <1>1, Inductive, PTL

\* A call that resolves says what was so when the account served it, for the calls
\* ToldTruth names: not for deleteBucket where the jurisdiction is not the default
\* one.  There it asks about another bucket, and resolves while the bucket it was
\* to delete is still there.
THEOREM Truthful == Spec => []ToldTruth
<1>1. IInv => ToldTruth
  BY DEF IInv
<1> QED
  BY <1>1, Inductive, PTL

\* A credential opens exactly the buckets of its names, in the jurisdiction in
\* which the provisioner creates buckets (createScopedToken).
THEOREM Fitting == Spec => []CredentialFits
<1>1. IInv => CredentialFits
  <2> SUFFICES ASSUME IInv, NEW id \in held, NEW b \in Buckets, Exists(b)
               PROVE  b \in token[id].scope <=> b[1] \in token[id].names
    BY DEF CredentialFits
  <2>1. b[2] = config.jurisdiction /\ token[id].scope = token[id].names \X {config.jurisdiction}
    BY Typed DEF IInv, AccountInv, AccountType, Scope
  <2> QED
    BY <2>1 DEF Buckets
<1> QED
  BY <1>1, Inductive, PTL

\* No object of another bucket than the one named or configured is ever written
\* or removed (R2StorageProvider.requireBucket).
THEOREM WritesInPlace == Spec => WritesWhereTold
<1> DEFINE InPlace == \A b \in Buckets : Exists(b) /\ bucket'[b] # bucket[b] /\ bucket'[b] # Absent
      => \E c \in Callers : /\ call[c].phase = "asking" /\ call'[c].phase = "served"
                            /\ IF call[c].name # Absent THEN call[c].name = b[1] ELSE Fallback(call[c].op) = b[1]
<1>1. IInv /\ [Next]_vars => [InPlace]_vars
  <2> SUFFICES ASSUME IInv, Next PROVE InPlace
    BY DEF vars
  <2>1. ASSUME NEW c \in Callers, ServeObject(c) PROVE InPlace
    <3> DEFINE b == Addressed(RequireBucket(call[c].name, Fallback(call[c].op)))
    <3>1. \A x \in Buckets : bucket'[x] # bucket[x] => x = b
      BY <2>1, Typed DEF ServeObject, AccountType
    <3>2. b[1] = RequireBucket(call[c].name, Fallback(call[c].op))
      BY DEF Addressed
    <3>3. call[c].phase = "asking" /\ call'[c].phase = "served"
      BY <2>1, Typed DEF ServeObject, Serve, IInv, TypeOK, Calls
    <3> QED
      BY <3>1, <3>2, <3>3 DEF RequireBucket
  <2>2. ASSUME NEW c \in Callers, ServeCreateBucket(c) PROVE InPlace
    BY <2>2, Typed DEF ServeCreateBucket, AccountType, Exists
  <2>3. ASSUME NEW c \in Callers, ServeDeleteBucket(c) PROVE InPlace
    BY <2>3, Typed DEF ServeDeleteBucket, AccountType
  <2>4. CASE UNCHANGED bucket
    BY <2>4
  <2>5. ASSUME NEW c \in Callers, Served(c)
        PROVE  ServeObject(c) \/ ServeCreateBucket(c) \/ ServeDeleteBucket(c) \/ UNCHANGED bucket
    BY <2>5 DEF Served, ServePublicAccess, ServeLookup, ServeToken, ServeRevoke, ServeUsage, ServeError, account
  <2>6. ASSUME NEW c \in Callers, Asks(c) \/ Receive(c) \/ ReceiveGroup(c) \/ Lose(c) PROVE UNCHANGED bucket
    BY <2>6 DEF Asks, Start, Receive, ReceiveGroup, Lose, account
  <2>7. ASSUME NEW n \in Names, Sample(n) PROVE UNCHANGED bucket
    BY <2>7 DEF Sample, account
  <2> HIDE DEF InPlace
  <2> QED
    BY <2>1, <2>2, <2>3, <2>4, <2>5, <2>6, <2>7 DEF Next
<1> QED
  BY <1>1, Inductive, PTL DEF Spec, WritesWhereTold
=============================================================================
