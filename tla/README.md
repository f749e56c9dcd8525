# A verification project for api-sdk

`@vritti/api-sdk` is a library of NestJS building blocks: a PostgreSQL layer with
row-level security (RLS), repositories with keyset pagination, a cache, saved
data-table views, a catalog of features and permissions, authentication, NATS
clients, exception filters, a logger, object storage, signing, money. This
directory models what in it is more than one call of a third-party library in
TLA+, checks small instances with TLC and proves the most important properties
for every instance with TLAPS.

Paths below are relative to `src/src/`.

## 1. Inventory

| Component | State | Operations | Talks to | What makes it correct |
|---|---|---|---|---|
| Primary database and pool (`database/services`) | the pg pool; two AsyncLocalStorages, the RLS context and the pinned transaction of each call chain; the sessions of the server | `query`, `runInTransaction` (nested: savepoints), `runWithRlsContext`, `onModuleDestroy` | PostgreSQL through pg-pool and Drizzle; every repository | a connection returns clean; every write is made under its own flow's context; transactions are all or nothing; callers are told the truth; nobody waits for ever |
| Base repository (`database/repositories`) | none: the table | create, find, update, delete, list, count, keyset and select queries, sequences, `transaction` | primary database | a page and its count agree; keyset pages neither skip nor repeat |
| Keyset, cursor, filter (`database/filter`) | none; the cursor is state held by the client | build a page condition, encode and decode a cursor, build filters and sorts | base repository | the pages of a fixed table are the table in order, NULLs and ties included; a cursor fits its sort |
| Data-table views (`data-table/views`) | table of views; two cache pools | find, create, update, share, rename, delete | repository, cache service | what was private reaches nobody else; the cache agrees with the table; a taken name is told; concurrent edits do not lose each other |
| Live table state (`data-table/state`) | one cache key per user and table | upsert, get | cache service | last write wins; a miss reads as the empty state |
| Cache (`cache`) | LRU map, or Redis | get, set with TTL, del, scanKeys | Redis | failures are misses, never errors; entries expire |
| Permission prerequisites (`catalog-resolver/permission-deps.ts`) | per call: visiting set, remembered codes | closure, cascade of locks, filter of grants | catalog builder, feature and site resolvers | agrees with the transitive closure, cycles included; terminates |
| Catalog resolution (`catalog-resolver`) | none | compose role grants, build the catalog, resolve a user's features, build the site matrix | permission prerequisites | revocations win; a user gets a feature only through a role, a plan and a site that all have it |
| Authentication (`auth`) | tokens held by the client; the request | guard decision, sign and verify tokens, token binding, CSRF hook | request service, context registry | a guarded route runs only for a valid, bound, admitted session; rotation does not lock out a live session |
| Request service, contexts (`request`, `context`) | the current request | read tokens, headers, session; select the extractor of a transport | guard, filters, NATS | the right request for each transport |
| NATS (`nats`) | the context cached per request | send, with context headers | other services | the context survives every hop |
| Exception filters (`filters`, `exceptions`) | none | classify and render one error for HTTP, GraphQL, RPC | all | one error is one status and problem whatever the transport and the number of hops |
| Logger, correlation (`logger`) | AsyncLocalStorage with the correlation id | middleware, hook, log calls | all | every line carries the id its request was answered with |
| Storage (`storage`) | remote buckets and credentials | create bucket, mint and revoke credential, put, get, delete | Cloudflare | a credential opens what it was asked for; retries are harmless; a success is true |
| Signing, licence (`signing`, `license`) | none | canonical text, sign, verify, hash | callers | the signature covers every field; the clock window |
| Money (`money`) | none | parse, round, add, allocate | callers | nothing is lost in an allocation; rounding is what it says |
| Email, migrations, utilities, decorators, DTOs, tables of countries and icons | none | | | not a matter for a model checker |

How they interact: a request enters through the guard, which fills the request
context; a handler runs inside `runWithRlsContext`; repositories take
`drizzleClient` from the database service, which answers with the pinned
transaction or with the pool; services above put a cache beside a repository or
send a message on. Errors leave through a filter.

What is hard: everything between two awaits. Requests interleave on shared
connections, rows and cache keys; a pooled connection outlives the request that
used it; any round trip may fail with or without its effect; the cache is
updated after the database and not with it; and the recursive walks over
permissions keep provisional answers while they are inside a cycle.
`PROJECT.json` lists the hazards one by one, at the lines where they bite.

## 2. Modules

| Module | Models |
|---|---|
| `UnitsOfWork` | what the database layer promises: units of work under one RLS context, nested, all or nothing. No connection and no session |
| `PrimaryDatabase` | `PrimaryDatabaseService` and `RlsAwarePool`, one action per round trip, with the server sessions behind the pool; refines `UnitsOfWork` |
| `TableViews` | `DataTableViewsService` over the repository and the cache service, one action per await |
| `PermissionDeps` | the walks over permission prerequisites, call by call, and the closure they are compared with |
| `DepsWalk` | `filterGrantedByDeps` as a recursive function of the lists in one order, for the instance of `Catalog`: definitions only |
| `Keyset` | `KeysetProcessor` and `CursorCodec`: definitions only |
| `Repository` | the list operations of `PrimaryBaseRepository` over `Keyset`, one action per statement, among writes |
| `Catalog` | the four resolvers of `catalog-resolver` over documents that are edited independently |
| `SignedRequest` | `signing/request.ts`: definitions only |
| `AuthSession` | `VrittiAuthGuard`, `TokenService` and `RequestService`, with `SignedRequest`: tabs, rotations, apps, time |
| `ErrorPipeline` | the exception filters and the exceptions: definitions only |
| `Logger` | `LoggerModule` and `LoggerService`, which line reaches which output: definitions only |
| `Calls` | a request, its calls over NATS two services deep, its errors and log lines; composes `ErrorPipeline` and `Logger` with the NATS clients, the context headers, the correlation middleware and the HTTP interceptor |
| `ObjectStorage` | the R2 provisioner, provider and usage reader against an account |
| `MC...` | the instances, symmetry and constraints of the module of that name |
| `..._proof` | theorems about the module of that name |

`Calls` EXTENDS `ErrorPipeline` and `Logger`, `AuthSession` EXTENDS
`SignedRequest`, `Repository` EXTENDS `Keyset`, `MCCatalog` EXTENDS `Catalog` and
`DepsWalk`; `PrimaryDatabase` INSTANCEs `UnitsOfWork` under its refinement mapping.

### PrimaryDatabase

A *flow* is one asynchronous call chain; its AsyncLocalStorage values are
`store[r]` (the RLS context) and `depth[r] > 0` (a pinned transaction, and how
deep). Queries that a handler starts in parallel are separate flows. `pc[r]`
says at which await the flow is suspended:

    idle -> waiting -> statement                              (direct)
    idle -> waiting -> begin -> apply -> statement -> commit  (wrapped)
    idle -> waiting -> begin [-> apply] -> fn                 (transaction)

and `undo` is the catch block of either. `captured[r]` is the local `rls`, read
before the flow waits for a client. `session[c]` is the server's side of a pool
slot: transaction status, RLS setting and the uncommitted writes of each
savepoint level. A write remembers both the context its caller was in and the
setting the server saw, so isolation can be stated as their equality. `answer`
and `acked` say what the flow was told.

Every round trip may fail; a failure either aborts the transaction or breaks the
connection, and a broken COMMIT may or may not have been applied. A transaction
body may swallow the rejection of a statement, which is a choice of the caller
that the code has to live with: COMMIT of an aborted transaction is a rollback
that PostgreSQL reports without an error, and the answer is then called
`hollow`.

The bypasses of `RlsAwarePool.query` for callbacks, cursors and streams are not
modelled: nothing under `src/` uses them. PostgreSQL, pg-pool and Drizzle are
external and modelled as the code relies on them: SET LOCAL ends with its
transaction; `release(err)` evicts; Drizzle's `transaction` always returns its
client, also when BEGIN fails; the client Drizzle uses is found by
`runInTransaction`; requests to a pool that is ending are rejected, and those
already waiting are never answered (no connection timeout is configured).

### TableViews

A request is a record `task[p]` with its operation, arguments, the row it loaded
(`row`) and the await it is suspended at. `findViews` has two legs that run
independently. `CacheGet`, `CacheSet` and `Invalidate` may fail silently when
`Faults` is TRUE, and so may a query, with or without its effect. Views belong
to one table slug: keys and rows of different slugs never meet. `born`
holds the identifiers used so far, which PostgreSQL never draws again.
`undisturbed` is a history variable for a property; no guard reads it.

### PermissionDeps

The call stack of `check` is a variable; the answer of a call is `ret`; `marked`
is the set the function fills. `cascadeLocked` and `filterGrantedByDeps` are the
same walk with `some` or `every` and other early returns. The order of a list of
prerequisites is left open, so that a run covers every order. `Init` chooses
the function, a document's graph (codes another document names included, which
`buildDependsMap` drops) and the set of codes given.

### Keyset and Repository

`Keyset` has `buildAfter` with both of its forms (the row comparison for uniform
orders without NULLs, the OR expansion for the others), the cursor with the
signature of its sort, and, to compare with, the ORDER BY of PostgreSQL. SQL's
comparisons with NULL are never true. A timestamp is stored in units of which
`Precision` fit one value of a JavaScript Date, and the cursor keeps the Date.

`Repository` is one client that walks a list: it asks (`Init`, `AskNext`), the
statements of the request run one by one (`SelectPage`, `SelectGroups`,
`ListPage`, `ListCount`, `KeysetPage`), and `Respond` decides `hasMore`.
`findAllAndCount` starts its two statements together, so they run in any order;
`findForSelect` reads its groups after its options. Between any two statements
the table may be written, a group deleted, and between two pages the client may
change the filter or the sort. Rows that the sort leaves tied come in any order,
a new one for each statement. `FilterProcessor`'s SQL is the set of ids that the
client's filter lets through. The orders of one keyset walk that have the same
signature are the same order (`RepositoryAssumption`): the signature names columns
and directions, and the placement of NULLs is fixed per column of a table.
`stable` is what the walk matched when it started and nobody has touched since.

### Catalog

The state is the documents: the published version, the plan, the deny-list of a
site, the user's role and the provisioned services. The actions are edits by the
programs that store them; the resolvers are operators. A bucket of a document may
be absent, null or a set, and a document may be from before the API buckets were
split; the distinctions `composeRoleGrants`, `normalizeApiBuckets` and
`isSiteLockedOnPlatform` make are kept. A custom role is composed by the caller of
`resolveUserFeatures` (`composeRoleGrants` looks at today's buckets only, so that a
legacy `app` bucket of its parts is lost there); any other role is handed over as it
is stored, and it is `resolveUserFeatures` that normalises it (`RoleFeatures`).

Of the walks over prerequisites, `prereqClosure` and `cascadeLocked` compute the least
closed set whatever cycles there are (`PermissionDeps_proof`: `ClosureCorrect`,
`LockJustified`, `LockFinds`), and are represented by it. What `filterGrantedByDeps`
keeps in a cycle depends on the order of the lists, so it is a constant of the
module, `Filtered`, and `FilterAssumption` says of it what `PermissionDeps_proof`
shows of the walk: it keeps granted codes only, every one with all its
prerequisites (`FilterComplete`), and without a cycle no other
(`FilterSoundAcyclic`). The instance gives it the walk itself (`DepsWalk`), and
TLC checks the assumption against it for every graph over its permissions.
`DocumentsAssumption` says what a stored document is: a permission is a code, a plan and a
role have no deny-list, and null or undefined is none of these.

### SignedRequest and AuthSession

The guard runs from one await to the next: `CanActivate` takes one of its four
branches (app, public, event stream, session), `OnAuthenticated` and `VerifyApp`
are the hook's answers, `ValidateCsrf` and `CsrfAnswers` the plugin with
`reply.send` patched and restored, `RunHandler` and `Refuse` what comes after.
Tabs share one cookie jar and keep an access token each; the server may rotate
while a request is on its way, and a handler may mint from
`request.sessionInfo`. A request carries what its headers were when it was sent.
Signed requests are delayed, rewritten and repeated, and an app's clock drifts.
A JWT is its payload with its expiry; hashes and signatures are ideal. A
canonical string is the sequence of its lines, a labelled line a pair of label
and value; values are single lines, as those of an HTTP request are, and not
empty, which for the code is the same as absent. Tokens, contents and headers
are typed by `AuthAssumption`, which says also that the value for absence is none of them.

### ErrorPipeline, Logger and Calls

An error is what the filters ask of it: class, `status`, `statusCode`, the
SQLSTATE codes along its causes, and its body; a text is where it comes from
(the thrower, the fallback of its status or class, a generic sentence).
`HttpExceptionFilter`, `GraphqlFormatError` and `RpcProblemExceptionFilter` map
one to an answer, or to what a calling service catches. `IsThrowable` says what the
filters may take for granted: a status is a number, an `HttpException` has one, and
an `RpcException` carries a plain value. `Logger` merges an
application's options with the preset of its environment, key by key, undefined
left out, and tells which outputs a line of a level reaches for either provider.

In `Calls` a request arrives, makes calls side by side (`Send` up to the await of
the resolver, `Resolve`), service A handles, forwards to B with the headers that
`NatsMicroserviceClientService` sends, answers or throws (`Handle`, `Forward`,
`Backward`), and the gateway answers (`Throw`, `Answer`). Handlers may throw any
error of the scenario, swallow or rethrow. `cached` is the field of the
request-scoped service. Header values are the session they were resolved for.

`installed` says how an application has the correlation middleware: the Fastify hook
(`OnRequest`), the Nest middleware (`Use`), both or none, with or without
`includeInResponse`. Nest on Fastify hands middleware the raw response, on which
`addCorrelationIdToResponse` sets no header: only the hook answers with an id. With
both installed each draws an id; the header keeps the hook's, the lines have the
middleware's.

### ObjectStorage

A call is asked, served by the account at any later moment, and received; the
request, its answer, or both may be lost, or an error of the provider comes
back. The first credential of a provisioner takes two requests (`lookup`); a
credential is asked for a set of buckets. Only
`createBucket` and the scope of a credential carry the jurisdiction; everything
else addresses the default one. Reads of objects and signed URLs change nothing
and are left out.

## 3. Runs

| Run | Instance | Shows |
|---|---|---|
| `pool_reuse` | 1 connection, 2 tenants; 2 flows with 2 and 1 calls and 2 levels, or 1 flow with 5 calls and 3 levels | `PoolClean`, `TenantIsolation`, `HonestAnswers`, the refinement `ImplementsUnits`; `EveryCallReturns`, `PoolDrains` |
| `views` | 2 users, 1 view, 2 requests at a time, 2 mutations, failures; or 1 user, 2 views, 2 names, 3 mutations | `PrivateStaysPrivate`, `ExactWhenUndisturbed`, `CheckDecides` (a private rename nothing overlaps), `NoLostUpdate`, `EventuallyCoherent` |
| `views_stale` | 1 user, 1 view, 2 mutations | counterexample, section 5 |
| `dependency_walks` | every graph over 3 permissions and a foreign code, every given set | `ClosureExact`, `LockSound`, `LockComplete`, `FilterKeepsUsable`, `FilterExactAcyclic`, `Terminates` |
| `pages` | 3 ids, pages of at most 2, 1 or 2 writes; lookups, grouped lookups, lists, keyset walks by a nullable column, by three columns uniform and mixed | `AnswerAgrees` (page, total, groups and limit), `WalkExact`, `InOrder` (a cursor of another sort gets no page), `StableSeenOnce` |
| `keyset_times` | as `pages`, two stored timestamps per Date, no writes | counterexample, section 5 |
| `catalog` | 3 permissions, 2 features and one that no version has, 2 versions (one with a cycle of prerequisites), 2 plans or none, 3 roles, custom or stored as they are, 2 deny-lists, 2 services, one edit | `UsableInFull` (prerequisites, locks, and nothing withheld), `MatrixAgrees`, `UpgradeUnlocks`, `DenyOnlyTakes`, `ProvisionOnlyUnlocks` |
| `guard` | 2 tabs, 2 sessions of different types, 3 pairs; 1 app, 2 copies of a signed request; 6 deployments; 3 ticks; access tokens of 1 tick, refresh tokens of 2, window and drift of 1 | `OneSession`, `CsrfBeforeHandler`, `Answered`, `GuardDecides` (a live pair is accepted, an expired one is not), `SignatureDecides` (what is admitted is what was signed, and a fresh request is admitted) |
| `calls` | 2 requests with 2 calls and 1; or 1 request, 1 call and 24 kinds of error over both transports; or 1 request under 768 configurations of the logger | `ContextOfSession`, `AsThrown`, `TransportsAgree`, `LogTellsAnswer`, `LoggedAsConfigured` |
| `calls_message`, `calls_traffic` | the scenarios of `calls`; the default provider | counterexamples, section 5 |
| `storage` | 2 callers, 2 buckets, 1 object, 2 credentials for one bucket or both, 1 fault; 4 deployments: credentials at home, credentials and revocations in a foreign jurisdiction, objects in a bucket per tenant, one configured bucket and its usage | `Reconciles`, `ToldTruth`, `CredentialFits`, `WritesWhereTold` |

The type invariants and the inductive invariants (`TypeOK`, `IInv`, `WalkInv`,
`CompleteInv`, `Ledger`, `UndisturbedInv`, `ToldInv`, `SelectInv`, `ListInv`, `PageInv`,
`OffsetInv`, `KeysetInv`, `SignedInv`) were checked on these instances before they
were proved; the runs do not repeat what section 4 proves of them.

Why the bounds are enough. One connection forces every reuse to be a reuse by
somebody else, and two flows are what it takes for one to see what the other
left; a third flow or a second connection only adds copies of these meetings,
and the proofs cover every number. Three levels are a nested transaction inside a
nested one. Two requests in flight are enough for every race of a reader with a
writer or of two writers; two mutations let one create what the other changes,
and three let two views fight for a name. Three permissions contain the cycle of
two with an outside prerequisite, the cycle of three, and the diamond's shared
prerequisite. Three rows and pages of one and two rows have a first, a middle and
a last page, ties and NULLs on either side of a boundary. In the catalog every
combination of documents is a state before and after an edit, and the properties
relate one state or two; the second version has the cycle with an outside
prerequisite in which the filter keeps too much. The code knows one service
(`types.ts:96`); a feature that needs two is hypothetical, and is what it takes to
tell the last missing service from another. The clock of `guard` runs one tick
beyond window and drift, where a request must be refused. Two tabs and three pairs let a login of one tab and a
rotation fall between another tab's send and its guard. Two hops are where the
header set shrinks and where an error is filtered twice. One fault is enough to
lose either the request or its answer, after which another caller, or the same
one, tries again.

`pool_reuse`, `views` and `calls` each hold several instances, told apart by a
CONSTRAINT or by the scenario. A constraint cuts behaviours and can only hide
a violation: the instances are the states it lets through. For the liveness
properties it cuts no cycle, since calls and mutations are counted and what lies
behind the bound is not reached again. The symmetry of the runs with
liveness leaves out whatever a fairness condition or a liveness property names
one by one: flows and connections in `pool_reuse`, where only tenants are
interchangeable, and users in `views`, whose pools expire one by one; requests of
`views` are interchangeable because its fairness is about some request.

Deadlock is checked, except in `calls` (with its counterexamples) and in
`storage`, which stop when all requests are answered or no caller wants more.
Flows waiting on an ended pool are at rest (`AwaitExit`), and so are a walk
that has returned (`Finished`), a list that has ended (`Stop`), a guard without
requests (`Rest`) and documents that are no longer edited (`Settled`).

### Fairness

* `PrimaryDatabase`: weak fairness of the round trips and of the end of a
  transaction body: the server answers or the connection breaks, and a body is a
  finite piece of code. Strong fairness of being served, because pg-pool keeps
  its waiting callers in a first-in first-out queue: a flow for which a client is
  free again and again is not passed over for ever. Flows need not make calls,
  and the pool need not end.
* `TableViews`: weak fairness of the requests together (of all the database and
  cache calls awaited, some return: one request may hang as long as others go on)
  and of the expiry of each pool, which has a TTL (the configured one is positive).
  Requests need not arrive. `MaxWrites` bounds the mutations, so the property
  speaks of what follows the last one.
* `PermissionDeps`: weak fairness of the walk: it is synchronous code.

The other modules state no fairness and no liveness: a keyset walk may be
abandoned, a guard's hook and a remote service may never answer, and no timeout
in the code ends such a wait.

## 4. Proofs

Every invariant and every action property of the runs that hold, and the
refinement, is a theorem: for every value of the constants that the named
ASSUMEs admit, with no bound on flows, requests, rows, errors or documents.
What the runs then add is that the assumptions can be met, that the
definitions say what they should (each property is violated when the code is
changed), and liveness.

### PrimaryDatabase_proof

Under `ConstantsAssumption` alone (the values for "no context" and "no client" are
distinct from the others, the bounds are numbers).

`PoolClean` and `TenantIsolation` are not inductive by themselves: whether a
client returns clean depends on what its flow has done with it so far. `IInv`
therefore adds that no two flows hold one client (`OneOwner`), which kinds of
call can be at which await (`FlowInv`), and what the server has behind the client
of a flow at each await (`SessionInv`): nothing before BEGIN; an open transaction
without a setting before `applyRlsContext`; from then on a session that is dead
or whose setting is the captured context. Each action then either moves its flow
from one row of this table to the next or returns a fresh session to the pool.

`HonestAnswers` rests on `Ledger`: as long as the server has not ended the
transaction, what a flow was acknowledged is exactly what its session would
commit, level by level, and none of it is in the table. A flow is in doubt
(`lost`) only when its COMMIT broke.

`Refinement` maps a flow to a unit of work that is open from the moment its session
is under the right context until the server ends its transaction, with the
session's uncommitted writes as its own. Every step of a flow is one step of its
unit or a stutter: waiting, being served and the catch block stutter; a COMMIT
that PostgreSQL turns into a rollback, and one that broke unapplied, are the
unit's abort; one that broke after it was applied is its commit, though the
flow is told of an error.

### TableViews_proof

`PrivateStaysPrivate` says of every pool, cached or on its way, that its rows are as
its query selects them; what was read stays so however stale it gets, and keys keep
pools apart. `NoLostUpdate` needs that the user of a request owns the row it loaded
also when it writes it, awaits later (`OwnersMutate`). No owner ever changes, but a
row may be deleted in between, and its identifier must then not come back with
another owner: an identifier is drawn once (`born`), so that no creating request
meets a loaded one. `RequestInv` is what each operation carries at each await.

`CheckDecides` rests on `CheckedInv`: while nothing overlaps it, a rename that passed
the check finds its name still free when it writes. That the check and the index
then agree is a case analysis over private and shared views, and holds for private
ones only.

`ExactWhenUndisturbed` rests on `UndisturbedInv`: while no mutation has overlapped
another request, a mutation runs alone with the row as the table has it, readers
carry what the table holds, and a pool that is stale is one the running mutation
is about to drop. Any number of readers may overlap.

### PermissionDeps_proof

For every finite or infinite set of codes and every graph. `WalkInv` says of the
stack that a call is a transitive prerequisite of all calls below it (`Linked`),
of the lock walk that an answer on its way up is justified for the caller, of the
filter that a usable code is never answered no, and, when the graph is acyclic,
that what is remembered is closed: what `check` cut short can only be a code on
the stack, which is then its own prerequisite. `Prereqs` is defined as an
intersection of closed sets, so that the proofs need no induction over paths.

`LockComplete` is about the answers that are not remembered. The cycle guard
answers no for a code that is still on the stack, and callers take that for
an answer. `CompleteInv` says why nothing is lost: a no means that the code leads
to nothing directly locked *except through the codes on the stack* (`CutOff`), and
when the call that put such a code there is itself answered no, its own
prerequisites are all cut off, so that the exception can be dropped.

### Repository_proof

`AfterThisRow`, about definitions only: for every ORDER BY over nullable and other
columns, in any directions and with any placement of NULLs, `BuildAfter` selects
exactly the rows that the ORDER BY puts behind the boundary. `CursorExact`: the
same of a boundary that went through the cursor, if no timestamp is stored finer
than a Date.

`AnswerAgrees` follows from what each statement left behind (`SelectInv`,
`ListInv`, `PageInv`), whatever was written since.

A walk by offset is `OffsetInv`: when nobody writes and nothing ties, the i-th row
answered has exactly i - 1 rows before it, so that the pages fit without gap or
overlap. A keyset walk is `KeysetInv`: a row that was in the list from the
start, stays in it and was not answered yet sorts behind the cursor, and so does
every row of the next page, whatever is inserted, updated or deleted between two
pages. `InOrder`, `StableSeenOnce` and the keyset half of `WalkExact` follow.

`Continues`, `Ordered`, `NoneLost` and `WalkedInFull` have the hypothesis
`WholeTimes`, that no timestamp a keyset walk sorts by is stored finer than a Date.
The code does not ensure it; run `keyset_times` shows what happens without it, and
`pages` is an instance with it. It says nothing of walks by offset and of keyset
walks by other columns, for which the theorems hold without condition.

### Catalog_proof

The five properties of the run, for all documents, cyclic ones included, and for any
filter as in `FilterAssumption`. None needs more than `TypeOK`: they relate what the
resolvers compute in one state or before and after one edit. The lemmas say that the
prerequisites of a prerequisite are among those of the permission (`ClosureDown`), so
that what is granted in full, or unlocked, is so with all its prerequisites, and that
with more grants no less is granted. What the filter keeps is so only where
prerequisites form no cycle, and the properties say so: of a feature with a cycle
`UsableInFull` promises that nothing is withheld but not that every prerequisite is
usable, and `DenyOnlyTakes` lets a revocation change what the filter makes of it (a
lock of the site takes only, cycles or not). `UsableInFull` combines the role's filter
with the cascade of locks, and starts from what the role has stored, in either shape
(`GrantedBy`), so that it is about the normalisation too. `UpgradeUnlocks` is an
equivalence: an offered plan unlocks, and a plan that unlocks is offered.
`ProvisionOnlyUnlocks` is an equation: `Served` is the whole answer after a service
came, computed from the answer before.

### AuthSession_proof

Tokens are minted in pairs whose halves agree (`PairsAgree`), every access token
in a tab or a request is half of such a pair (`Issued`), and what the guard found
about a request stays true while its hook, its CSRF check and its handler run,
because pairs are only added (`Sound`). `OneSession`, `CsrfBeforeHandler`, `Answered`
and `GuardDecides` follow.

`CanonicalExact` is what the labels of `buildRequestCanonical` are for: two
requests with one canonical string are the same in every field, whichever of them
are absent. Read from its end, each labelled line can be told from the lines
before it, none of which has its label (`LastLine`). With it and `SignedInv` (a
request keeps what its app signed, through delays, repetitions and rewriting),
`SignatureDecides` is proved for any contents, window and drift.

### Calls_proof

`ContextOfSession`: while a call is on its way, the headers it carries are, at
each hop, those of what was read at the hop before (`CallInv`), and what was read
first, or is cached for the request, was resolved for the session of the request
(`Resolved`).

`AsThrown`, `TransportsAgree`, `LogTellsAnswer` and `LoggedAsConfigured` rest on
`ToldInv`: an error a call brings back is a plain value, after one hop the one
`RpcProblemExceptionFilter` made of what was thrown; an answered request has the
answer of its transport's filter, and every line it needs. What is left is about
the filters and the merging of options as functions, over errors with any
status, body and chain of causes, and over any options record.

### ObjectStorage_proof

The four properties of its run. `AccountInv` says of the account that buckets and
credentials are where the provisioner's jurisdiction puts them and that only
minted credentials are held; `ServedTruly`, that an answer still on its way to its
caller is true of the account that served it.

### What the attempts to prove changed

Some properties held on the instances and not in general. What the proofs asked
for is now part of the statement, and each is a remark about the code:

* `StableSeenOnce` compared the walk with the whole table; a row that the `where`
  hides is not seen. `stable` now starts as the rows that match.
* `WalkExact` exempted `orderBy: id` from its condition on ties. After GROUP BY
  the rows of one group tie on everything the order sees; the condition is now
  about the keys of the rows collapsed.
* `InOrder` needs that orders of one signature place NULLs alike: the signature in
  a cursor does not tell `NULLS FIRST` from `NULLS LAST`, so that a cursor of one
  is accepted for the other.
* `AsThrown` is limited to a violation found under at most five wrappers:
  `findPgError` stops there, and of an error it does not translate the service
  tells the text and the gateway does not. It also asks for an error status: `HttpExceptionFilter` renders an exception of its
  own with any status, and takes that of a plain object only from 400 to 599.
* `TransportsAgree` excludes what an `RpcException` carries in another shape than a
  problem with a status: HTTP renders its label and fields, GraphQL does not.
* `ToldTruth` is about `deleteBucket` in the default jurisdiction only: elsewhere the
  code is told of another bucket (section 5).
* `LogTellsAnswer` excludes HTTP exceptions that wrap a unique violation: the
  interceptor logs their own status, the filter answers 409.
* A log configuration without `environment` is one for development
  (`EnvironmentOf`), which `LoggedAsConfigured` had left out.

Only model-checked: liveness (`EveryCallReturns`, `PoolDrains`,
`EventuallyCoherent`, `Terminates`), which is out of the prover's reach, and the
counterexamples of section 5.

## 5. Where the code and its documentation disagree

Shown by a run:

1. *A view made private stays visible* (`views_stale`). `getOrCacheSharedViews`
   reads the shared views and caches them in two awaits. If a toggle to private,
   or a deletion, writes and invalidates in between, the cache is warmed with the
   old rows and serves them to every user until the TTL. The API documentation
   promises that the toggle "restricts it to the owner only". That the TTL ends
   it is `EventuallyCoherent`; that it takes an overlap of requests or a failed
   invalidation is `ExactWhenUndisturbed`.
2. *Pages sorted by a timestamp repeat or skip rows* (`keyset_times`). The cursor
   keeps a JavaScript Date, milliseconds, of a column PostgreSQL stores in
   microseconds: `buildAfter` then does not build the "after this row" predicate
   its comment promises.
3. *An error that crosses two hops loses its message* (`calls_message`). What a
   service catches from a call is a plain object; rethrown, it meets the last
   branch of `RpcProblemExceptionFilter` and becomes a generic 500. `AsThrown`
   shows that one hop is faithful.
4. *The default log provider drops errors without a trace* (`calls_traffic`).
   `LoggerService._log` has no branch for them, and `logWithMetadata` never has a
   trace: a failed request leaves no line of its failure.

Read in the code while modelling, where a property states what does hold:

* View names are not unique per user and table, although the comment of `renameView`
  (`data-table-views.service.ts:136`) has it enforce that. The check looks for a
  private view of the name whatever the view renamed is, and the unique indexes are
  one for private and one for shared views. A private view may get the name of the
  user's own shared one; a shared view is refused the name of a private one; and a
  taken shared name passes the check and fails in the index. `CheckDecides` is about
  private views for this reason. Rename, update and delete choose the key to
  invalidate from the row they read before the write; a toggle in between leaves the
  other pool's key.
* `filterGrantedByDeps` answers yes for a code it is still visiting and remembers
  codes that relied on it. With `b` needing `c`, `c` needing `a` and `b`, and `b`
  and `c` granted, `c` is dropped for want of `a`, but `b`, which needs `c`, may
  be kept: not "only codes whose FULL prerequisite closure is also present ...
  (cycle-safe)", as the comment in `permission-deps.ts:56` says. `FilterExactAcyclic`
  shows that cycles are the only cause; the second version of `catalog` has one.
* `findForSelect` with `distinct` counts the rows before DISTINCT in its total, and
  by `values` it ignores `where` and `search` (`AnswerAgrees` and `WalkExact`
  leave both out).
* Only `createBucket` and credentials know the jurisdiction: with another than the
  default, `deleteBucket` addresses the wrong bucket and takes its "not found" for
  a success (`ToldTruth` is restricted to the default). Revoking a credential
  again rejects; a credential whose answer was lost stays live and unknown.
  `uploadPublic` into an explicit bucket answers with the public bucket's URL, and
  without `publicUrl` stores the object before it rejects.
* With the level of the staging preset, `log`, which Winston does not know, the
  console and the combined file get nothing (`LoggedAsConfigured` excludes it).
  `enableHttpLogger`, which the repository's `README.md:520` and `635` document as the
  switch of HTTP logging, has no effect when the preset brings an `httpLogger`, as
  those of development, staging and production do: `false` switches nothing off. In
  the test preset it decides, unless an `httpLogger` is given, and a partial one
  switches the lines it does not name on. `Asked` in `Calls` says this exactly, and
  `LoggedAsConfigured` compares the log with it under every preset.
* An error without a status is logged with the 200 the reply still has, and
  answered 500 (`LogTellsAnswer` asks for a status). A unique violation of the
  gateway's own handler is a 409 over HTTP and a 500 over GraphQL
  (`TransportsAgree` is about errors of services). Field errors of a validation
  body are joined into a text on their way over NATS.
* NATS `send` has no timeout, and the microservice client sends on four of the
  context's headers, so that a second hop reads the others as empty.
* The Nest middleware of `CorrelationIdMiddleware` answers with no correlation id on
  Fastify, and installed beside the hook it gives the log lines another id than the
  header has (`LogTellsAnswer` is about a header that is there and one entry point);
  `logWithMetadata` and the default provider print no correlation id of their own
  accord.
* `composeRoleGrants` drops a legacy `app` bucket of a role's base, additions and
  revocations; a role that is not composed keeps it.

## 6. Not modelled

* Money: two conversions between notations of one amount; the arithmetic is
  dinero.js. Email: one HTTP call per template, almost all of it text. Live table
  state: one cache call per operation and no row behind it, so that what can be
  said of it is what is said of the cache. The migration runner: one sequential
  script around an external migrator.
* Phone, time, export and other utilities, decorators, DTOs, documentation,
  the tables of countries and icons: pure text or data.
* `FilterProcessor`'s SQL, joins, and the operations of the repository that are a
  single statement, beyond their use by `TableViews`.
* The connections of Redis and NATS, `scanKeys`, module wiring.
* Formatting of log lines and problem documents; signed documents, which are a
  canonical form and a call of the crypto library. Cryptography is ideal.
* Parallel siblings inside one transaction and work a transaction body does not
  await: `PROJECT.json` lists them as hazards without a property.

## 7. Plan

1. Parallel siblings and detached work in `PrimaryDatabase`: a second flow that
   shares the pinned transaction of the first, whose savepoints then interleave,
   with what `IInv` keeps of `PoolClean` and `TenantIsolation`.
2. A termination measure for the walks of `PermissionDeps` as an action property,
   which is the part of `Terminates` that is not about fairness.
