-------------------------- MODULE PrimaryDatabase --------------------------
(***************************************************************************)
(* PrimaryDatabaseService and RlsAwarePool (database/services): request    *)
(* flows share a bounded pool of PostgreSQL connections.  A statement made *)
(* outside a transaction is wrapped by RlsAwarePool in BEGIN / apply /     *)
(* statement / COMMIT when the flow carries an RLS context, and goes to    *)
(* the pool as it is otherwise; runInTransaction pins a connection and     *)
(* nests through savepoints.  One action is one database round trip: the   *)
(* flow is suspended at an await between two actions, and other flows run. *)
(*                                                                         *)
(* pg, Drizzle and PostgreSQL are external, modelled as src/ relies on     *)
(* them: SET LOCAL lasts as long as the transaction; a failed statement    *)
(* aborts it until ROLLBACK [TO SAVEPOINT]; COMMIT of an aborted           *)
(* transaction rolls it back without an error; BEGIN inside a transaction  *)
(* changes nothing; release(err), or the release of a dead client, evicts. *)
(***************************************************************************)
EXTENDS Naturals, FiniteSets

CONSTANTS Requests,       \* request flows (async call chains)
          Connections,    \* slots of the pool: maxConnections of them
          Tenants,        \* values a flow passes to runWithRlsContext
          NoContext,      \* rlsAls.getStore() = undefined
          NoClient,       \* no client checked out
          RlsConfigured,  \* options.applyRlsContext is given
          MaxDepth,       \* bound: deepest nesting of runInTransaction
          MaxCalls        \* bound: repository calls of one flow

ASSUME ConstantsAssumption ==
  /\ NoContext \notin Tenants
  /\ NoClient \notin Connections
  /\ RlsConfigured \in BOOLEAN
  /\ MaxDepth \in Nat \ {0}
  /\ MaxCalls \in Nat

Contexts == Tenants \cup {NoContext}
Levels == 1..MaxDepth

\* A row remembers the context its caller was in and the setting of the
\* session that wrote it (what the RLS policies of the server saw).
Rows == [req : Requests, n : 1..MaxCalls, ctx : Contexts, rls : Contexts]
Session == [tx : {"none", "open", "aborted", "dead"},
            rls : Contexts,
            pending : [Levels -> SUBSET Rows]]
Kinds == {"direct", "wrapped", "tx"}
Steps == {"idle", "waiting", "begin", "apply", "statement", "commit", "fn", "undo"}
Answers == {"none", "ok", "hollow", "error", "lost"}

VARIABLES store,     \* rlsAls: the RLS context of each flow
          pc,        \* where each flow is suspended
          kind,      \* how its current call reaches the database
          captured,  \* the `rls` local of runWrapped / runInTransaction
          client,    \* the PoolClient it holds
          depth,     \* txAls: nesting of the pinned transaction, 0 outside
          calls,     \* repository calls made so far
          acked,     \* writes of this call acknowledged to the flow, per level
          answer,    \* how the last top-level call was answered
          session,   \* the server session behind each pool slot
          table,     \* committed rows
          ending     \* pool.end() was called

flowVars == <<pc, kind, captured, client, depth, calls, acked, answer>>
vars == <<store, flowVars, session, table, ending>>

NoRows == [l \in Levels |-> {}]
All(pending) == UNION {pending[l] : l \in Levels}
Merged(levels, d) ==
  [levels EXCEPT ![d - 1] = levels[d - 1] \cup levels[d], ![d] = {}]
Fresh == [tx |-> "none", rls |-> NoContext, pending |-> NoRows]
Free(c) == \A r \in Requests : client[r] # c
Applies(r) == RlsConfigured /\ captured[r] # NoContext

TypeOK ==
  /\ store \in [Requests -> Contexts]
  /\ pc \in [Requests -> Steps]
  /\ kind \in [Requests -> Kinds]
  /\ captured \in [Requests -> Contexts]
  /\ client \in [Requests -> Connections \cup {NoClient}]
  /\ depth \in [Requests -> 0..MaxDepth]
  /\ calls \in [Requests -> 0..MaxCalls]
  /\ acked \in [Requests -> [Levels -> SUBSET Rows]]
  /\ answer \in [Requests -> Answers]
  /\ session \in [Connections -> Session]
  /\ table \in SUBSET Rows
  /\ ending \in BOOLEAN

\* After onModuleInit: the health check ran outside every context.
Init ==
  /\ store \in [Requests -> Contexts]
  /\ pc = [r \in Requests |-> "idle"]
  /\ kind = [r \in Requests |-> "direct"]
  /\ captured = [r \in Requests |-> NoContext]
  /\ client = [r \in Requests |-> NoClient]
  /\ depth = [r \in Requests |-> 0]
  /\ calls = [r \in Requests |-> 0]
  /\ acked = [r \in Requests |-> NoRows]
  /\ answer = [r \in Requests |-> "none"]
  /\ session = [c \in Connections |-> Fresh]
  /\ table = {}
  /\ ending = FALSE

-----------------------------------------------------------------------------
(* The server session.                                                     *)

Row(r, n) == [req |-> r, n |-> n, ctx |-> captured[r], rls |-> session[client[r]].rls]

BeginOn(s) == IF s.tx = "none" THEN [s EXCEPT !.tx = "open"] ELSE s
Broken(s) == [s EXCEPT !.tx = "dead", !.pending = NoRows]
Failures(s) == {[s EXCEPT !.tx = "aborted"], Broken(s)}
RollbackOn(s) == IF s.tx = "dead" THEN s ELSE Fresh
\* Faulty variant: a nested call joins the transaction without a savepoint.
RollbackToNothing(s, d) == s
RollbackToOn(s, d) ==
  IF s.tx = "dead" THEN s ELSE [s EXCEPT !.tx = "open", !.pending[d] = {}]

\* client.release(err): the slot keeps its session unless the client is evicted.
Released(s, err) == IF err \/ s.tx = "dead" \/ ending THEN Fresh ELSE s

-----------------------------------------------------------------------------
(* The flow.                                                               *)

Goto(r, step) == pc' = [pc EXCEPT ![r] = step]
Count(r) ==
  /\ calls[r] < MaxCalls
  /\ calls' = [calls EXCEPT ![r] = @ + 1]
\* The call returns: its locals (kind, captured) are gone.
Return(r, a) ==
  /\ Goto(r, "idle")
  /\ client' = [client EXCEPT ![r] = NoClient]
  /\ depth' = [depth EXCEPT ![r] = 0]
  /\ kind' = [kind EXCEPT ![r] = "direct"]
  /\ captured' = [captured EXCEPT ![r] = NoContext]
  /\ answer' = [answer EXCEPT ![r] = a]

\* runWithRlsContext: entering and leaving scopes.  The store of a flow that
\* already pinned a transaction changes too; the transaction does not.
RunWithRlsContext(r, ctx) ==
  /\ pc[r] \in {"idle", "fn"}
  /\ store' = [store EXCEPT ![r] = ctx]
  /\ UNCHANGED <<flowVars, session, table, ending>>

\* A call outside every transaction: the context is read here, before the
\* flow waits for a client.  A pool that is ending rejects at once.
Request(r, k) ==
  /\ pc[r] = "idle"
  /\ Count(r)
  /\ acked' = [acked EXCEPT ![r] = NoRows]
  /\ IF ending
       THEN Return(r, "error")
       ELSE /\ Goto(r, "waiting")
            /\ kind' = [kind EXCEPT ![r] = k]
            /\ captured' = [captured EXCEPT ![r] = store[r]]
            /\ answer' = [answer EXCEPT ![r] = "none"]
            /\ UNCHANGED <<client, depth>>
  /\ UNCHANGED <<store, session, table, ending>>

\* Faulty variant: every query takes the bypass of RlsAwarePool.query.
QueryRouteBypass(r) == "direct"
QueryRoute(r) == IF RlsConfigured /\ store[r] # NoContext THEN "wrapped" ELSE "direct"
Query(r) == Request(r, QueryRoute(r))
RunInTransaction(r) == Request(r, "tx")

\* The pool serves a waiting flow, or fails to open the connection for it.
Checkout(r) ==
  /\ pc[r] = "waiting"
  /\ ~ending
  /\ \E c \in Connections :
       /\ Free(c)
       /\ client' = [client EXCEPT ![r] = c]
  /\ Goto(r, IF kind[r] = "direct" THEN "statement" ELSE "begin")
  /\ UNCHANGED <<store, kind, captured, depth, calls, acked, answer, session, table, ending>>

ConnectFails(r) ==
  /\ pc[r] = "waiting"
  /\ ~ending
  /\ \E c \in Connections : Free(c)
  /\ Return(r, "error")
  /\ UNCHANGED <<store, calls, acked, session, table, ending>>

\* BEGIN of runWrapped and of Drizzle's transaction.
Begin(r) ==
  /\ pc[r] = "begin"
  /\ \/ /\ session' = [session EXCEPT ![client[r]] = BeginOn(@)]
        /\ Goto(r, IF Applies(r) THEN "apply" ELSE "fn")
        /\ depth' = [depth EXCEPT ![r] = IF Applies(r) THEN 0 ELSE 1]
     \/ /\ session' = [session EXCEPT ![client[r]] = Broken(@)]
        /\ Goto(r, "undo")
        /\ UNCHANGED depth
  /\ UNCHANGED <<store, kind, captured, client, calls, acked, answer, table, ending>>

\* applyRlsContext(client, rls), once per transaction; it may throw before or
\* after it reached the server.
ApplyRls(r) ==
  /\ pc[r] = "apply"
  /\ \/ /\ session' = [session EXCEPT ![client[r]].rls = captured[r]]
        /\ Goto(r, IF kind[r] = "tx" THEN "fn" ELSE "statement")
        /\ depth' = [depth EXCEPT ![r] = IF kind[r] = "tx" THEN 1 ELSE 0]
     \/ /\ \E s \in Failures(session[client[r]]) \cup {session[client[r]]} :
             session' = [session EXCEPT ![client[r]] = s]
        /\ Goto(r, "undo")
        /\ UNCHANGED depth
  /\ UNCHANGED <<store, kind, captured, client, calls, acked, answer, table, ending>>

\* super.query on the pool: autocommit, and the client goes back at once.
DirectStatement(r) ==
  LET row == Row(r, calls[r]) IN
  /\ pc[r] = "statement"
  /\ kind[r] = "direct"
  /\ \/ /\ table' = table \cup {row}
        /\ acked' = [acked EXCEPT ![r][1] = {row}]
        /\ session' = [session EXCEPT ![client[r]] = Released(@, FALSE)]
        /\ Return(r, "ok")
     \/ /\ table' \in {table, table \cup {row}}
        /\ session' = [session EXCEPT ![client[r]] = Released(@, TRUE)]
        /\ Return(r, IF table' = table THEN "error" ELSE "lost")
        /\ UNCHANGED acked
  /\ UNCHANGED <<store, calls, ending>>

WrappedStatement(r) ==
  LET row == Row(r, calls[r]) IN
  /\ pc[r] = "statement"
  /\ kind[r] = "wrapped"
  /\ \/ /\ session' = [session EXCEPT ![client[r]].pending[1] = @ \cup {row}]
        /\ acked' = [acked EXCEPT ![r][1] = {row}]
        /\ Goto(r, "commit")
     \/ /\ \E s \in Failures(session[client[r]]) : session' = [session EXCEPT ![client[r]] = s]
        /\ Goto(r, "undo")
        /\ UNCHANGED acked
  /\ UNCHANGED <<store, kind, captured, client, depth, calls, answer, table, ending>>

\* A repository call inside the transaction: drizzleClient is the pinned one.
\* `fn` may let a rejection through (Throw, UndoNested) or swallow it.
TxStatement(r) ==
  LET c == client[r]
      row == Row(r, calls[r] + 1) IN
  /\ pc[r] = "fn"
  /\ Count(r)
  /\ \/ /\ session[c].tx = "open"
        /\ session' = [session EXCEPT ![c].pending[depth[r]] = @ \cup {row}]
        /\ acked' = [acked EXCEPT ![r][depth[r]] = @ \cup {row}]
     \/ /\ session[c].tx = "open"
        /\ \E s \in Failures(session[c]) : session' = [session EXCEPT ![c] = s]
        /\ UNCHANGED acked
     \/ /\ session[c].tx # "open"
        /\ UNCHANGED <<session, acked>>
  /\ UNCHANGED <<store, pc, kind, captured, client, depth, answer, table, ending>>

-----------------------------------------------------------------------------
(* Nested runInTransaction: a savepoint of the pinned transaction.         *)

\* The SAVEPOINT is refused, and the nested call rejects, unless the
\* transaction is healthy.
EnterNested(r) ==
  LET c == client[r] IN
  /\ pc[r] = "fn"
  /\ depth[r] < MaxDepth
  /\ Count(r)
  /\ \/ /\ session[c].tx = "open"
        /\ depth' = [depth EXCEPT ![r] = @ + 1]
        /\ UNCHANGED session
     \/ /\ session' = [session EXCEPT ![c] = IF @.tx = "open" THEN Broken(@) ELSE @]
        /\ UNCHANGED depth
  /\ UNCHANGED <<store, pc, kind, captured, client, acked, answer, table, ending>>

\* The nested `fn` resolved and RELEASE SAVEPOINT succeeded.
MergeNested(r) ==
  LET c == client[r]
      d == depth[r] IN
  /\ pc[r] = "fn"
  /\ d > 1
  /\ session[c].tx = "open"
  /\ session' = [session EXCEPT ![c].pending = Merged(@, d)]
  /\ acked' = [acked EXCEPT ![r] = Merged(@, d)]
  /\ depth' = [depth EXCEPT ![r] = d - 1]
  /\ UNCHANGED <<store, pc, kind, captured, client, calls, answer, table, ending>>

\* The nested `fn` rejected, or its RELEASE SAVEPOINT did: ROLLBACK TO
\* SAVEPOINT, and the rejection is rethrown to the enclosing `fn`.
UndoNested(r) ==
  LET c == client[r] IN
  /\ pc[r] = "fn"
  /\ depth[r] > 1
  /\ \E s \in {RollbackToOn(session[c], depth[r]), Broken(session[c])} :
       session' = [session EXCEPT ![c] = s]
  /\ acked' = [acked EXCEPT ![r][depth[r]] = {}]
  /\ depth' = [depth EXCEPT ![r] = @ - 1]
  /\ UNCHANGED <<store, pc, kind, captured, client, calls, answer, table, ending>>

-----------------------------------------------------------------------------
(* The end of a transaction.                                               *)

AtCommit(r) == pc[r] = "commit" \/ (pc[r] = "fn" /\ depth[r] = 1)

\* COMMIT was answered; the client goes back to the pool.  An aborted
\* transaction is rolled back by its COMMIT, with no error to the caller.
Commit(r) ==
  LET c == client[r] IN
  /\ AtCommit(r)
  /\ session[c].tx \in {"open", "aborted"}
  /\ IF session[c].tx = "open"
       THEN /\ table' = table \cup All(session[c].pending)
            /\ Return(r, "ok")
       ELSE /\ Return(r, "hollow")
            /\ UNCHANGED table
  /\ session' = [session EXCEPT ![c] = Released(Fresh, FALSE)]
  /\ UNCHANGED <<store, calls, acked, ending>>

\* COMMIT rejected: a deferred check failed, or the connection was lost
\* before the server committed, or after it did.
CommitFails(r) ==
  LET c == client[r] IN
  /\ AtCommit(r)
  /\ \/ /\ session[c].tx = "open"
        /\ session' = [session EXCEPT ![c] = Fresh]
        /\ UNCHANGED <<table, answer>>
     \/ /\ session' = [session EXCEPT ![c] = Broken(@)]
        /\ UNCHANGED <<table, answer>>
     \/ /\ session[c].tx = "open"
        /\ table' = table \cup All(session[c].pending)
        /\ session' = [session EXCEPT ![c] = Broken(@)]
        /\ answer' = [answer EXCEPT ![r] = "lost"]
  /\ Goto(r, "undo")
  /\ depth' = [depth EXCEPT ![r] = 0]
  /\ UNCHANGED <<store, kind, captured, client, calls, acked, ending>>

\* The outermost `fn` rejected.
Throw(r) ==
  /\ pc[r] = "fn"
  /\ depth[r] = 1
  /\ Goto(r, "undo")
  /\ depth' = [depth EXCEPT ![r] = 0]
  /\ UNCHANGED <<store, kind, captured, client, calls, acked, answer, session, table, ending>>

\* Faulty variants of the catch block: neither ROLLBACK nor release(err); the
\* error is swallowed; the client is never released.
UndoReleasesOnly(r) ==
  LET c == client[r] IN
  /\ pc[r] = "undo"
  /\ session' = [session EXCEPT ![c] = Released(@, FALSE)]
  /\ Return(r, "error")
  /\ UNCHANGED <<store, calls, acked, table, ending>>

UndoSwallows(r) ==
  /\ pc[r] = "undo"
  /\ session' = [session EXCEPT ![client[r]] = Fresh]
  /\ Return(r, "ok")
  /\ UNCHANGED <<store, calls, acked, table, ending>>

UndoKeepsClient(r) ==
  /\ pc[r] = "undo"
  /\ Goto(r, "idle")
  /\ UNCHANGED <<store, kind, captured, client, depth, calls, acked, answer, session, table, ending>>

\* The catch blocks: ROLLBACK, whose own failure is swallowed; runWrapped
\* then evicts the client, Drizzle's `finally` only releases it; rethrow.
Undo(r) ==
  LET c == client[r] IN
  /\ pc[r] = "undo"
  /\ \E s \in {RollbackOn(session[c]), Broken(session[c])} :
       session' = [session EXCEPT ![c] = Released(s, kind[r] = "wrapped")]
  /\ Return(r, IF answer[r] = "lost" THEN "lost" ELSE "error")
  /\ UNCHANGED <<store, calls, acked, table, ending>>

\* onModuleDestroy: pool.end() closes the idle clients at once and the others
\* when they are released; a flow still waiting for a client is never served.
OnModuleDestroy ==
  /\ ~ending
  /\ ending' = TRUE
  /\ session' = [c \in Connections |-> IF Free(c) THEN Fresh ELSE session[c]]
  /\ UNCHANGED <<store, flowVars, table>>

\* Nothing is left to do for a process whose flows all wait on an ended pool.
AwaitExit ==
  /\ ending
  /\ \A r \in Requests : pc[r] = "waiting"
  /\ UNCHANGED vars

-----------------------------------------------------------------------------
RoundTrip(r) ==
  \/ Begin(r) \/ ApplyRls(r) \/ DirectStatement(r) \/ WrappedStatement(r)
  \/ Commit(r) \/ CommitFails(r) \/ Undo(r)
Body(r) == TxStatement(r) \/ EnterNested(r)
LeaveBody(r) == MergeNested(r) \/ UndoNested(r) \/ Throw(r)
Serve(r) == Checkout(r) \/ ConnectFails(r)

Flow(r) ==
  \/ \E ctx \in Contexts : RunWithRlsContext(r, ctx)
  \/ Query(r) \/ RunInTransaction(r)
  \/ Serve(r) \/ RoundTrip(r) \/ Body(r) \/ LeaveBody(r)

Next == OnModuleDestroy \/ AwaitExit \/ \E r \in Requests : Flow(r)

Spec == Init /\ [][Next]_vars

\* The server answers or the connection breaks; a transaction body makes
\* finitely many calls and ends; pg-pool serves its waiting flows first come
\* first served, so none is passed over for ever.
Fairness == \A r \in Requests :
  /\ WF_vars(RoundTrip(r) \/ LeaveBody(r))
  /\ SF_vars(Serve(r))

FairSpec == Spec /\ Fairness

-----------------------------------------------------------------------------
(* Properties.                                                             *)

\* Whatever happened to its last user (a failed applyRlsContext, a failed
\* COMMIT, a swallowed error, a lost connection), a client that is back in the
\* pool carries no transaction, no RLS setting and no uncommitted write.
PoolClean == \A c \in Connections : Free(c) => session[c] = Fresh

UnderOwnContext(w) == w.rls = IF RlsConfigured THEN w.ctx ELSE NoContext

\* Every write, committed or not, is seen by the server under the RLS context
\* its flow was in when its call or its transaction started, never under the
\* context of the previous user of the connection, of a scope entered later,
\* or of none.
TenantIsolation ==
  /\ \A w \in table : UnderOwnContext(w)
  /\ \A c \in Connections : \A w \in All(session[c].pending) : UnderOwnContext(w)

\* No two flows ever talk on the same client.
OneOwner == \A r, s \in Requests : client[r] # NoClient /\ client[r] = client[s] => r = s

\* What a flow holds and owes at each step of its call.
FlowInv(r) ==
  /\ client[r] = NoClient <=> pc[r] \in {"idle", "waiting"}
  /\ depth[r] > 0 <=> pc[r] = "fn"
  /\ kind[r] = "direct" => pc[r] \in {"idle", "waiting", "statement"} /\ ~Applies(r)
  /\ kind[r] = "wrapped" => pc[r] # "fn" /\ Applies(r)
  /\ kind[r] = "tx" => pc[r] \notin {"statement", "commit"}
  /\ pc[r] = "apply" => Applies(r)
  /\ pc[r] = "idle" => kind[r] = "direct"
  /\ pc[r] # "idle" => calls[r] > 0

\* What the server has behind the client of a flow at each step.
SessionInv(r) == client[r] # NoClient =>
  LET s == session[client[r]] IN
  /\ pc[r] = "begin" \/ kind[r] = "direct" => s = Fresh
  /\ pc[r] = "apply" => s = [Fresh EXCEPT !.tx = "open"]
  /\ pc[r] \in {"statement", "commit"} /\ kind[r] = "wrapped" => s.tx = "open"
  /\ pc[r] \in {"statement", "commit", "fn"} => s.tx # "none" \/ kind[r] = "direct"
  /\ pc[r] \in {"statement", "commit", "fn"} /\ s.tx # "dead" =>
       s.rls = IF RlsConfigured THEN captured[r] ELSE NoContext

\* PoolClean and TenantIsolation made inductive: a client is clean when it
\* returns because of what each step left on it.
IInv ==
  /\ TypeOK
  /\ PoolClean
  /\ OneOwner
  /\ TenantIsolation
  /\ \A r \in Requests : FlowInv(r) /\ SessionInv(r)

\* A flow that is told `ok` finds every write it was acknowledged, and did not
\* undo, in the table; one that is told of an error finds none of them.  Only
\* an unacknowledged COMMIT ("lost") leaves the flow in doubt, and only a
\* statement failure that `fn` swallowed makes an answer hollow.
Honest(r) == pc[r] = "idle" =>
  /\ answer[r] = "ok" => All(acked[r]) \subseteq table
  /\ answer[r] \in {"error", "hollow"} => All(acked[r]) \cap table = {}
HonestAnswers == \A r \in Requests : Honest(r)

\* HonestAnswers made inductive: until the server ends the transaction, what the
\* flow was acknowledged is what the session would commit, and none of it is in
\* the table; no row of the call under way is.
Opening(r) == pc[r] \in {"waiting", "begin", "apply", "statement"}
LedgerInv(r) ==
  /\ Opening(r) => /\ captured[r] = store[r]
                   /\ acked[r] = NoRows
                   /\ \A w \in table : w.req = r => w.n < calls[r]
  /\ \A w \in table : w.req = r => w.n <= calls[r]
  /\ \A w \in All(acked[r]) : w.req = r /\ w.n <= calls[r]
  /\ pc[r] = "statement" => session[client[r]].pending = NoRows
  /\ pc[r] \in {"fn", "commit"} /\ session[client[r]].tx \in {"open", "aborted"} =>
       session[client[r]].pending = acked[r]
  /\ pc[r] # "idle" => answer[r] = "none" \/ (pc[r] = "undo" /\ answer[r] = "lost")
  /\ pc[r] # "idle" /\ answer[r] = "none" => All(acked[r]) \cap table = {}
Ledger == HonestAnswers /\ \A r \in Requests : LedgerInv(r)

\* Every call is answered, unless the pool was ended while it waited: no set
\* of flows waits for clients that only its own members could give back.
EveryCallReturns == \A r \in Requests : pc[r] # "idle" ~> pc[r] = "idle" \/ ending

\* After pool.end() the transactions in flight run to their end and the pool
\* drains.
PoolDrains == ending ~> \A c \in Connections : Free(c)

\* The refinement mapping: a unit is open from the moment its session is under
\* the right context until the server ends its transaction.
Seen(rows) == {[req |-> w.req, n |-> w.n, ctx |-> w.rls] : w \in rows}
InUnit(r) == \/ pc[r] = "fn"
             \/ kind[r] = "wrapped" /\ pc[r] \in {"statement", "commit"}
UnitOf(r) ==
  IF InUnit(r) /\ session[client[r]].tx \in {"open", "aborted"}
  THEN [depth |-> IF kind[r] = "tx" THEN depth[r] ELSE 1,
        ctx |-> session[client[r]].rls,
        pending |-> [l \in Levels |-> Seen(session[client[r]].pending[l])]]
  ELSE [depth |-> 0, ctx |-> NoContext, pending |-> NoRows]

Units == INSTANCE UnitsOfWork WITH
  unit <- [r \in Requests |-> UnitOf(r)],
  table <- Seen(table)

\* Pooling, wrapping, eviction and savepoints implement units of work.
ImplementsUnits == Units!Spec
=============================================================================
