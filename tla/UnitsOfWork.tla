---------------------------- MODULE UnitsOfWork ----------------------------
(***************************************************************************)
(* What the database layer promises its callers, with no connection, pool  *)
(* or session in sight.  A request works in units: a unit is opened under  *)
(* the RLS context in force at that moment and keeps it to the end, its    *)
(* writes become visible together or not at all, nested units are undone   *)
(* on their own, and every write is made under the context of its unit.    *)
(* PrimaryDatabase is shown to implement this module.                      *)
(***************************************************************************)
EXTENDS Naturals

CONSTANTS Requests,       \* the request flows of the process
          Tenants,        \* RLS contexts a flow can carry
          NoContext,      \* a flow outside every runWithRlsContext
          RlsConfigured,  \* is applyRlsContext configured?
          MaxDepth,       \* deepest nesting of units
          MaxCalls        \* statements and units a flow asks for (bound)

Contexts == Tenants \cup {NoContext}
Levels == 1..MaxDepth
Rows == [req : Requests, n : 1..MaxCalls, ctx : Contexts]

VARIABLES store,   \* store[r]: the RLS context of flow r
          unit,    \* unit[r]: the unit r has open
          table    \* the rows every reader sees

vars == <<store, unit, table>>

Nothing == [l \in Levels |-> {}]
Closed == [depth |-> 0, ctx |-> NoContext, pending |-> Nothing]
Context(r) == IF RlsConfigured THEN store[r] ELSE NoContext
Merged(levels, d) ==
  [levels EXCEPT ![d - 1] = levels[d - 1] \cup levels[d], ![d] = {}]
All(pending) == UNION {pending[l] : l \in Levels}

Init ==
  /\ store \in [Requests -> Contexts]
  /\ unit = [r \in Requests |-> Closed]
  /\ table = {}

EnterContext(r, ctx) ==
  /\ store' = [store EXCEPT ![r] = ctx]
  /\ UNCHANGED <<unit, table>>

Open(r) ==
  /\ unit[r].depth = 0
  /\ unit' = [unit EXCEPT ![r] = [depth |-> 1, ctx |-> Context(r), pending |-> Nothing]]
  /\ UNCHANGED <<store, table>>

Write(r, n) ==
  /\ unit[r].depth > 0
  /\ unit' = [unit EXCEPT ![r].pending[unit[r].depth] =
                            @ \cup {[req |-> r, n |-> n, ctx |-> unit[r].ctx]}]
  /\ UNCHANGED <<store, table>>

\* A statement outside every unit of a flow with no context to apply.
WriteAlone(r, n) ==
  /\ unit[r].depth = 0
  /\ Context(r) = NoContext
  /\ table' = table \cup {[req |-> r, n |-> n, ctx |-> NoContext]}
  /\ UNCHANGED <<store, unit>>

Nest(r) ==
  /\ unit[r].depth \in 1..(MaxDepth - 1)
  /\ unit' = [unit EXCEPT ![r].depth = @ + 1]
  /\ UNCHANGED <<store, table>>

Merge(r) ==
  LET d == unit[r].depth IN
  /\ d > 1
  /\ unit' = [unit EXCEPT ![r] = [depth |-> d - 1, ctx |-> @.ctx, pending |-> Merged(@.pending, d)]]
  /\ UNCHANGED <<store, table>>

UndoNested(r) ==
  LET d == unit[r].depth IN
  /\ d > 1
  /\ unit' = [unit EXCEPT ![r] =
                 [depth |-> d - 1, ctx |-> @.ctx, pending |-> [@.pending EXCEPT ![d] = {}]]]
  /\ UNCHANGED <<store, table>>

Commit(r) ==
  /\ unit[r].depth = 1
  /\ table' = table \cup All(unit[r].pending)
  /\ unit' = [unit EXCEPT ![r] = Closed]
  /\ UNCHANGED store

Abort(r) ==
  /\ unit[r].depth > 0
  /\ unit' = [unit EXCEPT ![r] = Closed]
  /\ UNCHANGED <<store, table>>

Next == \E r \in Requests :
  \/ \E ctx \in Contexts : EnterContext(r, ctx)
  \/ \E n \in 1..MaxCalls : Write(r, n) \/ WriteAlone(r, n)
  \/ Open(r) \/ Nest(r) \/ Merge(r) \/ UndoNested(r) \/ Commit(r) \/ Abort(r)

Spec == Init /\ [][Next]_vars
=============================================================================
