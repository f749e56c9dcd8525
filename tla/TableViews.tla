----------------------------- MODULE TableViews -----------------------------
(***************************************************************************)
(* DataTableViewsService (data-table/views) over its repository and the    *)
(* CacheService: the named views of one table slug, cached aside in one    *)
(* pool per user (the user's private views) and one shared pool.           *)
(*                                                                         *)
(* A request is suspended at every await: between two of its steps other   *)
(* requests read, write and invalidate.  A view is identified by its UUID, *)
(* so an identifier is created once and never comes back.  A pool holds    *)
(* fewer views than NAMED_VIEWS_LIMIT; a state and its checksum are one.   *)
(***************************************************************************)
EXTENDS Naturals, FiniteSets

CONSTANTS Tasks,         \* concurrent requests
          Users, Views, Names, States,
          SharedPool,    \* the key views:shared:<slug>
          Absent,        \* no such row
          Miss,          \* nothing cached under the key
          Faults,        \* may a cache call (swallowed) or a database call fail?
          MaxWrites      \* bound: mutations requested in a behaviour

Row == [id : Views, owner : Users, name : Names, state : States, shared : BOOLEAN]

ASSUME ConstantsAssumption ==
  /\ SharedPool \notin Users
  /\ Absent \notin Row
  /\ Faults \in BOOLEAN
  /\ MaxWrites \in Nat

Pools == Users \cup {SharedPool}
Legs == {"own", "shared"}
Ops == {"find", "create", "update", "share", "rename", "delete"}
Steps == {"idle", "legs", "load", "check", "write", "drop"}
LegSteps == {"off", "get", "read", "set", "done", "failed"}
Requests == [op : Ops, user : Users \cup {Absent}, view : Views \cup {Absent},
             arg : {Absent} \cup BOOLEAN \cup Names \cup States,
             step : Steps, row : Row \cup {Absent}]

VARIABLES db,         \* db[v]: the row of view v
          born,       \* identifiers already used
          cache,      \* cache[k]: the rows cached for pool k, or Miss
          task,       \* the request each task is running
          leg,        \* the two halves of findViews' Promise.all
          writes,     \* mutations requested so far
          undisturbed \* history: no mutation overlapped another request or
                      \* ended between its write and its invalidation

vars == <<db, born, cache, task, leg, writes, undisturbed>>

Idle == [op |-> "find", user |-> Absent, view |-> Absent, arg |-> Absent,
         step |-> "idle", row |-> Absent]
LegOff == [l \in Legs |-> [step |-> "off", rows |-> {}]]

Init ==
  /\ db = [v \in Views |-> Absent]
  /\ born = {}
  /\ cache = [k \in Pools |-> Miss]
  /\ task = [p \in Tasks |-> Idle]
  /\ leg = [p \in Tasks |-> LegOff]
  /\ writes = 0
  /\ undisturbed = TRUE

Rows == {db[v] : v \in {w \in Views : db[w] # Absent}}

\* findPersonalViewsBySlug and findSharedViewsBySlug.
InPool(row, k) == IF row.shared THEN k = SharedPool ELSE k = row.owner
PoolRows(k) == {row \in Rows : InPool(row, k)}

\* Faulty variant: the personal key leaves out the user id.
OneKeyForAll(p, l) == IF l = "own" THEN CHOOSE u \in Users : TRUE ELSE SharedPool
\* personalViewsKey, sharedViewsKey: the cache key of a half of findViews.
KeyOf(p, l) == IF l = "own" THEN task[p].user ELSE SharedPool
PoolOf(p, l) == IF l = "own" THEN task[p].user ELSE SharedPool

Active(p) == task[p].step # "idle"
Mutating(p) == Active(p) /\ task[p].op # "find"
Goto(p, s) == task' = [task EXCEPT ![p].step = s]
Finish(p) == task' = [task EXCEPT ![p] = Idle]

-----------------------------------------------------------------------------
(* findViews.                                                              *)

FindViews(p, u) ==
  /\ ~Active(p)
  /\ task' = [task EXCEPT ![p] = [Idle EXCEPT !.user = u, !.step = "legs"]]
  /\ leg' = [leg EXCEPT ![p] = [l \in Legs |-> [step |-> "get", rows |-> {}]]]
  /\ undisturbed' = (undisturbed /\ \A q \in Tasks : ~Mutating(q))
  /\ UNCHANGED <<db, born, cache, writes>>

\* cacheService.get: an empty list is a hit; a failure is a miss.
CacheGet(p, l) ==
  LET cached == cache[KeyOf(p, l)] IN
  /\ leg[p][l].step = "get"
  /\ \/ /\ cached # Miss
        /\ leg' = [leg EXCEPT ![p][l] = [step |-> "done", rows |-> cached]]
     \/ /\ cached = Miss \/ Faults
        /\ leg' = [leg EXCEPT ![p][l].step = "read"]
  /\ UNCHANGED <<db, born, cache, task, writes, undisturbed>>

ReadPool(p, l) ==
  /\ leg[p][l].step = "read"
  /\ \/ leg' = [leg EXCEPT ![p][l] = [step |-> "set", rows |-> PoolRows(PoolOf(p, l))]]
     \/ Faults /\ leg' = [leg EXCEPT ![p][l].step = "failed"]
  /\ UNCHANGED <<db, born, cache, task, writes, undisturbed>>

\* cacheService.set with the TTL: warms the cache with what was read, however
\* long ago; a failure is swallowed.
CacheSet(p, l) ==
  /\ leg[p][l].step = "set"
  /\ leg' = [leg EXCEPT ![p][l].step = "done"]
  /\ \/ cache' = [cache EXCEPT ![KeyOf(p, l)] = leg[p][l].rows]
     \/ Faults /\ UNCHANGED cache
  /\ UNCHANGED <<db, born, task, writes, undisturbed>>

\* Promise.all.  A rejected half answers the request at once; the other one runs
\* on unobserved, so the task is held until both have stopped.
Answer(p) ==
  /\ task[p].step = "legs"
  /\ \A l \in Legs : leg[p][l].step \in {"done", "failed"}
  /\ Finish(p)
  /\ leg' = [leg EXCEPT ![p] = LegOff]
  /\ UNCHANGED <<db, born, cache, writes, undisturbed>>

-----------------------------------------------------------------------------
(* Mutations.                                                              *)

Request(p, op, u, v, arg, row) ==
  /\ ~Active(p)
  /\ writes < MaxWrites
  /\ writes' = writes + 1
  /\ task' = [task EXCEPT ![p] =
       [op |-> op, user |-> u, view |-> v, arg |-> arg, row |-> row,
        step |-> IF op = "create" THEN "write" ELSE "load"]]
  /\ undisturbed' = (undisturbed /\ \A q \in Tasks : ~Active(q))

\* createView, with the row it will insert.
CreateView(p, u, v, name, state, shared) ==
  /\ v \notin born
  /\ born' = born \cup {v}
  /\ Request(p, "create", u, v, Absent,
       [id |-> v, owner |-> u, name |-> name, state |-> state, shared |-> shared])
  /\ UNCHANGED <<db, cache, leg>>

\* updateView, toggleShareView, renameView and deleteView of an existing id.
MutateView(p, op, u, v, arg) ==
  /\ v \in born
  /\ Request(p, op, u, v, arg, Absent)
  /\ UNCHANGED <<db, born, cache, leg>>

LoadView(p) ==
  LET t == task[p]
      row == db[t.view] IN
  /\ t.step = "load"
  /\ IF \/ row = Absent
        \/ row.owner # t.user
        \/ t.op = "update" /\ t.arg = row.state
     THEN Finish(p)
     ELSE task' = [task EXCEPT ![p].row = row,
                               ![p].step = IF t.op = "rename" THEN "check" ELSE "write"]
  /\ UNCHANGED <<db, born, cache, leg, writes, undisturbed>>

\* Faulty variant: looks for the name the view has.
ChecksOldName(t) == \E row \in Rows :
  row.owner = t.user /\ row.name = t.row.name /\ ~row.shared /\ row.id # t.view
\* renameView's findOne({ userId, tableSlug, name, isShared: false }): private views only,
\* whatever the view that is renamed is.
NameTaken(t) == \E row \in Rows :
  row.owner = t.user /\ row.name = t.arg /\ ~row.shared /\ row.id # t.view

CheckName(p) ==
  LET t == task[p] IN
  /\ t.step = "check"
  /\ IF NameTaken(t)
     THEN Finish(p)
     ELSE Goto(p, "write")
  /\ UNCHANGED <<db, born, cache, leg, writes, undisturbed>>

\* Faulty variant: the whole record read before is written back.
WrittenBack(t) ==
  CASE t.op = "create" -> t.row
    [] t.op = "delete" -> Absent
    [] t.op = "update" -> [t.row EXCEPT !.state = t.arg]
    [] t.op = "share"  -> [t.row EXCEPT !.shared = t.arg]
    [] t.op = "rename" -> [t.row EXCEPT !.name = t.arg]
\* The row an operation leaves: an UPDATE sets one column of the current row.
Written(t) ==
  CASE t.op = "create" -> t.row
    [] t.op = "delete" -> Absent
    [] t.op = "update" -> [db[t.view] EXCEPT !.state = t.arg]
    [] t.op = "share"  -> [db[t.view] EXCEPT !.shared = t.arg]
    [] t.op = "rename" -> [db[t.view] EXCEPT !.name = t.arg]

\* The unique index on (user, slug, name, isShared).
Conflicts(new) == \E row \in Rows :
  row.id # new.id /\ row.owner = new.owner /\ row.name = new.name /\ row.shared = new.shared

\* The repository throws when no row came back, the index on a duplicate.
Rejected(t, new) ==
  IF t.op = "delete" THEN db[t.view] = Absent
  ELSE (t.op # "create" /\ db[t.view] = Absent) \/ Conflicts(new)

\* The INSERT, UPDATE or DELETE; when it is rejected nothing is invalidated.
WriteView(p) ==
  LET t == task[p]
      new == Written(t) IN
  /\ t.step = "write"
  /\ IF Rejected(t, new)
     THEN /\ Finish(p)
          /\ UNCHANGED db
     ELSE /\ db' = [db EXCEPT ![t.view] = new]
          /\ task' = [task EXCEPT ![p].step = "drop"]
  /\ UNCHANGED <<born, cache, leg, writes, undisturbed>>

\* Faulty variant: every mutation invalidates the pool of its owner only.
OwnPoolOnly(t) == {t.user}
\* The keys invalidateViewsCache deletes: chosen from the view as it was read,
\* before the write.
Invalidated(t) ==
  IF t.op = "share" THEN {t.user, SharedPool}
  ELSE {IF t.row.shared THEN SharedPool ELSE t.user}

Invalidate(p) ==
  LET t == task[p] IN
  /\ t.step = "drop"
  /\ \/ /\ cache' = [k \in Pools |-> IF k \in Invalidated(t) THEN Miss ELSE cache[k]]
        /\ UNCHANGED undisturbed
     \/ /\ Faults
        /\ undisturbed' = FALSE
        /\ UNCHANGED cache
  /\ Finish(p)
  /\ UNCHANGED <<db, born, leg, writes>>

\* Faulty variant: the personal pools are cached without a TTL.
ExpireShared(k) ==
  /\ k = SharedPool /\ cache[k] # Miss
  /\ cache' = [cache EXCEPT ![k] = Miss]
  /\ UNCHANGED <<db, born, task, leg, writes, undisturbed>>
\* The TTL of a cached pool elapses (or the LRU provider evicts it).
Expire(k) ==
  /\ cache[k] # Miss
  /\ cache' = [cache EXCEPT ![k] = Miss]
  /\ UNCHANGED <<db, born, task, leg, writes, undisturbed>>

\* A query rejects.  The write may have been applied all the same: its answer,
\* and with it the invalidation, is lost.
QueryFails(p) ==
  /\ Faults
  /\ task[p].step \in {"load", "check", "write"}
  /\ Finish(p)
  /\ UNCHANGED <<db, born, cache, leg, writes, undisturbed>>

AnswerLost(p) ==
  LET t == task[p]
      new == Written(t) IN
  /\ Faults
  /\ t.step = "write"
  /\ ~Rejected(t, new)
  /\ db' = [db EXCEPT ![t.view] = new]
  /\ undisturbed' = FALSE
  /\ Finish(p)
  /\ UNCHANGED <<born, cache, leg, writes>>

-----------------------------------------------------------------------------
StepOf(p) ==
  \/ \E l \in Legs : CacheGet(p, l) \/ ReadPool(p, l) \/ CacheSet(p, l)
  \/ Answer(p) \/ LoadView(p) \/ CheckName(p) \/ WriteView(p) \/ Invalidate(p)
  \/ QueryFails(p) \/ AnswerLost(p)

Arrive(p) == \E u \in Users :
  \/ FindViews(p, u)
  \/ \E v \in Views :
       \/ \E n \in Names, s \in States, b \in BOOLEAN : CreateView(p, u, v, n, s, b)
       \/ \E s \in States : MutateView(p, "update", u, v, s)
       \/ \E b \in BOOLEAN : MutateView(p, "share", u, v, b)
       \/ \E n \in Names : MutateView(p, "rename", u, v, n)
       \/ MutateView(p, "delete", u, v, Absent)

Next ==
  \/ \E p \in Tasks : Arrive(p) \/ StepOf(p)
  \/ \E k \in Pools : Expire(k)

Spec == Init /\ [][Next]_vars

\* Some awaited call returns as long as one is awaited, and every entry has a
\* TTL; nobody is bound to ask, and a single request may hang for ever.
Fairness ==
  /\ WF_vars(\E p \in Tasks : StepOf(p))
  /\ \A k \in Pools : WF_vars(Expire(k))

FairSpec == Spec /\ Fairness

-----------------------------------------------------------------------------
(* Properties.                                                             *)

TypeOK ==
  /\ db \in [Views -> Row \cup {Absent}]
  /\ born \in SUBSET Views
  /\ cache \in [Pools -> (SUBSET Row) \cup {Miss}]
  /\ task \in [Tasks -> Requests]
  /\ leg \in [Tasks -> [Legs -> [step : LegSteps, rows : SUBSET Row]]]
  /\ writes \in 0..MaxWrites
  /\ undisturbed \in BOOLEAN

Coherent(k) == cache[k] \in {Miss, PoolRows(k)}

\* A version of a view that its owner had as private reaches nobody else: whatever
\* races and failures made a pool stale, a user's pool, in the cache or on its way to an
\* answer, holds private rows of that user, and the shared pool rows as they were while
\* they were shared.  (How long a row stays there once it is private again: see
\* RestrictedIsHidden and EventuallyCoherent.)
Belongs(row, k) == IF k = SharedPool THEN row.shared ELSE ~row.shared /\ row.owner = k
PrivateStaysPrivate ==
  /\ \A k \in Pools : cache[k] # Miss => \A row \in cache[k] : Belongs(row, k)
  /\ \A p \in Tasks, l \in Legs : \A row \in leg[p][l].rows : Belongs(row, PoolOf(p, l))

\* As long as no other request overlaps it, renameView's check decides for a private
\* view: what it lets through, the unique index does not reject, and the user is told of
\* the taken name instead of a failed UPDATE.  (With overlap the index decides alone;
\* for a shared view it always does, the check looks at private ones.)
CheckDecides == undisturbed => \A p \in Tasks :
  LET t == task[p] IN
  t.step = "write" /\ t.op = "rename" /\ ~t.row.shared => ~Rejected(t, Written(t))

\* As long as no mutation overlaps another request and no invalidation fails,
\* the cache is coherent whenever no mutation is running, and findViews answers
\* exactly the user's private views and the shared ones, whatever overlap of
\* readers warmed the cache.
ExactWhenUndisturbed == undisturbed /\ (\A p \in Tasks : ~Mutating(p)) =>
  /\ \A k \in Pools : Coherent(k)
  /\ \A p \in Tasks, l \in Legs :
       leg[p][l].step = "done" => leg[p][l].rows = PoolRows(PoolOf(p, l))

\* A column changes only by the operation that sets it, requested by the owner:
\* concurrent rename, share and update of one view do not undo each other.
NoLostUpdate == [][\A v \in Views :
  db[v] # Absent /\ db'[v] # db[v] =>
    \E p \in Tasks :
      /\ task[p].step = "write" /\ task[p].view = v /\ task[p].user = db[v].owner
      /\ \/ task[p].op = "delete" /\ db'[v] = Absent
         \/ task[p].op = "update" /\ db'[v] = [db[v] EXCEPT !.state = task[p].arg]
         \/ task[p].op = "share" /\ db'[v] = [db[v] EXCEPT !.shared = task[p].arg]
         \/ task[p].op = "rename" /\ db'[v] = [db[v] EXCEPT !.name = task[p].arg]]_vars

\* What a request in flight has established: its arguments belong to its
\* operation, and once it has loaded a view, the view is its user's own.
RequestInv(p) ==
  LET t == task[p] IN
  /\ t.step = "legs" => t.op = "find" /\ t.user \in Users
  /\ t.step # "legs" => leg[p] = LegOff
  /\ t.step = "check" => t.op = "rename"
  /\ t.step \in {"load", "check", "write", "drop"} =>
       /\ t.user \in Users /\ t.view \in born
       /\ CASE t.op = "create" -> t.row \in Row /\ t.row.id = t.view /\ t.row.owner = t.user /\ t.step # "load"
            [] t.op = "update" -> t.arg \in States
            [] t.op = "share" -> t.arg \in BOOLEAN
            [] t.op = "rename" -> t.arg \in Names
            [] t.op = "delete" -> TRUE
            [] OTHER -> FALSE
Loaded(p) == task[p].step \in {"check", "write", "drop"} /\ task[p].op # "create"
Creating(p) == task[p].step = "write" /\ task[p].op = "create"
OwnersMutate ==
  /\ \A v \in Views : db[v] # Absent => db[v].id = v /\ v \in born
  /\ \A p \in Tasks : Loaded(p) =>
       /\ task[p].row \in Row
       /\ db[task[p].view] # Absent => db[task[p].view].owner = task[p].user
  /\ \A p \in Tasks : Creating(p) =>
       /\ db[task[p].view] = Absent
       /\ \A q \in Tasks \ {p} : Loaded(q) \/ Creating(q) => task[q].view # task[p].view

\* The inductive invariant (see TableViews_proof).
IInv ==
  /\ TypeOK
  /\ \A p \in Tasks : RequestInv(p)
  /\ OwnersMutate
  /\ PrivateStaysPrivate

\* What exactness rests on (see TableViews_proof): a mutation runs alone, with
\* the view as the table has it until it writes, and all that its write makes
\* stale are the pools it is about to invalidate; what readers carry is exact.
Dropping(k) == \E p \in Tasks : task[p].step = "drop" /\ k \in Invalidated(task[p])
UndisturbedInv == undisturbed =>
  /\ \A p, q \in Tasks : Mutating(p) /\ Active(q) => p = q
  /\ \A p \in Tasks : Loaded(p) /\ task[p].step # "drop" => task[p].row = db[task[p].view]
  /\ \A k \in Pools : Coherent(k) \/ Dropping(k)
  /\ \A p \in Tasks, l \in Legs :
       leg[p][l].step \in {"set", "done"} => leg[p][l].rows = PoolRows(PoolOf(p, l))

\* What CheckDecides rests on: no name is taken between the check and the UPDATE.
CheckedInv == undisturbed =>
  \A p \in Tasks : task[p].step = "write" /\ task[p].op = "rename" => ~NameTaken(task[p])

\* Whatever stale pool a race or a failed invalidation left behind, the TTL
\* removes it: once mutations stop, every pool ends up coherent for good.
EventuallyCoherent == <>[](\A k \in Pools : Coherent(k))

-----------------------------------------------------------------------------
(* What the API documentation and the comments say, and the code does not  *)
(* do.                                                                     *)

\* "restricts it to the owner only (private)", "Permanently deletes a named
\* view": when no request is running, the shared pool the next findViews of
\* any user will be answered from holds no view that is private or deleted.
RestrictedIsHidden ==
  (\A p \in Tasks : ~Active(p)) /\ cache[SharedPool] # Miss =>
    \A row \in cache[SharedPool] : db[row.id] # Absent /\ db[row.id].shared
=============================================================================
