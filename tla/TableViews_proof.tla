-------------------------- MODULE TableViews_proof --------------------------
(***************************************************************************)
(* Theorems about TableViews, for any number of requests, users, views and *)
(* mutations, with and without failures.                                   *)
(***************************************************************************)
EXTENDS TableViews, TLAPS

LEMMA IdleType == Idle \in Requests /\ LegOff \in [Legs -> [step : LegSteps, rows : SUBSET Row]]
BY DEF Idle, Requests, Ops, Steps, LegOff, LegSteps

\* A pool read from the table holds rows that belong there.
LEMMA PoolRead ==
  ASSUME TypeOK, NEW k \in Pools
  PROVE  PoolRows(k) \subseteq Row /\ \A row \in PoolRows(k) : Belongs(row, k)
<1>1. Rows \subseteq Row
  BY DEF TypeOK, Rows
<1> QED
  BY <1>1, ConstantsAssumption DEF PoolRows, InPool, Row, Belongs, Pools

-----------------------------------------------------------------------------
(* findViews.                                                              *)

\* A half of findViews runs only while its request waits for both.
LEMMA LegsRun ==
  ASSUME IInv, NEW p \in Tasks, NEW l \in Legs, leg[p][l].step # "off"
  PROVE  task[p].step = "legs" /\ task[p].op = "find" /\ task[p].user \in Users
BY DEF IInv, RequestInv, LegOff

\* A half that takes a step leaves the table and the requests alone.
LEMMA LegStep ==
  ASSUME IInv, NEW p \in Tasks, NEW l \in Legs, leg[p][l].step # "off",
         NEW h \in [step : LegSteps, rows : SUBSET Row],
         leg' = [leg EXCEPT ![p][l] = h],
         \A row \in h.rows : Belongs(row, PoolOf(p, l)),
         cache' \in [Pools -> (SUBSET Row) \cup {Miss}],
         \A k \in Pools : cache'[k] # Miss => \A row \in cache'[k] : Belongs(row, k),
         UNCHANGED <<db, born, task, writes, undisturbed>>
  PROVE  IInv'
<1>1. task[p].step = "legs"
  BY LegsRun
<1>2. TypeOK'
  BY DEF IInv, TypeOK
<1>3. \A q \in Tasks : RequestInv(q)'
  BY <1>1 DEF IInv, RequestInv, TypeOK
<1>4. OwnersMutate'
  BY DEF IInv, OwnersMutate, Loaded, Creating
<1>5. PrivateStaysPrivate'
  <2>1. ASSUME NEW q \in Tasks, NEW m \in Legs, NEW row \in leg'[q][m].rows
        PROVE  Belongs(row, PoolOf(q, m))
    <3>1. CASE q = p /\ m = l
      BY <2>1, <3>1 DEF IInv, TypeOK
    <3>2. CASE ~(q = p /\ m = l)
      BY <2>1, <3>2 DEF IInv, TypeOK, PrivateStaysPrivate
    <3> QED
      BY <3>1, <3>2
  <2> QED
    BY <2>1 DEF PrivateStaysPrivate, PoolOf
<1> QED
  BY <1>2, <1>3, <1>4, <1>5 DEF IInv

LEMMA HalfMoves ==
  ASSUME NEW h \in [step : LegSteps, rows : SUBSET Row], NEW s \in LegSteps
  PROVE  [h EXCEPT !.step = s] = [step |-> s, rows |-> h.rows]
OBVIOUS

LEMMA LegActions ==
  ASSUME IInv, NEW p \in Tasks, NEW l \in Legs, CacheGet(p, l) \/ ReadPool(p, l) \/ CacheSet(p, l)
  PROVE  IInv'
<1>1. leg[p][l].step # "off" /\ task[p].user \in Users
  BY LegsRun DEF CacheGet, ReadPool, CacheSet
<1>2. KeyOf(p, l) \in Pools /\ PoolOf(p, l) \in Pools /\ KeyOf(p, l) = PoolOf(p, l)
  BY <1>1 DEF KeyOf, PoolOf, Pools
<1>3. leg[p][l] \in [step : LegSteps, rows : SUBSET Row]
  BY DEF IInv, TypeOK
<1>4. /\ \A k \in Pools : cache[k] # Miss => \A row \in cache[k] : Belongs(row, k)
      /\ cache \in [Pools -> (SUBSET Row) \cup {Miss}]
      /\ \A row \in leg[p][l].rows : Belongs(row, PoolOf(p, l))
  BY DEF IInv, PrivateStaysPrivate, TypeOK
<1>7. ASSUME NEW s \in LegSteps, NEW rows \in SUBSET Row,
             leg' = [leg EXCEPT ![p][l] = [step |-> s, rows |-> rows]],
             \A row \in rows : Belongs(row, PoolOf(p, l)),
             UNCHANGED <<cache, db, born, task, writes, undisturbed>>
      PROVE  IInv'
  <2>1. [step |-> s, rows |-> rows] \in [step : LegSteps, rows : SUBSET Row]
    OBVIOUS
  <2> QED
    BY <1>1, <1>4, <1>7, <2>1, LegStep
<1>8. ASSUME NEW s \in LegSteps, leg' = [leg EXCEPT ![p][l].step = s]
      PROVE  leg' = [leg EXCEPT ![p][l] = [step |-> s, rows |-> leg[p][l].rows]]
  <2>1. [leg[p][l] EXCEPT !.step = s] = [step |-> s, rows |-> leg[p][l].rows]
    BY <1>3, HalfMoves
  <2> QED
    BY <1>8, <2>1
<1>9. CASE CacheGet(p, l)
  <2>1. CASE cache[KeyOf(p, l)] # Miss /\ leg' = [leg EXCEPT ![p][l] = [step |-> "done", rows |-> cache[KeyOf(p, l)]]]
    <3> DEFINE cached == cache[KeyOf(p, l)]
    <3>1. cached \in SUBSET Row /\ \A row \in cached : Belongs(row, PoolOf(p, l))
      <4>1. cached \in (SUBSET Row) \cup {Miss} /\ cached # Miss
        BY <1>2, <1>4, <2>1
      <4>2. \A row \in cached : Belongs(row, PoolOf(p, l))
        BY <1>2, <1>4, <2>1
      <4> QED
        BY <4>1, <4>2
    <3>2. "done" \in LegSteps /\ UNCHANGED <<cache, db, born, task, writes, undisturbed>>
      BY <1>9 DEF CacheGet, LegSteps
    <3>3. leg' = [leg EXCEPT ![p][l] = [step |-> "done", rows |-> cached]]
      BY <2>1
    <3> HIDE DEF cached
    <3> QED
      BY <1>7, <3>1, <3>2, <3>3
  <2>2. CASE leg' = [leg EXCEPT ![p][l].step = "read"]
    <3>1. "read" \in LegSteps /\ leg[p][l].rows \in SUBSET Row
      BY <1>3 DEF LegSteps
    <3> QED
      BY <1>4, <1>7, <1>8, <1>9, <2>2, <3>1 DEF CacheGet
  <2> QED
    BY <1>9, <2>1, <2>2 DEF CacheGet
<1>10. CASE ReadPool(p, l)
  <2>1. PoolRows(PoolOf(p, l)) \subseteq Row /\ \A row \in PoolRows(PoolOf(p, l)) : Belongs(row, PoolOf(p, l))
    BY <1>2, PoolRead DEF IInv
  <2>2. CASE leg' = [leg EXCEPT ![p][l] = [step |-> "set", rows |-> PoolRows(PoolOf(p, l))]]
    BY <1>7, <1>10, <2>1, <2>2 DEF ReadPool, LegSteps
  <2>3. CASE leg' = [leg EXCEPT ![p][l].step = "failed"]
    <3>1. "failed" \in LegSteps /\ leg[p][l].rows \in SUBSET Row
      BY <1>3 DEF LegSteps
    <3> QED
      BY <1>4, <1>7, <1>8, <1>10, <2>3, <3>1 DEF ReadPool
  <2> QED
    BY <1>10, <2>2, <2>3 DEF ReadPool
<1>11. CASE CacheSet(p, l)
  <2>1. "done" \in LegSteps /\ leg[p][l].rows \in SUBSET Row
    BY <1>3 DEF LegSteps
  <2>2. leg' = [leg EXCEPT ![p][l] = [step |-> "done", rows |-> leg[p][l].rows]]
    BY <1>8, <1>11, <2>1 DEF CacheSet
  <2>3. cache' \in [Pools -> (SUBSET Row) \cup {Miss}]
    BY <1>4, <1>11, <2>1 DEF CacheSet
  <2>4. ASSUME NEW k \in Pools, cache'[k] # Miss, NEW row \in cache'[k]
        PROVE  Belongs(row, k)
    <3>1. CASE cache' = [cache EXCEPT ![KeyOf(p, l)] = leg[p][l].rows] /\ KeyOf(p, l) = k
      BY <1>2, <1>4, <2>4, <3>1
    <3>2. CASE cache'[k] = cache[k]
      BY <1>4, <2>4, <3>2
    <3> QED
      BY <1>4, <1>11, <3>1, <3>2 DEF CacheSet
  <2> DEFINE h == [step |-> "done", rows |-> leg[p][l].rows]
  <2>5. h \in [step : LegSteps, rows : SUBSET Row] /\ h.rows = leg[p][l].rows
    BY <2>1
  <2>6. leg' = [leg EXCEPT ![p][l] = h] /\ UNCHANGED <<db, born, task, writes, undisturbed>>
    BY <1>11, <2>2 DEF CacheSet
  <2>7. \A row \in h.rows : Belongs(row, PoolOf(p, l))
    BY <1>4, <2>5
  <2> HIDE DEF h
  <2> QED
    BY <1>1, <2>3, <2>4, <2>5, <2>6, <2>7, LegStep
<1> QED
  BY <1>9, <1>10, <1>11

-----------------------------------------------------------------------------
(* Requests that wait for no legs.                                         *)

\* A step of one request p that leaves it in the state t keeps the invariant, if
\* t is a state of a request and what p does to its view spares the others.
LEMMA RequestStep ==
  ASSUME IInv, NEW p \in Tasks, task[p].step # "legs",
         NEW t \in Requests, t.step # "legs", task' = [task EXCEPT ![p] = t], RequestInv(p)',
         leg' = leg, born \subseteq born', born' \in SUBSET Views,
         writes' \in 0..MaxWrites, undisturbed' \in BOOLEAN,
         db' \in [Views -> Row \cup {Absent}],
         cache' \in [Pools -> (SUBSET Row) \cup {Miss}],
         \A k \in Pools : cache'[k] \in {cache[k], Miss},
         \A v \in Views : db'[v] # Absent => db'[v].id = v /\ v \in born',
         Loaded(p)' => /\ t.row \in Row
                       /\ db'[t.view] # Absent => db'[t.view].owner = t.user
                       /\ \A q \in Tasks \ {p} : Creating(q) => task[q].view # t.view,
         Creating(p)' => /\ db'[t.view] = Absent
                         /\ \A q \in Tasks \ {p} : Loaded(q) \/ Creating(q) => task[q].view # t.view,
         \A q \in Tasks \ {p} :
           /\ Loaded(q) /\ db'[task[q].view] # Absent => db'[task[q].view].owner = task[q].user
           /\ Creating(q) => db'[task[q].view] = Absent
  PROVE  IInv'
<1>1. task'[p] = t /\ \A q \in Tasks \ {p} : task'[q] = task[q]
  BY DEF IInv, TypeOK
<1>2. TypeOK'
  BY DEF IInv, TypeOK
<1>3. \A q \in Tasks : RequestInv(q)'
  <2>1. ASSUME NEW q \in Tasks \ {p} PROVE RequestInv(q)'
    <3>1. RequestInv(q) /\ task'[q] = task[q] /\ leg'[q] = leg[q]
      BY <1>1 DEF IInv
    <3> QED
      BY <3>1 DEF RequestInv
  <2> QED
    BY <2>1
<1>4. \A q \in Tasks \ {p} : (Loaded(q)' <=> Loaded(q)) /\ (Creating(q)' <=> Creating(q))
  BY <1>1 DEF Loaded, Creating
<1>5. OwnersMutate'
  <2>1. OwnersMutate
    BY DEF IInv
  <2>2. ASSUME NEW q \in Tasks, Loaded(q)'
        PROVE  /\ task'[q].row \in Row
               /\ db'[task'[q].view] # Absent => db'[task'[q].view].owner = task'[q].user
    BY <1>1, <1>4, <2>1, <2>2 DEF OwnersMutate
  <2>3. ASSUME NEW q \in Tasks, Creating(q)'
        PROVE  /\ db'[task'[q].view] = Absent
               /\ \A r \in Tasks \ {q} : Loaded(r)' \/ Creating(r)' => task'[r].view # task'[q].view
    <3>1. CASE q = p
      BY <1>1, <1>4, <2>3, <3>1
    <3>2. CASE q # p
      <4>1. task'[q] = task[q] /\ Creating(q) /\ db'[task[q].view] = Absent
        BY <1>1, <1>4, <2>3, <3>2
      <4>2. ASSUME NEW r \in Tasks \ {q}, Loaded(r)' \/ Creating(r)'
            PROVE  task'[r].view # task'[q].view
        <5>1. CASE r = p
          BY <1>1, <3>2, <4>1, <4>2, <5>1
        <5>2. CASE r # p
          BY <1>1, <1>4, <2>1, <4>1, <4>2, <5>2 DEF OwnersMutate
        <5> QED
          BY <5>1, <5>2
      <4> QED
        BY <4>1, <4>2
    <3> QED
      BY <3>1, <3>2
  <2> QED
    BY <2>2, <2>3 DEF OwnersMutate
<1>6. PrivateStaysPrivate'
  <2>1. \A l \in Legs : leg[p][l].rows = {}
    BY DEF IInv, RequestInv, LegOff, Legs
  <2>2. PrivateStaysPrivate
    BY DEF IInv
  <2>3. ASSUME NEW q \in Tasks, NEW l \in Legs, NEW row \in leg'[q][l].rows
        PROVE  Belongs(row, PoolOf(q, l)')
    <3>1. q # p /\ row \in leg[q][l].rows /\ PoolOf(q, l)' = PoolOf(q, l)
      BY <1>1, <2>1, <2>3 DEF PoolOf
    <3> QED
      BY <2>2, <3>1 DEF PrivateStaysPrivate
  <2>4. ASSUME NEW k \in Pools, cache'[k] # Miss, NEW row \in cache'[k]
        PROVE  Belongs(row, k)
    BY <2>2, <2>4 DEF PrivateStaysPrivate
  <2> QED
    BY <2>3, <2>4 DEF PrivateStaysPrivate, Belongs
<1> QED
  BY <1>2, <1>3, <1>5, <1>6 DEF IInv

\* A request that ends: the table is as it was.
LEMMA EndingStep ==
  ASSUME IInv, NEW p \in Tasks, task[p].step # "legs", Finish(p),
         UNCHANGED <<db, born, leg, writes>>, undisturbed' \in BOOLEAN,
         cache' \in [Pools -> (SUBSET Row) \cup {Miss}],
         \A k \in Pools : cache'[k] \in {cache[k], Miss}
  PROVE  IInv'
<1>1. task' = [task EXCEPT ![p] = Idle] /\ Idle \in Requests /\ Idle.step = "idle"
  BY IdleType DEF Finish, Idle
<1>2. task'[p] = Idle
  BY <1>1 DEF IInv, TypeOK
<1>3. RequestInv(p)' /\ ~Loaded(p)' /\ ~Creating(p)'
  BY <1>1, <1>2 DEF IInv, RequestInv, Loaded, Creating
<1>4. /\ db \in [Views -> Row \cup {Absent}] /\ \A v \in Views : db[v] # Absent => db[v].id = v /\ v \in born
      /\ born \in SUBSET Views /\ writes \in 0..MaxWrites
      /\ \A q \in Tasks \ {p} :
           /\ Loaded(q) /\ db[task[q].view] # Absent => db[task[q].view].owner = task[q].user
           /\ Creating(q) => db[task[q].view] = Absent
  BY DEF IInv, TypeOK, OwnersMutate
<1> QED
  BY <1>1, <1>3, <1>4, RequestStep

\* findViews starts with nothing in its halves, and ends with nothing in them.
LEMMA FindStep ==
  ASSUME IInv, NEW p \in Tasks, ~Loaded(p), ~Creating(p),
         NEW t \in Requests, t.step \in {"idle", "legs"}, task' = [task EXCEPT ![p] = t],
         NEW h \in [Legs -> [step : LegSteps, rows : SUBSET Row]], leg' = [leg EXCEPT ![p] = h],
         \A l \in Legs : h[l].rows = {},
         RequestInv(p)', undisturbed' \in BOOLEAN, UNCHANGED <<db, born, cache, writes>>
  PROVE  IInv'
<1>1. /\ task'[p] = t /\ \A q \in Tasks \ {p} : task'[q] = task[q] /\ leg'[q] = leg[q]
      /\ leg'[p] = h
  BY DEF IInv, TypeOK
<1>2. TypeOK'
  BY DEF IInv, TypeOK
<1>3. \A q \in Tasks : RequestInv(q)'
  <2>1. ASSUME NEW q \in Tasks \ {p} PROVE RequestInv(q)'
    <3>1. RequestInv(q) /\ task'[q] = task[q] /\ leg'[q] = leg[q]
      BY <1>1 DEF IInv
    <3> QED
      BY <3>1 DEF RequestInv
  <2> QED
    BY <2>1
<1>4. /\ ~Loaded(p)' /\ ~Creating(p)'
      /\ \A q \in Tasks \ {p} : (Loaded(q)' <=> Loaded(q)) /\ (Creating(q)' <=> Creating(q))
  BY <1>1 DEF Loaded, Creating
<1>5. OwnersMutate'
  <2>1. OwnersMutate
    BY DEF IInv
  <2> QED
    BY <1>1, <1>4, <2>1 DEF OwnersMutate
<1>6. PrivateStaysPrivate'
  <2>1. PrivateStaysPrivate
    BY DEF IInv
  <2>2. ASSUME NEW q \in Tasks, NEW l \in Legs, NEW row \in leg'[q][l].rows
        PROVE  Belongs(row, PoolOf(q, l)')
    <3>1. q # p /\ row \in leg[q][l].rows /\ PoolOf(q, l)' = PoolOf(q, l)
      BY <1>1, <2>2 DEF PoolOf
    <3> QED
      BY <2>1, <3>1 DEF PrivateStaysPrivate
  <2>3. ASSUME NEW k \in Pools, cache'[k] # Miss, NEW row \in cache'[k]
        PROVE  Belongs(row, k)
    BY <2>1, <2>3 DEF PrivateStaysPrivate
  <2> QED
    BY <2>2, <2>3 DEF PrivateStaysPrivate, Belongs
<1> QED
  BY <1>2, <1>3, <1>5, <1>6 DEF IInv

LEMMA FindViewsKeeps ==
  ASSUME IInv, NEW p \in Tasks, NEW u \in Users, FindViews(p, u)
  PROVE  IInv'
<1> DEFINE t == [Idle EXCEPT !.user = u, !.step = "legs"]
           h == [l \in Legs |-> [step |-> "get", rows |-> {}]]
<1>1. t \in Requests /\ t.step = "legs" /\ t.op = "find" /\ t.user = u
  BY DEF Idle, Requests, Ops, Steps
<1>2. h \in [Legs -> [step : LegSteps, rows : SUBSET Row]] /\ \A l \in Legs : h[l].rows = {}
  BY DEF LegSteps
<1>3. task' = [task EXCEPT ![p] = t] /\ leg' = [leg EXCEPT ![p] = h]
  BY DEF FindViews
<1>4. ~Loaded(p) /\ ~Creating(p)
  BY DEF FindViews, Active, Loaded, Creating
<1>5. task'[p] = t
  BY <1>3 DEF IInv, TypeOK
<1>6. RequestInv(p)'
  BY <1>1, <1>5 DEF RequestInv
<1>7. undisturbed' \in BOOLEAN /\ UNCHANGED <<db, born, cache, writes>>
  BY DEF FindViews, IInv, TypeOK
<1> HIDE DEF t, h
<1> QED
  BY <1>1, <1>2, <1>3, <1>4, <1>6, <1>7, FindStep

LEMMA AnswerKeeps ==
  ASSUME IInv, NEW p \in Tasks, Answer(p)
  PROVE  IInv'
<1>1. Idle \in Requests /\ Idle.step = "idle" /\ LegOff \in [Legs -> [step : LegSteps, rows : SUBSET Row]]
  BY IdleType DEF Idle
<1>2. \A l \in Legs : LegOff[l].rows = {}
  BY DEF LegOff
<1>3. task' = [task EXCEPT ![p] = Idle] /\ leg' = [leg EXCEPT ![p] = LegOff]
  BY DEF Answer, Finish
<1>4. ~Loaded(p) /\ ~Creating(p)
  BY DEF Answer, Loaded, Creating
<1>5. task'[p] = Idle /\ leg'[p] = LegOff
  BY <1>3 DEF IInv, TypeOK
<1>6. RequestInv(p)'
  BY <1>1, <1>5 DEF RequestInv
<1>7. undisturbed' \in BOOLEAN /\ UNCHANGED <<db, born, cache, writes>>
  BY DEF Answer, IInv, TypeOK
<1> QED
  BY <1>1, <1>2, <1>3, <1>4, <1>6, <1>7, FindStep

\* The table as a request that does not write leaves it.
LEMMA SameTable ==
  ASSUME IInv, db' = db, born \subseteq born'
  PROVE  /\ db' \in [Views -> Row \cup {Absent}] /\ \A v \in Views : db'[v] # Absent => db'[v].id = v /\ v \in born'
         /\ \A q \in Tasks :
              /\ Loaded(q) /\ db'[task[q].view] # Absent => db'[task[q].view].owner = task[q].user
              /\ Creating(q) => db'[task[q].view] = Absent
BY DEF IInv, TypeOK, OwnersMutate

LEMMA CreateViewKeeps ==
  ASSUME IInv, NEW p \in Tasks, NEW u \in Users, NEW v \in Views, NEW n \in Names, NEW s \in States,
         NEW b \in BOOLEAN, CreateView(p, u, v, n, s, b)
  PROVE  IInv'
<1> DEFINE new == [id |-> v, owner |-> u, name |-> n, state |-> s, shared |-> b]
           t == [op |-> "create", user |-> u, view |-> v, arg |-> Absent, row |-> new, step |-> "write"]
<1>1. new \in Row /\ new.id = v /\ new.owner = u
  BY DEF Row
<1>2. t \in Requests /\ t.step = "write" /\ t.op = "create" /\ t.view = v /\ t.user = u /\ t.row = new
  BY <1>1 DEF Requests, Ops, Steps
<1>3. task' = [task EXCEPT ![p] = t]
  BY DEF CreateView, Request
<1>4. task[p].step = "idle" /\ v \notin born /\ born' = born \cup {v}
  BY DEF CreateView, Request, Active
<1>5. task'[p] = t /\ leg[p] = LegOff
  BY <1>3, <1>4 DEF IInv, TypeOK, RequestInv
<1>6. UNCHANGED <<db, cache, leg>> /\ writes' \in 0..MaxWrites /\ undisturbed' \in BOOLEAN
  BY ConstantsAssumption DEF CreateView, Request, IInv, TypeOK
<1>7. RequestInv(p)' /\ ~Loaded(p)'
  <2> HIDE DEF t, new
  <2> QED
    BY <1>1, <1>2, <1>4, <1>5, <1>6 DEF RequestInv, Loaded
<1>8. \A q \in Tasks : Loaded(q) \/ Creating(q) => task[q].view # v
  BY <1>4 DEF IInv, RequestInv, Loaded, Creating
<1>9. db[v] = Absent
  BY <1>4 DEF IInv, OwnersMutate
<1>10. born' \in SUBSET Views /\ cache' \in [Pools -> (SUBSET Row) \cup {Miss}]
  BY <1>4, <1>6 DEF IInv, TypeOK
<1> HIDE DEF t, new
<1> QED
  BY <1>2, <1>3, <1>4, <1>6, <1>7, <1>8, <1>9, <1>10, SameTable, RequestStep

LEMMA MutateViewKeeps ==
  ASSUME IInv, NEW p \in Tasks, NEW u \in Users, NEW v \in Views, NEW op, NEW arg,
         MutateView(p, op, u, v, arg),
         \/ op = "update" /\ arg \in States
         \/ op = "share" /\ arg \in BOOLEAN
         \/ op = "rename" /\ arg \in Names
         \/ op = "delete" /\ arg = Absent
  PROVE  IInv'
<1> DEFINE t == [op |-> op, user |-> u, view |-> v, arg |-> arg, row |-> Absent, step |-> "load"]
<1>1. t \in Requests /\ t.step = "load" /\ t.op = op /\ t.view = v /\ t.user = u /\ t.arg = arg /\ op # "create"
  BY DEF Requests, Ops, Steps
<1>2. task' = [task EXCEPT ![p] = t]
  BY <1>1 DEF MutateView, Request
<1>3. task[p].step = "idle" /\ v \in born
  BY DEF MutateView, Request, Active
<1>4. task'[p] = t /\ leg[p] = LegOff
  BY <1>2, <1>3 DEF IInv, TypeOK, RequestInv
<1>5. UNCHANGED <<db, born, cache, leg>> /\ writes' \in 0..MaxWrites /\ undisturbed' \in BOOLEAN
  BY ConstantsAssumption DEF MutateView, Request, IInv, TypeOK
<1>6. RequestInv(p)' /\ ~Loaded(p)' /\ ~Creating(p)'
  <2> HIDE DEF t
  <2> QED
    BY <1>1, <1>3, <1>4, <1>5 DEF RequestInv, Loaded, Creating
<1>7. born' \in SUBSET Views /\ cache' \in [Pools -> (SUBSET Row) \cup {Miss}]
  BY <1>5 DEF IInv, TypeOK
<1> HIDE DEF t
<1> QED
  BY <1>1, <1>2, <1>3, <1>5, <1>6, <1>7, SameTable, RequestStep

\* A request that goes on without writing.
LEMMA Continues ==
  ASSUME IInv, NEW p \in Tasks, task[p].step \in {"load", "check", "write"},
         NEW s \in {"check", "write"}, NEW row \in Row,
         task[p].op # "create", s = "check" => task[p].op = "rename",
         task' = [task EXCEPT ![p].row = row, ![p].step = s],
         db[task[p].view] # Absent => db[task[p].view].owner = task[p].user,
         \A q \in Tasks \ {p} : Creating(q) => task[q].view # task[p].view,
         UNCHANGED <<db, born, cache, leg, writes, undisturbed>>
  PROVE  IInv'
<1> DEFINE t == [task[p] EXCEPT !.row = row, !.step = s]
<1>1. task[p] \in Requests
  BY DEF IInv, TypeOK
<1>2. /\ t \in Requests /\ t.step = s /\ t.row = row /\ t.op = task[p].op /\ t.arg = task[p].arg
      /\ t.view = task[p].view /\ t.user = task[p].user
  BY <1>1 DEF Requests, Steps
<1>3. task' = [task EXCEPT ![p] = t]
  OBVIOUS
<1>4. task'[p] = t /\ leg[p] = LegOff /\ RequestInv(p)
  BY <1>3 DEF IInv, TypeOK, RequestInv
<1>5. RequestInv(p)' /\ ~Creating(p)'
  <2> HIDE DEF t
  <2> QED
    BY <1>2, <1>4 DEF RequestInv, Creating
<1>6. /\ born' \in SUBSET Views /\ cache' \in [Pools -> (SUBSET Row) \cup {Miss}]
      /\ writes' \in 0..MaxWrites /\ undisturbed' \in BOOLEAN
  BY DEF IInv, TypeOK
<1>7. task[p].step # "legs" /\ t.step # "legs" /\ born \subseteq born' /\ leg' = leg
  BY <1>2
<1>8. \A k \in Pools : cache'[k] \in {cache[k], Miss}
  OBVIOUS
<1>9. /\ db' \in [Views -> Row \cup {Absent}] /\ \A v \in Views : db'[v] # Absent => db'[v].id = v /\ v \in born'
      /\ \A q \in Tasks :
           /\ Loaded(q) /\ db'[task[q].view] # Absent => db'[task[q].view].owner = task[q].user
           /\ Creating(q) => db'[task[q].view] = Absent
  BY SameTable
<1>10. t.row \in Row /\ (db'[t.view] # Absent => db'[t.view].owner = t.user)
       /\ \A q \in Tasks \ {p} : Creating(q) => task[q].view # t.view
  BY <1>2
<1> HIDE DEF t
<1> QED
  BY <1>2, <1>3, <1>5, <1>6, <1>7, <1>8, <1>9, <1>10, RequestStep

LEMMA LoadViewKeeps ==
  ASSUME IInv, NEW p \in Tasks, LoadView(p)
  PROVE  IInv'
<1> DEFINE row == db[task[p].view]
<1>1. task[p].step = "load" /\ UNCHANGED <<db, born, cache, leg, writes, undisturbed>>
  BY DEF LoadView
<1>2. task[p].view \in Views /\ task[p].op # "create"
  BY <1>1 DEF IInv, TypeOK, RequestInv
<1>3. CASE Finish(p)
  BY <1>1, <1>3, EndingStep DEF IInv, TypeOK
<1>4. CASE /\ row # Absent /\ row.owner = task[p].user
           /\ task' = [task EXCEPT ![p].row = row,
                                  ![p].step = IF task[p].op = "rename" THEN "check" ELSE "write"]
  <2>1. row \in Row
    BY <1>2, <1>4 DEF IInv, TypeOK
  <2>2. \A q \in Tasks \ {p} : Creating(q) => task[q].view # task[p].view
    BY <1>4 DEF IInv, OwnersMutate
  <2>3. CASE task[p].op = "rename"
    BY <1>1, <1>2, <1>4, <2>1, <2>2, <2>3, Continues
  <2>4. CASE task[p].op # "rename"
    BY <1>1, <1>2, <1>4, <2>1, <2>2, <2>4, Continues
  <2> QED
    BY <2>3, <2>4
<1>5. Finish(p) \/ (/\ row # Absent /\ row.owner = task[p].user
                   /\ task' = [task EXCEPT ![p].row = row,
                                          ![p].step = IF task[p].op = "rename" THEN "check" ELSE "write"])
  BY Zenon DEF LoadView
<1> QED
  BY <1>3, <1>4, <1>5

LEMMA CheckNameKeeps ==
  ASSUME IInv, NEW p \in Tasks, CheckName(p)
  PROVE  IInv'
<1>1. task[p].step = "check" /\ UNCHANGED <<db, born, cache, leg, writes, undisturbed>>
  BY DEF CheckName
<1>2. task[p].op = "rename" /\ Loaded(p)
  BY <1>1 DEF IInv, RequestInv, Loaded
<1>3. CASE Finish(p)
  BY <1>1, <1>3, EndingStep DEF IInv, TypeOK
<1>4. CASE task' = [task EXCEPT ![p].step = "write"]
  <2>1. /\ task[p].row \in Row
        /\ db[task[p].view] # Absent => db[task[p].view].owner = task[p].user
        /\ \A q \in Tasks \ {p} : Creating(q) => task[q].view # task[p].view
    BY <1>2 DEF IInv, OwnersMutate
  <2>2. task' = [task EXCEPT ![p].row = task[p].row, ![p].step = "write"]
    <3>1. task[p] \in Requests
      BY DEF IInv, TypeOK
    <3>2. [task[p] EXCEPT !.step = "write"] = [task[p] EXCEPT !.row = task[p].row, !.step = "write"]
      BY <3>1 DEF Requests
    <3> QED
      BY <1>4, <3>2
  <2> QED
    BY <1>1, <1>2, <2>1, <2>2, Continues
<1> QED
  BY <1>3, <1>4 DEF CheckName, Goto

-----------------------------------------------------------------------------
(* The write.                                                              *)

\* The row a write that is not rejected leaves: none, or the owner's, under a
\* name that no other view of the pool has.
LEMMA RowWritten ==
  ASSUME IInv, NEW p \in Tasks, task[p].step = "write", NEW new, new = Written(task[p]),
         ~Rejected(task[p], new)
  PROVE  /\ task[p].view \in Views /\ task[p].view \in born
         /\ new \in Row \cup {Absent}
         /\ new # Absent => new \in Row /\ new.id = task[p].view /\ new.owner = task[p].user /\ ~Conflicts(new)
         /\ db[task[p].view] # Absent =>
              /\ task[p].user = db[task[p].view].owner
              /\ \/ task[p].op = "delete" /\ new = Absent
                 \/ task[p].op = "update" /\ new = [db[task[p].view] EXCEPT !.state = task[p].arg]
                 \/ task[p].op = "share" /\ new = [db[task[p].view] EXCEPT !.shared = task[p].arg]
                 \/ task[p].op = "rename" /\ new = [db[task[p].view] EXCEPT !.name = task[p].arg]
<1> DEFINE t == task[p]
           old == db[t.view]
<1>1. t \in Requests /\ RequestInv(p) /\ db \in [Views -> Row \cup {Absent}] /\ born \in SUBSET Views
  BY DEF IInv, TypeOK
<1>2. t.view \in born /\ t.view \in Views /\ t.op \in {"create", "update", "share", "rename", "delete"}
  BY <1>1 DEF RequestInv
<1>3. CASE t.op = "create"
  <2>1. new = t.row /\ ~Conflicts(new)
    BY <1>3 DEF Written, Rejected
  <2>2. t.row \in Row /\ t.row.id = t.view /\ t.row.owner = t.user
    BY <1>1, <1>3 DEF RequestInv
  <2>3. old = Absent
    BY <1>3 DEF IInv, OwnersMutate, Creating
  <2> QED
    BY <1>2, <2>1, <2>2, <2>3
<1>4. CASE t.op # "create"
  <2>1. Loaded(p)
    BY <1>4 DEF Loaded
  <2>2. old # Absent => old.owner = t.user /\ old.id = t.view /\ old \in Row
    BY <1>1, <1>2, <2>1 DEF IInv, OwnersMutate
  <2>3. CASE t.op = "delete"
    BY <1>2, <2>2, <2>3 DEF Written
  <2>4. CASE t.op = "update"
    <3>1. new = [old EXCEPT !.state = t.arg] /\ old # Absent /\ ~Conflicts(new)
      BY <2>4 DEF Written, Rejected
    <3>2. t.arg \in States
      BY <1>1, <2>4 DEF RequestInv
    <3>3. new \in Row /\ new.id = t.view /\ new.owner = t.user
      BY <2>2, <3>1, <3>2 DEF Row
    <3> QED
      BY <1>2, <2>2, <2>4, <3>1, <3>3
  <2>5. CASE t.op = "share"
    <3>1. new = [old EXCEPT !.shared = t.arg] /\ old # Absent /\ ~Conflicts(new)
      BY <2>5 DEF Written, Rejected
    <3>2. t.arg \in BOOLEAN
      BY <1>1, <2>5 DEF RequestInv
    <3>3. new \in Row /\ new.id = t.view /\ new.owner = t.user
      BY <2>2, <3>1, <3>2 DEF Row
    <3> QED
      BY <1>2, <2>2, <2>5, <3>1, <3>3
  <2>6. CASE t.op = "rename"
    <3>1. new = [old EXCEPT !.name = t.arg] /\ old # Absent /\ ~Conflicts(new)
      BY <2>6 DEF Written, Rejected
    <3>2. t.arg \in Names
      BY <1>1, <2>6 DEF RequestInv
    <3>3. new \in Row /\ new.id = t.view /\ new.owner = t.user
      BY <2>2, <3>1, <3>2 DEF Row
    <3> QED
      BY <1>2, <2>2, <2>6, <3>1, <3>3
  <2> QED
    BY <1>2, <1>4, <2>3, <2>4, <2>5, <2>6
<1> QED
  BY <1>3, <1>4

LEMMA TableWritten ==
  ASSUME IInv, NEW p \in Tasks, task[p].step = "write", NEW new, new = Written(task[p]),
         ~Rejected(task[p], new), db' = [db EXCEPT ![task[p].view] = new], born' = born
  PROVE  /\ db' \in [Views -> Row \cup {Absent}] /\ \A v \in Views : db'[v] # Absent => db'[v].id = v /\ v \in born'
         /\ \A q \in Tasks \ {p} :
              /\ Loaded(q) /\ db'[task[q].view] # Absent => db'[task[q].view].owner = task[q].user
              /\ Creating(q) => db'[task[q].view] = Absent
<1> DEFINE v == task[p].view
<1>1. /\ v \in Views /\ v \in born /\ new \in Row \cup {Absent}
      /\ new # Absent => new.id = v /\ new.owner = task[p].user /\ ~Conflicts(new)
      /\ db[v] # Absent => task[p].user = db[v].owner
  BY RowWritten
<1>2. /\ db \in [Views -> Row \cup {Absent}] /\ \A w \in Views : db[w] # Absent => db[w].id = w /\ w \in born
      /\ born \subseteq Views
  BY DEF IInv, TypeOK, OwnersMutate
<1>3. db'[v] = new /\ \A w \in Views \ {v} : db'[w] = db[w]
  BY <1>1, <1>2
<1>4. db' \in [Views -> Row \cup {Absent}] /\ \A w \in Views : db'[w] # Absent => db'[w].id = w /\ w \in born'
  BY <1>1, <1>2, <1>3
<1>5. ASSUME NEW q \in Tasks \ {p}
      PROVE  /\ Loaded(q) /\ db'[task[q].view] # Absent => db'[task[q].view].owner = task[q].user
             /\ Creating(q) => db'[task[q].view] = Absent
  <2>1. Loaded(q) \/ Creating(q) => task[q].view \in Views
    BY <1>2 DEF IInv, RequestInv, Loaded, Creating
  <2>2. Loaded(p) \/ Creating(p)
    BY DEF Loaded, Creating
  <2>3. Creating(q) => task[q].view # v
    BY <2>2 DEF IInv, OwnersMutate
  <2>4. Creating(q) => db'[task[q].view] = Absent
    BY <1>3, <2>1, <2>3 DEF IInv, OwnersMutate
  <2>5. ASSUME Loaded(q), db'[task[q].view] # Absent
        PROVE  db'[task[q].view].owner = task[q].user
    <3>1. db[task[q].view] # Absent => db[task[q].view].owner = task[q].user
      BY <2>5 DEF IInv, OwnersMutate
    <3>2. CASE task[q].view # v
      BY <1>3, <2>1, <2>5, <3>1, <3>2
    <3>3. CASE task[q].view = v
      <4>1. ~Creating(p)
        BY <2>5, <3>3 DEF IInv, OwnersMutate
      <4>2. db[v] # Absent
        <5>1. task[p].op # "create"
          BY <4>1 DEF Creating
        <5>2. CASE task[p].op = "delete"
          BY <1>3, <2>5, <3>3, <5>2 DEF Written
        <5>3. CASE task[p].op # "delete"
          BY <5>1, <5>3 DEF Rejected
        <5> QED
          BY <5>2, <5>3
      <4> QED
        BY <1>1, <1>3, <2>5, <3>1, <3>3, <4>2
    <3> QED
      BY <3>2, <3>3
  <2> QED
    BY <2>4, <2>5
<1> QED
  BY <1>4, <1>5

\* The request that wrote goes on to invalidate, or ends when its answer is lost.
LEMMA WritingStep ==
  ASSUME IInv, NEW p \in Tasks, task[p].step = "write", NEW new, new = Written(task[p]),
         ~Rejected(task[p], new), db' = [db EXCEPT ![task[p].view] = new],
         task' = [task EXCEPT ![p].step = "drop"] \/ Finish(p),
         undisturbed' \in BOOLEAN, UNCHANGED <<born, cache, leg, writes>>
  PROVE  IInv'
<1>1. PICK t \in {Idle, [task[p] EXCEPT !.step = "drop"]} : task' = [task EXCEPT ![p] = t]
  BY DEF Finish
<1>2. task[p] \in Requests /\ Idle \in Requests /\ RequestInv(p) /\ leg[p] = LegOff
  BY IdleType DEF IInv, TypeOK, RequestInv
<1>3. /\ t \in Requests /\ t.step \in {"idle", "drop"}
      /\ t.step = "drop" => /\ t.row = task[p].row /\ t.op = task[p].op /\ t.arg = task[p].arg
                            /\ t.view = task[p].view /\ t.user = task[p].user
  BY <1>2 DEF Requests, Steps, Idle
<1>4. task'[p] = t
  BY <1>1 DEF IInv, TypeOK
<1>5. RequestInv(p)' /\ ~Creating(p)'
  BY <1>2, <1>3, <1>4 DEF RequestInv, Creating
<1>6. /\ db' \in [Views -> Row \cup {Absent}] /\ \A v \in Views : db'[v] # Absent => db'[v].id = v /\ v \in born'
      /\ \A q \in Tasks \ {p} :
           /\ Loaded(q) /\ db'[task[q].view] # Absent => db'[task[q].view].owner = task[q].user
           /\ Creating(q) => db'[task[q].view] = Absent
  BY TableWritten
<1>7. Loaded(p)' => /\ t.row \in Row
                    /\ db'[t.view] # Absent => db'[t.view].owner = t.user
                    /\ \A q \in Tasks \ {p} : Creating(q) => task[q].view # t.view
  <2>1. SUFFICES ASSUME Loaded(p)' PROVE /\ t.row \in Row
                                         /\ db'[t.view] # Absent => db'[t.view].owner = t.user
                                         /\ \A q \in Tasks \ {p} : Creating(q) => task[q].view # t.view
    OBVIOUS
  <2>2. t.step = "drop" /\ Loaded(p)
    BY <1>3, <1>4, <2>1 DEF Loaded
  <2>3. task[p].row \in Row /\ \A q \in Tasks \ {p} : Creating(q) => task[q].view # task[p].view
    BY <2>2 DEF IInv, OwnersMutate
  <2>4. db'[task[p].view] # Absent => db'[task[p].view].owner = task[p].user
    <3>1. db'[task[p].view] = new
      BY RowWritten DEF IInv, TypeOK
    <3> QED
      BY <3>1, RowWritten
  <2> QED
    BY <1>3, <2>2, <2>3, <2>4
<1>8. /\ born' \in SUBSET Views /\ cache' \in [Pools -> (SUBSET Row) \cup {Miss}] /\ writes' \in 0..MaxWrites
      /\ \A k \in Pools : cache'[k] \in {cache[k], Miss}
      /\ born \subseteq born' /\ leg' = leg /\ task[p].step # "legs" /\ t.step # "legs"
  BY <1>3 DEF IInv, TypeOK
<1> QED
  BY <1>1, <1>3, <1>5, <1>6, <1>7, <1>8, RequestStep

LEMMA WriteViewKeeps ==
  ASSUME IInv, NEW p \in Tasks, WriteView(p)
  PROVE  IInv'
<1> DEFINE new == Written(task[p])
<1>1. task[p].step = "write" /\ UNCHANGED <<born, cache, leg, writes, undisturbed>> /\ undisturbed \in BOOLEAN
  BY DEF WriteView, IInv, TypeOK
<1>2. CASE Rejected(task[p], new)
  BY <1>1, <1>2, EndingStep DEF WriteView, IInv, TypeOK
<1>3. CASE ~Rejected(task[p], new)
  <2>1. db' = [db EXCEPT ![task[p].view] = new] /\ task' = [task EXCEPT ![p].step = "drop"]
    BY <1>3 DEF WriteView
  <2> HIDE DEF new
  <2> QED
    BY <1>1, <1>3, <2>1, WritingStep DEF new
<1> QED
  BY <1>2, <1>3

LEMMA AnswerLostKeeps ==
  ASSUME IInv, NEW p \in Tasks, AnswerLost(p)
  PROVE  IInv'
BY WritingStep DEF AnswerLost

LEMMA QueryFailsKeeps ==
  ASSUME IInv, NEW p \in Tasks, QueryFails(p)
  PROVE  IInv'
BY EndingStep DEF QueryFails, IInv, TypeOK

LEMMA InvalidateKeeps ==
  ASSUME IInv, NEW p \in Tasks, Invalidate(p)
  PROVE  IInv'
<1>1. cache \in [Pools -> (SUBSET Row) \cup {Miss}] /\ Users \subseteq Pools /\ undisturbed' \in BOOLEAN
  BY DEF IInv, TypeOK, Pools, Invalidate
<1>2. cache' \in [Pools -> (SUBSET Row) \cup {Miss}] /\ \A k \in Pools : cache'[k] \in {cache[k], Miss}
  BY <1>1 DEF Invalidate
<1>3. task[p].step # "legs" /\ Finish(p) /\ UNCHANGED <<db, born, leg, writes>>
  BY DEF Invalidate
<1> QED
  BY <1>1, <1>2, <1>3, EndingStep

LEMMA ExpireKeeps ==
  ASSUME IInv, NEW k \in Pools, Expire(k)
  PROVE  IInv'
<1>1. TypeOK'
  BY DEF Expire, IInv, TypeOK
<1>2. \A p \in Tasks : RequestInv(p)'
  BY DEF Expire, IInv, RequestInv
<1>3. OwnersMutate'
  BY DEF Expire, IInv, OwnersMutate, Loaded, Creating
<1>4. PrivateStaysPrivate'
  BY DEF Expire, IInv, PrivateStaysPrivate, Belongs, PoolOf, TypeOK
<1> QED
  BY <1>1, <1>2, <1>3, <1>4 DEF IInv

-----------------------------------------------------------------------------
(* The theorems.                                                           *)

LEMMA InitHolds == Init => IInv
<1> SUFFICES ASSUME Init PROVE IInv
  OBVIOUS
<1>1. TypeOK
  BY IdleType, ConstantsAssumption DEF Init, TypeOK
<1>2. \A p \in Tasks : RequestInv(p)
  BY DEF Init, RequestInv, Idle
<1>3. OwnersMutate
  BY DEF Init, OwnersMutate, Loaded, Creating, Idle
<1>4. PrivateStaysPrivate
  BY DEF Init, PrivateStaysPrivate, LegOff
<1> QED
  BY <1>1, <1>2, <1>3, <1>4 DEF IInv

LEMMA ArriveKeeps ==
  ASSUME IInv, NEW p \in Tasks, Arrive(p)
  PROVE  IInv'
<1>1. PICK u \in Users :
        \/ FindViews(p, u)
        \/ \E v \in Views :
             \/ \E n \in Names, s \in States, b \in BOOLEAN : CreateView(p, u, v, n, s, b)
             \/ \E s \in States : MutateView(p, "update", u, v, s)
             \/ \E b \in BOOLEAN : MutateView(p, "share", u, v, b)
             \/ \E n \in Names : MutateView(p, "rename", u, v, n)
             \/ MutateView(p, "delete", u, v, Absent)
  BY DEF Arrive
<1>2. CASE FindViews(p, u)
  BY <1>2, FindViewsKeeps
<1>3. ASSUME NEW v \in Views, NEW n \in Names, NEW s \in States, NEW b \in BOOLEAN, CreateView(p, u, v, n, s, b)
      PROVE  IInv'
  BY <1>3, CreateViewKeeps
<1>4. ASSUME NEW v \in Views, NEW op, NEW arg, MutateView(p, op, u, v, arg),
             \/ op = "update" /\ arg \in States
             \/ op = "share" /\ arg \in BOOLEAN
             \/ op = "rename" /\ arg \in Names
             \/ op = "delete" /\ arg = Absent
      PROVE  IInv'
  BY <1>4, MutateViewKeeps
<1> QED
  BY <1>1, <1>2, <1>3, <1>4

\* Every step of any request, and every expiry, preserves the invariant.
THEOREM Inductive == Spec => []IInv
<1>1. IInv /\ [Next]_vars => IInv'
  <2> SUFFICES ASSUME IInv, [Next]_vars PROVE IInv'
    OBVIOUS
  <2>1. ASSUME NEW p \in Tasks, Arrive(p) PROVE IInv'
    BY <2>1, ArriveKeeps
  <2>2. ASSUME NEW p \in Tasks, StepOf(p) PROVE IInv'
    BY <2>2, LegActions, AnswerKeeps, LoadViewKeeps, CheckNameKeeps, WriteViewKeeps, InvalidateKeeps,
       QueryFailsKeeps, AnswerLostKeeps DEF StepOf
  <2>3. ASSUME NEW k \in Pools, Expire(k) PROVE IInv'
    BY <2>3, ExpireKeeps
  <2>4. CASE UNCHANGED vars
    BY <2>4 DEF vars, IInv, TypeOK, RequestInv, OwnersMutate, Loaded, Creating, PrivateStaysPrivate, Belongs, PoolOf
  <2> QED
    BY <2>1, <2>2, <2>3, <2>4 DEF Next
<1> QED
  BY <1>1, InitHolds, PTL DEF Spec

\* The variables keep their types (DataTableViewsService).
THEOREM TypeCorrect == Spec => []TypeOK
<1>1. IInv => TypeOK
  BY DEF IInv
<1> QED
  BY <1>1, Inductive, PTL

\* Whatever races and failures there are, a version of a view that its owner had as
\* private is in no pool but the owner's (getOrCachePersonalViews, getOrCacheSharedViews).
THEOREM PrivateViewsStayPrivate == Spec => []PrivateStaysPrivate
<1>1. IInv => PrivateStaysPrivate
  BY DEF IInv
<1> QED
  BY <1>1, Inductive, PTL

\* A row in the table is changed only by a request of its owner, which sets the
\* column its operation is about and undoes no other.
THEOREM UpdatesKept == Spec => NoLostUpdate
<1> DEFINE Kept == \A v \in Views :
      db[v] # Absent /\ db'[v] # db[v] =>
        \E p \in Tasks :
          /\ task[p].step = "write" /\ task[p].view = v /\ task[p].user = db[v].owner
          /\ \/ task[p].op = "delete" /\ db'[v] = Absent
             \/ task[p].op = "update" /\ db'[v] = [db[v] EXCEPT !.state = task[p].arg]
             \/ task[p].op = "share" /\ db'[v] = [db[v] EXCEPT !.shared = task[p].arg]
             \/ task[p].op = "rename" /\ db'[v] = [db[v] EXCEPT !.name = task[p].arg]
<1>1. IInv /\ [Next]_vars => [Kept]_vars
  <2> SUFFICES ASSUME IInv, Next PROVE Kept
    BY DEF vars
  <2>1. ASSUME NEW p \in Tasks, task[p].step = "write", ~Rejected(task[p], Written(task[p])),
               db' = [db EXCEPT ![task[p].view] = Written(task[p])]
        PROVE  Kept
    <3> DEFINE new == Written(task[p])
               v == task[p].view
    <3>1. db'[v] = new /\ \A w \in Views \ {v} : db'[w] = db[w]
      BY <2>1, RowWritten DEF IInv, TypeOK
    <3>2. db[v] # Absent =>
            /\ task[p].user = db[v].owner
            /\ \/ task[p].op = "delete" /\ new = Absent
               \/ task[p].op = "update" /\ new = [db[v] EXCEPT !.state = task[p].arg]
               \/ task[p].op = "share" /\ new = [db[v] EXCEPT !.shared = task[p].arg]
               \/ task[p].op = "rename" /\ new = [db[v] EXCEPT !.name = task[p].arg]
      BY <2>1, RowWritten
    <3> HIDE DEF new
    <3> QED
      BY <2>1, <3>1, <3>2
  <2>2. ASSUME NEW p \in Tasks, WriteView(p) PROVE Kept
    <3>1. CASE Rejected(task[p], Written(task[p]))
      BY <2>2, <3>1 DEF WriteView
    <3> QED
      BY <2>1, <2>2, <3>1 DEF WriteView
  <2>3. ASSUME NEW p \in Tasks, AnswerLost(p) PROVE Kept
    BY <2>1, <2>3 DEF AnswerLost
  <2>4. CASE UNCHANGED db
    BY <2>4
  <2>5. ASSUME NEW p \in Tasks, Arrive(p) PROVE UNCHANGED db
    BY <2>5 DEF Arrive, FindViews, CreateView, MutateView
  <2>6. ASSUME NEW p \in Tasks, StepOf(p) PROVE WriteView(p) \/ AnswerLost(p) \/ UNCHANGED db
    BY <2>6 DEF StepOf, CacheGet, ReadPool, CacheSet, Answer, LoadView, CheckName, Invalidate, QueryFails
  <2>7. ASSUME NEW k \in Pools, Expire(k) PROVE UNCHANGED db
    BY <2>7 DEF Expire
  <2> HIDE DEF Kept
  <2> QED
    BY <2>2, <2>3, <2>4, <2>5, <2>6, <2>7 DEF Next
<1> QED
  BY <1>1, Inductive, PTL DEF Spec, NoLostUpdate

-----------------------------------------------------------------------------
(* Exact answers: undisturbed, a mutation runs alone.                      *)

\* While a half of findViews runs there is no mutation, and every pool is coherent.
LEMMA Quiet ==
  ASSUME IInv, UndisturbedInv, undisturbed, NEW p \in Tasks, Active(p), task[p].op = "find"
  PROVE  (\A q \in Tasks : ~Mutating(q)) /\ \A k \in Pools : Coherent(k)
<1>1. \A q \in Tasks : ~Mutating(q)
  BY DEF UndisturbedInv, Mutating
<1>2. \A q \in Tasks : task[q].step = "drop" => Mutating(q)
  BY DEF IInv, RequestInv, Mutating, Active
<1>3. \A k \in Pools : ~Dropping(k)
  BY <1>1, <1>2 DEF Dropping
<1> QED
  BY <1>1, <1>3 DEF UndisturbedInv

\* What a half holds, and what it leaves in the cache, is what the table has.
LEMMA ExactLeg ==
  ASSUME IInv, UndisturbedInv, NEW p \in Tasks, NEW l \in Legs, NEW h,
         leg' = [leg EXCEPT ![p][l] = h],
         undisturbed /\ h.step \in {"set", "done"} => h.rows = PoolRows(PoolOf(p, l)),
         undisturbed => \A k \in Pools : Coherent(k) => cache'[k] \in {cache[k], Miss, PoolRows(k)},
         UNCHANGED <<db, task, undisturbed>>
  PROVE  UndisturbedInv'
<1> SUFFICES ASSUME undisturbed PROVE UndisturbedInv'
  BY DEF UndisturbedInv
<1>1. \A k \in Pools : PoolRows(k)' = PoolRows(k)
  BY DEF PoolRows, Rows
<1>2. \A q \in Tasks, m \in Legs : PoolOf(q, m)' = PoolOf(q, m)
  BY DEF PoolOf
<1>3. \A q \in Tasks, m \in Legs : leg'[q][m] = IF q = p /\ m = l THEN h ELSE leg[q][m]
  BY DEF IInv, TypeOK
<1>4. \A q \in Tasks, m \in Legs : leg'[q][m].step \in {"set", "done"} => leg'[q][m].rows = PoolRows(PoolOf(q, m))'
  <2> SUFFICES ASSUME NEW q \in Tasks, NEW m \in Legs, leg'[q][m].step \in {"set", "done"}
               PROVE  leg'[q][m].rows = PoolRows(PoolOf(q, m))
    BY DEF PoolRows, Rows, PoolOf
  <2> QED
    BY <1>3 DEF UndisturbedInv
<1>5. \A k \in Pools : Coherent(k)' \/ Dropping(k)'
  BY <1>1 DEF UndisturbedInv, Coherent, Dropping, Invalidated
<1> QED
  BY <1>4, <1>5 DEF UndisturbedInv, Mutating, Active, Loaded

LEMMA LegExact ==
  ASSUME IInv, UndisturbedInv, NEW p \in Tasks, NEW l \in Legs, CacheGet(p, l) \/ ReadPool(p, l) \/ CacheSet(p, l)
  PROVE  UndisturbedInv'
<1>1. leg[p][l].step # "off" /\ UNCHANGED <<db, task, undisturbed>>
  BY DEF CacheGet, ReadPool, CacheSet
<1>2. task[p].user \in Users /\ Active(p) /\ task[p].op = "find"
  BY <1>1, LegsRun DEF Active
<1>3. KeyOf(p, l) \in Pools /\ KeyOf(p, l) = PoolOf(p, l)
  BY <1>2 DEF KeyOf, PoolOf, Pools
<1>4. leg[p][l] \in [step : LegSteps, rows : SUBSET Row]
  BY DEF IInv, TypeOK
<1>5. undisturbed => \A k \in Pools : Coherent(k)
  BY <1>2, Quiet
<1>6. ASSUME NEW s \in LegSteps, leg' = [leg EXCEPT ![p][l].step = s]
      PROVE  leg' = [leg EXCEPT ![p][l] = [step |-> s, rows |-> leg[p][l].rows]]
  <2>1. [leg[p][l] EXCEPT !.step = s] = [step |-> s, rows |-> leg[p][l].rows]
    BY <1>4, HalfMoves
  <2> QED
    BY <1>6, <2>1
<1>7. CASE CacheGet(p, l)
  <2>1. CASE cache[KeyOf(p, l)] # Miss /\ leg' = [leg EXCEPT ![p][l] = [step |-> "done", rows |-> cache[KeyOf(p, l)]]]
    <3> DEFINE h == [step |-> "done", rows |-> cache[KeyOf(p, l)]]
    <3>1. undisturbed => h.rows = PoolRows(PoolOf(p, l))
      BY <1>3, <1>5, <2>1 DEF Coherent
    <3>2. leg' = [leg EXCEPT ![p][l] = h]
      BY <2>1
    <3> HIDE DEF h
    <3> QED
      BY <1>1, <1>7, <3>1, <3>2, ExactLeg DEF CacheGet
  <2>2. CASE leg' = [leg EXCEPT ![p][l].step = "read"]
    <3> DEFINE h == [step |-> "read", rows |-> leg[p][l].rows]
    <3>1. leg' = [leg EXCEPT ![p][l] = h] /\ h.step = "read"
      BY <1>6, <2>2 DEF LegSteps
    <3> HIDE DEF h
    <3> QED
      BY <1>1, <1>7, <3>1, ExactLeg DEF CacheGet
  <2> QED
    BY <1>7, <2>1, <2>2 DEF CacheGet
<1>8. CASE ReadPool(p, l)
  <2>1. CASE leg' = [leg EXCEPT ![p][l] = [step |-> "set", rows |-> PoolRows(PoolOf(p, l))]]
    <3> DEFINE h == [step |-> "set", rows |-> PoolRows(PoolOf(p, l))]
    <3>1. leg' = [leg EXCEPT ![p][l] = h] /\ h.rows = PoolRows(PoolOf(p, l))
      BY <2>1
    <3> HIDE DEF h
    <3> QED
      BY <1>1, <1>8, <3>1, ExactLeg DEF ReadPool
  <2>2. CASE leg' = [leg EXCEPT ![p][l].step = "failed"]
    <3> DEFINE h == [step |-> "failed", rows |-> leg[p][l].rows]
    <3>1. leg' = [leg EXCEPT ![p][l] = h] /\ h.step = "failed"
      BY <1>6, <2>2 DEF LegSteps
    <3> HIDE DEF h
    <3> QED
      BY <1>1, <1>8, <3>1, ExactLeg DEF ReadPool
  <2> QED
    BY <1>8, <2>1, <2>2 DEF ReadPool
<1>9. CASE CacheSet(p, l)
  <2> DEFINE h == [step |-> "done", rows |-> leg[p][l].rows]
  <2>1. leg' = [leg EXCEPT ![p][l] = h] /\ h.rows = leg[p][l].rows
    BY <1>6, <1>9 DEF CacheSet, LegSteps
  <2>2. undisturbed => leg[p][l].rows = PoolRows(PoolOf(p, l))
    BY <1>9 DEF CacheSet, UndisturbedInv
  <2>3. undisturbed => \A k \in Pools : cache'[k] \in {cache[k], PoolRows(k)}
    BY <1>3, <1>9, <2>2 DEF CacheSet, IInv, TypeOK
  <2> HIDE DEF h
  <2> QED
    BY <1>1, <2>1, <2>2, <2>3, ExactLeg
<1> QED
  BY <1>7, <1>8, <1>9

\* A request moves and neither the table nor the cache does.
LEMMA ExactTask ==
  ASSUME IInv, UndisturbedInv, NEW p \in Tasks, task[p].step # "drop",
         NEW t, t.step # "drop", task' = [task EXCEPT ![p] = t],
         undisturbed' => undisturbed,
         undisturbed' /\ t.step # "idle" => \A q \in Tasks \ {p} : ~Mutating(q),
         undisturbed' /\ t.step # "idle" /\ t.op # "find" => \A q \in Tasks \ {p} : ~Active(q),
         undisturbed' /\ t.step \in {"check", "write"} /\ t.op # "create" => t.row = db[t.view],
         \A l \in Legs : leg'[p][l].step \notin {"set", "done"},
         \A q \in Tasks \ {p} : leg'[q] = leg[q],
         UNCHANGED <<db, cache>>
  PROVE  UndisturbedInv'
<1> SUFFICES ASSUME undisturbed' PROVE UndisturbedInv'
  BY DEF UndisturbedInv
<1>1. task'[p] = t /\ \A q \in Tasks \ {p} : task'[q] = task[q]
  BY DEF IInv, TypeOK
<1>2. \A q, s \in Tasks : Mutating(q)' /\ Active(s)' => q = s
  BY <1>1 DEF UndisturbedInv, Mutating, Active
<1>3. \A q \in Tasks : Loaded(q)' /\ task'[q].step # "drop" => task'[q].row = db'[task'[q].view]
  BY <1>1 DEF UndisturbedInv, Loaded
<1>4. \A k \in Pools : Coherent(k)' \/ Dropping(k)'
  <2> SUFFICES ASSUME NEW k \in Pools, ~Coherent(k)' PROVE Dropping(k)'
    OBVIOUS
  <2>1. PoolRows(k)' = PoolRows(k)
    BY DEF PoolRows, Rows
  <2>2. Dropping(k)
    BY <2>1 DEF Coherent, UndisturbedInv
  <2>3. PICK q \in Tasks : task[q].step = "drop" /\ k \in Invalidated(task[q])
    BY <2>2 DEF Dropping
  <2>4. task'[q] = task[q]
    BY <1>1, <2>3
  <2> QED
    BY <2>3, <2>4 DEF Dropping
<1>5. \A q \in Tasks, l \in Legs : leg'[q][l].step \in {"set", "done"} => leg'[q][l].rows = PoolRows(PoolOf(q, l))'
  <2> SUFFICES ASSUME NEW q \in Tasks, NEW l \in Legs, leg'[q][l].step \in {"set", "done"}
               PROVE  leg'[q][l].rows = PoolRows(PoolOf(q, l))'
    OBVIOUS
  <2>1. q # p /\ leg'[q] = leg[q] /\ task'[q] = task[q]
    BY <1>1
  <2>2. leg[q][l].rows = PoolRows(PoolOf(q, l))
    BY <2>1 DEF UndisturbedInv
  <2>3. PoolRows(PoolOf(q, l))' = PoolRows(PoolOf(q, l))
    BY <2>1 DEF PoolRows, Rows, PoolOf
  <2> QED
    BY <2>1, <2>2, <2>3
<1> QED
  BY <1>2, <1>3, <1>4, <1>5 DEF UndisturbedInv

LEMMA OffLegs ==
  ASSUME IInv, NEW p \in Tasks, task[p].step # "legs"
  PROVE  \A l \in Legs : leg[p][l].step \notin {"set", "done"}
BY DEF IInv, RequestInv, LegOff

\* A mutation in flight is the only request in flight.
LEMMA Lone ==
  ASSUME IInv, UndisturbedInv, undisturbed, NEW p \in Tasks, task[p].step \in {"load", "check", "write", "drop"}
  PROVE  \A q \in Tasks \ {p} : ~Active(q) /\ ~Mutating(q)
<1>1. Mutating(p)
  BY DEF IInv, RequestInv, Mutating, Active
<1> QED
  BY <1>1 DEF UndisturbedInv, Mutating

\* A request that ends before it has written.
LEMMA EndExact ==
  ASSUME IInv, UndisturbedInv, NEW p \in Tasks, task[p].step # "drop", Finish(p),
         leg' = leg \/ leg' = [leg EXCEPT ![p] = LegOff], task[p].step = "legs" => leg' = [leg EXCEPT ![p] = LegOff],
         UNCHANGED <<db, cache, undisturbed>>
  PROVE  UndisturbedInv'
<1>1. Idle.step = "idle" /\ Idle.op = "find" /\ task' = [task EXCEPT ![p] = Idle]
  BY DEF Idle, Finish
<1>2. \A l \in Legs : leg'[p][l].step \notin {"set", "done"}
  <2>1. CASE leg' = leg /\ task[p].step # "legs"
    BY <2>1, OffLegs
  <2>2. CASE leg' = [leg EXCEPT ![p] = LegOff]
    BY <2>2 DEF IInv, TypeOK, LegOff
  <2> QED
    BY <2>1, <2>2
<1>3. \A q \in Tasks \ {p} : leg'[q] = leg[q]
  BY DEF IInv, TypeOK
<1> QED
  BY <1>1, <1>2, <1>3, ExactTask

LEMMA FindExact ==
  ASSUME IInv, UndisturbedInv, NEW p \in Tasks, NEW u \in Users, FindViews(p, u)
  PROVE  UndisturbedInv'
<1> DEFINE t == [Idle EXCEPT !.user = u, !.step = "legs"]
           h == [l \in Legs |-> [step |-> "get", rows |-> {}]]
<1>1. t.step = "legs" /\ t.op = "find"
  BY DEF Idle
<1>2. task' = [task EXCEPT ![p] = t] /\ leg' = [leg EXCEPT ![p] = h]
  BY DEF FindViews
<1>3. /\ \A l \in Legs : leg'[p][l].step \notin {"set", "done"}
      /\ \A q \in Tasks \ {p} : leg'[q] = leg[q]
  BY <1>2 DEF IInv, TypeOK
<1>4. task[p].step # "drop" /\ UNCHANGED <<db, cache>> /\ (undisturbed' => undisturbed /\ \A q \in Tasks : ~Mutating(q))
  BY DEF FindViews, Active
<1> HIDE DEF t, h
<1> QED
  BY <1>1, <1>2, <1>3, <1>4, ExactTask

LEMMA RequestExact ==
  ASSUME IInv, UndisturbedInv, NEW p \in Tasks, NEW op \in Ops \ {"find"}, NEW u, NEW v, NEW arg, NEW row,
         Request(p, op, u, v, arg, row), UNCHANGED <<db, cache, leg>>
  PROVE  UndisturbedInv'
<1> DEFINE step == IF op = "create" THEN "write" ELSE "load"
           t == [op |-> op, user |-> u, view |-> v, arg |-> arg, row |-> row, step |-> step]
<1>1. task' = [task EXCEPT ![p] = t]
  BY DEF Request
<1>2. task[p].step = "idle" /\ (undisturbed' => undisturbed /\ \A q \in Tasks : ~Active(q))
  BY DEF Request, Active
<1>3. t.op = op /\ t.step = step /\ step \in {"write", "load"} /\ (step = "write" => op = "create")
  OBVIOUS
<1> HIDE DEF t, step
<1>4. \A l \in Legs : leg'[p][l].step \notin {"set", "done"}
  BY <1>2, OffLegs
<1>5. undisturbed' => \A q \in Tasks \ {p} : ~Active(q) /\ ~Mutating(q)
  BY <1>2 DEF Mutating
<1> QED
  BY <1>1, <1>2, <1>3, <1>4, <1>5, ExactTask

LEMMA LoadExact ==
  ASSUME IInv, UndisturbedInv, NEW p \in Tasks, LoadView(p)
  PROVE  UndisturbedInv'
<1>1. task[p].step = "load" /\ UNCHANGED <<db, cache, leg, undisturbed>>
  BY DEF LoadView
<1>2. CASE Finish(p)
  BY <1>1, <1>2, EndExact
<1>3. CASE task' = [task EXCEPT ![p].row = db[task[p].view], ![p].step = IF task[p].op = "rename" THEN "check" ELSE "write"]
  <2> DEFINE row == db[task[p].view]
             step == IF task[p].op = "rename" THEN "check" ELSE "write"
             t == [task[p] EXCEPT !.row = row, !.step = step]
  <2>1. task[p] \in Requests
    BY DEF IInv, TypeOK
  <2>2. task' = [task EXCEPT ![p] = t]
    BY <1>3
  <2>3. step \in {"check", "write"}
    OBVIOUS
  <2> HIDE DEF row, step
  <2>4. t.row = row /\ t.step = step /\ t.view = task[p].view
    BY <2>1 DEF Requests
  <2> HIDE DEF t
  <2>5. \A l \in Legs : leg'[p][l].step \notin {"set", "done"}
    BY <1>1, OffLegs
  <2>6. undisturbed' => \A q \in Tasks \ {p} : ~Active(q) /\ ~Mutating(q)
    BY <1>1, Lone
  <2> QED
    BY <1>1, <2>2, <2>3, <2>4, <2>5, <2>6, ExactTask DEF row
<1> QED
  BY <1>2, <1>3 DEF LoadView

LEMMA CheckExact ==
  ASSUME IInv, UndisturbedInv, NEW p \in Tasks, CheckName(p)
  PROVE  UndisturbedInv'
<1>1. task[p].step = "check" /\ UNCHANGED <<db, cache, leg, undisturbed>>
  BY DEF CheckName
<1>2. CASE Finish(p)
  BY <1>1, <1>2, EndExact
<1>3. CASE Goto(p, "write")
  <2> DEFINE t == [task[p] EXCEPT !.step = "write"]
  <2>1. task[p] \in Requests /\ task[p].op = "rename" /\ Loaded(p)
    BY <1>1 DEF IInv, TypeOK, RequestInv, Loaded
  <2>2. task' = [task EXCEPT ![p] = t]
    BY <1>3 DEF Goto
  <2>3. t.row = task[p].row /\ t.step = "write" /\ t.view = task[p].view
    BY <2>1 DEF Requests
  <2> HIDE DEF t
  <2>4. undisturbed => task[p].row = db[task[p].view]
    BY <1>1, <2>1 DEF UndisturbedInv
  <2>5. \A l \in Legs : leg'[p][l].step \notin {"set", "done"}
    BY <1>1, OffLegs
  <2>6. undisturbed' => \A q \in Tasks \ {p} : ~Active(q) /\ ~Mutating(q)
    BY <1>1, Lone
  <2> QED
    BY <1>1, <2>2, <2>3, <2>4, <2>5, <2>6, ExactTask
<1> QED
  BY <1>2, <1>3 DEF CheckName

\* The pools a write makes stale are those it is about to invalidate.
LEMMA StaleAreDropped ==
  ASSUME IInv, UndisturbedInv, undisturbed, NEW p \in Tasks, task[p].step = "write", NEW new, new = Written(task[p]),
         ~Rejected(task[p], new), NEW k \in Pools, k \notin Invalidated(task[p])
  PROVE  /\ db[task[p].view] # Absent => ~InPool(db[task[p].view], k)
         /\ new # Absent => ~InPool(new, k)
<1> DEFINE t == task[p]
           old == db[t.view]
<1>1. t \in Requests /\ RequestInv(p) /\ t.view \in Views /\ old \in Row \cup {Absent}
  BY DEF IInv, TypeOK, RequestInv
<1>2. t.user \in Users /\ t.op \in {"create", "update", "share", "rename", "delete"}
  BY <1>1 DEF RequestInv
<1>3. CASE t.op = "create"
  <2>1. old = Absent /\ new = t.row /\ t.row \in Row /\ t.row.owner = t.user
    BY <1>1, <1>3 DEF IInv, OwnersMutate, Creating, RequestInv, Written
  <2>2. k # IF t.row.shared THEN SharedPool ELSE t.user
    BY <1>3 DEF Invalidated
  <2> QED
    BY <2>1, <2>2 DEF InPool
<1>4. CASE t.op # "create"
  <2>1. Loaded(p) /\ t.row \in Row /\ t.row = old
    BY <1>4 DEF IInv, OwnersMutate, Loaded, UndisturbedInv
  <2>2. old # Absent /\ old.owner = t.user
    <3>1. Rejected(t, new) <=> IF t.op = "delete" THEN old = Absent ELSE old = Absent \/ Conflicts(new)
      BY <1>4 DEF Rejected
    <3>2. old # Absent
      BY <3>1
    <3> QED
      BY <2>1, <3>2 DEF IInv, OwnersMutate
  <2>3. CASE t.op = "share"
    <3>1. new = [old EXCEPT !.shared = t.arg]
      BY <2>3 DEF Written
    <3>2. new.owner = old.owner /\ k # t.user /\ k # SharedPool
      BY <2>1, <2>3, <3>1 DEF Row, Invalidated
    <3> QED
      BY <2>2, <3>2 DEF InPool
  <2>4. CASE t.op # "share"
    <3>1. k # IF old.shared THEN SharedPool ELSE t.user
      BY <2>1, <2>4 DEF Invalidated
    <3>2. new # Absent => new.owner = old.owner /\ new.shared = old.shared
      <4>1. CASE t.op = "delete"
        BY <4>1 DEF Written
      <4>2. CASE t.op = "update"
        BY <2>1, <4>2 DEF Written, Row
      <4>3. CASE t.op = "rename"
        BY <2>1, <4>3 DEF Written, Row
      <4> QED
        BY <1>2, <1>4, <2>4, <4>1, <4>2, <4>3
    <3> QED
      BY <2>2, <3>1, <3>2 DEF InPool
  <2> QED
    BY <2>3, <2>4
<1> QED
  BY <1>3, <1>4

LEMMA WriteExact ==
  ASSUME IInv, UndisturbedInv, NEW p \in Tasks, WriteView(p)
  PROVE  UndisturbedInv'
<1> DEFINE new == Written(task[p])
           v == task[p].view
<1>1. task[p].step = "write" /\ UNCHANGED <<born, cache, leg, writes, undisturbed>>
  BY DEF WriteView
<1>2. CASE Rejected(task[p], new)
  BY <1>1, <1>2, EndExact DEF WriteView
<1>3. CASE ~Rejected(task[p], new)
  <2>1. db' = [db EXCEPT ![v] = new] /\ task' = [task EXCEPT ![p].step = "drop"]
    BY <1>3 DEF WriteView
  <2>2. task[p] \in Requests /\ v \in Views
    BY <1>1 DEF IInv, TypeOK, RequestInv
  <2>3. db'[v] = new /\ \A w \in Views \ {v} : db'[w] = db[w]
    BY <2>1, <2>2 DEF IInv, TypeOK
  <2> DEFINE t == [task[p] EXCEPT !.step = "drop"]
  <2>4. task'[p] = t /\ \A q \in Tasks \ {p} : task'[q] = task[q]
    BY <2>1 DEF IInv, TypeOK
  <2>5. t.step = "drop" /\ Invalidated(t) = Invalidated(task[p])
    BY <2>2 DEF Requests, Invalidated
  <2> HIDE DEF t, new
  <2> SUFFICES ASSUME undisturbed PROVE UndisturbedInv'
    BY <1>1 DEF UndisturbedInv
  <2>6. \A q \in Tasks \ {p} : ~Active(q) /\ ~Mutating(q)
    BY <1>1, Lone
  <2>7. \A q, s \in Tasks : Mutating(q)' /\ Active(s)' => q = s
    BY <2>4, <2>6 DEF Mutating, Active
  <2>8. \A q \in Tasks : Loaded(q)' => task'[q].step = "drop"
    <3> SUFFICES ASSUME NEW q \in Tasks, q # p PROVE ~Loaded(q)'
      BY <2>4, <2>5
    <3>1. task'[q] = task[q] /\ ~Active(q)
      BY <2>4, <2>6
    <3> QED
      BY <3>1 DEF Loaded, Active
  <2>9. \A k \in Pools : Coherent(k)' \/ Dropping(k)'
    <3> SUFFICES ASSUME NEW k \in Pools, ~Dropping(k)' PROVE Coherent(k)'
      OBVIOUS
    <3>1. k \notin Invalidated(task[p])
      BY <2>4, <2>5 DEF Dropping
    <3>2. ~Dropping(k)
      BY <1>1, <2>6 DEF Dropping, Active
    <3>3. /\ db[v] # Absent => ~InPool(db[v], k)
          /\ db'[v] # Absent => ~InPool(db'[v], k)
      BY <1>1, <1>3, <2>3, <3>1, StaleAreDropped DEF new
    <3>4. PoolRows(k)' = PoolRows(k)
      <4>1. PoolRows(k) = {row \in {db[w] : w \in {x \in Views : db[x] # Absent}} : InPool(row, k)}
        BY DEF PoolRows, Rows
      <4>2. PoolRows(k)' = {row \in {db'[w] : w \in {x \in Views : db'[x] # Absent}} : InPool(row, k)}
        BY DEF PoolRows, Rows, InPool
      <4> HIDE DEF v
      <4> QED
        BY <2>3, <3>3, <4>1, <4>2
    <3> QED
      BY <1>1, <3>2, <3>4 DEF UndisturbedInv, Coherent
  <2>10. \A q \in Tasks, l \in Legs : leg'[q][l].step \notin {"set", "done"}
    <3>1. \A q \in Tasks : task[q].step # "legs"
      BY <1>1, <2>6 DEF Active
    <3> QED
      BY <1>1, <3>1, OffLegs
  <2> QED
    BY <2>7, <2>8, <2>9, <2>10 DEF UndisturbedInv
<1> QED
  BY <1>2, <1>3

LEMMA InvalidateExact ==
  ASSUME IInv, UndisturbedInv, NEW p \in Tasks, Invalidate(p)
  PROVE  UndisturbedInv'
<1> SUFFICES ASSUME undisturbed, undisturbed' PROVE UndisturbedInv'
  BY DEF UndisturbedInv, Invalidate
<1>1. task[p].step = "drop" /\ Finish(p) /\ UNCHANGED <<db, leg>>
  BY DEF Invalidate
<1>2. cache' = [k \in Pools |-> IF k \in Invalidated(task[p]) THEN Miss ELSE cache[k]]
  BY DEF Invalidate
<1>3. \A q \in Tasks \ {p} : ~Active(q) /\ ~Mutating(q)
  BY <1>1, Lone
<1>4. Idle.step = "idle"
  BY DEF Idle
<1>5. \A q \in Tasks : task'[q].step = "idle"
  BY <1>1, <1>3, <1>4 DEF Finish, Active, IInv, TypeOK
<1>6. \A k \in Pools : Coherent(k)'
  <2> SUFFICES ASSUME NEW k \in Pools PROVE Coherent(k)'
    OBVIOUS
  <2>1. PoolRows(k)' = PoolRows(k)
    BY <1>1 DEF PoolRows, Rows
  <2>2. CASE k \in Invalidated(task[p])
    BY <1>2, <2>2 DEF Coherent
  <2>3. CASE k \notin Invalidated(task[p])
    <3>1. ~Dropping(k)
      BY <1>3, <2>3 DEF Dropping, Active
    <3> QED
      BY <1>2, <2>1, <2>3, <3>1 DEF UndisturbedInv, Coherent
  <2> QED
    BY <2>2, <2>3
<1>7. \A q \in Tasks, l \in Legs : leg'[q][l].step \notin {"set", "done"}
  <2>1. \A q \in Tasks : task[q].step # "legs"
    BY <1>1, <1>3 DEF Active
  <2> QED
    BY <1>1, <2>1, OffLegs
<1> QED
  BY <1>5, <1>6, <1>7 DEF UndisturbedInv, Mutating, Active, Loaded

LEMMA ExpireExact ==
  ASSUME IInv, UndisturbedInv, NEW k \in Pools, Expire(k)
  PROVE  UndisturbedInv'
<1> SUFFICES ASSUME undisturbed PROVE UndisturbedInv'
  BY DEF UndisturbedInv, Expire
<1>1. \A j \in Pools : cache'[j] \in {cache[j], Miss} /\ PoolRows(j)' = PoolRows(j)
  BY DEF Expire, PoolRows, Rows, IInv, TypeOK
<1>2. \A j \in Pools : Coherent(j)' \/ Dropping(j)'
  BY <1>1 DEF Expire, UndisturbedInv, Coherent, Dropping, Invalidated
<1>3. \A q \in Tasks, l \in Legs :
        leg'[q][l].step \in {"set", "done"} => leg'[q][l].rows = PoolRows(PoolOf(q, l))'
  BY DEF Expire, UndisturbedInv, PoolRows, Rows, PoolOf
<1> QED
  BY <1>2, <1>3 DEF Expire, UndisturbedInv, Mutating, Active, Loaded

LEMMA ArriveExact ==
  ASSUME IInv, UndisturbedInv, NEW p \in Tasks, Arrive(p)
  PROVE  UndisturbedInv'
<1>1. PICK u \in Users :
        \/ FindViews(p, u)
        \/ \E v \in Views :
             \/ \E n \in Names, s \in States, b \in BOOLEAN : CreateView(p, u, v, n, s, b)
             \/ \E s \in States : MutateView(p, "update", u, v, s)
             \/ \E b \in BOOLEAN : MutateView(p, "share", u, v, b)
             \/ \E n \in Names : MutateView(p, "rename", u, v, n)
             \/ MutateView(p, "delete", u, v, Absent)
  BY DEF Arrive
<1>2. {"create", "update", "share", "rename", "delete"} \subseteq Ops \ {"find"}
  BY DEF Ops
<1>3. ASSUME NEW v \in Views, NEW n \in Names, NEW s \in States, NEW b \in BOOLEAN, CreateView(p, u, v, n, s, b)
      PROVE  UndisturbedInv'
  <2> DEFINE row == [id |-> v, owner |-> u, name |-> n, state |-> s, shared |-> b]
  <2>1. Request(p, "create", u, v, Absent, row) /\ UNCHANGED <<db, cache, leg>>
    BY <1>3 DEF CreateView
  <2> HIDE DEF row
  <2> QED
    BY <1>2, <2>1, RequestExact
<1>4. ASSUME NEW v \in Views, NEW op \in {"update", "share", "rename", "delete"}, NEW arg, MutateView(p, op, u, v, arg)
      PROVE  UndisturbedInv'
  BY <1>2, <1>4, RequestExact DEF MutateView
<1> QED
  BY <1>1, <1>3, <1>4, FindExact

LEMMA StartExact == Init => UndisturbedInv
<1> SUFFICES ASSUME Init PROVE UndisturbedInv
  OBVIOUS
<1>1. \A k \in Pools : Coherent(k)
  BY DEF Init, Coherent
<1> QED
  BY <1>1 DEF Init, UndisturbedInv, Mutating, Active, Loaded, Idle, LegOff

\* The invariant exactness rests on.
THEOREM Undisturbed == Spec => []UndisturbedInv
<1>1. IInv /\ UndisturbedInv /\ [Next]_vars => UndisturbedInv'
  <2> SUFFICES ASSUME IInv, UndisturbedInv, [Next]_vars PROVE UndisturbedInv'
    OBVIOUS
  <2>1. ASSUME NEW p \in Tasks, Arrive(p) PROVE UndisturbedInv'
    BY <2>1, ArriveExact
  <2>2. ASSUME NEW p \in Tasks, Answer(p) PROVE UndisturbedInv'
    BY <2>2, EndExact DEF Answer
  <2>3. ASSUME NEW p \in Tasks, QueryFails(p) PROVE UndisturbedInv'
    BY <2>3, EndExact DEF QueryFails
  <2>4. ASSUME NEW p \in Tasks, AnswerLost(p) PROVE UndisturbedInv'
    BY <2>4 DEF AnswerLost, UndisturbedInv
  <2>5. ASSUME NEW p \in Tasks, StepOf(p) PROVE UndisturbedInv'
    BY <2>2, <2>3, <2>4, <2>5, LegExact, LoadExact, CheckExact, WriteExact, InvalidateExact DEF StepOf
  <2>6. CASE UNCHANGED vars
    <3>1. /\ \A k \in Pools : (Coherent(k)' <=> Coherent(k)) /\ (Dropping(k)' <=> Dropping(k))
          /\ \A p \in Tasks, l \in Legs : PoolRows(PoolOf(p, l))' = PoolRows(PoolOf(p, l))
      BY <2>6 DEF vars, Coherent, PoolRows, Rows, PoolOf, Dropping, Invalidated
    <3> QED
      BY <2>6, <3>1 DEF vars, UndisturbedInv, Mutating, Active, Loaded
  <2> QED
    BY <2>1, <2>5, <2>6, ExpireExact DEF Next
<1> QED
  BY <1>1, Inductive, StartExact, PTL DEF Spec

\* Without overlapping mutations and failures findViews answers exactly the views of
\* the pools, and every cached pool is the table's, however its readers overlap.
THEOREM ExactAnswers == Spec => []ExactWhenUndisturbed
<1>1. IInv /\ UndisturbedInv => ExactWhenUndisturbed
  <2>1. ASSUME IInv, \A p \in Tasks : ~Mutating(p)
        PROVE  \A k \in Pools : ~Dropping(k)
    BY <2>1 DEF IInv, RequestInv, Mutating, Active, Dropping
  <2> QED
    BY <2>1 DEF UndisturbedInv, ExactWhenUndisturbed
<1> QED
  BY <1>1, Inductive, Undisturbed, PTL

-----------------------------------------------------------------------------
(* The check of renameView: undisturbed, no name is taken behind it.        *)

LEMMA CheckedStays ==
  ASSUME IInv, UndisturbedInv, CheckedInv, [Next]_vars
  PROVE  CheckedInv'
<1> SUFFICES ASSUME undisturbed', NEW p \in Tasks, task'[p].step = "write", task'[p].op = "rename"
             PROVE  ~NameTaken(task[p])'
  BY DEF CheckedInv
<1>1. ASSUME db' = db, task'[p] = task[p], undisturbed PROVE ~NameTaken(task[p])'
  BY <1>1 DEF CheckedInv, NameTaken, Rows
<1>2. ASSUME NEW q \in Tasks, task'[p] # task[p], Arrive(q) PROVE FALSE
  <2>1. task \in [Tasks -> Requests]
    BY DEF IInv, TypeOK
  <2>2. ASSUME NEW t, task' = [task EXCEPT ![q] = t], t.step # "write" \/ t.op # "rename"
        PROVE  FALSE
    BY <1>2, <2>1, <2>2
  <2>3. PICK u \in Users :
      \/ FindViews(q, u)
      \/ \E v \in Views, n \in Names, s \in States, b \in BOOLEAN : CreateView(q, u, v, n, s, b)
      \/ \E v \in Views, op \in Ops, arg \in {Absent} \cup BOOLEAN \cup Names \cup States :
           op # "create" /\ MutateView(q, op, u, v, arg)
    BY <1>2 DEF Arrive, Ops
  <2>4. CASE FindViews(q, u)
    <3> DEFINE t == [Idle EXCEPT !.user = u, !.step = "legs"]
    <3>1. t.step = "legs"
      BY DEF Idle
    <3>2. task' = [task EXCEPT ![q] = t]
      BY <2>4 DEF FindViews
    <3> HIDE DEF t
    <3> QED
      BY <2>2, <3>1, <3>2
  <2>5. ASSUME NEW v \in Views, NEW op \in Ops, NEW arg, NEW row, Request(q, op, u, v, arg, row)
        PROVE  FALSE
    <3> DEFINE t == [op |-> op, user |-> u, view |-> v, arg |-> arg, row |-> row,
                     step |-> IF op = "create" THEN "write" ELSE "load"]
    <3>1. t.step # "write" \/ t.op # "rename"
      OBVIOUS
    <3>2. task' = [task EXCEPT ![q] = t]
      BY <2>5 DEF Request
    <3> HIDE DEF t
    <3> QED
      BY <2>2, <3>1, <3>2
  <2> QED
    BY <2>3, <2>4, <2>5 DEF CreateView, MutateView, Ops
<1>3. ASSUME NEW q \in Tasks, q # p, WriteView(q), undisturbed PROVE FALSE
  <2>1. Mutating(q) /\ task'[p] = task[p] /\ Active(p)
    BY <1>3 DEF WriteView, Finish, IInv, TypeOK, RequestInv, Mutating, Active
  <2> QED
    BY <1>3, <2>1 DEF UndisturbedInv
<1>4. Idle.step = "idle"
  BY DEF Idle
<1>5. ASSUME Finish(p) PROVE FALSE
  BY <1>4, <1>5 DEF Finish, IInv, TypeOK
<1>6. ASSUME NEW q \in Tasks, q # p, Finish(q) PROVE task'[p] = task[p]
  BY <1>6 DEF Finish, IInv, TypeOK
<1>7. ASSUME NEW q \in Tasks, StepOf(q) PROVE ~NameTaken(task[p])'
  <2>1. CASE LoadView(q)
    <3>1. db' = db /\ undisturbed
      BY <2>1 DEF LoadView
    <3>2. q = p => task'[p].step # "write" \/ task'[p].op # "rename"
      BY <2>1, <1>5 DEF LoadView, IInv, TypeOK, Requests
    <3>3. q # p => task'[p] = task[p]
      BY <2>1, <1>6 DEF LoadView, IInv, TypeOK
    <3> QED
      BY <1>1, <3>1, <3>2, <3>3
  <2>2. CASE CheckName(q)
    <3>1. db' = db /\ undisturbed
      BY <2>2 DEF CheckName
    <3>2. CASE q = p
      <4>1. ~NameTaken(task[p]) /\ Goto(p, "write")
        BY <1>5, <2>2, <3>2 DEF CheckName
      <4>2. task[p] \in Requests /\ task'[p] = [task[p] EXCEPT !.step = "write"]
        BY <4>1 DEF Goto, IInv, TypeOK
      <4>3. task'[p].user = task[p].user /\ task'[p].arg = task[p].arg /\ task'[p].view = task[p].view
        BY <4>2 DEF Requests
      <4> QED
        BY <3>1, <4>1, <4>3 DEF NameTaken, Rows
    <3>3. CASE q # p
      <4>1. task'[p] = task[p]
        BY <1>6, <2>2, <3>3 DEF CheckName, Goto, IInv, TypeOK
      <4> QED
        BY <1>1, <3>1, <4>1
    <3> QED
      BY <3>2, <3>3
  <2>3. CASE WriteView(q)
    <3>1. undisturbed
      BY <2>3 DEF WriteView
    <3>2. q = p => task'[p].step # "write"
      BY <1>5, <2>3 DEF WriteView, IInv, TypeOK, Requests
    <3> QED
      BY <1>3, <2>3, <3>1, <3>2
  <2>4. CASE AnswerLost(q)
    BY <2>4 DEF AnswerLost
  <2>5. CASE Invalidate(q) \/ QueryFails(q) \/ Answer(q)
    <3>1. db' = db /\ undisturbed /\ Finish(q)
      BY <2>5 DEF Invalidate, QueryFails, Answer
    <3> QED
      BY <1>1, <1>5, <1>6, <3>1
  <2>6. CASE \E l \in Legs : CacheGet(q, l) \/ ReadPool(q, l) \/ CacheSet(q, l)
    BY <1>1, <2>6 DEF CacheGet, ReadPool, CacheSet
  <2> QED
    BY <1>7, <2>1, <2>2, <2>3, <2>4, <2>5, <2>6 DEF StepOf
<1>8. ASSUME NEW q \in Tasks, Arrive(q) PROVE db' = db /\ undisturbed
  BY <1>8 DEF Arrive, FindViews, CreateView, MutateView, Request
<1>9. CASE UNCHANGED vars \/ \E k \in Pools : Expire(k)
  BY <1>1, <1>9 DEF vars, Expire
<1> QED
  BY <1>1, <1>2, <1>7, <1>8, <1>9 DEF Next

\* As long as nothing overlaps it, a rename of a private view that passed the check is
\* not rejected by the unique index (renameView, dataTableViewsIndexes).
THEOREM RenamesTold == Spec => []CheckDecides
<1>1. Init => CheckedInv
  BY DEF Init, CheckedInv, Idle
<1>2. ASSUME IInv, UndisturbedInv, CheckedInv PROVE CheckDecides
  <2> SUFFICES ASSUME undisturbed, NEW p \in Tasks, task[p].step = "write", task[p].op = "rename",
                      ~task[p].row.shared
               PROVE  ~Rejected(task[p], Written(task[p]))
    BY DEF CheckDecides
  <2> DEFINE t == task[p]
             old == db[t.view]
             new == [old EXCEPT !.name = t.arg]
  <2>1. Loaded(p) /\ ~NameTaken(t) /\ Written(t) = new
    BY <1>2 DEF Loaded, CheckedInv, Written
  <2>2. t.row = old /\ t.row \in Row
    BY <1>2, <2>1 DEF UndisturbedInv, IInv, OwnersMutate
  <2>3. t.view \in Views /\ t.view \in born
    BY <1>2 DEF IInv, TypeOK, RequestInv
  <2>4. old # Absent
    BY <2>2, ConstantsAssumption
  <2>5. old.owner = t.user /\ old.id = t.view
    BY <1>2, <2>1, <2>3, <2>4 DEF IInv, OwnersMutate
  <2>6. new.id = t.view /\ new.owner = t.user /\ new.name = t.arg /\ ~new.shared
    BY <2>2, <2>5 DEF Row
  <2> HIDE DEF new
  <2>7. ~Conflicts(new)
    BY <2>1, <2>6 DEF Conflicts, NameTaken
  <2> QED
    BY <2>1, <2>4, <2>7 DEF Rejected
<1> QED
  BY <1>1, <1>2, CheckedStays, Inductive, Undisturbed, PTL DEF Spec
=============================================================================
