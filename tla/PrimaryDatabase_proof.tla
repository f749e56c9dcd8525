----------------------- MODULE PrimaryDatabase_proof -----------------------
(***************************************************************************)
(* Theorems about PrimaryDatabase, for every number of flows, connections, *)
(* tenants, nesting levels and calls.                                      *)
(***************************************************************************)
EXTENDS PrimaryDatabase, TLAPS

-----------------------------------------------------------------------------
(* What the server and the pool do to a session keeps its type.            *)

LEMMA FirstLevel == 1 \in Levels /\ NoRows \in [Levels -> SUBSET Rows]
  BY ConstantsAssumption DEF Levels, NoRows

LEMMA FreshType == Fresh \in Session
  BY FirstLevel DEF Fresh, Session, Contexts

LEMMA SessionOps ==
  ASSUME NEW s \in Session, NEW d \in Levels, NEW err \in BOOLEAN
  PROVE  /\ BeginOn(s) \in Session
         /\ Broken(s) \in Session
         /\ Failures(s) \subseteq Session
         /\ RollbackOn(s) \in Session
         /\ RollbackToOn(s, d) \in Session
         /\ Released(s, err) \in Session
<1>1. Broken(s) \in Session
  BY FirstLevel DEF Session, Broken
<1>2. BeginOn(s) \in Session
  BY DEF Session, BeginOn
<1>3. Failures(s) \subseteq Session
  BY <1>1 DEF Session, Failures
<1>4. RollbackToOn(s, d) \in Session
  BY DEF Session, RollbackToOn
<1>5. RollbackOn(s) \in Session /\ Released(s, err) \in Session
  BY FreshType DEF RollbackOn, Released
<1>6. QED
  BY <1>1, <1>2, <1>3, <1>4, <1>5

LEMMA SessionRls ==
  ASSUME NEW s \in Session, NEW ctx \in Contexts
  PROVE  [s EXCEPT !.rls = ctx] \in Session
  BY DEF Session

LEMMA SessionWrite ==
  ASSUME NEW s \in Session, NEW d \in Levels, NEW row \in Rows
  PROVE  [s EXCEPT !.pending[d] = @ \cup {row}] \in Session
  BY DEF Session

LEMMA MergedType ==
  ASSUME NEW levels \in [Levels -> SUBSET Rows], NEW d \in Levels, d > 1
  PROVE  Merged(levels, d) \in [Levels -> SUBSET Rows]
<1>1. d - 1 \in Levels
  BY ConstantsAssumption DEF Levels
<1>2. QED
  BY <1>1 DEF Merged

LEMMA SessionMerge ==
  ASSUME NEW s \in Session, NEW d \in Levels, d > 1
  PROVE  [s EXCEPT !.pending = Merged(@, d)] \in Session
<1>1. s.pending \in [Levels -> SUBSET Rows]
  BY DEF Session
<1>2. Merged(s.pending, d) \in [Levels -> SUBSET Rows]
  BY <1>1, MergedType
<1>3. QED
  BY <1>2 DEF Session

-----------------------------------------------------------------------------
(* A step of a flow touches its own client and no other.                   *)

LEMMA OwnClient ==
  ASSUME IInv, NEW r \in Requests
  PROVE  /\ pc[r] \notin {"idle", "waiting"} => client[r] \in Connections
         /\ pc[r] \in {"idle", "waiting"} => client[r] = NoClient
         /\ \A q \in Requests \ {r} : client[r] # NoClient => client[q] # client[r]
  BY DEF IInv, TypeOK, FlowInv, OneOwner

\* A step that keeps the client leaves the other flows as they were.
LEMMA HoldingStep ==
  ASSUME IInv, NEW r \in Requests, client[r] \in Connections,
         NEW s \in Session, session' = [session EXCEPT ![client[r]] = s],
         client' = client, kind' = kind, captured' = captured,
         \A q \in Requests \ {r} : pc'[q] = pc[q] /\ depth'[q] = depth[q] /\ calls'[q] = calls[q],
         \A w \in table' \cup All(s.pending) : UnderOwnContext(w),
         FlowInv(r)', SessionInv(r)'
  PROVE  /\ PoolClean'
         /\ OneOwner'
         /\ TenantIsolation'
         /\ \A q \in Requests : FlowInv(q)' /\ SessionInv(q)'
<1>1. PoolClean'
  BY DEF IInv, TypeOK, PoolClean, Free
<1>2. OneOwner'
  BY DEF IInv, OneOwner
<1>3. TenantIsolation'
  BY DEF IInv, TypeOK, TenantIsolation, UnderOwnContext
<1>4. ASSUME NEW q \in Requests, q # r
      PROVE  FlowInv(q)' /\ SessionInv(q)'
  <2>1. FlowInv(q) /\ SessionInv(q)
    BY DEF IInv
  <2>2. FlowInv(q)'
    BY <1>4, <2>1 DEF FlowInv, Applies
  <2>3. client[q] # NoClient => session'[client[q]] = session[client[q]]
    BY <1>4 DEF IInv, TypeOK, OneOwner
  <2>4. SessionInv(q)'
    BY <1>4, <2>1, <2>3 DEF SessionInv
  <2>5. QED
    BY <2>2, <2>4
<1>5. QED
  BY <1>1, <1>2, <1>3, <1>4

\* A step that returns leaves a clean client behind, and the flow idle.
LEMMA ReturningStep ==
  ASSUME IInv, NEW r \in Requests, NEW a,
         \/ client[r] = NoClient /\ session' = session
         \/ client[r] \in Connections /\ session' = [session EXCEPT ![client[r]] = Fresh],
         Return(r, a), \A q \in Requests \ {r} : calls'[q] = calls[q],
         \A w \in table' : UnderOwnContext(w)
  PROVE  /\ PoolClean'
         /\ OneOwner'
         /\ TenantIsolation'
         /\ \A q \in Requests : FlowInv(q)' /\ SessionInv(q)'
<1> USE DEF Return, Goto
<1>1. /\ client' = [client EXCEPT ![r] = NoClient]
      /\ \A q \in Requests \ {r} : client'[q] = client[q]
      /\ client'[r] = NoClient
  BY DEF IInv, TypeOK
<1>2. PoolClean'
  BY <1>1, ConstantsAssumption DEF IInv, TypeOK, PoolClean, Free
<1>3. OneOwner'
  BY <1>1 DEF IInv, OneOwner
<1>4. All(Fresh.pending) = {}
  BY DEF All, Fresh, NoRows
<1>5. TenantIsolation'
  BY <1>4 DEF IInv, TypeOK, TenantIsolation, UnderOwnContext
<1>6. ASSUME NEW q \in Requests, q # r
      PROVE  FlowInv(q)' /\ SessionInv(q)'
  <2>1. FlowInv(q) /\ SessionInv(q)
    BY DEF IInv
  <2>2. /\ pc'[q] = pc[q] /\ depth'[q] = depth[q] /\ client'[q] = client[q]
        /\ kind'[q] = kind[q] /\ captured'[q] = captured[q] /\ calls'[q] = calls[q]
    BY <1>6 DEF IInv, TypeOK
  <2>3. FlowInv(q)'
    BY <2>1, <2>2 DEF FlowInv, Applies
  <2>4. client[q] # NoClient => session'[client[q]] = session[client[q]]
    BY <1>6 DEF IInv, TypeOK, OneOwner
  <2>5. SessionInv(q)'
    BY <2>1, <2>2, <2>4 DEF SessionInv
  <2>6. QED
    BY <2>3, <2>5
<1>7. FlowInv(r)' /\ SessionInv(r)'
  <2>1. /\ pc'[r] = "idle" /\ depth'[r] = 0 /\ client'[r] = NoClient
        /\ kind'[r] = "direct" /\ captured'[r] = NoContext
    BY DEF IInv, TypeOK
  <2>2. QED
    BY <2>1 DEF FlowInv, SessionInv, Applies
<1>8. QED
  BY <1>2, <1>3, <1>5, <1>6, <1>7

-----------------------------------------------------------------------------
(* Each action preserves IInv.                                             *)

LEMMA RowOk ==
  ASSUME IInv, NEW r \in Requests, client[r] \in Connections,
         NEW n \in 1..MaxCalls,
         session[client[r]].rls = IF RlsConfigured THEN captured[r] ELSE NoContext
  PROVE  Row(r, n) \in Rows /\ UnderOwnContext(Row(r, n))
<1>1. session[client[r]].rls \in Contexts /\ captured[r] \in Contexts
  BY DEF IInv, TypeOK, Session
<1>2. QED
  BY <1>1 DEF Row, Rows, UnderOwnContext

LEMMA AckedWrite ==
  ASSUME NEW a \in [Requests -> [Levels -> SUBSET Rows]], NEW r \in Requests,
         NEW d \in Levels, NEW rows \in SUBSET Rows
  PROVE  [a EXCEPT ![r][d] = rows] \in [Requests -> [Levels -> SUBSET Rows]]
  OBVIOUS

LEMMA ReturnTypes ==
  ASSUME TypeOK, NEW r \in Requests, NEW a \in Answers, Return(r, a)
  PROVE  /\ pc' \in [Requests -> Steps]
         /\ kind' \in [Requests -> Kinds]
         /\ captured' \in [Requests -> Contexts]
         /\ client' \in [Requests -> Connections \cup {NoClient}]
         /\ depth' \in [Requests -> 0..MaxDepth]
         /\ answer' \in [Requests -> Answers]
  BY ConstantsAssumption DEF TypeOK, Return, Goto, Steps, Kinds, Contexts

LEMMA NoPendingRows == All(NoRows) = {} /\ All(Fresh.pending) = {}
  BY DEF All, NoRows, Fresh

LEMMA RequestStep ==
  ASSUME IInv, NEW r \in Requests, NEW k \in Kinds, Request(r, k),
         k = "wrapped" => RlsConfigured /\ store[r] # NoContext,
         k = "direct" => ~(RlsConfigured /\ store[r] # NoContext)
  PROVE  IInv'
<1> USE DEF Request, Count
<1>1. client[r] = NoClient
  BY OwnClient
<1>2. TypeOK'
  <2>1. calls' \in [Requests -> 0..MaxCalls]
    BY ConstantsAssumption DEF IInv, TypeOK
  <2>2. acked' \in [Requests -> [Levels -> SUBSET Rows]]
    BY FirstLevel DEF IInv, TypeOK
  <2>3. store' = store /\ session' = session /\ table' = table /\ ending' = ending
    OBVIOUS
  <2>4. CASE ending
    BY <2>1, <2>2, <2>3, <2>4, ReturnTypes DEF IInv, TypeOK, Answers
  <2>5. CASE ~ending
    <3>1. /\ pc' = [pc EXCEPT ![r] = "waiting"]
          /\ kind' = [kind EXCEPT ![r] = k]
          /\ captured' = [captured EXCEPT ![r] = store[r]]
          /\ answer' = [answer EXCEPT ![r] = "none"]
          /\ client' = client /\ depth' = depth
      BY <2>5 DEF Goto
    <3>2. QED
      BY <2>1, <2>2, <2>3, <3>1 DEF IInv, TypeOK, Steps, Answers
  <2>6. QED
    BY <2>4, <2>5
<1>3. CASE ending
  BY <1>1, <1>2, <1>3, ReturningStep DEF IInv, TypeOK, TenantIsolation, UnderOwnContext
<1>4. CASE ~ending
  <2>1. /\ client' = client /\ session' = session /\ table' = table /\ depth' = depth
        /\ pc' = [pc EXCEPT ![r] = "waiting"]
        /\ kind' = [kind EXCEPT ![r] = k]
        /\ captured' = [captured EXCEPT ![r] = store[r]]
    BY <1>4 DEF Goto
  <2>2. PoolClean' /\ OneOwner' /\ TenantIsolation'
    BY <2>1 DEF IInv, PoolClean, Free, OneOwner, TenantIsolation, UnderOwnContext
  <2>3. ASSUME NEW q \in Requests, q # r
        PROVE  FlowInv(q)' /\ SessionInv(q)'
    <3>1. FlowInv(q) /\ SessionInv(q)
      BY DEF IInv
    <3>2. /\ pc'[q] = pc[q] /\ kind'[q] = kind[q] /\ captured'[q] = captured[q]
          /\ calls'[q] = calls[q]
      BY <2>1, <2>3 DEF IInv, TypeOK
    <3>3. QED
      BY <2>1, <3>1, <3>2 DEF FlowInv, SessionInv, Applies
  <2>4. FlowInv(r)' /\ SessionInv(r)'
    <3>1. /\ pc'[r] = "waiting" /\ kind'[r] = k /\ captured'[r] = store[r]
          /\ calls'[r] > 0
      BY <2>1 DEF IInv, TypeOK
    <3>2. FlowInv(r)
      BY DEF IInv
    <3>3. QED
      BY <1>1, <2>1, <3>1, <3>2 DEF FlowInv, SessionInv, Applies
  <2>5. QED
    BY <1>2, <2>2, <2>3, <2>4 DEF IInv
<1>5. QED
  BY <1>3, <1>4 DEF IInv, TypeOK

LEMMA CheckoutStep ==
  ASSUME IInv, NEW r \in Requests, Checkout(r)
  PROVE  IInv'
<1> USE DEF Checkout, Goto
<1>1. PICK c \in Connections : Free(c) /\ client' = [client EXCEPT ![r] = c]
  OBVIOUS
<1>2. TypeOK'
  BY <1>1 DEF IInv, TypeOK, Steps
<1>3. PoolClean' /\ TenantIsolation'
  BY <1>1, ConstantsAssumption, OwnClient
  DEF IInv, TypeOK, PoolClean, Free, TenantIsolation, UnderOwnContext
<1>4. OneOwner'
  BY <1>1 DEF IInv, TypeOK, OneOwner, Free
<1>5. session'[c] = Fresh
  BY <1>1 DEF IInv, PoolClean
<1>6. ASSUME NEW q \in Requests
      PROVE  FlowInv(q)' /\ SessionInv(q)'
  <2>1. FlowInv(q) /\ SessionInv(q)
    BY DEF IInv
  <2>2. CASE q # r
    <3>1. pc'[q] = pc[q] /\ client'[q] = client[q]
      BY <1>1, <2>2 DEF IInv, TypeOK
    <3>2. QED
      BY <2>1, <3>1 DEF FlowInv, SessionInv, Applies
  <2>3. CASE q = r
    <3>1. /\ client'[r] = c
          /\ pc'[r] = IF kind[r] = "direct" THEN "statement" ELSE "begin"
      BY <1>1 DEF IInv, TypeOK
    <3>2. c # NoClient /\ kind[r] \in Kinds
      BY ConstantsAssumption DEF IInv, TypeOK
    <3>3. FlowInv(r)'
      BY <2>1, <2>3, <3>1, <3>2 DEF FlowInv, Applies, Kinds
    <3>4. SessionInv(r)'
      BY <1>5, <2>1, <2>3, <3>1, <3>2
      DEF SessionInv, FlowInv, Applies, Fresh, Kinds
    <3>5. QED
      BY <2>3, <3>3, <3>4
  <2>4. QED
    BY <2>2, <2>3
<1>7. QED
  BY <1>2, <1>3, <1>4, <1>6 DEF IInv

LEMMA ConnectFailsStep ==
  ASSUME IInv, NEW r \in Requests, ConnectFails(r)
  PROVE  IInv'
<1> USE DEF ConnectFails
<1>1. TypeOK'
  BY ReturnTypes DEF IInv, TypeOK, Answers
<1>2. QED
  BY <1>1, OwnClient, ReturningStep DEF IInv, TenantIsolation, UnderOwnContext

LEMMA BrokenSession ==
  ASSUME NEW s \in Session
  PROVE  /\ Broken(s).tx = "dead"
         /\ All(Broken(s).pending) = {}
  BY NoPendingRows DEF Session, Broken

LEMMA FailedSession ==
  ASSUME NEW s \in Session, NEW f \in Failures(s)
  PROVE  /\ f.tx \in {"aborted", "dead"}
         /\ f.rls = s.rls
         /\ All(f.pending) \subseteq All(s.pending)
<1>1. CASE f = Broken(s)
  BY <1>1, BrokenSession DEF Session, Broken
<1>2. CASE f = [s EXCEPT !.tx = "aborted"]
  BY <1>2 DEF Session, All
<1>3. QED
  BY <1>1, <1>2 DEF Failures

LEMMA PendingOk ==
  ASSUME IInv, NEW r \in Requests, client[r] \in Connections
  PROVE  \A w \in table \cup All(session[client[r]].pending) : UnderOwnContext(w)
  BY DEF IInv, TenantIsolation

LEMMA BeginStep ==
  ASSUME IInv, NEW r \in Requests, Begin(r)
  PROVE  IInv'
<1> USE DEF Begin, Goto
<1> DEFINE c == client[r]
<1>1. c \in Connections /\ session[c] = Fresh /\ FlowInv(r)
  BY OwnClient, ConstantsAssumption DEF IInv, SessionInv
<1>2. PICK s \in {BeginOn(session[c]), Broken(session[c])} :
        /\ session' = [session EXCEPT ![c] = s]
        /\ \/ /\ s = BeginOn(session[c])
              /\ pc' = [pc EXCEPT ![r] = IF Applies(r) THEN "apply" ELSE "fn"]
              /\ depth' = [depth EXCEPT ![r] = IF Applies(r) THEN 0 ELSE 1]
           \/ /\ s = Broken(session[c])
              /\ pc' = [pc EXCEPT ![r] = "undo"]
              /\ depth' = depth
  OBVIOUS
<1>3. s \in Session
  BY <1>1, <1>2, FreshType, SessionOps, FirstLevel
<1>4. TypeOK'
  <2>1. session' \in [Connections -> Session]
    BY <1>1, <1>2, <1>3 DEF IInv, TypeOK
  <2>2. pc' \in [Requests -> Steps]
    BY <1>2 DEF IInv, TypeOK, Steps
  <2>3. depth' \in [Requests -> 0..MaxDepth]
    BY <1>2, ConstantsAssumption DEF IInv, TypeOK
  <2>4. QED
    BY <2>1, <2>2, <2>3 DEF IInv, TypeOK
<1>5. All(s.pending) = {}
  BY <1>1, <1>2, <1>3, NoPendingRows, BrokenSession, FreshType DEF BeginOn, Fresh
<1>6. BeginOn(Fresh) = [Fresh EXCEPT !.tx = "open"]
  BY DEF BeginOn, Fresh
<1>7. session'[c] = s /\ client' = client /\ kind' = kind /\ captured' = captured
  BY <1>1, <1>2 DEF IInv, TypeOK
<1>8. FlowInv(r)'
  BY <1>1, <1>2, <1>7 DEF IInv, TypeOK, FlowInv, Applies
<1>9. SessionInv(r)'
  <2>1. CASE s = Broken(session[c]) /\ pc'[r] = "undo"
    BY <1>1, <1>7, <2>1 DEF SessionInv, FlowInv
  <2>2. CASE s = BeginOn(Fresh) /\ pc'[r] = IF Applies(r) THEN "apply" ELSE "fn"
    <3>1. s.tx = "open" /\ s.rls = NoContext
      BY <2>2 DEF BeginOn, Fresh
    <3>2. kind[r] # "direct" /\ (~Applies(r) => kind[r] = "tx" /\ (RlsConfigured => captured[r] = NoContext))
      BY <1>1 DEF FlowInv, Applies, IInv, TypeOK, Kinds
    <3>3. QED
      BY <1>6, <1>7, <2>2, <3>1, <3>2 DEF SessionInv
  <2>3. QED
    BY <1>1, <1>2, <2>1, <2>2 DEF IInv, TypeOK
<1>10. QED
  BY <1>1, <1>2, <1>3, <1>4, <1>5, <1>8, <1>9, HoldingStep, PendingOk DEF IInv, TypeOK

LEMMA ApplyRlsStep ==
  ASSUME IInv, NEW r \in Requests, ApplyRls(r)
  PROVE  IInv'
<1> USE DEF ApplyRls, Goto
<1> DEFINE c == client[r]
           applied == [session[c] EXCEPT !.rls = captured[r]]
           step == IF kind[r] = "tx" THEN "fn" ELSE "statement"
<1>1. /\ c \in Connections /\ c # NoClient /\ session[c] \in Session
      /\ captured[r] \in Contexts /\ kind[r] \in Kinds
      /\ session[c].tx = "open" /\ session[c].pending = NoRows
      /\ FlowInv(r)
  <2>1. c \in Connections /\ c # NoClient
    BY OwnClient, ConstantsAssumption
  <2>2. session[c] = [Fresh EXCEPT !.tx = "open"]
    BY <2>1 DEF IInv, SessionInv
  <2>3. [Fresh EXCEPT !.tx = "open"].tx = "open" /\ [Fresh EXCEPT !.tx = "open"].pending = NoRows
    BY DEF Fresh
  <2>4. QED
    BY <2>1, <2>2, <2>3 DEF IInv, TypeOK
<1>2. PICK s \in {applied, session[c]} \cup Failures(session[c]) :
        /\ session' = [session EXCEPT ![c] = s]
        /\ \/ /\ s = applied
              /\ pc' = [pc EXCEPT ![r] = step]
              /\ depth' = [depth EXCEPT ![r] = IF kind[r] = "tx" THEN 1 ELSE 0]
           \/ /\ pc' = [pc EXCEPT ![r] = "undo"]
              /\ depth' = depth
  OBVIOUS
<1>3. applied \in Session /\ applied.tx = "open" /\ applied.rls = captured[r]
      /\ applied.pending = NoRows
  BY <1>1 DEF Session
<1>4. s \in Session /\ All(s.pending) = {}
  <2>1. All(session[c].pending) = {}
    BY <1>1, NoPendingRows
  <2>2. CASE s \in Failures(session[c])
    BY <1>1, <2>1, <2>2, SessionOps, FirstLevel, FailedSession
  <2>3. QED
    BY <1>1, <1>2, <1>3, <2>1, <2>2, NoPendingRows
<1>5. TypeOK'
  <2>1. session' \in [Connections -> Session]
    BY <1>1, <1>2, <1>4 DEF IInv, TypeOK
  <2>2. pc' \in [Requests -> Steps]
    BY <1>2 DEF IInv, TypeOK, Steps
  <2>3. depth' \in [Requests -> 0..MaxDepth]
    BY <1>2, ConstantsAssumption DEF IInv, TypeOK
  <2>4. QED
    BY <2>1, <2>2, <2>3 DEF IInv, TypeOK
<1>6. session'[c] = s /\ client' = client /\ kind' = kind /\ captured' = captured
  BY <1>1, <1>2 DEF IInv, TypeOK
<1>7. FlowInv(r)'
  BY <1>1, <1>2, <1>6 DEF IInv, TypeOK, FlowInv, Applies, Kinds
<1>8. SessionInv(r)'
  <2>1. CASE pc'[r] = "undo"
    BY <1>1, <1>6, <2>1 DEF SessionInv, FlowInv
  <2>2. CASE s = applied /\ pc'[r] = step
    BY <1>1, <1>3, <1>6, <2>2 DEF SessionInv, FlowInv, Applies
  <2>3. QED
    BY <1>1, <1>2, <2>1, <2>2 DEF IInv, TypeOK
<1>9. QED
  BY <1>1, <1>2, <1>4, <1>5, <1>7, <1>8, HoldingStep, PendingOk DEF IInv, TypeOK

LEMMA DirectStatementStep ==
  ASSUME IInv, NEW r \in Requests, DirectStatement(r)
  PROVE  IInv'
<1> USE DEF DirectStatement
<1> DEFINE c == client[r]
           row == Row(r, calls[r])
<1>1. /\ c \in Connections /\ c # NoClient /\ session[c] = Fresh
      /\ session[c].rls = IF RlsConfigured THEN captured[r] ELSE NoContext
  BY OwnClient, ConstantsAssumption DEF IInv, SessionInv, FlowInv, Applies, Fresh
<1>2. row \in Rows /\ UnderOwnContext(row)
  <2>1. calls[r] \in 1..MaxCalls
    BY DEF IInv, TypeOK, FlowInv
  <2>2. QED
    BY <1>1, <2>1, RowOk
<1>3. session' = [session EXCEPT ![c] = Fresh] /\ table' \in {table, table \cup {row}}
  BY <1>1 DEF IInv, TypeOK, Released
<1>4. PICK a \in Answers : Return(r, a)
  BY DEF Answers
<1>5. acked' \in [Requests -> [Levels -> SUBSET Rows]]
  <2>1. acked' \in {acked, [acked EXCEPT ![r][1] = {row}]}
    OBVIOUS
  <2>2. QED
    <3>1. {row} \in SUBSET Rows /\ acked \in [Requests -> [Levels -> SUBSET Rows]]
      BY <1>2 DEF IInv, TypeOK
    <3>2. [acked EXCEPT ![r][1] = {row}] \in [Requests -> [Levels -> SUBSET Rows]]
      BY <3>1, FirstLevel, AckedWrite
    <3>3. QED
      BY <2>1, <3>1, <3>2
<1>6. store' = store /\ calls' = calls /\ ending' = ending
  OBVIOUS
<1>7. TypeOK'
  <2> HIDE DEF DirectStatement, row
  <2>1. session' \in [Connections -> Session] /\ table' \in SUBSET Rows
    BY <1>2, <1>3, FreshType DEF IInv, TypeOK
  <2>2. QED
    BY <1>4, <1>5, <1>6, <2>1, ReturnTypes DEF IInv, TypeOK
<1>8. QED
  BY <1>1, <1>2, <1>3, <1>4, <1>6, <1>7, ReturningStep DEF IInv, TypeOK, TenantIsolation

LEMMA WrittenSession ==
  ASSUME NEW s \in Session, NEW d \in Levels, NEW row \in Rows
  PROVE  LET w == [s EXCEPT !.pending[d] = @ \cup {row}] IN
         /\ w \in Session /\ w.tx = s.tx /\ w.rls = s.rls
         /\ All(w.pending) \subseteq All(s.pending) \cup {row}
  BY SessionWrite DEF Session, All

LEMMA WrappedStatementStep ==
  ASSUME IInv, NEW r \in Requests, WrappedStatement(r)
  PROVE  IInv'
<1> USE DEF WrappedStatement, Goto
<1> DEFINE c == client[r]
           row == Row(r, calls[r])
           written == [session[c] EXCEPT !.pending[1] = @ \cup {row}]
<1>1. /\ c \in Connections /\ c # NoClient /\ session[c] \in Session
      /\ session[c].tx = "open" /\ kind[r] = "wrapped"
      /\ session[c].rls = IF RlsConfigured THEN captured[r] ELSE NoContext
      /\ FlowInv(r)
  BY OwnClient, ConstantsAssumption DEF IInv, TypeOK, SessionInv
<1>2. row \in Rows /\ UnderOwnContext(row)
  <2>1. calls[r] \in 1..MaxCalls
    BY DEF IInv, TypeOK, FlowInv
  <2>2. QED
    BY <1>1, <2>1, RowOk
<1>3. PICK s \in {written} \cup Failures(session[c]) :
        /\ session' = [session EXCEPT ![c] = s]
        /\ \/ /\ s = written
              /\ pc' = [pc EXCEPT ![r] = "commit"]
              /\ acked' = [acked EXCEPT ![r][1] = {row}]
           \/ /\ pc' = [pc EXCEPT ![r] = "undo"]
              /\ acked' = acked
  OBVIOUS
<1>4. /\ written \in Session /\ written.tx = "open"
      /\ written.rls = session[c].rls
      /\ All(written.pending) \subseteq All(session[c].pending) \cup {row}
  BY <1>1, <1>2, FirstLevel, WrittenSession
<1>5. s \in Session /\ All(s.pending) \subseteq All(session[c].pending) \cup {row}
  BY <1>1, <1>3, <1>4, SessionOps, FirstLevel, FailedSession
<1>6. /\ client' = client /\ kind' = kind /\ captured' = captured /\ depth' = depth
      /\ calls' = calls /\ store' = store /\ answer' = answer /\ table' = table
      /\ ending' = ending /\ session'[c] = s
  BY <1>1, <1>3 DEF IInv, TypeOK
<1>7. TypeOK'
  <2>1. session' \in [Connections -> Session]
    BY <1>1, <1>3, <1>5 DEF IInv, TypeOK
  <2>2. pc' \in [Requests -> Steps]
    BY <1>3 DEF IInv, TypeOK, Steps
  <2>3. acked' \in [Requests -> [Levels -> SUBSET Rows]]
    <3>1. {row} \in SUBSET Rows /\ acked \in [Requests -> [Levels -> SUBSET Rows]]
      BY <1>2 DEF IInv, TypeOK
    <3>2. [acked EXCEPT ![r][1] = {row}] \in [Requests -> [Levels -> SUBSET Rows]]
      BY <3>1, FirstLevel, AckedWrite
    <3>3. QED
      BY <1>3, <3>1, <3>2
  <2>4. QED
    BY <1>6, <2>1, <2>2, <2>3 DEF IInv, TypeOK
<1>8. FlowInv(r)' /\ SessionInv(r)'
  <2>1. pc'[r] \in {"commit", "undo"} /\ (pc'[r] = "commit" => s = written)
    BY <1>3 DEF IInv, TypeOK
  <2>2. FlowInv(r)'
    BY <1>1, <1>6, <2>1 DEF FlowInv, Applies
  <2>3. SessionInv(r)'
    BY <1>1, <1>4, <1>6, <2>1 DEF SessionInv
  <2>4. QED
    BY <2>2, <2>3
<1>9. \A q \in Requests \ {r} : pc'[q] = pc[q]
  BY <1>3 DEF IInv, TypeOK
<1>10. \A w \in table' \cup All(s.pending) : UnderOwnContext(w)
  BY <1>1, <1>2, <1>5, <1>6, PendingOk
<1>11. QED
  <2> HIDE DEF WrappedStatement, Goto
  <2>1. QED
    BY <1>1, <1>3, <1>5, <1>6, <1>7, <1>8, <1>9, <1>10, HoldingStep DEF IInv

LEMMA BodyState ==
  ASSUME IInv, NEW r \in Requests, pc[r] = "fn"
  PROVE  /\ client[r] \in Connections /\ client[r] # NoClient
         /\ session[client[r]] \in Session /\ kind[r] = "tx" /\ depth[r] \in Levels
         /\ session[client[r]].tx # "none"
         /\ session[client[r]].tx # "dead" =>
              session[client[r]].rls = IF RlsConfigured THEN captured[r] ELSE NoContext
<1>1. client[r] \in Connections /\ client[r] # NoClient /\ FlowInv(r)
  BY OwnClient, ConstantsAssumption DEF IInv
<1>2. kind[r] = "tx"
  BY <1>1 DEF FlowInv, IInv, TypeOK, Kinds
<1>3. depth[r] \in Levels
  BY <1>1, ConstantsAssumption DEF FlowInv, IInv, TypeOK, Levels
<1>4. QED
  BY <1>1, <1>2, <1>3 DEF IInv, TypeOK, SessionInv

\* A step of the body that leaves the flow in the body.
LEMMA BodyStep ==
  ASSUME IInv, NEW r \in Requests, pc[r] = "fn",
         NEW s \in Session, session' = [session EXCEPT ![client[r]] = s],
         s.tx # "none",
         s.tx # "dead" => s.rls = session[client[r]].rls /\ session[client[r]].tx # "dead",
         \A w \in All(s.pending) : UnderOwnContext(w),
         NEW d \in Levels, depth' = [depth EXCEPT ![r] = d],
         calls' \in [Requests -> 0..MaxCalls],
         calls'[r] >= calls[r],
         \A q \in Requests \ {r} : calls'[q] = calls[q],
         acked' \in [Requests -> [Levels -> SUBSET Rows]],
         UNCHANGED <<store, pc, kind, captured, client, answer, table, ending>>
  PROVE  IInv'
<1>1. TypeOK'
  <2>1. session' \in [Connections -> Session] /\ depth' \in [Requests -> 0..MaxDepth]
    BY BodyState, ConstantsAssumption DEF IInv, TypeOK, Levels
  <2>2. QED
    BY <2>1 DEF IInv, TypeOK
<1>2. /\ session'[client[r]] = s /\ depth'[r] = d
      /\ \A q \in Requests \ {r} : depth'[q] = depth[q]
  BY BodyState DEF IInv, TypeOK
<1>3. d > 0
  BY ConstantsAssumption DEF Levels
<1>4. FlowInv(r)'
  <2>1. FlowInv(r) /\ calls[r] > 0
    BY DEF IInv, FlowInv
  <2>2. calls'[r] > 0
    <3>1. calls \in [Requests -> 0..MaxCalls]
      BY DEF IInv, TypeOK
    <3>2. \A n \in 0..MaxCalls : n \in Nat
      BY ConstantsAssumption
    <3>3. calls[r] \in Nat /\ calls'[r] \in Nat
      BY <3>1, <3>2
    <3>4. QED
      BY <2>1, <3>3
  <2>3. QED
    BY <1>2, <1>3, <2>1, <2>2, BodyState DEF FlowInv, Applies
<1>5. SessionInv(r)'
  BY <1>2, BodyState DEF SessionInv
<1>6. \A w \in table' \cup All(s.pending) : UnderOwnContext(w)
  BY PendingOk, BodyState
<1>7. QED
  BY <1>1, <1>2, <1>4, <1>5, <1>6, BodyState, HoldingStep DEF IInv

LEMMA CountStep ==
  ASSUME TypeOK, NEW r \in Requests, Count(r)
  PROVE  /\ calls' \in [Requests -> 0..MaxCalls]
         /\ calls[r] + 1 \in 1..MaxCalls
         /\ calls'[r] >= calls[r]
         /\ \A q \in Requests \ {r} : calls'[q] = calls[q]
  BY ConstantsAssumption DEF TypeOK, Count

LEMMA TxStatementStep ==
  ASSUME IInv, NEW r \in Requests, TxStatement(r)
  PROVE  IInv'
<1> DEFINE c == client[r]
           d == depth[r]
           row == Row(r, calls[r] + 1)
           written == [session[c] EXCEPT !.pending[d] = @ \cup {row}]
<1>1. /\ pc[r] = "fn" /\ Count(r)
      /\ UNCHANGED <<store, pc, kind, captured, client, depth, answer, table, ending>>
  BY DEF TxStatement
<1>2. /\ c \in Connections /\ session[c] \in Session /\ d \in Levels
      /\ session[c].tx # "none"
      /\ session[c].tx # "dead" =>
           session[c].rls = IF RlsConfigured THEN captured[r] ELSE NoContext
  BY <1>1, BodyState
<1>3. \A w \in All(session[c].pending) : UnderOwnContext(w)
  BY <1>2, PendingOk
<1>4. depth' = [depth EXCEPT ![r] = d]
  BY <1>1 DEF IInv, TypeOK
<1>5. CASE /\ session[c].tx = "open"
           /\ session' = [session EXCEPT ![c] = written]
           /\ acked' = [acked EXCEPT ![r][d] = @ \cup {row}]
  <2>1. row \in Rows /\ UnderOwnContext(row)
    BY <1>1, <1>2, <1>5, CountStep, RowOk DEF IInv
  <2>2. /\ written \in Session /\ written.tx = session[c].tx
        /\ written.rls = session[c].rls
        /\ All(written.pending) \subseteq All(session[c].pending) \cup {row}
    BY <1>2, <2>1, WrittenSession
  <2>3. acked' \in [Requests -> [Levels -> SUBSET Rows]]
    <3>1. acked \in [Requests -> [Levels -> SUBSET Rows]]
      BY DEF IInv, TypeOK
    <3>2. acked[r][d] \cup {row} \in SUBSET Rows
      BY <1>2, <2>1, <3>1
    <3>3. QED
      BY <1>2, <1>5, <3>1, <3>2, AckedWrite
  <2>4. \A w \in All(written.pending) : UnderOwnContext(w)
    BY <1>3, <2>1, <2>2
  <2>5. QED
    BY <1>1, <1>2, <1>4, <1>5, <2>2, <2>3, <2>4, CountStep, BodyStep DEF IInv
<1>6. CASE /\ session[c].tx = "open"
           /\ \E s \in Failures(session[c]) : session' = [session EXCEPT ![c] = s]
           /\ acked' = acked
  <2>1. PICK s \in Failures(session[c]) : session' = [session EXCEPT ![c] = s]
    BY <1>6
  <2>2. /\ s \in Session /\ s.tx # "none" /\ s.rls = session[c].rls
        /\ All(s.pending) \subseteq All(session[c].pending)
    BY <1>2, <2>1, FirstLevel, SessionOps, FailedSession
  <2>3. acked' \in [Requests -> [Levels -> SUBSET Rows]]
    BY <1>6 DEF IInv, TypeOK
  <2>4. QED
    BY <1>1, <1>2, <1>3, <1>4, <1>6, <2>1, <2>2, <2>3, CountStep, BodyStep DEF IInv
<1>7. CASE session' = session /\ acked' = acked
  <2>1. session' = [session EXCEPT ![c] = session[c]]
    BY <1>2, <1>7 DEF IInv, TypeOK
  <2>2. acked' \in [Requests -> [Levels -> SUBSET Rows]]
    BY <1>7 DEF IInv, TypeOK
  <2>3. QED
    BY <1>1, <1>2, <1>3, <1>4, <2>1, <2>2, CountStep, BodyStep DEF IInv
<1>8. QED
  BY <1>5, <1>6, <1>7 DEF TxStatement

LEMMA EnterNestedStep ==
  ASSUME IInv, NEW r \in Requests, EnterNested(r)
  PROVE  IInv'
<1> DEFINE c == client[r]
           d == depth[r]
<1>1. /\ pc[r] = "fn" /\ Count(r) /\ depth[r] < MaxDepth
      /\ UNCHANGED <<store, pc, kind, captured, client, acked, answer, table, ending>>
  BY DEF EnterNested
<1>2. /\ c \in Connections /\ session[c] \in Session /\ d \in Levels
      /\ session[c].tx # "none"
  BY <1>1, BodyState
<1>3. \A w \in All(session[c].pending) : UnderOwnContext(w)
  BY <1>2, PendingOk
<1>4. acked' \in [Requests -> [Levels -> SUBSET Rows]]
  BY <1>1 DEF IInv, TypeOK
<1>5. depth = [depth EXCEPT ![r] = d]
  BY DEF IInv, TypeOK
<1>6. session = [session EXCEPT ![c] = session[c]]
  BY <1>2 DEF IInv, TypeOK
<1>7. CASE /\ session[c].tx = "open"
           /\ depth' = [depth EXCEPT ![r] = @ + 1]
           /\ session' = session
  <2>1. d + 1 \in Levels
    BY <1>1, <1>2, ConstantsAssumption DEF Levels
  <2>2. QED
    BY <1>1, <1>2, <1>3, <1>4, <1>6, <1>7, <2>1, CountStep, BodyStep DEF IInv
<1>8. CASE /\ session' = [session EXCEPT ![c] = IF @.tx = "open" THEN Broken(@) ELSE @]
           /\ depth' = depth
  <2> DEFINE s == IF session[c].tx = "open" THEN Broken(session[c]) ELSE session[c]
  <2>1. /\ s \in Session /\ s.tx # "none" /\ (s.tx # "dead" => s = session[c])
        /\ All(s.pending) \subseteq All(session[c].pending)
    BY <1>2, FirstLevel, SessionOps, BrokenSession
  <2>2. session' = [session EXCEPT ![c] = s]
    BY <1>8
  <2>3. QED
    <3> HIDE DEF s
    <3>1. QED
      BY <1>1, <1>2, <1>3, <1>4, <1>5, <1>8, <2>1, <2>2, CountStep, BodyStep DEF IInv
<1>9. QED
  BY <1>7, <1>8 DEF EnterNested

LEMMA MergedRows ==
  ASSUME NEW levels \in [Levels -> SUBSET Rows], NEW d \in Levels, d > 1
  PROVE  All(Merged(levels, d)) = All(levels)
<1>1. d - 1 \in Levels /\ d - 1 # d
  BY ConstantsAssumption DEF Levels
<1>2. /\ Merged(levels, d)[d - 1] = levels[d - 1] \cup levels[d]
      /\ Merged(levels, d)[d] = {}
      /\ \A l \in Levels \ {d - 1, d} : Merged(levels, d)[l] = levels[l]
  BY <1>1 DEF Merged
<1>3. QED
  BY <1>1, <1>2 DEF All

LEMMA MergeNestedStep ==
  ASSUME IInv, NEW r \in Requests, MergeNested(r)
  PROVE  IInv'
<1> DEFINE c == client[r]
           d == depth[r]
           s == [session[c] EXCEPT !.pending = Merged(@, d)]
<1>1. /\ pc[r] = "fn" /\ d > 1 /\ session[c].tx = "open"
      /\ session' = [session EXCEPT ![c] = s]
      /\ acked' = [acked EXCEPT ![r] = Merged(@, d)]
      /\ depth' = [depth EXCEPT ![r] = d - 1]
      /\ UNCHANGED <<store, pc, kind, captured, client, calls, answer, table, ending>>
  BY DEF MergeNested
<1>2. /\ c \in Connections /\ session[c] \in Session /\ d \in Levels
  BY <1>1, BodyState
<1>3. d - 1 \in Levels
  BY <1>1, <1>2, ConstantsAssumption DEF Levels
<1>4. s \in Session /\ s.tx = "open" /\ s.rls = session[c].rls
  BY <1>1, <1>2, SessionMerge DEF Session
<1>5. All(s.pending) = All(session[c].pending)
  BY <1>1, <1>2, MergedRows DEF Session
<1>6. acked' \in [Requests -> [Levels -> SUBSET Rows]]
  BY <1>1, <1>2, MergedType DEF IInv, TypeOK
<1>7. /\ calls' \in [Requests -> 0..MaxCalls] /\ calls'[r] >= calls[r]
      /\ \A q \in Requests \ {r} : calls'[q] = calls[q]
  BY <1>1, ConstantsAssumption DEF IInv, TypeOK
<1>8. \A w \in All(s.pending) : UnderOwnContext(w)
  BY <1>2, <1>5, PendingOk
<1>9. QED
  <2> HIDE DEF s
  <2>1. QED
    BY <1>1, <1>2, <1>3, <1>4, <1>6, <1>7, <1>8, BodyStep

LEMMA UndoneSession ==
  ASSUME NEW s \in Session, NEW d \in Levels, s.tx # "none"
  PROVE  LET u == RollbackToOn(s, d) IN
         /\ u \in Session /\ u.tx # "none" /\ u.rls = s.rls
         /\ u.tx # "dead" => s.tx # "dead"
         /\ All(u.pending) \subseteq All(s.pending)
<1>1. CASE s.tx = "dead"
  BY <1>1 DEF RollbackToOn
<1>2. CASE s.tx # "dead"
  <2>1. RollbackToOn(s, d) = [s EXCEPT !.tx = "open", !.pending[d] = {}]
    BY <1>2 DEF RollbackToOn
  <2>2. RollbackToOn(s, d) \in Session
    BY SessionOps
  <2>3. \A l \in Levels : RollbackToOn(s, d).pending[l] \subseteq s.pending[l]
    BY <2>1 DEF Session
  <2>4. RollbackToOn(s, d).tx = "open" /\ RollbackToOn(s, d).rls = s.rls
    BY <2>1 DEF Session
  <2>5. QED
    BY <1>2, <2>2, <2>3, <2>4 DEF All
<1>3. QED
  BY <1>1, <1>2

LEMMA UndoNestedStep ==
  ASSUME IInv, NEW r \in Requests, UndoNested(r)
  PROVE  IInv'
<1> DEFINE c == client[r]
           d == depth[r]
<1>1. /\ pc[r] = "fn" /\ d > 1
      /\ acked' = [acked EXCEPT ![r][d] = {}]
      /\ depth' = [depth EXCEPT ![r] = d - 1]
      /\ UNCHANGED <<store, pc, kind, captured, client, calls, answer, table, ending>>
  BY DEF UndoNested
<1>2. PICK s \in {RollbackToOn(session[c], d), Broken(session[c])} :
        session' = [session EXCEPT ![c] = s]
  BY DEF UndoNested
<1>3. /\ c \in Connections /\ session[c] \in Session /\ d \in Levels
      /\ session[c].tx # "none"
  BY <1>1, BodyState
<1>4. d - 1 \in Levels
  BY <1>1, <1>3, ConstantsAssumption DEF Levels
<1>5. /\ s \in Session /\ s.tx # "none"
      /\ s.tx # "dead" => s.rls = session[c].rls /\ session[c].tx # "dead"
      /\ All(s.pending) \subseteq All(session[c].pending)
  <2>1. CASE s = Broken(session[c])
    BY <1>3, <2>1, SessionOps, BrokenSession
  <2>2. CASE s = RollbackToOn(session[c], d)
    BY <1>3, <2>2, UndoneSession
  <2>3. QED
    BY <1>2, <2>1, <2>2
<1>6. acked' \in [Requests -> [Levels -> SUBSET Rows]]
  BY <1>1, <1>3, AckedWrite DEF IInv, TypeOK
<1>7. /\ calls' \in [Requests -> 0..MaxCalls] /\ calls'[r] >= calls[r]
      /\ \A q \in Requests \ {r} : calls'[q] = calls[q]
  BY <1>1, ConstantsAssumption DEF IInv, TypeOK
<1>8. \A w \in All(s.pending) : UnderOwnContext(w)
  BY <1>3, <1>5, PendingOk
<1>9. QED
  BY <1>1, <1>2, <1>3, <1>4, <1>5, <1>6, <1>7, <1>8, BodyStep

LEMMA CommitState ==
  ASSUME IInv, NEW r \in Requests, AtCommit(r)
  PROVE  /\ client[r] \in Connections /\ client[r] # NoClient
         /\ session[client[r]] \in Session /\ kind[r] # "direct" /\ FlowInv(r)
<1>1. client[r] \in Connections /\ client[r] # NoClient /\ FlowInv(r)
  BY OwnClient, ConstantsAssumption DEF IInv, AtCommit
<1>2. QED
  BY <1>1 DEF FlowInv, AtCommit, IInv, TypeOK

LEMMA CommitStep ==
  ASSUME IInv, NEW r \in Requests, Commit(r)
  PROVE  IInv'
<1> DEFINE c == client[r]
<1>1. AtCommit(r) /\ UNCHANGED <<store, calls, acked, ending>>
  BY DEF Commit
<1>2. c \in Connections
  BY <1>1, CommitState
<1>3. session' = [session EXCEPT ![c] = Fresh]
  BY DEF Commit, Released
<1>4. PICK a \in Answers : Return(r, a)
  BY DEF Commit, Answers
<1>5. table' \in {table, table \cup All(session[c].pending)}
  BY DEF Commit
<1>6. All(session[c].pending) \subseteq Rows
  BY <1>2 DEF IInv, TypeOK, Session, All
<1>7. \A w \in table' : UnderOwnContext(w)
  BY <1>2, <1>5, PendingOk
<1>8. TypeOK'
  <2>1. session' \in [Connections -> Session] /\ table' \in SUBSET Rows
    BY <1>3, <1>5, <1>6, FreshType DEF IInv, TypeOK
  <2>2. QED
    BY <1>1, <1>4, <2>1, ReturnTypes DEF IInv, TypeOK
<1>9. QED
  BY <1>1, <1>2, <1>3, <1>4, <1>7, <1>8, ReturningStep DEF IInv

\* A step that sends the flow to its catch block.
LEMMA FailingStep ==
  ASSUME IInv, NEW r \in Requests, client[r] \in Connections, kind[r] # "direct",
         NEW s \in Session, session' = [session EXCEPT ![client[r]] = s],
         All(s.pending) \subseteq All(session[client[r]].pending),
         table' \in {table, table \cup All(session[client[r]].pending)},
         pc' = [pc EXCEPT ![r] = "undo"],
         depth' = [depth EXCEPT ![r] = 0],
         answer' \in [Requests -> Answers],
         UNCHANGED <<store, kind, captured, client, calls, acked, ending>>
  PROVE  IInv'
<1>1. client[r] # NoClient /\ pc[r] # "idle" /\ FlowInv(r)
  BY OwnClient, ConstantsAssumption DEF IInv
<1>2. All(session[client[r]].pending) \subseteq Rows
  BY DEF IInv, TypeOK, Session, All
<1>3. TypeOK'
  <2>1. session' \in [Connections -> Session] /\ table' \in SUBSET Rows
    BY <1>2 DEF IInv, TypeOK
  <2>2. pc' \in [Requests -> Steps] /\ depth' \in [Requests -> 0..MaxDepth]
    BY ConstantsAssumption DEF IInv, TypeOK, Steps
  <2>3. QED
    BY <2>1, <2>2 DEF IInv, TypeOK
<1>4. /\ pc'[r] = "undo" /\ depth'[r] = 0
      /\ \A q \in Requests \ {r} : pc'[q] = pc[q] /\ depth'[q] = depth[q]
  BY DEF IInv, TypeOK
<1>5. FlowInv(r)'
  BY <1>1, <1>4 DEF FlowInv, Applies
<1>6. SessionInv(r)'
  BY <1>1, <1>4 DEF SessionInv
<1>7. \A w \in table' \cup All(s.pending) : UnderOwnContext(w)
  BY PendingOk
<1>8. QED
  BY <1>3, <1>4, <1>5, <1>6, <1>7, HoldingStep DEF IInv

LEMMA CommitFailsStep ==
  ASSUME IInv, NEW r \in Requests, CommitFails(r)
  PROVE  IInv'
<1> DEFINE c == client[r]
<1>1. /\ AtCommit(r)
      /\ pc' = [pc EXCEPT ![r] = "undo"]
      /\ depth' = [depth EXCEPT ![r] = 0]
      /\ UNCHANGED <<store, kind, captured, client, calls, acked, ending>>
  BY DEF CommitFails, Goto
<1>2. c \in Connections /\ session[c] \in Session /\ kind[r] # "direct"
  BY <1>1, CommitState
<1>3. PICK s \in {Fresh, Broken(session[c])} : session' = [session EXCEPT ![c] = s]
  BY DEF CommitFails
<1>4. s \in Session /\ All(s.pending) \subseteq All(session[c].pending)
  BY <1>2, <1>3, FreshType, NoPendingRows, FirstLevel, SessionOps, BrokenSession
<1>5. table' \in {table, table \cup All(session[c].pending)}
  BY DEF CommitFails
<1>6. answer' \in [Requests -> Answers]
  BY DEF CommitFails, IInv, TypeOK, Answers
<1>7. QED
  BY <1>1, <1>2, <1>3, <1>4, <1>5, <1>6, FailingStep

LEMMA ThrowStep ==
  ASSUME IInv, NEW r \in Requests, Throw(r)
  PROVE  IInv'
<1> DEFINE c == client[r]
<1>1. /\ pc[r] = "fn"
      /\ pc' = [pc EXCEPT ![r] = "undo"]
      /\ depth' = [depth EXCEPT ![r] = 0]
      /\ UNCHANGED <<store, kind, captured, client, calls, acked, answer, session, table, ending>>
  BY DEF Throw, Goto
<1>2. c \in Connections /\ session[c] \in Session /\ kind[r] # "direct"
  BY <1>1, BodyState
<1>3. session' = [session EXCEPT ![c] = session[c]] /\ answer' \in [Requests -> Answers]
  BY <1>1, <1>2 DEF IInv, TypeOK
<1>4. QED
  BY <1>1, <1>2, <1>3, FailingStep

LEMMA UndoStep ==
  ASSUME IInv, NEW r \in Requests, Undo(r)
  PROVE  IInv'
<1> DEFINE c == client[r]
<1>1. pc[r] = "undo" /\ UNCHANGED <<store, calls, acked, table, ending>>
  BY DEF Undo
<1>2. c \in Connections /\ session[c] \in Session
  BY <1>1, OwnClient DEF IInv, TypeOK
<1>3. PICK s \in {RollbackOn(session[c]), Broken(session[c])} :
        session' = [session EXCEPT ![c] = Released(s, kind[r] = "wrapped")]
  BY DEF Undo
<1>4. Released(s, kind[r] = "wrapped") = Fresh
  <2>1. Broken(session[c]).tx = "dead"
    BY <1>2, BrokenSession
  <2>2. s = Fresh \/ s.tx = "dead"
    BY <1>3, <2>1 DEF RollbackOn
  <2>3. QED
    BY <2>2 DEF Released
<1>5. PICK a \in Answers : Return(r, a)
  BY DEF Undo, Answers
<1>6. TypeOK'
  <2>1. session' \in [Connections -> Session]
    BY <1>3, <1>4, FreshType DEF IInv, TypeOK
  <2>2. QED
    BY <1>1, <1>5, <2>1, ReturnTypes DEF IInv, TypeOK
<1>7. \A w \in table' : UnderOwnContext(w)
  BY <1>1 DEF IInv, TenantIsolation
<1>8. QED
  BY <1>1, <1>2, <1>3, <1>4, <1>5, <1>6, <1>7, ReturningStep DEF IInv

LEMMA QuietStep ==
  ASSUME IInv, store' \in [Requests -> Contexts], ending' \in BOOLEAN,
         \A c \in Connections : session'[c] = session[c],
         session' \in [Connections -> Session],
         UNCHANGED <<flowVars, table>>
  PROVE  IInv'
<1> USE DEF flowVars
<1>1. TypeOK'
  BY DEF IInv, TypeOK
<1>2. PoolClean' /\ OneOwner' /\ TenantIsolation'
  BY DEF IInv, PoolClean, Free, OneOwner, TenantIsolation, UnderOwnContext
<1>3. ASSUME NEW q \in Requests
      PROVE  FlowInv(q)' /\ SessionInv(q)'
  <2>1. FlowInv(q) /\ SessionInv(q)
    BY DEF IInv
  <2>2. client[q] # NoClient => session'[client[q]] = session[client[q]]
    BY DEF IInv, TypeOK
  <2>3. QED
    BY <2>1, <2>2 DEF FlowInv, SessionInv, Applies
<1>4. QED
  BY <1>1, <1>2, <1>3 DEF IInv

-----------------------------------------------------------------------------
(* The theorems.                                                           *)

LEMMA InitInv == Init => IInv
<1> SUFFICES ASSUME Init PROVE IInv
  OBVIOUS
<1> USE DEF Init
<1>1. TypeOK
  <2>1. 0 \in 0..MaxDepth /\ 0 \in 0..MaxCalls
    BY ConstantsAssumption
  <2>2. /\ calls \in [Requests -> 0..MaxCalls] /\ depth \in [Requests -> 0..MaxDepth]
        /\ acked \in [Requests -> [Levels -> SUBSET Rows]]
        /\ session \in [Connections -> Session]
    BY <2>1, FirstLevel, FreshType
  <2>3. QED
    BY <2>2 DEF TypeOK, Contexts, Steps, Kinds, Answers
<1>2. PoolClean /\ OneOwner
  BY DEF PoolClean, OneOwner
<1>3. TenantIsolation
  BY NoPendingRows DEF TenantIsolation
<1>4. \A r \in Requests : FlowInv(r) /\ SessionInv(r)
  BY DEF FlowInv, SessionInv, Applies
<1>5. QED
  BY <1>1, <1>2, <1>3, <1>4 DEF IInv

LEMMA NextInv == IInv /\ [Next]_vars => IInv'
<1> SUFFICES ASSUME IInv, [Next]_vars PROVE IInv'
  OBVIOUS
<1>1. ASSUME NEW r \in Requests, Flow(r)
      PROVE  IInv'
  <2>1. CASE \E ctx \in Contexts : RunWithRlsContext(r, ctx)
    BY <2>1, QuietStep DEF RunWithRlsContext, IInv, TypeOK
  <2>2. CASE Query(r)
    BY <2>2, RequestStep DEF Query, QueryRoute, Kinds
  <2>3. CASE RunInTransaction(r)
    BY <2>3, RequestStep DEF RunInTransaction, Kinds
  <2>4. CASE Serve(r)
    BY <2>4, CheckoutStep, ConnectFailsStep DEF Serve
  <2>5. CASE RoundTrip(r)
    BY <2>5, BeginStep, ApplyRlsStep, DirectStatementStep, WrappedStatementStep,
       CommitStep, CommitFailsStep, UndoStep DEF RoundTrip
  <2>6. CASE Body(r)
    BY <2>6, TxStatementStep, EnterNestedStep DEF Body
  <2>7. CASE LeaveBody(r)
    BY <2>7, MergeNestedStep, UndoNestedStep, ThrowStep DEF LeaveBody
  <2>8. QED
    BY <1>1, <2>1, <2>2, <2>3, <2>4, <2>5, <2>6, <2>7 DEF Flow
<1>2. CASE OnModuleDestroy
  <2>1. \A c \in Connections : session'[c] = session[c]
    BY <1>2 DEF OnModuleDestroy, IInv, PoolClean
  <2>2. session' \in [Connections -> Session]
    BY <1>2, FreshType DEF OnModuleDestroy, IInv, TypeOK
  <2>3. QED
    BY <1>2, <2>1, <2>2, QuietStep DEF OnModuleDestroy, IInv, TypeOK
<1>3. CASE UNCHANGED vars
  BY <1>3, QuietStep DEF vars, IInv, TypeOK
<1>4. QED
  BY <1>1, <1>2, <1>3 DEF Next, AwaitExit

\* The inductive invariant holds in every reachable state: the flow's step, the
\* session behind its client and the pool agree at every await.
THEOREM Inductive == Spec => []IInv
  BY InitInv, NextInv, PTL DEF Spec

\* Type correctness.
THEOREM TypeCorrect == Spec => []TypeOK
<1>1. IInv => TypeOK
  BY DEF IInv
<1>2. QED
  BY <1>1, Inductive, PTL

\* Every client that is back in the pool is clean: the next user of a pooled
\* connection inherits no transaction, RLS setting or write, whatever failed.
THEOREM CleanPool == Spec => []PoolClean
<1>1. IInv => PoolClean
  BY DEF IInv
<1>2. QED
  BY <1>1, Inductive, PTL

\* Every write is made under the RLS context its call or transaction was opened
\* in (RlsAwarePool.runWrapped, PrimaryDatabaseService.runInTransaction).
THEOREM Isolation == Spec => []TenantIsolation
<1>1. IInv => TenantIsolation
  BY DEF IInv
<1>2. QED
  BY <1>1, Inductive, PTL

-----------------------------------------------------------------------------
(* Honest answers.                                                         *)

\* A step of a flow leaves the other flows, and what is behind their clients,
\* as they were.
Alone(r) == \A q \in Requests \ {r} :
  /\ store'[q] = store[q] /\ pc'[q] = pc[q] /\ kind'[q] = kind[q] /\ captured'[q] = captured[q]
  /\ client'[q] = client[q] /\ depth'[q] = depth[q] /\ calls'[q] = calls[q]
  /\ acked'[q] = acked[q] /\ answer'[q] = answer[q]
  /\ client[q] # NoClient => session'[client[q]] = session[client[q]]

LEMMA FlowAlone ==
  ASSUME IInv, NEW r \in Requests, Flow(r)
  PROVE  Alone(r)
<1> SUFFICES ASSUME NEW q \in Requests \ {r}
             PROVE  /\ store'[q] = store[q] /\ pc'[q] = pc[q] /\ kind'[q] = kind[q] /\ captured'[q] = captured[q]
                    /\ client'[q] = client[q] /\ depth'[q] = depth[q] /\ calls'[q] = calls[q]
                    /\ acked'[q] = acked[q] /\ answer'[q] = answer[q]
                    /\ client[q] # NoClient => session'[client[q]] = session[client[q]]
  BY DEF Alone
<1>1. TypeOK
  BY DEF IInv
<1>2. client[q] # NoClient => client[q] \in Connections /\ client[q] # client[r]
  BY DEF IInv, TypeOK, OneOwner
<1> USE <1>1, <1>2 DEF TypeOK, Goto, Count, Return
<1>3. CASE \E ctx \in Contexts : RunWithRlsContext(r, ctx)
  BY <1>3 DEF RunWithRlsContext, flowVars
<1>4. CASE Query(r) \/ RunInTransaction(r)
  BY <1>4 DEF Query, RunInTransaction, Request
<1>5. CASE Serve(r)
  BY <1>5 DEF Serve, Checkout, ConnectFails
<1>6. CASE RoundTrip(r)
  <2>1. CASE Begin(r) \/ ApplyRls(r)
    BY <2>1 DEF Begin, ApplyRls
  <2>2. CASE DirectStatement(r)
    BY <2>2 DEF DirectStatement
  <2>3. CASE WrappedStatement(r)
    BY <2>3 DEF WrappedStatement
  <2>4. CASE Commit(r)
    <3>1. PICK s, a : session' = [session EXCEPT ![client[r]] = s] /\ Return(r, a)
      BY <2>4 DEF Commit
    <3>2. UNCHANGED <<store, calls, acked>>
      BY <2>4 DEF Commit
    <3>3. client[q] # NoClient => session'[client[q]] = session[client[q]]
      BY <3>1
    <3>4. QED
      BY <3>1, <3>2, <3>3
  <2>5. CASE CommitFails(r)
    <3>1. PICK s : session' = [session EXCEPT ![client[r]] = s]
      BY <2>5 DEF CommitFails
    <3>2. \/ UNCHANGED answer
          \/ answer' = [answer EXCEPT ![r] = "lost"]
      BY <2>5 DEF CommitFails
    <3>3. /\ pc'[q] = pc[q] /\ depth'[q] = depth[q]
          /\ UNCHANGED <<store, kind, captured, client, calls, acked>>
      BY <2>5 DEF CommitFails
    <3>4. answer'[q] = answer[q]
      BY <3>2
    <3>5. client[q] # NoClient => session'[client[q]] = session[client[q]]
      BY <3>1
    <3>6. QED
      BY <3>3, <3>4, <3>5
  <2>6. CASE Undo(r)
    BY <2>6 DEF Undo
  <2>7. QED
    BY <1>6, <2>1, <2>2, <2>3, <2>4, <2>5, <2>6 DEF RoundTrip
<1>7. CASE Body(r)
  BY <1>7 DEF Body, TxStatement, EnterNested
<1>8. CASE LeaveBody(r)
  BY <1>8 DEF LeaveBody, MergeNested, UndoNested, Throw
<1>9. QED
  BY <1>3, <1>4, <1>5, <1>6, <1>7, <1>8 DEF Flow

\* What a step may commit: rows of its own flow.
OwnRows(r) == table \subseteq table' /\ \A w \in table' \ table : w.req = r

LEMMA LedgerOfOthers ==
  ASSUME IInv, Ledger, NEW r \in Requests, Alone(r), OwnRows(r),
         LedgerInv(r)', Honest(r)'
  PROVE  Ledger'
<1> SUFFICES ASSUME NEW q \in Requests \ {r} PROVE LedgerInv(q)' /\ Honest(q)'
  BY DEF Ledger, HonestAnswers
<1>1. /\ LedgerInv(q) /\ Honest(q)
      /\ pc[q] \in {"statement", "fn", "commit"} => client[q] # NoClient
  BY DEF Ledger, HonestAnswers, IInv, FlowInv
<1>2. \A w \in table' : w.req = q => w \in table
  BY DEF OwnRows
<1>3. All(acked[q]) \cap table' \subseteq table
  BY <1>1, <1>2 DEF LedgerInv
<1>4. LedgerInv(q)'
  BY <1>1, <1>2, <1>3 DEF LedgerInv, Alone, Opening
<1>5. Honest(q)'
  BY <1>1, <1>3 DEF Honest, Alone, OwnRows
<1> QED
  BY <1>4, <1>5

\* What the ledger says of a flow that holds a client.
LEMMA Holding ==
  ASSUME IInv, Ledger, NEW r \in Requests, pc[r] \notin {"idle", "waiting"}
  PROVE  /\ client[r] \in Connections /\ session[client[r]] \in Session
         /\ LedgerInv(r) /\ FlowInv(r) /\ calls[r] \in Nat
         /\ acked \in [Requests -> [Levels -> SUBSET Rows]] /\ captured[r] \in Contexts
  BY OwnClient, ConstantsAssumption DEF IInv, TypeOK, Ledger

LEMMA NothingAcked ==
  ASSUME NEW r \in Requests, acked[r] = NoRows
  PROVE  All(acked[r]) = {}
  BY NoPendingRows

\* The first row of a call that had acknowledged none.
LEMMA FirstAcked ==
  ASSUME TypeOK, NEW r \in Requests, acked[r] = NoRows, NEW row,
         acked' = [acked EXCEPT ![r][1] = {row}]
  PROVE  acked'[r] = [NoRows EXCEPT ![1] = {row}] /\ All(acked'[r]) = {row}
<1>1. acked'[r] = [NoRows EXCEPT ![1] = {row}]
  BY DEF TypeOK
<1>2. All(acked'[r]) = {row}
  BY <1>1, FirstLevel DEF All, NoRows
<1> QED
  BY <1>1, <1>2

LEMMA RunWithRlsContextLedger ==
  ASSUME IInv, Ledger, NEW r \in Requests, NEW ctx \in Contexts, RunWithRlsContext(r, ctx)
  PROVE  LedgerInv(r)' /\ Honest(r)' /\ OwnRows(r)
<1>1. LedgerInv(r) /\ Honest(r)
  BY DEF Ledger, HonestAnswers
<1> QED
  BY <1>1 DEF RunWithRlsContext, flowVars, LedgerInv, Honest, Opening, OwnRows

LEMMA RequestLedger ==
  ASSUME IInv, Ledger, NEW r \in Requests, NEW k, Request(r, k)
  PROVE  LedgerInv(r)' /\ Honest(r)' /\ OwnRows(r)
<1>1. LedgerInv(r) /\ TypeOK /\ calls[r] \in Nat
  BY ConstantsAssumption DEF Ledger, IInv, TypeOK
<1>2. /\ acked'[r] = NoRows /\ calls'[r] = calls[r] + 1 /\ table' = table /\ session' = session
      /\ pc'[r] = "waiting" => captured'[r] = store'[r] /\ answer'[r] = "none"
      /\ pc'[r] \in {"idle", "waiting"}
  BY <1>1 DEF Request, Count, Return, Goto, TypeOK
<1>3. All(acked'[r]) = {}
  BY <1>2, NoPendingRows
<1>4. \A w \in table : w.req = r => w.n < calls[r] + 1 /\ w.n <= calls[r] + 1
  <2> SUFFICES ASSUME NEW w \in table, w.req = r
               PROVE  w.n < calls[r] + 1 /\ w.n <= calls[r] + 1
    OBVIOUS
  <2>1. w.n \in Nat /\ w.n <= calls[r]
    BY <1>1, ConstantsAssumption DEF LedgerInv, TypeOK, Rows
  <2> QED
    BY <1>1, <2>1
<1>5. LedgerInv(r)'
  BY <1>2, <1>3, <1>4 DEF LedgerInv, Opening
<1>6. Honest(r)' /\ OwnRows(r)
  BY <1>2, <1>3 DEF Honest, OwnRows
<1> QED
  BY <1>5, <1>6

LEMMA ServeLedger ==
  ASSUME IInv, Ledger, NEW r \in Requests, Serve(r)
  PROVE  LedgerInv(r)' /\ Honest(r)' /\ OwnRows(r)
<1>1. LedgerInv(r) /\ TypeOK /\ pc[r] = "waiting" /\ acked[r] = NoRows
  BY DEF Ledger, IInv, Serve, Checkout, ConnectFails, LedgerInv, Opening
<1>2. All(acked[r]) = {}
  BY <1>1, NothingAcked
<1>3. CASE Checkout(r)
  <2>1. PICK c \in Connections : Free(c) /\ client' = [client EXCEPT ![r] = c]
    BY <1>3 DEF Checkout
  <2>2. /\ pc'[r] \in {"statement", "begin"} /\ client'[r] = c
        /\ UNCHANGED <<store, captured, calls, acked, answer, session, table>>
    BY <1>1, <1>3, <2>1 DEF Checkout, Goto, TypeOK
  <2>3. session'[c].pending = NoRows
    BY <2>1, <2>2 DEF IInv, PoolClean, Fresh
  <2> QED
    BY <1>1, <1>2, <2>2, <2>3 DEF LedgerInv, Opening, Honest, OwnRows
<1>4. CASE ConnectFails(r)
  <2>1. pc'[r] = "idle" /\ UNCHANGED <<store, calls, acked, session, table>>
    BY <1>1, <1>4 DEF ConnectFails, Return, Goto, TypeOK
  <2> QED
    BY <1>1, <1>2, <2>1 DEF LedgerInv, Opening, Honest, OwnRows
<1> QED
  BY <1>3, <1>4 DEF Serve

LEMMA BeginLedger ==
  ASSUME IInv, Ledger, NEW r \in Requests, Begin(r)
  PROVE  LedgerInv(r)' /\ Honest(r)' /\ OwnRows(r)
<1>1. /\ LedgerInv(r) /\ pc[r] = "begin" /\ acked[r] = NoRows /\ client[r] \in Connections
      /\ session[client[r]] = Fresh
  BY Holding, ConstantsAssumption DEF Begin, LedgerInv, Opening, IInv, SessionInv
<1>2. All(acked[r]) = {}
  BY <1>1, NothingAcked
<1>3. /\ pc'[r] \in {"apply", "fn", "undo"}
      /\ pc'[r] # "undo" => session'[client[r]] = BeginOn(Fresh)
      /\ UNCHANGED <<store, captured, client, calls, acked, answer, table>>
  BY <1>1 DEF Begin, Goto, IInv, TypeOK
<1>4. BeginOn(Fresh).pending = NoRows
  BY DEF BeginOn, Fresh
<1> QED
  BY <1>1, <1>2, <1>3, <1>4 DEF LedgerInv, Opening, Honest, OwnRows

LEMMA ApplyRlsLedger ==
  ASSUME IInv, Ledger, NEW r \in Requests, ApplyRls(r)
  PROVE  LedgerInv(r)' /\ Honest(r)' /\ OwnRows(r)
<1>1. /\ LedgerInv(r) /\ pc[r] = "apply" /\ acked[r] = NoRows /\ client[r] \in Connections
      /\ session[client[r]] = [Fresh EXCEPT !.tx = "open"]
  BY Holding, ConstantsAssumption DEF ApplyRls, LedgerInv, Opening, IInv, SessionInv
<1>2. All(acked[r]) = {}
  BY <1>1, NothingAcked
<1>3. /\ pc'[r] \in {"statement", "fn", "undo"}
      /\ pc'[r] # "undo" => session'[client[r]] = [session[client[r]] EXCEPT !.rls = captured[r]]
      /\ UNCHANGED <<store, captured, client, calls, acked, answer, table>>
  BY <1>1 DEF ApplyRls, Goto, IInv, TypeOK
<1>4. pc'[r] # "undo" => session'[client[r]].pending = NoRows
  BY <1>1, <1>3 DEF Fresh
<1> QED
  BY <1>1, <1>2, <1>3, <1>4 DEF LedgerInv, Opening, Honest, OwnRows

LEMMA DirectStatementLedger ==
  ASSUME IInv, Ledger, NEW r \in Requests, DirectStatement(r)
  PROVE  LedgerInv(r)' /\ Honest(r)' /\ OwnRows(r)
<1> DEFINE row == Row(r, calls[r])
<1>1. /\ LedgerInv(r) /\ TypeOK /\ pc[r] = "statement" /\ acked[r] = NoRows /\ calls[r] \in Nat
      /\ row.req = r /\ row.n = calls[r]
  BY Holding DEF DirectStatement, LedgerInv, Opening, IInv, Row
<1>2. All(acked[r]) = {}
  BY <1>1, NothingAcked
<1>3. /\ pc'[r] = "idle" /\ calls' = calls /\ table' \in {table, table \cup {row}}
      /\ \/ acked' = [acked EXCEPT ![r][1] = {row}] /\ table' = table \cup {row} /\ answer'[r] = "ok"
         \/ acked' = acked
  BY <1>1 DEF DirectStatement, Return, Goto, TypeOK
<1> HIDE DEF row
<1>4. \A w \in All(acked'[r]) : w.req = r /\ w.n <= calls'[r]
  <2>1. CASE acked' = [acked EXCEPT ![r][1] = {row}]
    <3>1. All(acked'[r]) = {row}
      BY <1>1, <2>1, FirstAcked
    <3> QED
      BY <1>1, <1>3, <3>1
  <2>2. CASE acked' = acked
    BY <1>2, <2>2
  <2> QED
    BY <1>3, <2>1, <2>2
<1>5. LedgerInv(r)'
  <2>1. \A w \in table' : w.req = r => w.n <= calls'[r]
    BY <1>1, <1>3 DEF LedgerInv
  <2> QED
    BY <1>3, <1>4, <2>1 DEF LedgerInv, Opening
<1>6. Honest(r)'
  BY <1>1, <1>2, <1>3, FirstAcked DEF Honest
<1>7. OwnRows(r)
  BY <1>1, <1>3 DEF OwnRows
<1> QED
  BY <1>5, <1>6, <1>7

LEMMA WrappedStatementLedger ==
  ASSUME IInv, Ledger, NEW r \in Requests, WrappedStatement(r)
  PROVE  LedgerInv(r)' /\ Honest(r)' /\ OwnRows(r)
<1> DEFINE row == Row(r, calls[r])
           c == client[r]
<1>1. /\ LedgerInv(r) /\ TypeOK /\ pc[r] = "statement" /\ acked[r] = NoRows /\ calls[r] \in Nat
      /\ row.req = r /\ row.n = calls[r] /\ c \in Connections /\ session[c] \in Session
      /\ session[c].pending = NoRows /\ answer[r] = "none"
  BY Holding DEF WrappedStatement, LedgerInv, Opening, IInv, Row
<1>2. All(acked[r]) = {}
  BY <1>1, NothingAcked
<1>3. /\ UNCHANGED <<store, client, calls, answer, table>>
      /\ \/ /\ pc'[r] = "commit" /\ acked' = [acked EXCEPT ![r][1] = {row}]
            /\ session'[c] = [session[c] EXCEPT !.pending[1] = @ \cup {row}]
         \/ pc'[r] = "undo" /\ acked' = acked
  BY <1>1 DEF WrappedStatement, Goto, TypeOK
<1>4. row \notin table
  <2> SUFFICES ASSUME row \in table PROVE FALSE
    OBVIOUS
  <2>1. row.n < calls[r]
    BY <1>1 DEF LedgerInv, Opening
  <2> QED
    BY <1>1, <2>1
<1> HIDE DEF row
<1>5. CASE pc'[r] = "commit"
  <2>1. acked'[r] = [NoRows EXCEPT ![1] = {row}] /\ All(acked'[r]) = {row}
    BY <1>1, <1>3, <1>5, FirstAcked
  <2>2. session'[c].pending = [NoRows EXCEPT ![1] = {row}]
    <3>1. session'[c].pending = [session[c].pending EXCEPT ![1] = @ \cup {row}]
      BY <1>1, <1>3, <1>5 DEF Session
    <3>2. NoRows[1] \cup {row} = {row}
      BY FirstLevel DEF NoRows
    <3> QED
      BY <1>1, <3>1, <3>2
  <2>3. \A w \in All(acked'[r]) : w.req = r /\ w.n <= calls'[r]
    <3>1. row.req = r /\ row.n <= calls'[r]
      BY <1>1, <1>3
    <3> QED
      BY <2>1, <3>1
  <2>4. All(acked'[r]) \cap table' = {}
    BY <1>3, <1>4, <2>1
  <2> QED
    BY <1>1, <1>3, <1>5, <2>1, <2>2, <2>3, <2>4 DEF LedgerInv, Opening, Honest, OwnRows
<1>6. CASE pc'[r] = "undo"
  BY <1>1, <1>2, <1>3, <1>6 DEF LedgerInv, Opening, Honest, OwnRows
<1> QED
  BY <1>3, <1>5, <1>6

\* A step of the body keeps the ledger when what it acknowledges is new, and is
\* what a session that can still commit holds.
LEMMA BodyLedger ==
  ASSUME IInv, Ledger, NEW r \in Requests, pc[r] = "fn", pc'[r] = "fn",
         calls'[r] \in {calls[r], calls[r] + 1}, UNCHANGED <<client, answer, table>>,
         \A w \in All(acked'[r]) :
           w \in All(acked[r]) \/ (w.req = r /\ w.n <= calls'[r] /\ w \notin table),
         session'[client[r]].tx \in {"open", "aborted"} =>
           session'[client[r]].pending = acked'[r]
  PROVE  LedgerInv(r)' /\ Honest(r)' /\ OwnRows(r)
<1>1. LedgerInv(r) /\ calls[r] \in Nat /\ answer[r] = "none"
  BY Holding DEF LedgerInv
<1>2. \A w \in table \cup All(acked[r]) : w.req = r => w.n <= calls'[r]
  <2>1. \A w \in table \cup All(acked[r]) : w.n \in Nat
    <3>1. \A w \in Rows : w.n \in Nat
      BY ConstantsAssumption DEF Rows
    <3>2. table \subseteq Rows /\ All(acked[r]) \subseteq Rows
      BY DEF IInv, TypeOK, All
    <3> QED
      BY <3>1, <3>2
  <2> QED
    BY <1>1, <2>1 DEF LedgerInv
<1>3. All(acked'[r]) \cap table' = {}
  BY <1>1 DEF LedgerInv
<1>4. \A w \in All(acked'[r]) : w.req = r /\ w.n <= calls'[r]
  BY <1>1, <1>2 DEF LedgerInv
<1> QED
  BY <1>1, <1>2, <1>3, <1>4 DEF LedgerInv, Opening, Honest, OwnRows

LEMMA TxStatementLedger ==
  ASSUME IInv, Ledger, NEW r \in Requests, TxStatement(r)
  PROVE  LedgerInv(r)' /\ Honest(r)' /\ OwnRows(r)
<1> DEFINE c == client[r]
           d == depth[r]
           row == Row(r, calls[r] + 1)
<1>1. /\ pc[r] = "fn" /\ pc'[r] = "fn" /\ UNCHANGED <<client, answer, table>>
      /\ calls'[r] = calls[r] + 1
      /\ LedgerInv(r) /\ calls[r] \in Nat /\ c \in Connections /\ d \in Levels
      /\ session[c] \in Session /\ acked[r] \in [Levels -> SUBSET Rows]
  BY Holding, BodyState DEF TxStatement, Count, IInv, TypeOK
<1>2. CASE /\ session[c].tx = "open"
           /\ session' = [session EXCEPT ![c].pending[d] = @ \cup {row}]
           /\ acked' = [acked EXCEPT ![r][d] = @ \cup {row}]
  <2>1. row.req = r /\ row.n = calls[r] + 1
    BY DEF Row
  <2> HIDE DEF row
  <2>2. acked'[r] = [acked[r] EXCEPT ![d] = @ \cup {row}]
    BY <1>1, <1>2 DEF IInv, TypeOK
  <2>3. session'[c].pending = [session[c].pending EXCEPT ![d] = @ \cup {row}]
    BY <1>1, <1>2 DEF IInv, TypeOK, Session
  <2>4. session[c].pending = acked[r]
    BY <1>1, <1>2 DEF LedgerInv
  <2>5. row \notin table
    BY <1>1, <2>1 DEF LedgerInv
  <2>6. All(acked'[r]) \subseteq All(acked[r]) \cup {row}
    BY <1>1, <2>2 DEF All
  <2>7. session'[c].pending = acked'[r]
    BY <2>2, <2>3, <2>4
  <2>8. \A w \in All(acked'[r]) :
          w \in All(acked[r]) \/ (w.req = r /\ w.n <= calls'[r] /\ w \notin table)
    <3>1. row.n <= calls'[r]
      BY <1>1, <2>1
    <3> QED
      BY <2>1, <2>5, <2>6, <3>1
  <2> QED
    BY <1>1, <2>7, <2>8, BodyLedger
<1>3. CASE /\ session[c].tx = "open"
           /\ \E s \in Failures(session[c]) : session' = [session EXCEPT ![c] = s]
           /\ acked' = acked
  <2>1. PICK s \in Failures(session[c]) : session' = [session EXCEPT ![c] = s]
    BY <1>3
  <2>2. s.tx \in {"open", "aborted"} => s.pending = acked[r]
    BY <1>1, <1>3, <2>1, BrokenSession DEF Failures, Session, LedgerInv
  <2>3. session'[c] = s
    BY <1>1, <2>1 DEF IInv, TypeOK
  <2> QED
    BY <1>1, <1>3, <2>2, <2>3, BodyLedger
<1>4. CASE session' = session /\ acked' = acked
  <2>1. session'[c].tx \in {"open", "aborted"} => session'[c].pending = acked'[r]
    BY <1>1, <1>4 DEF LedgerInv
  <2> QED
    BY <1>1, <1>4, <2>1, BodyLedger
<1> QED
  BY <1>2, <1>3, <1>4 DEF TxStatement

LEMMA EnterNestedLedger ==
  ASSUME IInv, Ledger, NEW r \in Requests, EnterNested(r)
  PROVE  LedgerInv(r)' /\ Honest(r)' /\ OwnRows(r)
<1> DEFINE c == client[r]
<1>1. /\ pc[r] = "fn" /\ pc'[r] = "fn" /\ UNCHANGED <<client, answer, table, acked>>
      /\ calls'[r] = calls[r] + 1
      /\ LedgerInv(r) /\ c \in Connections /\ session[c] \in Session
  BY Holding, BodyState DEF EnterNested, Count, IInv, TypeOK
<1>2. session'[c] = session[c] \/ session'[c] = Broken(session[c])
  BY <1>1 DEF EnterNested, IInv, TypeOK
<1>3. session'[c].tx \in {"open", "aborted"} => session'[c].pending = acked'[r]
  BY <1>1, <1>2, BrokenSession DEF LedgerInv
<1> QED
  BY <1>1, <1>3, BodyLedger

LEMMA MergeNestedLedger ==
  ASSUME IInv, Ledger, NEW r \in Requests, MergeNested(r)
  PROVE  LedgerInv(r)' /\ Honest(r)' /\ OwnRows(r)
<1> DEFINE c == client[r]
           d == depth[r]
<1>1. /\ pc[r] = "fn" /\ pc'[r] = "fn" /\ UNCHANGED <<client, calls, answer, table>>
      /\ LedgerInv(r) /\ c \in Connections /\ session[c] \in Session /\ session[c].tx = "open"
      /\ d \in Levels /\ d > 1 /\ acked[r] \in [Levels -> SUBSET Rows]
  BY Holding, BodyState DEF MergeNested, IInv, TypeOK
<1>2. acked'[r] = Merged(acked[r], d)
  BY <1>1 DEF MergeNested, IInv, TypeOK
<1>3. session'[c].pending = Merged(session[c].pending, d)
  BY <1>1 DEF MergeNested, IInv, TypeOK, Session
<1>4. session[c].pending = acked[r]
  BY <1>1 DEF LedgerInv
<1>5. All(acked'[r]) = All(acked[r])
  BY <1>1, <1>2, MergedRows
<1> QED
  BY <1>1, <1>2, <1>3, <1>4, <1>5, BodyLedger

LEMMA UndoNestedLedger ==
  ASSUME IInv, Ledger, NEW r \in Requests, UndoNested(r)
  PROVE  LedgerInv(r)' /\ Honest(r)' /\ OwnRows(r)
<1> DEFINE c == client[r]
           d == depth[r]
<1>1. /\ pc[r] = "fn" /\ pc'[r] = "fn" /\ UNCHANGED <<client, calls, answer, table>>
      /\ LedgerInv(r) /\ c \in Connections /\ session[c] \in Session /\ session[c].tx # "none"
      /\ d \in Levels /\ acked[r] \in [Levels -> SUBSET Rows]
  BY Holding, BodyState DEF UndoNested, IInv, TypeOK
<1>2. acked'[r] = [acked[r] EXCEPT ![d] = {}]
  BY <1>1 DEF UndoNested, IInv, TypeOK
<1>3. session'[c] \in {RollbackToOn(session[c], d), Broken(session[c])}
  BY <1>1 DEF UndoNested, IInv, TypeOK
<1>4. session'[c].tx \in {"open", "aborted"} => session'[c].pending = acked'[r]
  <2> SUFFICES ASSUME session'[c].tx \in {"open", "aborted"}
               PROVE  session'[c].pending = acked'[r]
    OBVIOUS
  <2>1. session'[c] = RollbackToOn(session[c], d)
    BY <1>1, <1>3, BrokenSession
  <2>2. session[c].tx # "dead"
    BY <2>1 DEF RollbackToOn
  <2>3. session[c].tx \in {"open", "aborted"}
    BY <1>1, <2>2 DEF Session
  <2>4. session[c].pending = acked[r]
    BY <1>1, <2>3 DEF LedgerInv
  <2>5. session'[c].pending = [session[c].pending EXCEPT ![d] = {}]
    BY <1>1, <2>1, <2>2 DEF RollbackToOn, Session
  <2> QED
    BY <1>2, <2>4, <2>5
<1>5. All(acked'[r]) \subseteq All(acked[r])
  BY <1>1, <1>2 DEF All
<1> QED
  BY <1>1, <1>4, <1>5, BodyLedger

LEMMA CommitLedger ==
  ASSUME IInv, Ledger, NEW r \in Requests, Commit(r)
  PROVE  LedgerInv(r)' /\ Honest(r)' /\ OwnRows(r)
<1> DEFINE c == client[r]
<1>1. /\ LedgerInv(r) /\ pc[r] \in {"fn", "commit"} /\ session[c].tx \in {"open", "aborted"}
      /\ UNCHANGED <<acked, calls>>
  BY Holding DEF Commit, AtCommit
<1>2. answer[r] = "none" /\ session[c].pending = acked[r] /\ All(acked[r]) \cap table = {}
  BY <1>1 DEF LedgerInv
<1>3. /\ pc'[r] = "idle"
      /\ \/ table' = table \cup All(acked[r]) /\ answer'[r] = "ok"
         \/ table' = table /\ answer'[r] = "hollow"
  BY <1>1, <1>2 DEF Commit, Return, Goto, IInv, TypeOK
<1>4. \A w \in table' : w.req = r => w.n <= calls[r]
  BY <1>1, <1>3 DEF LedgerInv
<1> QED
  BY <1>1, <1>2, <1>3, <1>4 DEF LedgerInv, Opening, Honest, OwnRows

LEMMA CommitFailsLedger ==
  ASSUME IInv, Ledger, NEW r \in Requests, CommitFails(r)
  PROVE  LedgerInv(r)' /\ Honest(r)' /\ OwnRows(r)
<1> DEFINE c == client[r]
<1>1. /\ LedgerInv(r) /\ pc[r] \in {"fn", "commit"} /\ UNCHANGED <<acked, calls>>
      /\ pc'[r] = "undo"
  BY Holding DEF CommitFails, AtCommit, Goto, IInv, TypeOK
<1>2. answer[r] = "none" /\ All(acked[r]) \cap table = {}
  BY <1>1 DEF LedgerInv
<1>3. \/ table' = table /\ answer' = answer
      \/ session[c].tx = "open" /\ table' = table \cup All(session[c].pending) /\ answer'[r] = "lost"
  BY DEF CommitFails, IInv, TypeOK
<1>4. CASE table' = table /\ answer' = answer
  BY <1>1, <1>2, <1>4 DEF LedgerInv, Opening, Honest, OwnRows
<1>5. CASE table' = table \cup All(acked[r]) /\ answer'[r] = "lost"
  <2>1. \A w \in table' : w.req = r => w.n <= calls[r]
    BY <1>1, <1>5 DEF LedgerInv
  <2> QED
    BY <1>1, <1>5, <2>1 DEF LedgerInv, Opening, Honest, OwnRows
<1> QED
  BY <1>1, <1>3, <1>4, <1>5 DEF LedgerInv

LEMMA ThrowLedger ==
  ASSUME IInv, Ledger, NEW r \in Requests, Throw(r)
  PROVE  LedgerInv(r)' /\ Honest(r)' /\ OwnRows(r)
<1>1. /\ LedgerInv(r) /\ pc[r] = "fn" /\ pc'[r] = "undo"
      /\ UNCHANGED <<acked, calls, answer, table>>
  BY Holding DEF Throw, Goto, IInv, TypeOK
<1> QED
  BY <1>1 DEF LedgerInv, Opening, Honest, OwnRows

LEMMA UndoLedger ==
  ASSUME IInv, Ledger, NEW r \in Requests, Undo(r)
  PROVE  LedgerInv(r)' /\ Honest(r)' /\ OwnRows(r)
<1>1. /\ LedgerInv(r) /\ pc[r] = "undo" /\ pc'[r] = "idle"
      /\ UNCHANGED <<acked, calls, table>>
      /\ answer'[r] = IF answer[r] = "lost" THEN "lost" ELSE "error"
  BY Holding DEF Undo, Return, Goto, IInv, TypeOK
<1> QED
  BY <1>1 DEF LedgerInv, Opening, Honest, OwnRows

\* A step that leaves every client in use as it was keeps the ledger.
LEMMA QuietLedger ==
  ASSUME IInv, Ledger, \A c \in Connections : session'[c] = session[c],
         UNCHANGED <<store, flowVars, table>>
  PROVE  Ledger'
<1> SUFFICES ASSUME NEW q \in Requests PROVE LedgerInv(q)' /\ Honest(q)'
  BY DEF Ledger, HonestAnswers
<1>1. /\ LedgerInv(q) /\ Honest(q)
      /\ pc[q] \in {"statement", "fn", "commit"} => client[q] \in Connections
  BY OwnClient DEF Ledger, HonestAnswers
<1>2. pc[q] \in {"statement", "fn", "commit"} => session'[client'[q]] = session[client[q]]
  BY <1>1 DEF flowVars
<1> QED
  BY <1>1, <1>2 DEF flowVars, LedgerInv, Opening, Honest

LEMMA InitLedger == Init => Ledger
<1> SUFFICES ASSUME Init, NEW r \in Requests PROVE LedgerInv(r) /\ Honest(r)
  BY DEF Ledger, HonestAnswers
<1> QED
  BY NoPendingRows DEF Init, LedgerInv, Honest, Opening

LEMMA NextLedger == IInv /\ Ledger /\ [Next]_vars => Ledger'
<1> SUFFICES ASSUME IInv, Ledger, [Next]_vars PROVE Ledger'
  OBVIOUS
<1>1. ASSUME NEW r \in Requests, Flow(r)
      PROVE  Ledger'
  <2>1. LedgerInv(r)' /\ Honest(r)' /\ OwnRows(r)
    <3>1. CASE \E ctx \in Contexts : RunWithRlsContext(r, ctx)
      BY <3>1, RunWithRlsContextLedger
    <3>2. CASE Query(r) \/ RunInTransaction(r)
      BY <3>2, RequestLedger DEF Query, RunInTransaction
    <3>3. CASE Serve(r)
      BY <3>3, ServeLedger
    <3>4. CASE RoundTrip(r)
      BY <3>4, BeginLedger, ApplyRlsLedger, DirectStatementLedger, WrappedStatementLedger,
         CommitLedger, CommitFailsLedger, UndoLedger DEF RoundTrip
    <3>5. CASE Body(r)
      BY <3>5, TxStatementLedger, EnterNestedLedger DEF Body
    <3>6. CASE LeaveBody(r)
      BY <3>6, MergeNestedLedger, UndoNestedLedger, ThrowLedger DEF LeaveBody
    <3> QED
      BY <1>1, <3>1, <3>2, <3>3, <3>4, <3>5, <3>6 DEF Flow
  <2> QED
    BY <1>1, <2>1, FlowAlone, LedgerOfOthers
<1>2. CASE OnModuleDestroy
  <2>1. \A c \in Connections : session'[c] = session[c]
    BY <1>2 DEF OnModuleDestroy, IInv, PoolClean
  <2> QED
    BY <1>2, <2>1, QuietLedger DEF OnModuleDestroy
<1>3. CASE UNCHANGED vars
  BY <1>3, QuietLedger DEF vars
<1> QED
  BY <1>1, <1>2, <1>3 DEF Next, AwaitExit

\* The ledger is kept: what a flow was acknowledged is what its session would
\* commit, until the server ends the transaction.
THEOREM LedgerKept == Spec => []Ledger
  BY InitInv, NextInv, InitLedger, NextLedger, PTL DEF Spec

\* A flow told `ok` has its writes in the table, a flow told of an error has
\* none of them there (runWrapped, runInTransaction, RlsAwarePool.query).
THEOREM TrueAnswers == Spec => []HonestAnswers
<1>1. Ledger => HonestAnswers
  BY DEF Ledger
<1>2. QED
  BY <1>1, LedgerKept, PTL

-----------------------------------------------------------------------------
(* The refinement: every step maps to a step of UnitsOfWork or to none.    *)

ClosedUnit == [depth |-> 0, ctx |-> NoContext, pending |-> NoRows]
OpenUnit(d, s) ==
  [depth |-> d, ctx |-> s.rls, pending |-> [l \in Levels |-> Seen(s.pending[l])]]
OpenedUnit(ctx) == [depth |-> 1, ctx |-> ctx, pending |-> NoRows]
SeenRow(w) == [req |-> w.req, n |-> w.n, ctx |-> w.rls]
Usable(s) == s.tx \in {"open", "aborted"}

LEMMA ClosedUnitIsClosed == ClosedUnit = Units!Closed /\ NoRows = Units!Nothing
  BY DEF ClosedUnit, NoRows, Levels, Units!Closed, Units!Nothing, Units!Levels

LEMMA SeenRows ==
  ASSUME NEW A, NEW B, NEW w
  PROVE  /\ Seen({}) = {}
         /\ Seen(A \cup B) = Seen(A) \cup Seen(B)
         /\ Seen(A \cup {w}) = Seen(A) \cup {SeenRow(w)}
  BY DEF Seen, SeenRow

\* The unit of a flow, by where the flow is.
LEMMA UnitForms ==
  ASSUME NEW r \in Requests
  PROVE  /\ ~InUnit(r) \/ ~Usable(session[client[r]]) => UnitOf(r) = ClosedUnit
         /\ pc[r] = "fn" /\ kind[r] = "tx" /\ Usable(session[client[r]]) =>
              UnitOf(r) = OpenUnit(depth[r], session[client[r]])
         /\ kind[r] = "wrapped" /\ pc[r] \in {"statement", "commit"} /\ Usable(session[client[r]]) =>
              UnitOf(r) = OpenUnit(1, session[client[r]])
  BY DEF UnitOf, InUnit, Usable, ClosedUnit, OpenUnit

\* A step of one flow leaves the units of the others as they are.
OtherUnits(r) == \A q \in Requests \ {r} : UnitOf(q)' = UnitOf(q)

LEMMA UnitsAlone ==
  ASSUME IInv, NEW r \in Requests, Alone(r)
  PROVE  OtherUnits(r)
<1> SUFFICES ASSUME NEW q \in Requests \ {r} PROVE UnitOf(q)' = UnitOf(q)
  BY DEF OtherUnits
<1>1. InUnit(q) => client[q] # NoClient
  BY DEF InUnit, IInv, FlowInv
<1>2. InUnit(q)' <=> InUnit(q)
  BY DEF Alone, InUnit
<1>3. InUnit(q) => session'[client'[q]] = session[client[q]]
  BY <1>1 DEF Alone
<1> QED
  BY <1>2, <1>3 DEF UnitOf, Alone

\* What a step of one flow is to the abstract specification.
Maps(r) == Units!Next \/ UNCHANGED Units!vars

LEMMA UnitsExcept ==
  ASSUME NEW r \in Requests, OtherUnits(r)
  PROVE  [q \in Requests |-> UnitOf(q)]' =
           [[q \in Requests |-> UnitOf(q)] EXCEPT ![r] = UnitOf(r)']
  BY DEF OtherUnits

LEMMA Stutters ==
  ASSUME NEW r \in Requests, OtherUnits(r), UnitOf(r)' = UnitOf(r), UNCHANGED <<store, table>>
  PROVE  UNCHANGED Units!vars
<1>1. [q \in Requests |-> UnitOf(q)]' = [q \in Requests |-> UnitOf(q)]
  BY DEF OtherUnits
<1> QED
  BY <1>1 DEF Units!vars, Seen

LEMMA Opens ==
  ASSUME NEW r \in Requests, OtherUnits(r), UnitOf(r) = ClosedUnit,
         UnitOf(r)' = OpenedUnit(Units!Context(r)),
         UNCHANGED <<store, table>>
  PROVE  Units!Next
<1>1. ClosedUnit.depth = 0
  BY DEF ClosedUnit
<1>2. Units!Open(r)
  BY <1>1, ClosedUnitIsClosed, UnitsExcept DEF Units!Open, OpenedUnit, Seen
<1> QED
  BY <1>2 DEF Units!Next

LEMMA Aborts ==
  ASSUME NEW r \in Requests, OtherUnits(r), UnitOf(r).depth > 0,
         UnitOf(r)' = ClosedUnit, UNCHANGED <<store, table>>
  PROVE  Units!Next
<1>1. Units!Abort(r)
  BY ClosedUnitIsClosed, UnitsExcept DEF Units!Abort, Seen
<1> QED
  BY <1>1 DEF Units!Next

LEMMA Commits ==
  ASSUME NEW r \in Requests, OtherUnits(r), UnitOf(r).depth = 1,
         Seen(table)' = Seen(table) \cup Units!All(UnitOf(r).pending),
         UnitOf(r)' = ClosedUnit, store' = store
  PROVE  Units!Next
<1>1. Units!Commit(r)
  BY ClosedUnitIsClosed, UnitsExcept DEF Units!Commit
<1> QED
  BY <1>1 DEF Units!Next

LEMMA Writes ==
  ASSUME NEW r \in Requests, OtherUnits(r), NEW n \in 1..MaxCalls,
         NEW d, d > 0, NEW ctx, NEW p,
         UnitOf(r) = [depth |-> d, ctx |-> ctx, pending |-> p],
         UnitOf(r)' = [depth |-> d, ctx |-> ctx,
                       pending |-> [p EXCEPT ![d] = @ \cup {[req |-> r, n |-> n, ctx |-> ctx]}]],
         UNCHANGED <<store, table>>
  PROVE  Units!Next
<1> DEFINE units == [q \in Requests |-> UnitOf(q)]
           row == [req |-> r, n |-> n, ctx |-> ctx]
           pending == [p EXCEPT ![d] = @ \cup {row}]
<1>1. units[r] = [depth |-> d, ctx |-> ctx, pending |-> p]
  OBVIOUS
<1>2. units' = [units EXCEPT ![r] = [depth |-> d, ctx |-> ctx, pending |-> pending]]
  BY UnitsExcept
<1>3. [depth |-> d, ctx |-> ctx, pending |-> pending]
        = [[depth |-> d, ctx |-> ctx, pending |-> p] EXCEPT !.pending = pending]
  <2> HIDE DEF pending
  <2> QED
    OBVIOUS
<1>4. units' = [units EXCEPT ![r].pending[units[r].depth] =
                               @ \cup {[req |-> r, n |-> n, ctx |-> units[r].ctx]}]
  <2>1. [units EXCEPT ![r].pending[d] = @ \cup {row}] =
          [units EXCEPT ![r] = [units[r] EXCEPT !.pending =
                                  [units[r].pending EXCEPT ![d] = @ \cup {row}]]]
    <3> HIDE DEF units, row
    <3> QED
      OBVIOUS
  <2>2. units[r].depth = d /\ units[r].ctx = ctx /\ units[r].pending = p
    BY <1>1
  <2> HIDE DEF units
  <2> QED
    BY <1>1, <1>2, <1>3, <2>1, <2>2
<1>5. Units!Write(r, n)
  BY <1>1, <1>4 DEF Units!Write, Seen
<1> QED
  BY <1>5 DEF Units!Next

LEMMA WritesAlone ==
  ASSUME NEW r \in Requests, OtherUnits(r), NEW n \in 1..MaxCalls,
         UnitOf(r) = ClosedUnit, UnitOf(r)' = ClosedUnit, Units!Context(r) = NoContext,
         Seen(table)' = Seen(table) \cup {[req |-> r, n |-> n, ctx |-> NoContext]},
         store' = store
  PROVE  Units!Next
<1>1. [q \in Requests |-> UnitOf(q)]' = [q \in Requests |-> UnitOf(q)]
  BY DEF OtherUnits
<1>2. Units!WriteAlone(r, n)
  BY <1>1 DEF Units!WriteAlone, ClosedUnit
<1> QED
  BY <1>2 DEF Units!Next

\* A flow outside every unit before and after a step that writes nothing.
LEMMA Outside ==
  ASSUME IInv, NEW r \in Requests, Alone(r), UNCHANGED <<store, table>>,
         ~InUnit(r), ~InUnit(r)'
  PROVE  Maps(r)
<1>1. UnitOf(r) = ClosedUnit /\ UnitOf(r)' = ClosedUnit
  BY DEF UnitOf, ClosedUnit
<1> QED
  BY <1>1, UnitsAlone, Stutters DEF Maps

LEMMA RunWithRlsContextMaps ==
  ASSUME IInv, NEW r \in Requests, NEW ctx \in Contexts, RunWithRlsContext(r, ctx)
  PROVE  Maps(r)
<1>1. [q \in Requests |-> UnitOf(q)]' = [q \in Requests |-> UnitOf(q)]
  BY DEF RunWithRlsContext, flowVars, UnitOf, InUnit
<1>2. Units!EnterContext(r, ctx)
  BY <1>1 DEF RunWithRlsContext, Units!EnterContext, Seen
<1> QED
  BY <1>2 DEF Maps, Units!Next, Units!Contexts, Contexts

LEMMA RequestMaps ==
  ASSUME IInv, NEW r \in Requests, Alone(r), NEW k, Request(r, k)
  PROVE  Maps(r)
<1>1. pc[r] = "idle" /\ pc'[r] \in {"idle", "waiting"} /\ UNCHANGED <<store, table>>
  BY DEF Request, Return, Goto, IInv, TypeOK
<1> QED
  BY <1>1, Outside DEF InUnit

LEMMA ServeMaps ==
  ASSUME IInv, NEW r \in Requests, Alone(r), Serve(r)
  PROVE  Maps(r)
<1>1. CASE Checkout(r)
  <2>1. /\ pc[r] = "waiting" /\ UNCHANGED <<store, table, kind>>
        /\ pc'[r] = IF kind[r] = "direct" THEN "statement" ELSE "begin"
    BY <1>1 DEF Checkout, Goto, IInv, TypeOK
  <2> QED
    BY <2>1, Outside DEF InUnit
<1>2. CASE ConnectFails(r)
  <2>1. pc[r] = "waiting" /\ UNCHANGED <<store, table>> /\ pc'[r] = "idle"
    BY <1>2 DEF ConnectFails, Return, Goto, IInv, TypeOK
  <2> QED
    BY <2>1, Outside DEF InUnit
<1> QED
  BY <1>1, <1>2 DEF Serve

\* The context a unit is opened under is the one in force when it opens.
LEMMA OpeningContext ==
  ASSUME IInv, Ledger, NEW r \in Requests, Opening(r)
  PROVE  Units!Context(r) = IF Applies(r) THEN captured[r] ELSE NoContext
<1>1. captured[r] = store[r]
  BY DEF Ledger, LedgerInv
<1> QED
  BY <1>1 DEF Applies, Units!Context

LEMMA FirstUnit ==
  ASSUME NEW s, s.pending = NoRows
  PROVE  OpenUnit(1, s) = OpenedUnit(s.rls)
<1>1. Seen({}) = {}
  BY SeenRows
<1>2. [l \in Levels |-> Seen(NoRows[l])] = NoRows
  BY <1>1 DEF NoRows
<1>3. [l \in Levels |-> Seen(s.pending[l])] = NoRows
  BY <1>2
<1> QED
  BY <1>3 DEF OpenUnit, OpenedUnit

LEMMA BeginMaps ==
  ASSUME IInv, Ledger, NEW r \in Requests, Alone(r), Begin(r)
  PROVE  Maps(r)
<1> DEFINE c == client[r]
<1>1. /\ pc[r] = "begin" /\ c \in Connections /\ session[c] = Fresh /\ FlowInv(r)
      /\ UNCHANGED <<store, kind, captured, client, table>>
  BY Holding, ConstantsAssumption DEF Begin, IInv, SessionInv
<1>2. kind[r] \in Kinds
  BY DEF IInv, TypeOK
<1>3. CASE pc'[r] \in {"apply", "undo"}
  BY <1>1, <1>3, Outside DEF InUnit
<1>4. CASE pc'[r] = "fn"
  <2>1. /\ ~Applies(r) /\ session'[c] = BeginOn(Fresh) /\ depth'[r] = 1
    BY <1>1, <1>4 DEF Begin, Goto, IInv, TypeOK
  <2>2. kind'[r] = "tx"
    BY <1>1, <1>2, <2>1 DEF FlowInv, Kinds
  <2>3. /\ BeginOn(Fresh).pending = NoRows /\ BeginOn(Fresh).rls = NoContext
        /\ BeginOn(Fresh).tx = "open"
    BY DEF BeginOn, Fresh
  <2>4. UnitOf(r)' = OpenUnit(1, BeginOn(Fresh))
    BY <1>1, <1>4, <2>1, <2>2, <2>3 DEF UnitOf, InUnit, OpenUnit
  <2>5. UnitOf(r)' = OpenedUnit(NoContext)
    BY <2>3, <2>4, FirstUnit
  <2>6. Units!Context(r) = NoContext
    BY <1>1, <2>1, OpeningContext DEF Opening
  <2>7. UnitOf(r) = ClosedUnit
    BY <1>1, UnitForms DEF InUnit
  <2> QED
    BY <1>1, <2>5, <2>6, <2>7, UnitsAlone, Opens DEF Maps
<1>5. pc'[r] \in {"apply", "undo", "fn"}
  BY DEF Begin, Goto, IInv, TypeOK
<1> QED
  BY <1>3, <1>4, <1>5

LEMMA ApplyRlsMaps ==
  ASSUME IInv, Ledger, NEW r \in Requests, Alone(r), ApplyRls(r)
  PROVE  Maps(r)
<1> DEFINE c == client[r]
           s == [session[c] EXCEPT !.rls = captured[r]]
<1>1. /\ pc[r] = "apply" /\ c \in Connections /\ session[c] = [Fresh EXCEPT !.tx = "open"]
      /\ FlowInv(r) /\ Applies(r) /\ kind[r] \in {"wrapped", "tx"}
      /\ UNCHANGED <<store, kind, captured, client, table>>
  <2>1. /\ pc[r] = "apply" /\ c \in Connections /\ session[c] = [Fresh EXCEPT !.tx = "open"]
        /\ FlowInv(r) /\ UNCHANGED <<store, kind, captured, client, table>>
    BY Holding, ConstantsAssumption DEF ApplyRls, IInv, SessionInv
  <2>2. kind[r] \in Kinds
    BY DEF IInv, TypeOK
  <2> QED
    BY <2>1, <2>2 DEF FlowInv, Kinds
<1>2. CASE pc'[r] = "undo"
  BY <1>1, <1>2, Outside DEF InUnit
<1>3. CASE pc'[r] # "undo"
  <2>1. /\ session'[c] = s /\ pc'[r] = IF kind[r] = "tx" THEN "fn" ELSE "statement"
        /\ depth'[r] = IF kind[r] = "tx" THEN 1 ELSE 0
    BY <1>1, <1>3 DEF ApplyRls, Goto, IInv, TypeOK
  <2>2. s.pending = NoRows /\ s.rls = captured[r] /\ s.tx = "open"
    BY <1>1 DEF Fresh
  <2> HIDE DEF s
  <2>3. UnitOf(r)' = OpenUnit(1, s)
    BY <1>1, <2>1, <2>2 DEF UnitOf, InUnit, OpenUnit
  <2>4. UnitOf(r)' = OpenedUnit(captured[r])
    BY <2>2, <2>3, FirstUnit
  <2>5. Units!Context(r) = captured[r]
    BY <1>1, OpeningContext DEF Opening
  <2>6. UnitOf(r) = ClosedUnit
    BY <1>1, UnitForms DEF InUnit
  <2> QED
    BY <1>1, <2>4, <2>5, <2>6, UnitsAlone, Opens DEF Maps
<1> QED
  BY <1>2, <1>3

LEMMA DirectStatementMaps ==
  ASSUME IInv, Ledger, NEW r \in Requests, Alone(r), DirectStatement(r)
  PROVE  Maps(r)
<1> DEFINE row == Row(r, calls[r])
<1>1. /\ pc[r] = "statement" /\ kind[r] = "direct" /\ session[client[r]] = Fresh
      /\ pc'[r] = "idle" /\ store' = store /\ table' \in {table, table \cup {row}}
      /\ FlowInv(r) /\ calls[r] \in 1..MaxCalls
  <2>1. /\ pc[r] = "statement" /\ kind[r] = "direct" /\ pc'[r] = "idle" /\ store' = store
        /\ table' \in {table, table \cup {row}}
    BY DEF DirectStatement, Return, Goto, IInv, TypeOK
  <2>2. client[r] \in Connections /\ FlowInv(r)
    BY <2>1, Holding
  <2>3. session[client[r]] = Fresh
    BY <2>1, <2>2, ConstantsAssumption DEF IInv, SessionInv
  <2>4. calls[r] \in 1..MaxCalls
    BY <2>1, <2>2, ConstantsAssumption DEF FlowInv, IInv, TypeOK
  <2> QED
    BY <2>1, <2>2, <2>3, <2>4
<1>2. SeenRow(row) = [req |-> r, n |-> calls[r], ctx |-> NoContext]
  BY <1>1 DEF SeenRow, Row, Fresh
<1> HIDE DEF row
<1>3. CASE table' = table
  BY <1>1, <1>3, Outside DEF InUnit
<1>4. CASE table' = table \cup {row}
  <2>1. Seen(table)' = Seen(table) \cup {[req |-> r, n |-> calls[r], ctx |-> NoContext]}
    <3>1. Seen(table)' = Seen(table')
      BY DEF Seen
    <3> QED
      BY <1>2, <1>4, <3>1, SeenRows
  <2>2. Units!Context(r) = NoContext
    BY <1>1, OpeningContext DEF Opening, FlowInv
  <2>3. UnitOf(r) = ClosedUnit /\ UnitOf(r)' = ClosedUnit
    BY <1>1 DEF UnitOf, InUnit, ClosedUnit
  <2> QED
    BY <1>1, <2>1, <2>2, <2>3, UnitsAlone, WritesAlone DEF Maps
<1> QED
  BY <1>1, <1>3, <1>4

LEMMA WrittenUnit ==
  ASSUME NEW s \in Session, NEW d \in Levels, NEW w, NEW t,
         t.rls = s.rls, t.pending = [s.pending EXCEPT ![d] = @ \cup {w}]
  PROVE  OpenUnit(d, t) =
           [depth |-> d, ctx |-> s.rls,
            pending |-> [OpenUnit(d, s).pending EXCEPT ![d] = @ \cup {SeenRow(w)}]]
<1> DEFINE seen == [l \in Levels |-> Seen(s.pending[l])]
<1>1. /\ t.rls = s.rls /\ t.pending = [s.pending EXCEPT ![d] = @ \cup {w}]
      /\ s.pending \in [Levels -> SUBSET Rows]
  BY DEF Session
<1>2. \A l \in Levels : Seen(t.pending[l]) = IF l = d THEN seen[l] \cup {SeenRow(w)} ELSE seen[l]
  <2> TAKE l \in Levels
  <2>1. t.pending[l] = IF l = d THEN s.pending[l] \cup {w} ELSE s.pending[l]
    BY <1>1
  <2>2. Seen(s.pending[l] \cup {w}) = Seen(s.pending[l]) \cup {SeenRow(w)}
    BY SeenRows
  <2> QED
    BY <2>1, <2>2
<1>3. [seen EXCEPT ![d] = @ \cup {SeenRow(w)}] =
        [l \in Levels |-> IF l = d THEN seen[l] \cup {SeenRow(w)} ELSE seen[l]]
  OBVIOUS
<1>4. [l \in Levels |-> Seen(t.pending[l])] = [seen EXCEPT ![d] = @ \cup {SeenRow(w)}]
  BY <1>2, <1>3
<1>5. OpenUnit(d, s) = [depth |-> d, ctx |-> s.rls, pending |-> seen]
  BY DEF OpenUnit
<1>6. OpenUnit(d, t) = [depth |-> d, ctx |-> s.rls, pending |-> [seen EXCEPT ![d] = @ \cup {SeenRow(w)}]]
  BY <1>1, <1>4 DEF OpenUnit
<1> HIDE DEF seen
<1> QED
  BY <1>5, <1>6

LEMMA UndoneUnit ==
  ASSUME NEW s \in Session, NEW d \in Levels, NEW t,
         t.rls = s.rls, t.pending = [s.pending EXCEPT ![d] = {}]
  PROVE  OpenUnit(d - 1, t) =
           [depth |-> d - 1, ctx |-> s.rls, pending |-> [OpenUnit(d, s).pending EXCEPT ![d] = {}]]
<1> DEFINE seen == [l \in Levels |-> Seen(s.pending[l])]
<1>1. s.pending \in [Levels -> SUBSET Rows]
  BY DEF Session
<1>2. \A l \in Levels : Seen(t.pending[l]) = IF l = d THEN {} ELSE seen[l]
  BY <1>1, SeenRows
<1>3. [seen EXCEPT ![d] = {}] = [l \in Levels |-> IF l = d THEN {} ELSE seen[l]]
  OBVIOUS
<1>4. [l \in Levels |-> Seen(t.pending[l])] = [seen EXCEPT ![d] = {}]
  BY <1>2, <1>3
<1> QED
  BY <1>4 DEF OpenUnit

LEMMA MergedUnit ==
  ASSUME NEW s \in Session, NEW d \in Levels, d > 1, NEW t,
         t.rls = s.rls, t.pending = Merged(s.pending, d)
  PROVE  OpenUnit(d - 1, t) =
           [depth |-> d - 1, ctx |-> s.rls, pending |-> Units!Merged(OpenUnit(d, s).pending, d)]
<1> DEFINE seen == [l \in Levels |-> Seen(s.pending[l])]
<1>1. s.pending \in [Levels -> SUBSET Rows] /\ d - 1 \in Levels /\ d - 1 # d
  BY ConstantsAssumption DEF Session, Levels
<1>2. \A l \in Levels : t.pending[l] =
        IF l = d THEN {} ELSE IF l = d - 1 THEN s.pending[d - 1] \cup s.pending[d] ELSE s.pending[l]
  BY <1>1 DEF Merged
<1>3. \A l \in Levels : Seen(t.pending[l]) =
        IF l = d THEN {} ELSE IF l = d - 1 THEN seen[d - 1] \cup seen[d] ELSE seen[l]
  <2>1. Seen(s.pending[d - 1] \cup s.pending[d]) = Seen(s.pending[d - 1]) \cup Seen(s.pending[d])
    BY SeenRows
  <2>2. Seen({}) = {}
    BY SeenRows
  <2> QED
    BY <1>1, <1>2, <2>1, <2>2
<1>4. Units!Merged(seen, d) = [l \in Levels |->
        IF l = d THEN {} ELSE IF l = d - 1 THEN seen[d - 1] \cup seen[d] ELSE seen[l]]
  BY <1>1 DEF Units!Merged
<1>5. [l \in Levels |-> Seen(t.pending[l])] = Units!Merged(seen, d)
  BY <1>3, <1>4
<1> QED
  BY <1>5 DEF OpenUnit

LEMMA SeenAll ==
  ASSUME NEW s \in Session, NEW d
  PROVE  Seen(All(s.pending)) = Units!All(OpenUnit(d, s).pending)
<1>1. Units!All(OpenUnit(d, s).pending) = UNION {Seen(s.pending[l]) : l \in Levels}
  BY DEF Units!All, Units!Levels, Levels, OpenUnit
<1> QED
  BY <1>1 DEF Seen, All

\* A flow that leaves its unit without a commit, or that had none to leave.
LEMMA LeavesUnit ==
  ASSUME IInv, NEW r \in Requests, Alone(r), UNCHANGED <<store, table>>,
         ~InUnit(r)' \/ ~Usable(session[client[r]])',
         UnitOf(r) = ClosedUnit \/ \E d \in Levels : UnitOf(r) = OpenUnit(d, session[client[r]])
  PROVE  Maps(r)
<1>1. UnitOf(r)' = ClosedUnit
  BY DEF UnitOf, ClosedUnit, Usable
<1>2. CASE UnitOf(r) = ClosedUnit
  BY <1>1, <1>2, UnitsAlone, Stutters DEF Maps
<1>3. CASE \E d \in Levels : UnitOf(r) = OpenUnit(d, session[client[r]])
  <2>1. UnitOf(r).depth > 0
    BY <1>3, ConstantsAssumption DEF OpenUnit, Levels
  <2> QED
    BY <1>1, <2>1, UnitsAlone, Aborts DEF Maps
<1> QED
  BY <1>2, <1>3

LEMMA WrappedStatementMaps ==
  ASSUME IInv, Ledger, NEW r \in Requests, Alone(r), WrappedStatement(r)
  PROVE  Maps(r)
<1> DEFINE c == client[r]
           row == Row(r, calls[r])
           u == OpenUnit(1, session[c])
<1>1. /\ pc[r] = "statement" /\ kind[r] = "wrapped" /\ c \in Connections /\ session[c] \in Session
      /\ session[c].tx = "open" /\ UNCHANGED <<store, kind, client, table>>
      /\ FlowInv(r)
  BY Holding, ConstantsAssumption DEF WrappedStatement, IInv, SessionInv
<1>2. UnitOf(r) = u
  BY <1>1, UnitForms DEF Usable
<1>3. CASE /\ session' = [session EXCEPT ![c].pending[1] = @ \cup {row}]
           /\ Goto(r, "commit")
  <2> DEFINE s == [session[c] EXCEPT !.pending[1] = @ \cup {row}]
  <2>1. session'[c] = s /\ pc'[r] = "commit" /\ s.tx = "open"
    BY <1>1, <1>3 DEF Goto, IInv, TypeOK, Session
  <2>2. UnitOf(r)' = OpenUnit(1, s)
    <3> HIDE DEF s
    <3> QED
      BY <1>1, <2>1 DEF UnitOf, InUnit, OpenUnit
  <2>3. OpenUnit(1, s) =
          [depth |-> 1, ctx |-> session[c].rls,
           pending |-> [u.pending EXCEPT ![1] = @ \cup {SeenRow(row)}]]
    <3>1. s.rls = session[c].rls /\ s.pending = [session[c].pending EXCEPT ![1] = @ \cup {row}]
      BY <1>1 DEF Session
    <3> HIDE DEF s, row
    <3> QED
      <4>1. 1 \in Levels /\ session[c] \in Session
        BY <1>1, FirstLevel
      <4> HIDE DEF c
      <4> QED
        BY <3>1, <4>1, WrittenUnit
  <2>4. /\ SeenRow(row) = [req |-> r, n |-> calls[r], ctx |-> session[c].rls]
        /\ u = [depth |-> 1, ctx |-> session[c].rls, pending |-> u.pending]
    BY DEF SeenRow, Row, OpenUnit
  <2>5. calls[r] \in 1..MaxCalls
    BY <1>1, ConstantsAssumption DEF FlowInv, IInv, TypeOK
  <2> HIDE DEF u, s, row
  <2> QED
    BY <1>1, <1>2, <2>2, <2>3, <2>4, <2>5, UnitsAlone, Writes DEF Maps
<1>4. CASE pc'[r] = "undo"
  BY <1>1, <1>2, <1>4, FirstLevel, LeavesUnit DEF InUnit
<1> QED
  BY <1>3, <1>4 DEF WrappedStatement, Goto, IInv, TypeOK

\* The unit of a flow inside its body.
LEMMA BodyUnit ==
  ASSUME IInv, NEW r \in Requests, pc[r] = "fn"
  PROVE  UnitOf(r) = IF session[client[r]].tx # "dead"
                     THEN OpenUnit(depth[r], session[client[r]]) ELSE ClosedUnit
<1>1. kind[r] = "tx" /\ session[client[r]].tx \in {"open", "aborted", "dead"}
  BY BodyState DEF Session
<1> QED
  BY <1>1, UnitForms DEF Usable

LEMMA BodyUnitAfter ==
  ASSUME IInv, NEW r \in Requests, pc[r] = "fn", pc'[r] = "fn", UNCHANGED <<kind, client>>
  PROVE  UnitOf(r)' = IF Usable(session'[client[r]])
                      THEN OpenUnit(depth'[r], session'[client[r]]) ELSE ClosedUnit
<1>1. kind'[r] = "tx"
  BY BodyState
<1> QED
  BY <1>1 DEF UnitOf, InUnit, Usable, OpenUnit, ClosedUnit

LEMMA TxStatementMaps ==
  ASSUME IInv, Ledger, NEW r \in Requests, Alone(r), TxStatement(r)
  PROVE  Maps(r)
<1> DEFINE c == client[r]
           d == depth[r]
           row == Row(r, calls[r] + 1)
           u == OpenUnit(d, session[c])
<1>1. /\ pc[r] = "fn" /\ pc'[r] = "fn" /\ UNCHANGED <<store, kind, client, depth, table>>
      /\ c \in Connections /\ session[c] \in Session /\ d \in Levels
  BY BodyState DEF TxStatement
<1>2. CASE /\ session[c].tx = "open"
           /\ session' = [session EXCEPT ![c].pending[d] = @ \cup {row}]
  <2> DEFINE s == [session[c] EXCEPT !.pending[d] = @ \cup {row}]
  <2>1. session'[c] = s /\ s.tx = "open"
    BY <1>1, <1>2 DEF IInv, TypeOK, Session
  <2>2. UnitOf(r) = u
    BY <1>1, <1>2, BodyUnit
  <2>3. UnitOf(r)' = OpenUnit(d, s)
    <3> HIDE DEF s
    <3> QED
      BY <1>1, <2>1, BodyUnitAfter DEF Usable
  <2>4. OpenUnit(d, s) =
          [depth |-> d, ctx |-> session[c].rls,
           pending |-> [u.pending EXCEPT ![d] = @ \cup {SeenRow(row)}]]
    <3>1. s.rls = session[c].rls /\ s.pending = [session[c].pending EXCEPT ![d] = @ \cup {row}]
      BY <1>1 DEF Session
    <3> HIDE DEF s, row
    <3> QED
      BY <1>1, <3>1, WrittenUnit
  <2>5. /\ SeenRow(row) = [req |-> r, n |-> calls[r] + 1, ctx |-> session[c].rls]
        /\ u = [depth |-> d, ctx |-> session[c].rls, pending |-> u.pending]
    BY DEF SeenRow, Row, OpenUnit
  <2>6. calls[r] + 1 \in 1..MaxCalls /\ d > 0
    BY <1>1, CountStep, ConstantsAssumption DEF TxStatement, IInv, Levels
  <2> HIDE DEF u, s, row
  <2> QED
    BY <1>1, <2>2, <2>3, <2>4, <2>5, <2>6, UnitsAlone, Writes DEF Maps
<1>3. CASE /\ session[c].tx = "open"
           /\ \E s \in Failures(session[c]) : session' = [session EXCEPT ![c] = s]
  <2>1. PICK s \in Failures(session[c]) : session' = [session EXCEPT ![c] = s]
    BY <1>3
  <2>2. session'[c] = s
    BY <1>1, <2>1 DEF IInv, TypeOK
  <2>3. UnitOf(r) = u
    BY <1>1, <1>3, BodyUnit
  <2>4. CASE s = Broken(session[c])
    BY <1>1, <2>2, <2>3, <2>4, BrokenSession, LeavesUnit DEF Usable
  <2>5. CASE s = [session[c] EXCEPT !.tx = "aborted"]
    <3>1. s.tx = "aborted" /\ s.rls = session[c].rls /\ s.pending = session[c].pending
      BY <1>1, <2>5 DEF Session
    <3>2. UnitOf(r)' = UnitOf(r)
      BY <1>1, <2>2, <2>3, <3>1, BodyUnitAfter DEF Usable, OpenUnit
    <3> QED
      BY <1>1, <3>2, UnitsAlone, Stutters DEF Maps
  <2> QED
    BY <2>1, <2>4, <2>5 DEF Failures
<1>4. CASE session' = session
  <2>1. UnitOf(r)' = UnitOf(r)
    BY <1>1, <1>4, BodyState DEF UnitOf, InUnit
  <2> QED
    BY <1>1, <2>1, UnitsAlone, Stutters DEF Maps
<1> QED
  BY <1>2, <1>3, <1>4 DEF TxStatement

LEMMA Nests ==
  ASSUME NEW r \in Requests, OtherUnits(r), NEW d \in 1..(MaxDepth - 1), NEW ctx, NEW p,
         UnitOf(r) = [depth |-> d, ctx |-> ctx, pending |-> p],
         UnitOf(r)' = [depth |-> d + 1, ctx |-> ctx, pending |-> p],
         UNCHANGED <<store, table>>
  PROVE  Units!Next
<1> DEFINE units == [q \in Requests |-> UnitOf(q)]
<1>1. /\ units[r] = [depth |-> d, ctx |-> ctx, pending |-> p]
      /\ units' = [units EXCEPT ![r] = [depth |-> d + 1, ctx |-> ctx, pending |-> p]]
  BY UnitsExcept
<1>2. [depth |-> d + 1, ctx |-> ctx, pending |-> p]
        = [[depth |-> d, ctx |-> ctx, pending |-> p] EXCEPT !.depth = d + 1]
  OBVIOUS
<1>3. units' = [units EXCEPT ![r].depth = @ + 1]
  <2> HIDE DEF units
  <2>1. [units EXCEPT ![r].depth = @ + 1] = [units EXCEPT ![r] = [units[r] EXCEPT !.depth = units[r].depth + 1]]
    OBVIOUS
  <2>2. units[r].depth = d
    BY <1>1
  <2> QED
    BY <1>1, <1>2, <2>1, <2>2
<1>4. Units!Nest(r)
  BY <1>1, <1>3 DEF Units!Nest, Seen
<1> QED
  BY <1>4 DEF Units!Next

LEMMA EnterNestedMaps ==
  ASSUME IInv, Ledger, NEW r \in Requests, Alone(r), EnterNested(r)
  PROVE  Maps(r)
<1> DEFINE c == client[r]
           d == depth[r]
           s == session[c]
<1>1. /\ pc[r] = "fn" /\ pc'[r] = "fn" /\ UNCHANGED <<store, kind, client, table>>
      /\ c \in Connections /\ s \in Session /\ d \in Levels /\ d < MaxDepth
  BY BodyState DEF EnterNested
<1>2. CASE s.tx = "open" /\ depth' = [depth EXCEPT ![r] = @ + 1] /\ session' = session
  <2>1. UnitOf(r) = OpenUnit(d, s) /\ UnitOf(r)' = OpenUnit(d + 1, s)
    BY <1>1, <1>2, BodyUnit, BodyUnitAfter DEF Usable, IInv, TypeOK
  <2>2. d \in 1..(MaxDepth - 1)
    BY <1>1, ConstantsAssumption DEF Levels
  <2> QED
    BY <1>1, <2>1, <2>2, UnitsAlone, Nests DEF Maps, OpenUnit
<1>3. CASE s.tx = "open" /\ session'[c] = Broken(s)
  BY <1>1, <1>3, BodyUnit, BrokenSession, LeavesUnit DEF Usable
<1>4. CASE s.tx # "open" /\ session' = session /\ depth' = depth
  <2>1. UnitOf(r)' = UnitOf(r)
    BY <1>1, <1>4, BodyState DEF UnitOf, InUnit
  <2> QED
    BY <1>1, <2>1, UnitsAlone, Stutters DEF Maps
<1>5. \/ s.tx = "open" /\ depth' = [depth EXCEPT ![r] = @ + 1] /\ session' = session
      \/ s.tx = "open" /\ session'[c] = Broken(s)
      \/ s.tx # "open" /\ session' = session /\ depth' = depth
  <2>1. CASE s.tx = "open"
    BY <1>1, <2>1 DEF EnterNested, IInv, TypeOK
  <2>2. CASE s.tx # "open"
    BY <1>1, <2>2 DEF EnterNested, IInv, TypeOK
  <2> QED
    BY <2>1, <2>2
<1> QED
  BY <1>2, <1>3, <1>4, <1>5

LEMMA Merges ==
  ASSUME NEW r \in Requests, OtherUnits(r), NEW d, d > 1, NEW ctx, NEW p,
         UnitOf(r) = [depth |-> d, ctx |-> ctx, pending |-> p],
         UnitOf(r)' = [depth |-> d - 1, ctx |-> ctx, pending |-> Units!Merged(p, d)],
         UNCHANGED <<store, table>>
  PROVE  Units!Next
<1> DEFINE units == [q \in Requests |-> UnitOf(q)]
<1>1. /\ units[r].depth = d /\ units[r].ctx = ctx /\ units[r].pending = p
      /\ units' = [units EXCEPT ![r] = UnitOf(r)']
  BY UnitsExcept
<1>2. units' = [units EXCEPT ![r] =
                  [depth |-> d - 1, ctx |-> @.ctx, pending |-> Units!Merged(@.pending, d)]]
  BY <1>1
<1>3. Units!Merge(r)
  BY <1>1, <1>2 DEF Units!Merge, Seen
<1> QED
  BY <1>3 DEF Units!Next

LEMMA MergeNestedMaps ==
  ASSUME IInv, Ledger, NEW r \in Requests, Alone(r), MergeNested(r)
  PROVE  Maps(r)
<1> DEFINE c == client[r]
           d == depth[r]
           s == session[c]
           t == session'[c]
           p == OpenUnit(d, s).pending
<1>1. /\ pc[r] = "fn" /\ pc'[r] = "fn" /\ UNCHANGED <<store, kind, client, table>>
      /\ c \in Connections /\ s \in Session /\ d \in Levels /\ d > 1 /\ s.tx = "open"
      /\ depth'[r] = d - 1
  BY BodyState DEF MergeNested, IInv, TypeOK
<1>2. t = [s EXCEPT !.pending = Merged(@, d)]
  BY <1>1 DEF MergeNested, IInv, TypeOK
<1>3. t.tx = "open" /\ t.rls = s.rls /\ t.pending = Merged(s.pending, d)
  BY <1>1, <1>2 DEF Session
<1>4. UnitOf(r) = [depth |-> d, ctx |-> s.rls, pending |-> p]
  BY <1>1, BodyUnit DEF OpenUnit
<1>5. UnitOf(r)' = OpenUnit(d - 1, t)
  BY <1>1, <1>3, BodyUnitAfter DEF Usable
<1>6. OpenUnit(d - 1, t) = [depth |-> d - 1, ctx |-> s.rls, pending |-> Units!Merged(p, d)]
  <2> HIDE DEF t
  <2> QED
    BY <1>1, <1>3, MergedUnit
<1> HIDE DEF p, d, s, t
<1> QED
  BY <1>1, <1>4, <1>5, <1>6, UnitsAlone, Merges DEF Maps

LEMMA UndoesNested ==
  ASSUME NEW r \in Requests, OtherUnits(r), NEW d, d > 1, NEW ctx, NEW p,
         UnitOf(r) = [depth |-> d, ctx |-> ctx, pending |-> p],
         UnitOf(r)' = [depth |-> d - 1, ctx |-> ctx, pending |-> [p EXCEPT ![d] = {}]],
         UNCHANGED <<store, table>>
  PROVE  Units!Next
<1> DEFINE units == [q \in Requests |-> UnitOf(q)]
<1>1. /\ units[r].depth = d /\ units[r].ctx = ctx /\ units[r].pending = p
      /\ units' = [units EXCEPT ![r] = UnitOf(r)']
  BY UnitsExcept
<1>2. units' = [units EXCEPT ![r] =
                  [depth |-> d - 1, ctx |-> @.ctx, pending |-> [@.pending EXCEPT ![d] = {}]]]
  BY <1>1
<1>3. Units!UndoNested(r)
  BY <1>1, <1>2 DEF Units!UndoNested, Seen
<1> QED
  BY <1>3 DEF Units!Next

LEMMA UndoNestedMaps ==
  ASSUME IInv, Ledger, NEW r \in Requests, Alone(r), UndoNested(r)
  PROVE  Maps(r)
<1> DEFINE c == client[r]
           d == depth[r]
           s == session[c]
           t == session'[c]
           p == OpenUnit(d, s).pending
<1>1. /\ pc[r] = "fn" /\ pc'[r] = "fn" /\ UNCHANGED <<store, kind, client, table>>
      /\ c \in Connections /\ s \in Session /\ d \in Levels /\ d > 1
      /\ depth'[r] = d - 1
  BY BodyState DEF UndoNested, IInv, TypeOK
<1>2. t \in {RollbackToOn(s, d), Broken(s)}
  BY <1>1 DEF UndoNested, IInv, TypeOK
<1>3. CASE s.tx = "dead" \/ t = Broken(s)
  <2>1. t.tx = "dead"
    BY <1>1, <1>2, <1>3, BrokenSession DEF RollbackToOn
  <2> QED
    BY <1>1, <2>1, BodyUnit, LeavesUnit DEF Usable
<1>4. CASE s.tx # "dead" /\ t = RollbackToOn(s, d)
  <2>1. t.tx = "open" /\ t.rls = s.rls /\ t.pending = [s.pending EXCEPT ![d] = {}]
    BY <1>1, <1>4 DEF RollbackToOn, Session
  <2>2. UnitOf(r) = [depth |-> d, ctx |-> s.rls, pending |-> p]
    BY <1>1, <1>4, BodyUnit DEF OpenUnit
  <2>3. UnitOf(r)' = OpenUnit(d - 1, t)
    BY <1>1, <2>1, BodyUnitAfter DEF Usable
  <2>4. OpenUnit(d - 1, t) = [depth |-> d - 1, ctx |-> s.rls, pending |-> [p EXCEPT ![d] = {}]]
    <3>1. s \in Session /\ d \in Levels /\ t.rls = s.rls /\ t.pending = [s.pending EXCEPT ![d] = {}]
      BY <1>1, <2>1
    <3> HIDE DEF t, s, d
    <3> QED
      BY <3>1, UndoneUnit
  <2> HIDE DEF p, d, s, t
  <2> QED
    BY <1>1, <2>2, <2>3, <2>4, UnitsAlone, UndoesNested DEF Maps
<1> QED
  BY <1>2, <1>3, <1>4

\* The unit of a flow at the end of its transaction.
LEMMA UnitAtCommit ==
  ASSUME IInv, NEW r \in Requests, AtCommit(r)
  PROVE  /\ client[r] \in Connections /\ session[client[r]] \in Session
         /\ UnitOf(r) = IF session[client[r]].tx # "dead"
                        THEN OpenUnit(1, session[client[r]]) ELSE ClosedUnit
<1>1. /\ client[r] \in Connections /\ client[r] # NoClient /\ session[client[r]] \in Session
      /\ kind[r] # "direct" /\ FlowInv(r) /\ SessionInv(r)
  BY CommitState DEF IInv
<1>2. kind[r] \in Kinds
  BY DEF IInv, TypeOK
<1>3. CASE pc[r] = "fn" /\ depth[r] = 1
  BY <1>1, <1>3, BodyUnit
<1>4. CASE pc[r] = "commit"
  <2>1. kind[r] = "wrapped"
    BY <1>1, <1>2, <1>4 DEF FlowInv, Kinds
  <2>2. session[client[r]].tx = "open"
    BY <1>1, <1>4, <2>1 DEF SessionInv
  <2> QED
    BY <1>1, <1>4, <2>1, <2>2, UnitForms DEF Usable
<1> QED
  BY <1>1, <1>3, <1>4 DEF AtCommit

\* A COMMIT the server carried out.
LEMMA CommitsUnit ==
  ASSUME IInv, NEW r \in Requests, Alone(r), AtCommit(r), session[client[r]].tx = "open",
         table' = table \cup All(session[client[r]].pending), store' = store,
         ~InUnit(r)'
  PROVE  Maps(r)
<1> DEFINE s == session[client[r]]
<1>1. s \in Session /\ UnitOf(r) = OpenUnit(1, s)
  BY UnitAtCommit
<1>2. UnitOf(r)' = ClosedUnit
  BY DEF UnitOf, ClosedUnit
<1>3. Seen(table)' = Seen(table) \cup Units!All(UnitOf(r).pending)
  <2>1. Seen(table)' = Seen(table')
    BY DEF Seen
  <2>2. Seen(table \cup All(s.pending)) = Seen(table) \cup Seen(All(s.pending))
    BY SeenRows
  <2>3. Seen(All(s.pending)) = Units!All(OpenUnit(1, s).pending)
    BY <1>1, SeenAll
  <2> QED
    BY <1>1, <2>1, <2>2, <2>3
<1>4. UnitOf(r).depth = 1
  BY <1>1 DEF OpenUnit
<1> QED
  BY <1>2, <1>3, <1>4, UnitsAlone, Commits DEF Maps

LEMMA CommitMaps ==
  ASSUME IInv, Ledger, NEW r \in Requests, Alone(r), Commit(r)
  PROVE  Maps(r)
<1> DEFINE s == session[client[r]]
<1>1. /\ AtCommit(r) /\ s.tx \in {"open", "aborted"} /\ store' = store
      /\ pc'[r] = "idle"
  BY DEF Commit, Return, Goto, IInv, TypeOK
<1>2. CASE s.tx = "open"
  BY <1>1, <1>2, CommitsUnit DEF Commit, InUnit
<1>3. CASE s.tx = "aborted"
  <2>1. table' = table /\ UnitOf(r) = OpenUnit(1, s)
    BY <1>1, <1>3, UnitAtCommit DEF Commit
  <2> QED
    BY <1>1, <2>1, FirstLevel, LeavesUnit DEF InUnit
<1> QED
  BY <1>1, <1>2, <1>3

LEMMA CommitFailsMaps ==
  ASSUME IInv, Ledger, NEW r \in Requests, Alone(r), CommitFails(r)
  PROVE  Maps(r)
<1> DEFINE s == session[client[r]]
<1>1. /\ AtCommit(r) /\ store' = store /\ pc'[r] = "undo"
      /\ table' = table \/ (s.tx = "open" /\ table' = table \cup All(s.pending))
  BY DEF CommitFails, Goto, IInv, TypeOK
<1>2. UnitOf(r) = ClosedUnit \/ UnitOf(r) = OpenUnit(1, s)
  BY <1>1, UnitAtCommit
<1>3. CASE table' = table
  BY <1>1, <1>2, <1>3, FirstLevel, LeavesUnit DEF InUnit
<1>4. CASE s.tx = "open" /\ table' = table \cup All(s.pending)
  BY <1>1, <1>4, CommitsUnit DEF InUnit
<1> QED
  BY <1>1, <1>3, <1>4

LEMMA ThrowMaps ==
  ASSUME IInv, Ledger, NEW r \in Requests, Alone(r), Throw(r)
  PROVE  Maps(r)
<1>1. AtCommit(r) /\ pc'[r] = "undo" /\ UNCHANGED <<store, table>>
  BY DEF Throw, AtCommit, Goto, IInv, TypeOK
<1>2. UnitOf(r) = ClosedUnit \/ UnitOf(r) = OpenUnit(1, session[client[r]])
  BY <1>1, UnitAtCommit
<1> QED
  BY <1>1, <1>2, FirstLevel, LeavesUnit DEF InUnit

LEMMA UndoMaps ==
  ASSUME IInv, Ledger, NEW r \in Requests, Alone(r), Undo(r)
  PROVE  Maps(r)
<1>1. pc[r] = "undo" /\ pc'[r] = "idle" /\ UNCHANGED <<store, table>>
  BY DEF Undo, Return, Goto, IInv, TypeOK
<1> QED
  BY <1>1, Outside DEF InUnit

LEMMA QuietMaps ==
  ASSUME IInv, \A c \in Connections : session'[c] = session[c],
         UNCHANGED <<store, flowVars, table>>
  PROVE  UNCHANGED Units!vars
<1>1. ASSUME NEW q \in Requests PROVE UnitOf(q)' = UnitOf(q)
  <2>1. InUnit(q) => client[q] \in Connections
    BY OwnClient DEF InUnit
  <2>2. InUnit(q) => session'[client'[q]] = session[client[q]]
    BY <2>1 DEF flowVars
  <2> QED
    BY <2>2 DEF flowVars, UnitOf, InUnit
<1>2. [q \in Requests |-> UnitOf(q)]' = [q \in Requests |-> UnitOf(q)]
  BY <1>1
<1> QED
  BY <1>2 DEF Units!vars, Seen

LEMMA InitMaps == Init => Units!Init
<1> SUFFICES ASSUME Init PROVE Units!Init
  OBVIOUS
<1>1. \A r \in Requests : UnitOf(r) = ClosedUnit
  BY DEF Init, UnitOf, InUnit, ClosedUnit
<1>2. Seen(table) = {}
  BY SeenRows DEF Init
<1> QED
  BY <1>1, <1>2, ClosedUnitIsClosed DEF Init, Units!Init, Units!Contexts, Contexts

LEMMA NextMaps == IInv /\ Ledger /\ [Next]_vars => [Units!Next]_(Units!vars)
<1> SUFFICES ASSUME IInv, Ledger, [Next]_vars PROVE Units!Next \/ UNCHANGED Units!vars
  OBVIOUS
<1>1. ASSUME NEW r \in Requests, Flow(r)
      PROVE  Maps(r)
  <2>1. Alone(r)
    BY <1>1, FlowAlone
  <2>2. CASE \E ctx \in Contexts : RunWithRlsContext(r, ctx)
    BY <2>2, RunWithRlsContextMaps
  <2>3. CASE Query(r) \/ RunInTransaction(r)
    BY <2>1, <2>3, RequestMaps DEF Query, RunInTransaction
  <2>4. CASE Serve(r)
    BY <2>1, <2>4, ServeMaps
  <2>5. CASE RoundTrip(r)
    BY <2>1, <2>5, BeginMaps, ApplyRlsMaps, DirectStatementMaps, WrappedStatementMaps,
       CommitMaps, CommitFailsMaps, UndoMaps DEF RoundTrip
  <2>6. CASE Body(r)
    BY <2>1, <2>6, TxStatementMaps, EnterNestedMaps DEF Body
  <2>7. CASE LeaveBody(r)
    BY <2>1, <2>7, MergeNestedMaps, UndoNestedMaps, ThrowMaps DEF LeaveBody
  <2> QED
    BY <1>1, <2>2, <2>3, <2>4, <2>5, <2>6, <2>7 DEF Flow
<1>2. CASE OnModuleDestroy
  <2>1. \A c \in Connections : session'[c] = session[c]
    BY <1>2 DEF OnModuleDestroy, IInv, PoolClean
  <2> QED
    BY <1>2, <2>1, QuietMaps DEF OnModuleDestroy
<1>3. CASE UNCHANGED vars
  BY <1>3, QuietMaps DEF vars
<1> QED
  BY <1>1, <1>2, <1>3 DEF Next, AwaitExit, Maps

\* Pooling, wrapping, eviction and savepoints implement units of work: every
\* step of a flow is a step of its unit, or none.
THEOREM Refinement == Spec => ImplementsUnits
<1>1. Spec => []IInv /\ []Ledger
  BY Inductive, LedgerKept
<1> QED
  BY <1>1, InitMaps, NextMaps, PTL DEF Spec, ImplementsUnits, Units!Spec
=============================================================================
