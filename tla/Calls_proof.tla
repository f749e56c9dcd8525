----------------------------- MODULE Calls_proof -----------------------------
(***************************************************************************)
(* Theorems about Calls: for any number of requests and concurrent calls,  *)
(* any sessions, errors and resolved contexts.                             *)
(***************************************************************************)
EXTENDS Calls, SequenceTheorems, TLAPS

-----------------------------------------------------------------------------
(* The headers.                                                            *)

LEMMA Keys ==
  /\ {"org", "user", "site", "timezone"} \subseteq HeaderKeys
  /\ \A k \in HeaderKeys : k \in {"org", "user", "site", "le", "siteGroup", "timezone", "currency"}
BY DEF HeaderKeys

\* What a service reads of the gateway's headers is what was resolved.
LEMMA FirstHop ==
  ASSUME NEW session \in Sessions, NEW ctx, Resolved(ctx, session)
  PROVE  LET read == ParseNatsHeaders(ContextToHeaders(ctx)) IN
         /\ read \in Context \cup {Absent}
         /\ Reads(session, ctx, 1, read)
<1> DEFINE headers == ContextToHeaders(ctx)
           read == ParseNatsHeaders(headers)
<1>1. /\ ctx \in [HeaderKeys -> {session, ""}] /\ session # Absent
      /\ \A k \in HeaderKeys : headers[k] = IF k \in {"org", "user"} \/ ctx[k] # "" THEN ctx[k] ELSE Absent
  BY DEF Resolved, ContextToHeaders
<1>2. "org" \in HeaderKeys /\ "user" \in HeaderKeys
  BY Keys
<1> HIDE DEF headers
<1>3. CASE Unset(headers["org"]) \/ Unset(headers["user"])
  <2>1. read = Absent
    BY <1>3 DEF ParseNatsHeaders
  <2>2. Unset(ctx["org"]) \/ Unset(ctx["user"])
    BY <1>1, <1>2, <1>3
  <2> QED
    BY <2>1, <2>2 DEF Reads, headers
<1>4. CASE ~(Unset(headers["org"]) \/ Unset(headers["user"]))
  <2>1. read = [k \in HeaderKeys |-> IF ~Unset(headers[k]) THEN headers[k] ELSE IF k = "timezone" THEN "UTC" ELSE ""]
    BY <1>4 DEF ParseNatsHeaders
  <2>2. session # "" /\ ctx["org"] = session /\ ctx["user"] = session
    BY <1>1, <1>2, <1>4 DEF Unset
  <2> HIDE DEF read
  <2>3. \A k \in HeaderKeys : read[k] = IF ctx[k] = "" /\ k = "timezone" THEN "UTC" ELSE ctx[k]
    <3> TAKE k \in HeaderKeys
    <3>1. CASE ctx[k] = session
      BY <1>1, <2>1, <2>2, <3>1 DEF Unset
    <3>2. CASE ctx[k] = ""
      BY <1>1, <2>1, <2>2, <3>2 DEF Unset
    <3> QED
      BY <1>1, <3>1, <3>2
  <2>4. read \in Context
    BY <1>1, <2>1, <2>3 DEF Context
  <2>5. read["org"] = session /\ read["user"] = session
    BY <1>2, <2>2, <2>3
  <2>6. Reads(session, ctx, 1, read)
    BY <2>3, <2>4, <2>5, ContextAssumption DEF Reads
  <2> QED
    BY <2>4, <2>6 DEF read, headers
<1> QED
  BY <1>3, <1>4

\* Four of the headers travel on unchanged, the others are lost.
LEMMA SecondHop ==
  ASSUME NEW session \in Sessions, NEW ctx, Resolved(ctx, session),
         ParseNatsHeaders(ContextToHeaders(ctx)) # Absent
  PROVE  Reads(session, ctx, 2, ParseNatsHeaders(MicroserviceHeaders(ParseNatsHeaders(ContextToHeaders(ctx)))))
<1> DEFINE first == ParseNatsHeaders(ContextToHeaders(ctx))
           headers == MicroserviceHeaders(first)
           read == ParseNatsHeaders(headers)
<1>1. first \in Context /\ Reads(session, ctx, 1, first) /\ first # Absent
  BY FirstHop
<1> HIDE DEF first
<1>2. /\ first["org"] = session /\ first["user"] = session
      /\ \A k \in HeaderKeys : first[k] = IF ctx[k] = "" /\ k = "timezone" THEN "UTC" ELSE ctx[k]
  BY <1>1 DEF Reads
<1>3. \A k \in HeaderKeys : headers[k] = IF k \in {"org", "user", "site", "timezone"} THEN first[k] ELSE Absent
  BY DEF MicroserviceHeaders
<1>4. "org" \in HeaderKeys /\ "user" \in HeaderKeys
  BY Keys
<1> HIDE DEF headers
<1>5. headers["org"] = session /\ headers["user"] = session /\ session # Absent
  BY <1>2, <1>3, <1>4 DEF Resolved
<1>6. session # ""
  <2>1. ~Unset(ContextToHeaders(ctx)["org"])
    BY <1>1 DEF ParseNatsHeaders, first
  <2>2. ContextToHeaders(ctx)["org"] = ctx["org"] /\ ctx["org"] \in {session, ""}
    BY <1>4 DEF ContextToHeaders, Resolved
  <2> QED
    BY <2>1, <2>2 DEF Unset
<1>7. read = [k \in HeaderKeys |-> IF ~Unset(headers[k]) THEN headers[k] ELSE IF k = "timezone" THEN "UTC" ELSE ""]
  BY <1>5, <1>6 DEF ParseNatsHeaders, Unset
<1> HIDE DEF read
<1>8. read["org"] = session /\ read["user"] = session
  BY <1>4, <1>5, <1>6, <1>7 DEF Unset
<1>9. \A k \in {"org", "user", "site", "timezone"} :
        read[k] = IF ctx[k] = "" /\ k = "timezone" THEN "UTC" ELSE ctx[k]
  <2> TAKE k \in {"org", "user", "site", "timezone"}
  <2>1. k \in HeaderKeys /\ ctx[k] \in {session, ""}
    BY Keys DEF Resolved
  <2>2. headers[k] = IF ctx[k] = "" /\ k = "timezone" THEN "UTC" ELSE ctx[k]
    BY <1>2, <1>3, <2>1
  <2>3. CASE ctx[k] = session
    BY <1>5, <1>6, <1>7, <2>1, <2>2, <2>3 DEF Unset
  <2>4. CASE ctx[k] = ""
    <3>1. CASE k = "timezone"
      <4>1. headers[k] = "UTC"
        BY <2>2, <2>4, <3>1
      <4> QED
        BY <1>7, <2>1, <2>2, <2>4, <3>1, <4>1
    <3>2. CASE k # "timezone"
      BY <1>7, <2>1, <2>2, <2>4, <3>2 DEF Unset
    <3> QED
      BY <3>1, <3>2
  <2> QED
    BY <2>1, <2>3, <2>4
<1>10. \A k \in HeaderKeys \ {"org", "user", "site", "timezone"} : read[k] = ""
  BY <1>3, <1>7 DEF Unset
<1>11. read \in [HeaderKeys -> {session, "", "UTC"}]
  <2> SUFFICES ASSUME NEW k \in HeaderKeys
               PROVE  read[k] \in {session, "", "UTC"}
    BY <1>7
  <2>1. ctx[k] \in {session, ""}
    BY DEF Resolved
  <2> QED
    BY <1>9, <1>10, <2>1
<1>12. read # Absent
  BY <1>11, ContextAssumption DEF Context
<1>13. Reads(session, ctx, 2, read)
  <2> DEFINE Sent == {"org", "user", "site", "timezone"}
  <2>1. \A k \in Sent : read[k] = IF ctx[k] = "" /\ k = "timezone" THEN "UTC" ELSE ctx[k]
    BY <1>9
  <2>2. \A k \in HeaderKeys \ Sent : read[k] = ""
    BY <1>10
  <2>3. Reads(session, ctx, 2, read) <=>
          /\ read["org"] = session /\ read["user"] = session
          /\ \A k \in Sent : read[k] = IF ctx[k] = "" /\ k = "timezone" THEN "UTC" ELSE ctx[k]
          /\ \A k \in HeaderKeys \ Sent : read[k] = ""
    <3>1. (2 = 1) = FALSE
      OBVIOUS
    <3> QED
      BY <1>12, <3>1 DEF Reads
  <2> QED
    BY <1>8, <2>1, <2>2, <2>3
<1> QED
  BY <1>13 DEF read, headers, first

-----------------------------------------------------------------------------
(* Steps of one call.                                                      *)

\* CallInv and ContextOfSession of a call c, of a request q.
Carries(q, c) ==
  LET read == ParseNatsHeaders(ContextToHeaders(c.ctx)) IN
  /\ q.phase = "new" => c.phase = "idle"
  /\ c.phase \in {"idle", "resolving"} => c.seen = <<>>
  /\ c.phase = "resolving" => q.session # Absent
  /\ c.phase = "sent" =>
       /\ Resolved(c.ctx, q.session)
       /\ \/ c.at = "A" /\ c.headers = ContextToHeaders(c.ctx) /\ c.seen = <<>>
          \/ c.at = "B" /\ c.headers = MicroserviceHeaders(read) /\ c.seen = <<read>> /\ read # Absent
  /\ \A d \in DOMAIN c.seen : Reads(q.session, c.ctx, d, c.seen[d])
Typed(c) == DOMAIN c = DOMAIN IdleCall /\ c.phase \in CallPhases /\ c.at \in {"gateway", "A", "B"}

LEMMA AllCarry ==
  (\A r \in Requests, i \in CallIds : CallInv(r, i)) /\ ContextOfSession
    <=> \A r \in Requests, i \in CallIds : Carries(request[r], call[r][i])
BY DEF CallInv, ContextOfSession, Carries

LEMMA Known ==
  ASSUME IInv, NEW r \in Requests, NEW i \in CallIds
  PROVE  /\ Typed(call[r][i]) /\ Carries(request[r], call[r][i])
         /\ request[r].session \in Sessions \cup {Absent}
         /\ cached[r] # Absent => request[r].phase # "new" /\ Resolved(cached[r], request[r].session)
BY AllCarry DEF IInv, TypeOK, Typed

\* One call moves; its request may have got a context for its instance.
LEMMA OneMoves ==
  ASSUME IInv, NEW r \in Requests, NEW i \in CallIds, NEW c, Typed(c), Carries(request[r], c),
         call' = [call EXCEPT ![r][i] = c], UNCHANGED <<scenario, request>>,
         \/ UNCHANGED cached
         \/ \E ctx \in Context : /\ Resolved(ctx, request[r].session) /\ request[r].phase # "new"
                                 /\ cached' = [cached EXCEPT ![r] = ctx]
  PROVE  IInv'
<1>1. \A q \in Requests, j \in CallIds : call'[q][j] = IF q = r /\ j = i THEN c ELSE call[q][j]
  BY DEF IInv, TypeOK
<1>2. DOMAIN call' = Requests /\ \A q \in Requests : DOMAIN call'[q] = CallIds
  BY DEF IInv, TypeOK
<1>3. cached' \in [Requests -> Context \cup {Absent}]
  BY DEF IInv, TypeOK
<1>4. TypeOK'
  <2>1. \A q \in Requests, j \in CallIds : Typed(call'[q][j])
    BY <1>1, Known
  <2> QED
    BY <1>2, <1>3, <2>1 DEF IInv, TypeOK, Typed
<1>5. \A q \in Requests : cached'[q] # Absent => request'[q].phase # "new" /\ Resolved(cached'[q], request'[q].session)
  BY DEF IInv, TypeOK
<1>6. \A q \in Requests, j \in CallIds : Carries(request'[q], call'[q][j])
  BY <1>1, Known
<1>7. (\A q \in Requests, j \in CallIds : CallInv(q, j))' /\ ContextOfSession'
  BY <1>6 DEF CallInv, ContextOfSession, Carries
<1> QED
  BY <1>4, <1>5, <1>7 DEF IInv

\* A call that fails before anything was sent.
LEMMA Fails ==
  ASSUME IInv, NEW r \in Requests, NEW i \in CallIds, NEW error, FailedCall(r, i, error),
         call[r][i].phase \in {"idle", "resolving"}, request[r].phase # "new", UNCHANGED <<scenario, request, cached>>
  PROVE  IInv'
<1> DEFINE c == [call[r][i] EXCEPT !.phase = "failed", !.error = error, !.thrown = error, !.depth = 0]
<1>1. Typed(call[r][i]) /\ call[r][i].seen = <<>>
  BY Known DEF Carries
<1>2. Typed(c) /\ c.phase = "failed" /\ c.seen = <<>>
  BY <1>1 DEF Typed, IdleCall, CallPhases
<1>3. call' = [call EXCEPT ![r][i] = c]
  BY DEF FailedCall, IInv, TypeOK
<1> HIDE DEF c
<1>4. Carries(request[r], c)
  BY <1>2 DEF Carries
<1> QED
  BY <1>2, <1>3, <1>4, OneMoves

\* A call that is sent, with a context resolved for its session.
LEMMA SentOn ==
  ASSUME IInv, NEW r \in Requests, NEW i \in CallIds, NEW ctx, SentCall(r, i, ctx), Resolved(ctx, request[r].session),
         call[r][i].phase \in {"idle", "resolving"}, request[r].phase # "new", UNCHANGED <<scenario, request>>,
         UNCHANGED cached \/ (ctx \in Context /\ cached' = [cached EXCEPT ![r] = ctx])
  PROVE  IInv'
<1> DEFINE c == [call[r][i] EXCEPT !.phase = "sent", !.ctx = ctx, !.headers = ContextToHeaders(ctx), !.at = "A"]
<1>1. Typed(call[r][i]) /\ call[r][i].seen = <<>>
  BY Known DEF Carries
<1>2. Typed(c) /\ c.phase = "sent" /\ c.seen = <<>> /\ c.ctx = ctx /\ c.at = "A" /\ c.headers = ContextToHeaders(ctx)
  BY <1>1 DEF Typed, IdleCall, CallPhases
<1>3. call' = [call EXCEPT ![r][i] = c]
  BY DEF SentCall, IInv, TypeOK
<1> HIDE DEF c
<1>4. Carries(request[r], c)
  BY <1>2 DEF Carries
<1> QED
  BY <1>2, <1>3, <1>4, OneMoves

-----------------------------------------------------------------------------
(* The actions.                                                            *)

\* What NatsClientService has cached for a request was resolved for its session.
LEMMA Sends ==
  ASSUME IInv, NEW r \in Requests, NEW i \in CallIds, Send(r, i)
  PROVE  IInv'
<1>1. call[r][i].phase = "idle" /\ request[r].phase = "handling" /\ request[r].phase # "new"
        /\ UNCHANGED <<scenario, request, cached>>
  BY DEF Send
<1>2. CASE FailedCall(r, i, AnError)
  BY <1>1, <1>2, Fails
<1>3. CASE cached[r] # Absent /\ SentCall(r, i, cached[r])
  <2>1. Resolved(cached[r], request[r].session)
    BY <1>3, Known
  <2> QED
    BY <1>1, <1>3, <2>1, SentOn
<1>4. CASE request[r].session # Absent /\ call' = [call EXCEPT ![r][i].phase = "resolving"]
  <2> DEFINE c == [call[r][i] EXCEPT !.phase = "resolving"]
  <2>1. Typed(call[r][i]) /\ call[r][i].seen = <<>>
    BY <1>1, Known DEF Carries
  <2>2. Typed(c) /\ c.phase = "resolving" /\ c.seen = <<>>
    BY <2>1 DEF Typed, IdleCall, CallPhases
  <2>3. call' = [call EXCEPT ![r][i] = c]
    BY <1>4 DEF IInv, TypeOK
  <2> HIDE DEF c
  <2>4. Carries(request[r], c)
    BY <1>1, <1>4, <2>2 DEF Carries
  <2> QED
    BY <1>1, <2>2, <2>3, <2>4, OneMoves
<1> QED
  BY <1>2, <1>3, <1>4 DEF Send, InstanceOf

LEMMA Resolves ==
  ASSUME IInv, NEW r \in Requests, NEW i \in CallIds, Resolve(r, i)
  PROVE  IInv'
<1>1. call[r][i].phase = "resolving" /\ UNCHANGED <<scenario, request>>
  BY DEF Resolve
<1>2. request[r].phase # "new" /\ request[r].session # Absent /\ request[r].session \in Sessions
  BY <1>1, Known DEF Carries
<1>3. CASE FailedCall(r, i, AnError) /\ UNCHANGED cached
  BY <1>1, <1>2, <1>3, Fails
<1>4. ASSUME NEW ctx \in ContextsOf(request[r].session), cached' = [cached EXCEPT ![r] = ctx], SentCall(r, i, ctx)
      PROVE  IInv'
  <2>1. Resolved(ctx, request[r].session) /\ ctx \in Context
    BY <1>2 DEF ContextsOf, Resolved, Context
  <2> QED
    BY <1>1, <1>2, <1>4, <2>1, SentOn
<1> QED
  BY <1>3, <1>4 DEF Resolve, InstanceOf

\* A service that answers has read the context of its request.
LEMMA Answers ==
  ASSUME IInv, NEW r \in Requests, NEW i \in CallIds, call[r][i].phase = "sent", NEW c, Typed(c),
         c.phase \in {"returned", "failed", "done"}, c.ctx = call[r][i].ctx,
         c.seen = Append(call[r][i].seen, ParseNatsHeaders(call[r][i].headers)),
         call' = [call EXCEPT ![r][i] = c], UNCHANGED <<scenario, request, cached>>
  PROVE  IInv'
<1> DEFINE old == call[r][i]
           session == request[r].session
           read == ParseNatsHeaders(ContextToHeaders(old.ctx))
<1>1. Resolved(old.ctx, session) /\ session \in Sessions /\ request[r].phase # "new"
  BY Known DEF Carries, Resolved
<1>2. Reads(session, old.ctx, 1, read)
  BY <1>1, FirstHop
<1>3. CASE old.at = "A" /\ old.headers = ContextToHeaders(old.ctx) /\ old.seen = <<>>
  <2>1. c.seen = <<read>>
    BY <1>3
  <2>2. \A d \in DOMAIN c.seen : d = 1 /\ c.seen[d] = read
    BY <2>1
  <2> QED
    BY <1>1, <1>2, <2>2, OneMoves DEF Carries
<1>4. CASE old.at = "B" /\ old.headers = MicroserviceHeaders(read) /\ old.seen = <<read>> /\ read # Absent
  <2> DEFINE second == ParseNatsHeaders(MicroserviceHeaders(read))
  <2>1. Len(c.seen) = 2 /\ DOMAIN c.seen = 1..2 /\ c.seen[1] = read /\ c.seen[2] = second
    <3> HIDE DEF read, second
    <3>1. <<read>> \in Seq({read, second}) /\ Len(<<read>>) = 1 /\ <<read>>[1] = read
      OBVIOUS
    <3>2. c.seen = Append(<<read>>, second)
      BY <1>4 DEF second
    <3>3. /\ c.seen \in Seq({read, second}) /\ Len(c.seen) = 2
          /\ c.seen[1] = read /\ c.seen[2] = second
      BY <3>1, <3>2, AppendProperties
    <3> QED
      BY <3>3
  <2>2. Reads(session, old.ctx, 2, ParseNatsHeaders(MicroserviceHeaders(read)))
    BY <1>1, <1>4, SecondHop
  <2>3. \A d \in DOMAIN c.seen : \/ d = 1 /\ c.seen[d] = read
                                 \/ d = 2 /\ c.seen[d] = second
    BY <2>1
  <2> QED
    BY <1>1, <1>2, <2>2, <2>3, OneMoves DEF Carries
<1> QED
  BY <1>3, <1>4, Known DEF Carries

LEMMA Throws ==
  ASSUME IInv, NEW r \in Requests, NEW i \in CallIds, NEW e, RpcThrow(r, i, e), call[r][i].phase = "sent",
         UNCHANGED <<scenario, request, cached>>
  PROVE  IInv'
<1> DEFINE error == RpcProblemExceptionFilter(e)
           depth == Depth(call[r][i].at)
           c == [Answered(call[r][i], "failed") EXCEPT !.error = error, !.thrown = e, !.depth = depth]
<1>1. Typed(call[r][i])
  BY Known
<1>2. call' = [call EXCEPT ![r][i] = c]
  BY DEF RpcThrow, IInv, TypeOK
<1> HIDE DEF error, depth
<1>3. Typed(c) /\ c.phase \in {"returned", "failed"} /\ c.ctx = call[r][i].ctx
        /\ c.seen = Append(call[r][i].seen, ParseNatsHeaders(call[r][i].headers))
  BY <1>1 DEF Typed, IdleCall, CallPhases, Answered
<1> HIDE DEF c
<1> QED
  BY <1>2, <1>3, Answers

LEMMA Handles ==
  ASSUME IInv, NEW r \in Requests, NEW i \in CallIds, Handle(r, i)
  PROVE  IInv'
<1>1. call[r][i].phase = "sent" /\ UNCHANGED <<scenario, request, cached>>
  BY DEF Handle
<1>2. CASE RpcReturn(r, i)
  <2> DEFINE c == Answered(call[r][i], "done")
  <2>1. Typed(call[r][i])
    BY Known
  <2>2. call' = [call EXCEPT ![r][i] = c]
    BY <1>2 DEF RpcReturn, IInv, TypeOK
  <2>3. Typed(c) /\ c.phase \in {"returned", "done"} /\ c.ctx = call[r][i].ctx
          /\ c.seen = Append(call[r][i].seen, ParseNatsHeaders(call[r][i].headers))
    BY <2>1 DEF Typed, IdleCall, CallPhases, Answered
  <2> HIDE DEF c
  <2> QED
    BY <1>1, <2>2, <2>3, Answers
<1>3. ASSUME NEW e, RpcThrow(r, i, e)
      PROVE  IInv'
  BY <1>1, <1>3, Throws
<1> QED
  BY <1>2, <1>3 DEF Handle

LEMMA Forwards ==
  ASSUME IInv, NEW r \in Requests, NEW i \in CallIds, Forward(r, i)
  PROVE  IInv'
<1> DEFINE old == call[r][i]
           ctx == ParseNatsHeaders(old.headers)
<1>1. old.phase = "sent" /\ old.at = "A" /\ UNCHANGED <<scenario, request, cached>>
  BY DEF Forward
<1>2. CASE RpcThrow(r, i, AnError)
  BY <1>1, <1>2, Throws
<1>3. CASE /\ ctx # Absent
           /\ call' = [call EXCEPT ![r][i] = [@ EXCEPT !.headers = MicroserviceHeaders(ctx), !.at = "B",
                                                       !.seen = Append(old.seen, ctx)]]
  <2> DEFINE headers == MicroserviceHeaders(ctx)
             seen == Append(old.seen, ctx)
             c == [old EXCEPT !.headers = headers, !.at = "B", !.seen = seen]
  <2>1. Typed(old) /\ Resolved(old.ctx, request[r].session) /\ request[r].session \in Sessions
          /\ old.headers = ContextToHeaders(old.ctx) /\ old.seen = <<>> /\ request[r].phase # "new"
    BY <1>1, Known DEF Carries, Resolved
  <2>2. call' = [call EXCEPT ![r][i] = c]
    BY <1>3 DEF IInv, TypeOK
  <2>3. seen = <<ctx>> /\ Reads(request[r].session, old.ctx, 1, ctx)
    BY <2>1, FirstHop
  <2> HIDE DEF seen, headers
  <2>4. Typed(c) /\ c.phase = "sent" /\ c.at = "B" /\ c.ctx = old.ctx /\ c.headers = headers /\ c.seen = <<ctx>>
    BY <1>1, <2>1, <2>3 DEF Typed, IdleCall
  <2> HIDE DEF c
  <2>5. \A d \in DOMAIN c.seen : d = 1 /\ c.seen[d] = ctx
    BY <2>4
  <2>6. Carries(request[r], c)
    BY <1>3, <2>1, <2>3, <2>4, <2>5 DEF Carries, headers
  <2> QED
    BY <1>1, <2>2, <2>4, <2>6, OneMoves
<1> QED
  BY <1>2, <1>3 DEF Forward

LEMMA Backwards ==
  ASSUME IInv, NEW r \in Requests, NEW i \in CallIds, Backward(r, i)
  PROVE  IInv'
<1> DEFINE old == call[r][i]
<1>1. old.phase = "returned" /\ UNCHANGED <<scenario, request, cached>>
  BY DEF Backward
<1>2. Typed(old) /\ Carries(request[r], old)
  BY Known
<1>3. ASSUME NEW c, Typed(c), c.phase \in {"done", "failed"}, c.ctx = old.ctx, c.seen = old.seen,
             call' = [call EXCEPT ![r][i] = c]
      PROVE  IInv'
  <2>1. Carries(request[r], c)
    BY <1>1, <1>2, <1>3 DEF Carries
  <2> QED
    BY <1>1, <1>3, <2>1, OneMoves
<1>4. CASE call' = [call EXCEPT ![r][i] = [@ EXCEPT !.phase = "done", !.at = "gateway", !.error = NoError,
                                                    !.thrown = NoError, !.depth = 0]]
  <2> DEFINE c == [old EXCEPT !.phase = "done", !.at = "gateway", !.error = NoError, !.thrown = NoError, !.depth = 0]
  <2>1. call' = [call EXCEPT ![r][i] = c]
    BY <1>4 DEF IInv, TypeOK
  <2>2. Typed(c) /\ c.phase = "done" /\ c.ctx = old.ctx /\ c.seen = old.seen
    BY <1>2 DEF Typed, IdleCall, CallPhases
  <2> HIDE DEF c
  <2> QED
    BY <1>3, <2>1, <2>2
<1>5. CASE call' = [call EXCEPT ![r][i] = [@ EXCEPT !.phase = "failed", !.at = "gateway",
                                                    !.error = RpcProblemExceptionFilter(old.error)]]
  <2> DEFINE error == RpcProblemExceptionFilter(old.error)
             c == [old EXCEPT !.phase = "failed", !.at = "gateway", !.error = error]
  <2>1. call' = [call EXCEPT ![r][i] = c]
    BY <1>5 DEF IInv, TypeOK
  <2> HIDE DEF error
  <2>2. Typed(c) /\ c.phase = "failed" /\ c.ctx = old.ctx /\ c.seen = old.seen
    BY <1>2 DEF Typed, IdleCall, CallPhases
  <2> HIDE DEF c
  <2> QED
    BY <1>3, <2>1, <2>2
<1> QED
  BY <1>4, <1>5 DEF Backward

-----------------------------------------------------------------------------
(* The gateway.                                                            *)

\* A request moves: it arrives with its session, or keeps the one it has.
LEMMA RequestMoves ==
  ASSUME IInv, NEW r \in Requests, NEW q, DOMAIN q = DOMAIN NewRequest, q.phase \in {"handling", "answered"},
         q.session \in Sessions \cup {Absent},
         request[r].phase # "new" => q.session = request[r].session,
         request' = [request EXCEPT ![r] = q], UNCHANGED <<scenario, cached, call>>
  PROVE  IInv'
<1>1. \A s \in Requests : request'[s] = IF s = r THEN q ELSE request[s]
  BY DEF IInv, TypeOK
<1>2. TypeOK'
  <2>1. DOMAIN request' = Requests
    BY DEF IInv, TypeOK
  <2>2. \A s \in Requests : /\ DOMAIN request'[s] = DOMAIN NewRequest
                            /\ request'[s].phase \in {"new", "handling", "answered"}
                            /\ request'[s].session \in Sessions \cup {Absent}
    BY <1>1 DEF IInv, TypeOK
  <2> QED
    BY <2>1, <2>2 DEF IInv, TypeOK
<1>3. \A s \in Requests : cached'[s] # Absent => request'[s].phase # "new" /\ Resolved(cached'[s], request'[s].session)
  BY <1>1 DEF IInv
<1>4. \A s \in Requests, j \in CallIds : Carries(request'[s], call'[s][j])
  <2> TAKE s \in Requests, j \in CallIds
  <2>1. Carries(request[s], call[s][j])
    BY Known
  <2>2. CASE s = r /\ request[r].phase = "new"
    <3>1. call[s][j].phase = "idle" /\ call[s][j].seen = <<>>
      BY <2>1, <2>2 DEF Carries
    <3> QED
      BY <3>1 DEF Carries
  <2>3. CASE s = r /\ request[r].phase # "new"
    <3>1. request'[s].session = request[s].session /\ request'[s].phase # "new"
      BY <1>1, <2>3
    <3> QED
      BY <2>1, <2>3, <3>1 DEF Carries
  <2>4. CASE s # r
    BY <1>1, <2>1, <2>4
  <2> QED
    BY <2>2, <2>3, <2>4
<1>5. (\A s \in Requests, j \in CallIds : CallInv(s, j))' /\ ContextOfSession'
  BY <1>4 DEF CallInv, ContextOfSession, Carries
<1> QED
  BY <1>2, <1>3, <1>5 DEF IInv

LEMMA Arrives ==
  ASSUME IInv, NEW r \in Requests, Arrive(r)
  PROVE  IInv'
<1>1. PICK t \in scenario.transports, s \in Sessions \cup {Absent} :
        LET q == [request[r] EXCEPT !.phase = "handling", !.transport = t, !.session = s, !.correlation = Correlated(r)]
        IN request' = [request EXCEPT ![r] = [q EXCEPT !.log = Logged(q, "http_request", Absent)]]
  BY DEF Arrive
<1> DEFINE correlation == Correlated(r)
           q == [request[r] EXCEPT !.phase = "handling", !.transport = t, !.session = s, !.correlation = correlation]
           log == Logged(q, "http_request", Absent)
           new == [q EXCEPT !.log = log]
<1>2. DOMAIN request[r] = DOMAIN NewRequest /\ request[r].phase = "new" /\ UNCHANGED <<scenario, cached, call>>
  BY DEF IInv, TypeOK, Arrive
<1>3. request' = [request EXCEPT ![r] = new]
  BY <1>1
<1> HIDE DEF correlation, log
<1>4. DOMAIN q = DOMAIN NewRequest /\ q.phase = "handling" /\ q.session = s
  BY <1>2 DEF NewRequest
<1> HIDE DEF q
<1>5. DOMAIN new = DOMAIN NewRequest /\ new.phase = "handling" /\ new.session = s
  BY <1>4 DEF NewRequest
<1> HIDE DEF new
<1> QED
  BY <1>2, <1>3, <1>5, RequestMoves

LEMMA AnswersClient ==
  ASSUME IInv, NEW r \in Requests, Throw(r) \/ Answer(r)
  PROVE  IInv'
<1>1. DOMAIN request[r] = DOMAIN NewRequest /\ request[r].phase = "handling" /\ request[r].session \in Sessions \cup {Absent}
        /\ UNCHANGED <<scenario, cached, call>> /\ DOMAIN request = Requests
  BY DEF IInv, TypeOK, Throw, Answer
<1>2. ASSUME NEW e, NEW thrown, NEW depth, request' = [request EXCEPT ![r] = Failed(@, e, thrown, depth)]
      PROVE  IInv'
  <2> DEFINE log == Logged(request[r], "http_error", LoggedStatus(e))
             answer == Filtered(request[r], e)
             q == [request[r] EXCEPT !.phase = "answered", !.log = log, !.thrown = thrown, !.depth = depth,
                                     !.caught = e, !.answer = answer]
  <2>1. request' = [request EXCEPT ![r] = q]
    BY <1>1, <1>2 DEF Failed
  <2> HIDE DEF log, answer
  <2>2. DOMAIN q = DOMAIN NewRequest /\ q.phase = "answered" /\ q.session = request[r].session
    BY <1>1 DEF NewRequest
  <2> HIDE DEF q
  <2> QED
    BY <1>1, <2>1, <2>2, RequestMoves
<1>3. CASE Throw(r)
  <2>1. CASE \E e \in scenario.errors : request' = [request EXCEPT ![r] = Failed(@, e, e, 0)]
    BY <1>2, <2>1
  <2>2. CASE \E i \in CallIds : /\ call[r][i].phase = "failed"
                                /\ LET c == call[r][i] IN
                                   request' = [request EXCEPT ![r] = Failed(@, c.error, c.thrown, c.depth)]
    BY <1>2, <2>2
  <2> QED
    BY <1>3, <2>1, <2>2 DEF Throw
<1>4. CASE Answer(r)
  <2> DEFINE log == Logged(request[r], "http_response", 200)
             q == [request[r] EXCEPT !.phase = "answered", !.log = log]
  <2>1. request' = [request EXCEPT ![r] = q]
    BY <1>1, <1>4 DEF Answer
  <2> HIDE DEF log
  <2>2. DOMAIN q = DOMAIN NewRequest /\ q.phase = "answered" /\ q.session = request[r].session
    BY <1>1 DEF NewRequest
  <2> HIDE DEF q
  <2> QED
    BY <1>1, <2>1, <2>2, RequestMoves
<1> QED
  BY <1>3, <1>4

-----------------------------------------------------------------------------
(* The theorems.                                                           *)

LEMMA Start ==
  ASSUME Init
  PROVE  IInv
<1>1. \A r \in Requests : request[r] = NewRequest /\ cached[r] = Absent /\ \A i \in CallIds : call[r][i] = IdleCall
  BY DEF Init
<1>2. TypeOK
  <2>1. NewRequest.phase = "new" /\ NewRequest.session = Absent
          /\ IdleCall.phase \in CallPhases /\ IdleCall.at = "gateway"
    BY DEF NewRequest, IdleCall, CallPhases
  <2> QED
    BY <1>1, <2>1 DEF Init, TypeOK
<1>3. IdleCall.phase = "idle" /\ IdleCall.seen = <<>>
  BY DEF IdleCall
<1>4. \A r \in Requests, i \in CallIds : Carries(request[r], call[r][i])
  BY <1>1, <1>3 DEF Carries
<1> QED
  BY <1>1, <1>2, <1>4, AllCarry DEF IInv

\* The invariant the context rests on.
THEOREM Inductive == Spec => []IInv
<1>1. Init => IInv
  BY Start
<1>2. ASSUME IInv, [Next]_vars
      PROVE  IInv'
  <2>1. ASSUME NEW r \in Requests, Arrive(r) \/ Throw(r) \/ Answer(r)
        PROVE  IInv'
    BY <1>2, <2>1, Arrives, AnswersClient
  <2>2. ASSUME NEW r \in Requests, NEW i \in CallIds,
               Send(r, i) \/ Resolve(r, i) \/ Handle(r, i) \/ Forward(r, i) \/ Backward(r, i)
        PROVE  IInv'
    BY <1>2, <2>2, Sends, Resolves, Handles, Forwards, Backwards
  <2>3. CASE UNCHANGED vars
    <3>1. TypeOK' /\ (\A r \in Requests : cached[r] # Absent => request[r].phase # "new"
                                                                  /\ Resolved(cached[r], request[r].session))'
      BY <1>2, <2>3 DEF vars, IInv, TypeOK, Resolved
    <3>2. \A r \in Requests, i \in CallIds : Carries(request'[r], call'[r][i])
      BY <1>2, <2>3, Known DEF vars
    <3>3. (\A r \in Requests, i \in CallIds : CallInv(r, i))' /\ ContextOfSession'
      BY <3>2 DEF CallInv, ContextOfSession, Carries
    <3> QED
      BY <3>1, <3>3 DEF IInv
  <2> QED
    BY <1>2, <2>1, <2>2, <2>3 DEF Next
<1> QED
  BY <1>1, <1>2, PTL DEF Spec

\* No service ever reads the context of another session than the one that the
\* request at the root of its call came with, at either hop.
THEOREM ContextKept == Spec => []ContextOfSession
<1>1. IInv => ContextOfSession
  BY DEF IInv
<1> QED
  BY <1>1, Inductive, PTL

-----------------------------------------------------------------------------
(* The filters.                                                            *)

\* A payload is translated no further.
LEMMA PlainPayload ==
  ASSUME NEW p, IsPayload(p)
  PROVE  IsThrowable(p) /\ FindPgError(p) = "none" /\ TryTranslatePgError(p) = p /\ ~IsUniqueViolation(p)
<1>1. p.causes = <<"none">> /\ DOMAIN p.causes = {1}
  BY DEF IsPayload
<1>2. IsThrowable(p)
  BY <1>1 DEF IsPayload, IsThrowable
<1>3. FindPgError(p) = "none"
  BY <1>1 DEF FindPgError
<1> QED
  BY <1>2, <1>3 DEF TryTranslatePgError, IsUniqueViolation

\* toProblemPayload: the body of the problem it makes.
LEMMA PayloadMade ==
  ASSUME NEW body, NEW status \in Int
  PROVE  LET p == ToProblemPayload(body, status) IN
         /\ IsPayload(p) /\ p.class = "object" /\ p.status = status /\ p.body.shape = "problem"
         /\ p.body.label = IF body.shape = "problem" THEN body.label ELSE Absent
         /\ p.body.fields = IF body.shape = "problem" THEN body.fields ELSE {}
         /\ body.shape = "problem" => p.body.detail = Or(body.detail, "generic")
         /\ body.shape \in {"text", "standard"} => p.body.detail = "told"
<1> DEFINE label == IF body.shape = "problem" THEN body.label ELSE Absent
           detail == CASE body.shape = "problem" -> Or(body.detail, "generic")
                       [] body.shape = "other" -> "generic"
                       [] OTHER -> "told"
           fields == IF body.shape = "problem" THEN body.fields ELSE {}
           p == ErrorOf("object", status, status, Problem(label, detail, fields))
<1>1. ToProblemPayload(body, status) = p
  BY DEF ToProblemPayload
<1>2. /\ body.shape = "problem" => detail = Or(body.detail, "generic")
      /\ body.shape \in {"text", "standard"} => detail = "told"
  OBVIOUS
<1> HIDE DEF label, detail, fields
<1>3. /\ p.class = "object" /\ p.status = status /\ p.statusCode = status /\ p.causes = <<"none">>
      /\ p.body.shape = "problem" /\ p.body.label = label /\ p.body.detail = detail /\ p.body.fields = fields
  BY DEF ErrorOf, Problem
<1> HIDE DEF p
<1>4. IsPayload(p)
  BY <1>3 DEF IsPayload, HasStatuses
<1> QED
  BY <1>1, <1>2, <1>3, <1>4 DEF label, fields

LEMMA HttpProblemMade ==
  ASSUME NEW status, NEW label, NEW detail, NEW fields
  PROVE  LET e == HttpProblem(status, label, detail, fields) IN
         /\ e.class = "HttpException" /\ e.status = status /\ e.body = Problem(label, detail, fields)
         /\ e.body.shape = "problem" /\ e.body.label = label /\ e.body.detail = detail /\ e.body.fields = fields
BY DEF HttpProblem, ErrorOf, Problem

\* What RpcProblemExceptionFilter puts on the wire is a plain value.
LEMMA FilteredIsPayload ==
  ASSUME NEW e, IsThrowable(e)
  PROVE  IsPayload(RpcProblemExceptionFilter(e))
<1>1. CASE IsUniqueViolation(e)
  <2> DEFINE h == HttpProblem(409, "told", "told", {})
  <2>1. TryTranslatePgError(e) = h
    BY <1>1 DEF TryTranslatePgError
  <2>2. h.class = "HttpException" /\ h.status = 409
    BY HttpProblemMade
  <2> HIDE DEF h
  <2>3. RpcProblemExceptionFilter(e) = ToProblemPayload(h.body, 409)
    BY <2>1, <2>2 DEF RpcProblemExceptionFilter
  <2> QED
    BY <2>3, PayloadMade
<1>2. CASE ~IsUniqueViolation(e)
  <2>1. TryTranslatePgError(e) = e
    BY <1>2 DEF TryTranslatePgError
  <2>2. CASE e.class = "RpcException"
    BY <2>1, <2>2 DEF RpcProblemExceptionFilter, IsThrowable
  <2>3. CASE e.class = "HttpException"
    <3>1. e.status \in Int
      BY <2>3 DEF IsThrowable, HasStatuses
    <3>2. RpcProblemExceptionFilter(e) = ToProblemPayload(e.body, e.status)
      BY <2>1, <2>3 DEF RpcProblemExceptionFilter
    <3> QED
      BY <3>1, <3>2, PayloadMade
  <2>4. CASE e.class \in {"Error", "AxiosError"}
    <3>1. RpcProblemExceptionFilter(e) = ToProblemPayload(Problem(Absent, "told", {}), 500)
      BY <2>1, <2>4 DEF RpcProblemExceptionFilter
    <3> QED
      BY <3>1, PayloadMade
  <2>5. CASE e.class \notin {"RpcException", "HttpException", "Error", "AxiosError"}
    <3>1. RpcProblemExceptionFilter(e) = ToProblemPayload(NoBody, 500)
      BY <2>1, <2>5 DEF RpcProblemExceptionFilter
    <3> QED
      BY <3>1, PayloadMade
  <2> QED
    BY <2>2, <2>3, <2>4, <2>5
<1> QED
  BY <1>1, <1>2

LEMMA Absents ==
  /\ \A n \in Int : n # Absent
  /\ Absent # "told" /\ Absent # "none" /\ Absent # "fallback" /\ Absent # "generic"
BY AbsentAssumption

\* A unique violation under five wrappers at most, with no code above it, is found.
LEMMA LeastCoded ==
  ASSUME NEW e, DOMAIN e.causes \subseteq Nat \ {0},
         NEW i \in DOMAIN e.causes, i \in 1..6, e.causes[i] = "unique", \A j \in 1..(i - 1) : e.causes[j] = "none"
  PROVE  IsUniqueViolation(e)
<1> DEFINE coded == {k \in DOMAIN e.causes : k <= 6 /\ e.causes[k] # "none"}
           least(k) == \A j \in coded : k <= j
<1>1. i \in coded
  OBVIOUS
<1>2. \A j \in coded : i <= j
  <2> SUFFICES ASSUME NEW j \in coded, ~(i <= j) PROVE FALSE
    OBVIOUS
  <2>1. j \in Nat \ {0} /\ i \in Int
    OBVIOUS
  <2>2. j \in 1..(i - 1)
    BY <2>1
  <2> QED
    BY <2>2
<1>3. coded \subseteq Int
  OBVIOUS
<1> DEFINE m == CHOOSE k \in coded : \A j \in coded : k <= j
<1>4. m \in coded /\ \A j \in coded : m <= j
  <2> HIDE DEF coded
  <2> QED
    BY <1>1, <1>2
<1>5. FindPgError(e) = e.causes[m]
  BY <1>1 DEF FindPgError
<1> HIDE DEF m
<1>6. m = i
  <2> HIDE DEF coded
  <2>1. m <= i /\ i <= m
    BY <1>1, <1>2, <1>4
  <2>2. m \in Int /\ i \in Int
    BY <1>1, <1>3, <1>4
  <2> QED
    BY <2>1, <2>2
<1> QED
  BY <1>5, <1>6 DEF IsUniqueViolation

\* What HttpExceptionFilter answers to an object with a problem's body.
LEMMA HttpOfProblem ==
  ASSUME NEW p, IsPayload(p), p.class = "object", p.status \in 400..599, p.body.shape = "problem"
  PROVE  HttpExceptionFilter(p) = HttpAnswer(p.status, Extracted(p.body.label, Or(p.body.detail, "fallback"), p.body.fields))
<1>1. TryTranslatePgError(p) = p
  BY PlainPayload
<1>2. p.status # Absent /\ StatusOf(p) = p.status
  BY Absents DEF StatusOf, Or
<1>3. HttpStatusOf(p) = p.status /\ IsProblemLikeObject(p)
  BY <1>2 DEF HttpStatusOf, IsProblemLikeObject
<1> QED
  BY <1>1, <1>3 DEF HttpExceptionFilter

LEMMA HttpOfException ==
  ASSUME NEW e, e.class = "HttpException", TryTranslatePgError(e) = e
  PROVE  LET problem == ExtractProblemFromResponse(e.body, "fallback") IN
         HttpExceptionFilter(e) = HttpAnswer(e.status, Extracted(problem.label, Or(problem.detail, "generic"), problem.fields))
BY DEF HttpExceptionFilter

\* An HTTP exception of a told text or problem: the payload of it is answered as it is.
LEMMA ExceptionPorts ==
  ASSUME NEW e, e.class = "HttpException", TryTranslatePgError(e) = e, e.status \in 400..599,
         e.body.shape \in {"text", "standard", "problem"}, e.body.detail # Absent
  PROVE  HttpExceptionFilter(ToProblemPayload(e.body, e.status)) = HttpExceptionFilter(e)
<1> DEFINE p == ToProblemPayload(e.body, e.status)
           problem == ExtractProblemFromResponse(e.body, "fallback")
<1>1. /\ IsPayload(p) /\ p.class = "object" /\ p.status = e.status /\ p.body.shape = "problem"
      /\ p.body.label = IF e.body.shape = "problem" THEN e.body.label ELSE Absent
      /\ p.body.fields = IF e.body.shape = "problem" THEN e.body.fields ELSE {}
      /\ e.body.shape = "problem" => p.body.detail = Or(e.body.detail, "generic")
      /\ e.body.shape \in {"text", "standard"} => p.body.detail = "told"
  <2>1. e.status \in Int
    OBVIOUS
  <2> QED
    BY <2>1, PayloadMade
<1>2. HttpExceptionFilter(e) = HttpAnswer(e.status, Extracted(problem.label, Or(problem.detail, "generic"), problem.fields))
  BY HttpOfException
<1> HIDE DEF p
<1>3. HttpExceptionFilter(p) = HttpAnswer(e.status, Extracted(p.body.label, Or(p.body.detail, "fallback"), p.body.fields))
  BY <1>1, HttpOfProblem
<1>4. CASE e.body.shape \in {"text", "standard"}
  <2>1. problem = Extracted(Absent, "told", {})
    BY <1>4 DEF ExtractProblemFromResponse
  <2>2. problem.label = Absent /\ problem.detail = "told" /\ problem.fields = {}
    BY <2>1 DEF Extracted
  <2>3. Or(problem.detail, "generic") = "told" /\ Or(p.body.detail, "fallback") = "told"
    BY <1>1, <1>4, <2>2, Absents DEF Or
  <2>4. p.body.label = Absent /\ p.body.fields = {}
    BY <1>1, <1>4
  <2> QED
    BY <1>2, <1>3, <2>2, <2>3, <2>4 DEF p
<1>5. CASE e.body.shape = "problem"
  <2>1. problem = Extracted(e.body.label, Or(e.body.detail, "fallback"), e.body.fields)
    BY <1>5 DEF ExtractProblemFromResponse
  <2>2. problem.label = e.body.label /\ problem.detail = e.body.detail /\ problem.fields = e.body.fields
    BY <2>1 DEF Extracted, Or
  <2>3. Or(problem.detail, "generic") = e.body.detail /\ Or(p.body.detail, "fallback") = e.body.detail
    BY <1>1, <1>5, <2>2 DEF Or
  <2>4. p.body.label = e.body.label /\ p.body.fields = e.body.fields
    BY <1>1, <1>5
  <2> QED
    BY <1>2, <1>3, <2>2, <2>3, <2>4 DEF p
<1> QED
  BY <1>4, <1>5

\* One hop changes nothing of what is portable.
LEMMA Ports ==
  ASSUME NEW e, IsThrowable(e), Portable(e)
  PROVE  HttpExceptionFilter(RpcProblemExceptionFilter(e)) = HttpExceptionFilter(e)
<1>1. CASE IsUniqueViolation(e)
  <2> DEFINE h == HttpProblem(409, "told", "told", {})
  <2>1. TryTranslatePgError(e) = h
    BY <1>1 DEF TryTranslatePgError
  <2>2. h.class = "HttpException" /\ h.status = 409 /\ h.body.shape = "problem" /\ h.body.detail = "told"
    BY HttpProblemMade
  <2>3. TryTranslatePgError(h) = h
    <3>1. h.causes = <<"none">>
      BY DEF HttpProblem, ErrorOf
    <3>2. FindPgError(h) = "none"
      BY <3>1 DEF FindPgError
    <3> QED
      BY <3>2 DEF TryTranslatePgError, IsUniqueViolation
  <2> HIDE DEF h
  <2>4. RpcProblemExceptionFilter(e) = ToProblemPayload(h.body, h.status)
    BY <2>1, <2>2 DEF RpcProblemExceptionFilter
  <2>5. HttpExceptionFilter(e) = HttpExceptionFilter(h)
    BY <2>1, <2>3 DEF HttpExceptionFilter
  <2>6. HttpExceptionFilter(ToProblemPayload(h.body, h.status)) = HttpExceptionFilter(h)
    BY <2>2, <2>3, ExceptionPorts, Absents
  <2> QED
    BY <2>4, <2>5, <2>6
<1>2. CASE ~IsUniqueViolation(e)
  <2>1. e.class = "HttpException" /\ e.status \in 400..599
          /\ e.body.shape \in {"text", "standard", "problem"} /\ e.body.detail # Absent
    BY <1>2, LeastCoded DEF Portable, IsThrowable
  <2>2. TryTranslatePgError(e) = e
    BY <1>2 DEF TryTranslatePgError
  <2>3. RpcProblemExceptionFilter(e) = ToProblemPayload(e.body, e.status)
    BY <2>1, <2>2 DEF RpcProblemExceptionFilter
  <2> QED
    BY <2>1, <2>2, <2>3, ExceptionPorts
<1> QED
  BY <1>1, <1>2

\* What is no status of an error has the code of a 500.
LEMMA CodeOfAny ==
  ASSUME NEW status \in Int
  PROVE  ErrorCodeFromStatus(IF status \in 400..599 THEN status ELSE 500) = ErrorCodeFromStatus(status)
BY DEF ErrorCodeFromStatus

LEMMA AnswerParts ==
  ASSUME NEW status, NEW label, NEW detail, NEW fields
  PROVE  LET a == HttpAnswer(status, Extracted(label, detail, fields)) IN
         a.status = status /\ a.code = ErrorCodeFromStatus(status) /\ a.label = label /\ a.fields = fields
BY DEF HttpAnswer, Extracted

\* The answer over GraphQL, in production.
Graphql(e) == GraphqlFormatError(e, TRUE)
LEMMA GraphqlParts ==
  ASSUME NEW e, NEW a, a = Graphql(e),
         NEW problem, problem = ExtractProblemFromResponse(e.body, Or(e.body.detail, "fallback"))
  PROVE  /\ e.class = "HttpException" \/ IsProblemLike(e)
              => a.code = ErrorCodeFromStatus(StatusOf(e)) /\ a.label = problem.label /\ a.fields = problem.fields
         /\ ~(e.class = "HttpException" \/ IsProblemLike(e)) => a.code = "INTERNAL" /\ a.label = Absent /\ a.fields = {}
<1>1. CASE e.class = "HttpException" \/ IsProblemLike(e)
  <2> DEFINE d == IF ErrorCodeFromStatus(StatusOf(e)) = "INTERNAL" THEN "generic" ELSE Or(problem.detail, "fallback")
  <2>1. a = [status |-> Absent, code |-> ErrorCodeFromStatus(StatusOf(e)), label |-> problem.label, detail |-> d,
             fields |-> problem.fields]
    BY <1>1 DEF Graphql, GraphqlFormatError
  <2> HIDE DEF d
  <2> QED
    BY <1>1, <2>1
<1>2. CASE ~(e.class = "HttpException" \/ IsProblemLike(e))
  <2>1. ErrorCodeFromStatus(500) = "INTERNAL"
    BY DEF ErrorCodeFromStatus
  <2>2. a = [status |-> Absent, code |-> "INTERNAL", label |-> Absent, detail |-> "generic", fields |-> {}]
    BY <1>2, <2>1 DEF Graphql, GraphqlFormatError, Extracted
  <2> QED
    BY <1>2, <2>2
<1> QED
  BY <1>1, <1>2

\* Over HTTP and over GraphQL a payload is told the same.
LEMMA Agreement ==
  ASSUME NEW e, IsPayload(e), ProblemOrNone(e),
         NEW http, http = HttpExceptionFilter(e), NEW graphql, graphql = Graphql(e)
  PROVE  http.code = graphql.code /\ http.label = graphql.label /\ http.fields = graphql.fields
<1> DEFINE problem == ExtractProblemFromResponse(e.body, Or(e.body.detail, "fallback"))
<1>1. TryTranslatePgError(e) = e /\ e.class \in {"object", "primitive"} /\ HasStatuses(e)
  BY PlainPayload DEF IsPayload
<1>2. ErrorCodeFromStatus(500) = "INTERNAL"
  BY DEF ErrorCodeFromStatus
<1>3. CASE StatusOf(e) # Absent
  <2>1. e.class = "object" /\ StatusOf(e) \in Int /\ (e.status # Absent \/ e.statusCode # Absent)
    BY <1>1, <1>3 DEF HasStatuses, StatusOf, Or
  <2>2. IsProblemLikeObject(e) /\ IsProblemLike(e)
    BY <2>1 DEF IsProblemLikeObject, IsProblemLike
  <2>3. HttpStatusOf(e) = IF StatusOf(e) \in 400..599 THEN StatusOf(e) ELSE 500
    BY <1>3 DEF HttpStatusOf
  <2>4. ErrorCodeFromStatus(HttpStatusOf(e)) = ErrorCodeFromStatus(StatusOf(e))
    BY <2>1, <2>3, CodeOfAny
  <2>5. graphql.code = ErrorCodeFromStatus(StatusOf(e)) /\ graphql.label = problem.label /\ graphql.fields = problem.fields
    BY <2>2, GraphqlParts
  <2>6. CASE e.body.shape = "problem"
    <3>1. http = HttpAnswer(HttpStatusOf(e), Extracted(e.body.label, Or(e.body.detail, "fallback"), e.body.fields))
      BY <1>1, <2>1, <2>2, <2>6 DEF HttpExceptionFilter
    <3>2. problem.label = e.body.label /\ problem.fields = e.body.fields
      BY <2>6 DEF ExtractProblemFromResponse, Extracted
    <3> HIDE DEF problem
    <3> QED
      BY <2>4, <2>5, <3>1, <3>2, AnswerParts
  <2>7. CASE e.body.shape # "problem"
    <3>1. e.body.label = Absent /\ e.body.fields = {}
      BY <2>7 DEF ProblemOrNone
    <3>2. problem.label = Absent /\ problem.fields = {}
      BY <2>7, <3>1 DEF ExtractProblemFromResponse, Extracted
    <3>3. \E detail : http = HttpAnswer(HttpStatusOf(e), Extracted(Absent, detail, {}))
      <4>1. http = HttpAnswer(HttpStatusOf(e), IF e.body.shape = "validation" THEN Extracted(Absent, "fallback", {})
                                              ELSE Extracted(e.body.label, Or(e.body.detail, "fallback"), {}))
        BY <1>1, <2>1, <2>2, <2>7 DEF HttpExceptionFilter
      <4> QED
        BY <3>1, <4>1
    <3> HIDE DEF problem
    <3> QED
      BY <2>4, <2>5, <3>2, <3>3, AnswerParts
  <2> QED
    BY <2>6, <2>7
<1>4. CASE StatusOf(e) = Absent
  <2>1. e.status = Absent /\ e.statusCode = Absent /\ e.body.label = Absent /\ e.body.fields = {}
    BY <1>4 DEF StatusOf, Or, ProblemOrNone
  <2>2. ~IsProblemLike(e) /\ e.class # "HttpException" /\ e.class # "AxiosError"
    BY <1>1, <2>1 DEF IsProblemLike
  <2>3. graphql.code = "INTERNAL" /\ graphql.label = Absent /\ graphql.fields = {}
    BY <2>2, GraphqlParts
  <2>4. HttpStatusOf(e) = 500
    BY <1>4 DEF HttpStatusOf
  <2>5. \E detail : http = HttpAnswer(500, Extracted(Absent, detail, {}))
    <3>1. CASE IsProblemLikeObject(e)
      <4>1. e.body.shape = "problem"
        BY <2>1, <3>1 DEF IsProblemLikeObject
      <4>2. http = HttpAnswer(500, Extracted(Absent, Or(e.body.detail, "fallback"), {}))
        BY <1>1, <2>1, <2>2, <2>4, <3>1, <4>1 DEF HttpExceptionFilter
      <4> QED
        BY <4>2
    <3>2. CASE ~IsProblemLikeObject(e)
      <4>1. http = HttpAnswer(500, Extracted(Absent, "generic", {}))
        BY <1>1, <2>2, <3>2 DEF HttpExceptionFilter
      <4> QED
        BY <4>1
    <3> QED
      BY <3>1, <3>2
  <2> QED
    BY <1>2, <2>3, <2>5, AnswerParts
<1> QED
  BY <1>3, <1>4

\* The status that is logged is the status that is answered.
LEMMA StatusTold ==
  ASSUME NEW e, IsThrowable(e), StatusOf(e) \in 400..599, ~IsUniqueViolation(e)
  PROVE  HttpExceptionFilter(e).status = LoggedStatus(e)
<1>1. TryTranslatePgError(e) = e /\ StatusOf(e) # Absent
  BY Absents DEF TryTranslatePgError
<1>2. LoggedStatus(e) = StatusOf(e)
  BY <1>1 DEF LoggedStatus, StatusOf, Or
<1>3. CASE e.class = "HttpException"
  <2> DEFINE problem == ExtractProblemFromResponse(e.body, "fallback")
             x == Or(problem.detail, "generic")
  <2>1. HttpExceptionFilter(e) = HttpAnswer(e.status, Extracted(problem.label, x, problem.fields))
    BY <1>1, <1>3, HttpOfException
  <2>2. StatusOf(e) = e.status
    BY <1>3 DEF IsThrowable, StatusOf, Or
  <2> HIDE DEF problem, x
  <2> QED
    BY <1>2, <2>1, <2>2, AnswerParts
<1>4. CASE e.class # "HttpException"
  <2>1. IsProblemLikeObject(e)
    BY <1>1 DEF IsThrowable, HasStatuses, IsProblemLikeObject, StatusOf, Or
  <2>2. HttpStatusOf(e) = StatusOf(e)
    BY <1>1 DEF HttpStatusOf
  <2>3. \E problem : HttpExceptionFilter(e) = HttpAnswer(StatusOf(e), problem)
    BY <1>1, <1>4, <2>1, <2>2 DEF HttpExceptionFilter
  <2> QED
    BY <1>2, <2>3 DEF HttpAnswer
<1> QED
  BY <1>3, <1>4

-----------------------------------------------------------------------------
(* The options of the logger.                                              *)

LEMMA OverHas ==
  ASSUME NEW f, NEW g
  PROVE  /\ DOMAIN Over(f, g) = DOMAIN f \cup DOMAIN g
         /\ \A x \in DOMAIN f : Over(f, g)[x] = f[x]
         /\ \A x \in DOMAIN g \ DOMAIN f : Over(f, g)[x] = g[x]
BY DEF Over

\* The preset of every environment but test's has both switches.
LEMMA PresetSwitches ==
  ASSUME NEW environment, environment # "test", NEW preset, preset = EnvironmentPreset(environment)
  PROVE  /\ "httpLogger" \in DOMAIN preset
         /\ DOMAIN preset.httpLogger = {"enableRequestLog", "enableResponseLog"}
         /\ preset.httpLogger["enableRequestLog"] = (environment # "production")
         /\ preset.httpLogger["enableResponseLog"] = TRUE
<1>1. CASE environment = "staging"
  BY <1>1 DEF EnvironmentPreset
<1>2. CASE environment = "production"
  BY <1>2 DEF EnvironmentPreset
<1>3. CASE environment \notin {"staging", "production"}
  BY <1>3 DEF EnvironmentPreset
<1> QED
  BY <1>1, <1>2, <1>3

\* The preset of test has no httpLogger, and leaves the traffic out.
LEMMA TestPreset ==
  /\ DOMAIN EnvironmentPreset("test") = {"level", "enableFileLogger", "enableHttpLogger"}
  /\ EnvironmentPreset("test")["enableHttpLogger"] = FALSE
BY DEF EnvironmentPreset

\* The merged options: what is given, over the preset, over the default; httpLogger is
\* merged once more when both have it.
LEMMA MergedParts ==
  ASSUME NEW options
  PROVE  LET given == Defined(options)
             preset == PresetOf(options)
             merged == MergeWithDefaults(options) IN
         /\ DOMAIN merged = DOMAIN given \cup DOMAIN preset \cup {"provider"}
         /\ \A k \in DOMAIN given \ {"httpLogger"} : merged[k] = given[k]
         /\ \A k \in DOMAIN preset \ DOMAIN given : merged[k] = preset[k]
         /\ "httpLogger" \in DOMAIN given =>
              merged["httpLogger"] = IF "httpLogger" \in DOMAIN preset
                                     THEN Over(Defined(given["httpLogger"]), preset["httpLogger"])
                                     ELSE given["httpLogger"]
<1> DEFINE given == Defined(options)
           preset == PresetOf(options)
           merged == MergeWithDefaults(options)
           nested == {"httpLogger"} \cap DOMAIN given \cap DOMAIN preset
           first == [k \in nested |-> Over(Defined(given[k]), preset[k])]
           default == [provider |-> "winston"]
<1>1. merged = Over(first, Over(given, Over(preset, default)))
  BY DEF MergeWithDefaults
<1>2. DOMAIN first = nested /\ \A k \in nested : first[k] = Over(Defined(given[k]), preset[k])
  OBVIOUS
<1>3. DOMAIN default = {"provider"}
  OBVIOUS
<1> HIDE DEF given, preset, nested, first, default, merged
<1>4. /\ DOMAIN merged = DOMAIN first \cup DOMAIN given \cup DOMAIN preset \cup DOMAIN default
      /\ \A k \in DOMAIN first : merged[k] = first[k]
      /\ \A k \in DOMAIN given \ DOMAIN first : merged[k] = given[k]
      /\ \A k \in DOMAIN preset \ (DOMAIN first \cup DOMAIN given) : merged[k] = preset[k]
  BY <1>1 DEF Over
<1>5. /\ DOMAIN merged = DOMAIN given \cup DOMAIN preset \cup {"provider"}
      /\ \A k \in DOMAIN given \ {"httpLogger"} : merged[k] = given[k]
      /\ \A k \in DOMAIN preset \ DOMAIN given : merged[k] = preset[k]
  BY <1>2, <1>3, <1>4 DEF nested
<1>6. CASE "httpLogger" \in nested
  BY <1>2, <1>4, <1>5, <1>6 DEF nested, given, preset, merged
<1>7. CASE "httpLogger" \notin nested
  BY <1>2, <1>4, <1>5, <1>7 DEF nested, given, preset, merged
<1> QED
  BY <1>6, <1>7

\* Where the preset has switches, they are under those that are given.
LEMMA MergedSwitches ==
  ASSUME NEW options, EnvironmentOf(options) # "test", NEW http, http = HttpLoggerOptions(MergeWithDefaults(options)),
         NEW preset, preset = PresetOf(options)
  PROVE  IF "httpLogger" \in DOMAIN Defined(options) THEN http = Over(Defined(options.httpLogger), preset.httpLogger)
                                                     ELSE http = preset.httpLogger
<1> DEFINE given == Defined(options)
           merged == MergeWithDefaults(options)
<1>1. "httpLogger" \in DOMAIN preset
  BY PresetSwitches DEF PresetOf
<1>2. "httpLogger" \in DOMAIN given => given["httpLogger"] = options.httpLogger
  BY DEF Defined
<1>3. /\ DOMAIN preset \subseteq DOMAIN merged
      /\ \A k \in DOMAIN preset \ DOMAIN given : merged[k] = preset[k]
      /\ "httpLogger" \in DOMAIN given => merged["httpLogger"] = Over(Defined(given["httpLogger"]), preset["httpLogger"])
  BY <1>1, MergedParts
<1> HIDE DEF merged, given
<1>4. http = merged["httpLogger"]
  BY <1>1, <1>3 DEF HttpLoggerOptions, merged
<1> QED
  BY <1>1, <1>2, <1>3, <1>4 DEF given

\* In test the switches are those of an httpLogger that is given, and of enableHttpLogger
\* when none is.
LEMMA TestSwitches ==
  ASSUME NEW options, EnvironmentOf(options) = "test", NEW http, http = HttpLoggerOptions(MergeWithDefaults(options))
  PROVE  IF "httpLogger" \in DOMAIN Defined(options) THEN http = options.httpLogger
         ELSE IF "enableHttpLogger" \in DOMAIN Defined(options)
         THEN http = [enableRequestLog |-> options.enableHttpLogger, enableResponseLog |-> options.enableHttpLogger]
         ELSE http = [enableRequestLog |-> FALSE, enableResponseLog |-> FALSE]
<1> DEFINE given == Defined(options)
           preset == PresetOf(options)
           merged == MergeWithDefaults(options)
           on == IF "enableHttpLogger" \in DOMAIN given THEN options.enableHttpLogger ELSE FALSE
<1>1. DOMAIN preset = {"level", "enableFileLogger", "enableHttpLogger"} /\ preset["enableHttpLogger"] = FALSE
  BY TestPreset DEF PresetOf
<1>2. \A k \in DOMAIN given : given[k] = options[k]
  BY DEF Defined
<1> HIDE DEF given, preset
<1>3. /\ DOMAIN merged = DOMAIN given \cup DOMAIN preset \cup {"provider"}
      /\ \A k \in DOMAIN given \ {"httpLogger"} : merged[k] = given[k]
      /\ \A k \in DOMAIN preset \ DOMAIN given : merged[k] = preset[k]
      /\ "httpLogger" \in DOMAIN given /\ "httpLogger" \notin DOMAIN preset => merged["httpLogger"] = given["httpLogger"]
  BY MergedParts DEF given, preset
<1> HIDE DEF merged
<1>4. CASE "httpLogger" \in DOMAIN given
  BY <1>1, <1>2, <1>3, <1>4 DEF HttpLoggerOptions, given, merged
<1>5. CASE "httpLogger" \notin DOMAIN given
  <2>1. merged["enableHttpLogger"] = on
    BY <1>1, <1>2, <1>3
  <2>2. http = [enableRequestLog |-> merged.enableHttpLogger, enableResponseLog |-> merged.enableHttpLogger]
    BY <1>1, <1>3, <1>5 DEF HttpLoggerOptions, merged
  <2>3. http = [enableRequestLog |-> on, enableResponseLog |-> on]
    BY <2>1, <2>2
  <2> QED
    BY <1>5, <2>3 DEF given
<1> QED
  BY <1>4, <1>5

\* Traffic is logged as the user asked.
AsksFor(given, switch) ==
  LET http == IF "httpLogger" \in DOMAIN given THEN given.httpLogger ELSE Undefined IN
  IF http # Undefined /\ switch \in DOMAIN Defined(http) THEN http[switch]
  ELSE CASE EnvironmentOf(given) = "test" /\ http = Undefined ->
              "enableHttpLogger" \in DOMAIN Defined(given) /\ given.enableHttpLogger
         [] EnvironmentOf(given) = "production" -> switch # "enableRequestLog"
         [] OTHER -> TRUE
LEMMA SwitchAsked ==
  ASSUME NEW given, EnvironmentOf(given) # "test", SwitchesTyped(given),
         NEW switch \in {"enableRequestLog", "enableResponseLog"}
  PROVE  Enabled(HttpLoggerOptions(MergeWithDefaults(given)), switch) <=> AsksFor(given, switch)
<1> DEFINE preset == PresetOf(given)
           own == preset.httpLogger
           byPreset == IF EnvironmentOf(given) = "production" THEN switch # "enableRequestLog" ELSE TRUE
           http == HttpLoggerOptions(MergeWithDefaults(given))
<1>1. DOMAIN own = {"enableRequestLog", "enableResponseLog"} /\ own[switch] = byPreset /\ own[switch] # Undefined
  <2>1. /\ DOMAIN own = {"enableRequestLog", "enableResponseLog"}
        /\ own["enableRequestLog"] = (EnvironmentOf(given) # "production")
        /\ own["enableResponseLog"] = TRUE
    BY PresetSwitches DEF PresetOf
  <2>2. own[switch] = byPreset
    BY <2>1
  <2> QED
    BY <2>1, <2>2, UndefinedAssumption
<1> HIDE DEF preset, byPreset
<1>2. CASE "httpLogger" \in DOMAIN Defined(given)
  <2> DEFINE mine == Defined(given.httpLogger)
  <2>1. "httpLogger" \in DOMAIN given /\ given.httpLogger # Undefined
    BY <1>2 DEF Defined
  <2>2. http = Over(mine, own)
    BY <1>2, MergedSwitches DEF preset
  <2>3. /\ DOMAIN mine \subseteq DOMAIN given.httpLogger
        /\ \A k \in DOMAIN mine : mine[k] = given.httpLogger[k] /\ mine[k] # Undefined
    BY DEF Defined
  <2> HIDE DEF http, mine, own
  <2>4. /\ switch \in DOMAIN http
        /\ switch \in DOMAIN mine => http[switch] = mine[switch]
        /\ switch \notin DOMAIN mine => http[switch] = own[switch]
    <3>1. switch \in DOMAIN own
      BY <1>1
    <3>2. /\ DOMAIN Over(mine, own) = DOMAIN mine \cup DOMAIN own
          /\ \A x \in DOMAIN mine : Over(mine, own)[x] = mine[x]
          /\ \A x \in DOMAIN own \ DOMAIN mine : Over(mine, own)[x] = own[x]
      BY OverHas
    <3> QED
      BY <2>2, <3>1, <3>2
  <2>5. CASE switch \in DOMAIN mine
    <3>1. given.httpLogger[switch] \in BOOLEAN
      BY <2>1, <2>3, <2>5 DEF SwitchesTyped
    <3>2. Enabled(http, switch) <=> given.httpLogger[switch]
      BY <2>3, <2>4, <2>5, <3>1 DEF Enabled
    <3>3. AsksFor(given, switch) <=> given.httpLogger[switch]
      BY <2>1, <2>5, <3>1 DEF AsksFor, mine
    <3> QED
      BY <3>2, <3>3 DEF http
  <2>6. CASE switch \notin DOMAIN mine
    <3>1. Enabled(http, switch) <=> byPreset
      BY <1>1, <2>4, <2>6 DEF Enabled, byPreset
    <3>2. AsksFor(given, switch) <=> byPreset
      BY <2>6 DEF AsksFor, mine, byPreset
    <3> QED
      BY <3>1, <3>2 DEF http
  <2> QED
    BY <2>5, <2>6
<1>3. CASE "httpLogger" \notin DOMAIN Defined(given)
  <2>1. "httpLogger" \notin DOMAIN given \/ given.httpLogger = Undefined
    BY <1>3 DEF Defined
  <2>2. http = own
    BY <1>3, MergedSwitches DEF preset
  <2> HIDE DEF http
  <2>3. Enabled(http, switch) <=> byPreset
    BY <1>1, <2>2 DEF Enabled, byPreset
  <2>4. AsksFor(given, switch) <=> byPreset
    BY <2>1 DEF AsksFor, byPreset
  <2> QED
    BY <2>3, <2>4 DEF http
<1> QED
  BY <1>2, <1>3

LEMMA TestSwitchAsked ==
  ASSUME NEW given, EnvironmentOf(given) = "test", SwitchesTyped(given),
         NEW switch \in {"enableRequestLog", "enableResponseLog"}
  PROVE  Enabled(HttpLoggerOptions(MergeWithDefaults(given)), switch) <=> AsksFor(given, switch)
<1> DEFINE http == HttpLoggerOptions(MergeWithDefaults(given))
<1>1. CASE "httpLogger" \in DOMAIN Defined(given)
  <2> DEFINE mine == given.httpLogger
  <2>1. "httpLogger" \in DOMAIN given /\ mine # Undefined
    BY <1>1 DEF Defined
  <2>2. http = mine
    BY <1>1, TestSwitches
  <2>3. switch \in DOMAIN Defined(mine) <=> switch \in DOMAIN mine /\ mine[switch] # Undefined
    BY DEF Defined
  <2>4. switch \in DOMAIN Defined(mine) => mine[switch] \in BOOLEAN
    BY <2>1, <2>3 DEF SwitchesTyped
  <2> HIDE DEF http
  <2>5. AsksFor(given, switch) <=> (switch \in DOMAIN Defined(mine) => mine[switch])
    BY <2>1, <2>4 DEF AsksFor
  <2> QED
    BY <2>2, <2>3, <2>4, <2>5 DEF Enabled, http
<1>2. CASE "httpLogger" \notin DOMAIN Defined(given)
  <2> DEFINE on == IF "enableHttpLogger" \in DOMAIN Defined(given) THEN given.enableHttpLogger ELSE FALSE
  <2>1. "httpLogger" \notin DOMAIN given \/ given.httpLogger = Undefined
    BY <1>2 DEF Defined
  <2>2. http = [enableRequestLog |-> on, enableResponseLog |-> on]
    <3>1. CASE "enableHttpLogger" \in DOMAIN Defined(given)
      BY <1>2, <3>1, TestSwitches
    <3>2. CASE "enableHttpLogger" \notin DOMAIN Defined(given)
      BY <1>2, <3>2, TestSwitches
    <3> QED
      BY <3>1, <3>2
  <2>3. on \in BOOLEAN
    BY DEF Defined, SwitchesTyped
  <2> HIDE DEF http
  <2>4. Enabled(http, switch) <=> on
    <3> HIDE DEF on
    <3>1. switch \in DOMAIN http /\ http[switch] = on
      BY <2>2
    <3> QED
      BY <2>3, <3>1, UndefinedAssumption DEF Enabled
  <2>5. AsksFor(given, switch) <=> ("enableHttpLogger" \in DOMAIN Defined(given) /\ given.enableHttpLogger)
    BY <2>1 DEF AsksFor
  <2> QED
    BY <2>3, <2>4, <2>5 DEF http
<1> QED
  BY <1>1, <1>2

-----------------------------------------------------------------------------
(* The outputs of a line.                                                  *)

LEMMA Ranks ==
  /\ DOMAIN WinstonLevels = 1..7
  /\ Rank("error") = 1 /\ Rank("info") = 3 /\ Rank("debug") = 6
  /\ KnownToWinston("error") /\ KnownToWinston("debug")
  /\ \A level : KnownToWinston(level) => Rank(level) \in 1..7
<1>1. DOMAIN WinstonLevels = 1..7 /\ Len(WinstonLevels) = 7
  BY DEF WinstonLevels
<1>2. /\ WinstonLevels[1] = "error" /\ WinstonLevels[2] = "warn" /\ WinstonLevels[3] = "info" /\ WinstonLevels[4] = "http"
      /\ WinstonLevels[5] = "verbose" /\ WinstonLevels[6] = "debug" /\ WinstonLevels[7] = "silly"
  BY DEF WinstonLevels
<1> HIDE DEF WinstonLevels
<1>3. Rank("error") = 1
  BY <1>1, <1>2 DEF Rank
<1>4. Rank("info") = 3
  BY <1>1, <1>2 DEF Rank
<1>5. Rank("debug") = 6
  BY <1>1, <1>2 DEF Rank
<1>6. KnownToWinston("error") /\ KnownToWinston("debug")
  BY <1>1, <1>2 DEF KnownToWinston, Contains
<1>7. ASSUME NEW level, KnownToWinston(level)
      PROVE  Rank(level) \in 1..7
  BY <1>1, <1>7 DEF KnownToWinston, Contains, Rank
<1> QED
  BY <1>1, <1>3, <1>4, <1>5, <1>6, <1>7

\* Nothing is missing with a level that lets everything through.
LEMMA DebugAdmits ==
  ASSUME NEW log, log.options.level = "debug"
  PROVE  SinksOf(log, "log") # {}
<1>1. SinksOf(log, "log") = CASE log.options.provider = "winston" -> CreateWinstonLogger(log.options, "info")
                              [] log.options.provider # "winston" -> IF log.filters => "log" \in GetLevelsUpTo("debug")
                                                                     THEN {"console"} ELSE {}
  BY DEF SinksOf, LogWithMetadata, Log
<1>2. CASE log.options.provider = "winston"
  <2>1. Admits("debug", "info")
    BY Ranks DEF Admits
  <2>2. "console" \in CreateWinstonLogger(log.options, "info")
    BY <2>1 DEF CreateWinstonLogger
  <2> QED
    BY <1>1, <1>2, <2>2
<1>3. CASE log.options.provider # "winston"
  <2>1. /\ DOMAIN NestLevels = 1..5 /\ NestLevels[1] = "error" /\ NestLevels[2] = "warn" /\ NestLevels[3] = "log"
        /\ NestLevels[4] = "debug" /\ NestLevels[5] = "verbose"
    BY DEF NestLevels
  <2> HIDE DEF NestLevels
  <2>2. (CHOOSE i \in DOMAIN NestLevels : NestLevels[i] = "debug") = 4
    BY <2>1
  <2>3. "log" \in GetLevelsUpTo("debug")
    BY <2>1, <2>2 DEF GetLevelsUpTo
  <2> QED
    BY <1>1, <1>3, <2>3
<1> QED
  BY <1>2, <1>3

\* A failure reaches every output of a Winston that knows its level.
LEMMA ErrorsReach ==
  ASSUME NEW log, log.options.provider = "winston", KnownToWinston(log.options.level)
  PROVE  SinksOf(log, "error") = {"console"} \cup IF log.options.enableFileLogger THEN {"combined", "error"} ELSE {}
<1>1. SinksOf(log, "error") = CreateWinstonLogger(log.options, "error")
  BY DEF SinksOf, LogWithMetadata, Log
<1>2. Admits(log.options.level, "error") /\ Admits("error", "error")
  BY Ranks DEF Admits
<1>3. \A t : Admits(IF t = "error" THEN "error" ELSE log.options.level, "error")
  BY <1>2
<1> QED
  BY <1>1, <1>3 DEF CreateWinstonLogger

-----------------------------------------------------------------------------
(* The calls, with their errors.                                           *)

\* Whichever entry point of the correlation middleware is installed alone leaves the id of
\* the header, if there is one, in the store.
LEMMA OneId ==
  ASSUME NEW r, installed.entries \subseteq {"onRequest", "use"}, installed.entries # {"onRequest", "use"}
  PROVE  Correlated(r).header # Absent => Correlated(r).store = Correlated(r).header
<1>1. NoContext.header = Absent /\ NoContext.store = Absent
  BY DEF NoContext
<1>2. \A id : LET c == OnRequest(id, NoContext) IN c.header \in {Absent, id} /\ c.store = id
  BY <1>1 DEF OnRequest, Included, AddCorrelationIdToResponse, NoContext
<1>3. \A id : Use(id, NoContext).header = Absent
  BY <1>1 DEF Use, Included, AddCorrelationIdToResponse, NoContext
<1>4. CASE "use" \notin installed.entries
  BY <1>1, <1>2, <1>4 DEF Correlated
<1>5. CASE "use" \in installed.entries
  <2>1. "onRequest" \notin installed.entries
    BY <1>5
  <2> QED
    BY <1>3, <1>5, <2>1 DEF Correlated
<1> QED
  BY <1>4, <1>5

LEMMA CallMoves ==
  ASSUME IInv, ToldInv, NEW r \in Requests, NEW i \in CallIds, NEW c, CallTold(c),
         call' = [call EXCEPT ![r][i] = c], UNCHANGED <<scenario, installed, logger, request>>
  PROVE  ToldInv'
<1>1. \A q \in Requests, j \in CallIds : call'[q][j] = IF q = r /\ j = i THEN c ELSE call[q][j]
  BY DEF IInv, TypeOK
<1>2. \A q \in Requests, j \in CallIds : CallTold(call'[q][j])
  BY <1>1 DEF ToldInv
<1>3. \A q \in Requests : RequestTold(logger', request'[q])
  BY DEF ToldInv
<1> QED
  BY <1>2, <1>3 DEF ToldInv

LEMMA RequestChanges ==
  ASSUME IInv, ToldInv, NEW r \in Requests, NEW q, RequestTold(logger, q),
         installed.entries # {"onRequest", "use"} => OneIdentity(q), request' = [request EXCEPT ![r] = q], UNCHANGED <<scenario, installed, logger, call>>
  PROVE  ToldInv'
<1>1. \A s \in Requests : request'[s] = IF s = r THEN q ELSE request[s]
  BY DEF IInv, TypeOK
<1>2. \A s \in Requests : RequestTold(logger', request'[s])
  BY <1>1 DEF ToldInv
<1>3. \A s \in Requests, j \in CallIds : CallTold(call'[s][j])
  BY DEF ToldInv
<1>4. installed.entries # {"onRequest", "use"} => \A s \in Requests : OneIdentity(request'[s])
  BY <1>1 DEF ToldInv
<1> QED
  BY <1>2, <1>3, <1>4 DEF ToldInv

LEMMA AnErrorThrowable == IsThrowable(AnError) /\ IsThrowable(MissingHeader)
<1>1. /\ AnError.class = "Error" /\ AnError.status = Absent /\ AnError.statusCode = Absent /\ AnError.causes = <<"none">>
      /\ DOMAIN AnError.causes = {1}
  BY DEF AnError, ErrorOf
<1>2. /\ MissingHeader.class = "HttpException" /\ MissingHeader.status = 500 /\ MissingHeader.statusCode = Absent
      /\ MissingHeader.causes = <<"none">> /\ DOMAIN MissingHeader.causes = {1}
  BY DEF MissingHeader, ErrorOf
<1> QED
  BY <1>1, <1>2, Absents DEF IsThrowable, HasStatuses

LEMMA KnownCall ==
  ASSUME IInv, ToldInv, NEW r \in Requests, NEW i \in CallIds
  PROVE  Typed(call[r][i]) /\ CallTold(call[r][i])
BY Known DEF ToldInv

LEMMA FailsTold ==
  ASSUME IInv, ToldInv, NEW r \in Requests, NEW i \in CallIds, FailedCall(r, i, AnError),
         UNCHANGED <<scenario, installed, logger, request>>
  PROVE  ToldInv'
<1> DEFINE c == [call[r][i] EXCEPT !.phase = "failed", !.error = AnError, !.thrown = AnError, !.depth = 0]
<1>1. Typed(call[r][i])
  BY KnownCall
<1>2. call' = [call EXCEPT ![r][i] = c]
  BY DEF FailedCall, IInv, TypeOK
<1>3. c.phase = "failed" /\ c.error = AnError /\ c.depth = 0
  BY <1>1 DEF Typed, IdleCall
<1> HIDE DEF c
<1>4. CallTold(c)
  BY <1>3, AnErrorThrowable DEF CallTold, ErrorKept
<1> QED
  BY <1>2, <1>4, CallMoves

LEMMA SentTold ==
  ASSUME IInv, ToldInv, NEW r \in Requests, NEW i \in CallIds, NEW ctx, SentCall(r, i, ctx),
         call[r][i].phase \in {"idle", "resolving"}, UNCHANGED <<scenario, installed, logger, request>>
  PROVE  ToldInv'
<1> DEFINE headers == ContextToHeaders(ctx)
           c == [call[r][i] EXCEPT !.phase = "sent", !.ctx = ctx, !.headers = headers, !.at = "A"]
<1>1. Typed(call[r][i]) /\ call[r][i].error = NoError
  BY KnownCall DEF CallTold
<1>2. call' = [call EXCEPT ![r][i] = c]
  BY DEF SentCall, IInv, TypeOK
<1> HIDE DEF headers
<1>3. c.phase = "sent" /\ c.error = call[r][i].error
  BY <1>1 DEF Typed, IdleCall
<1> HIDE DEF c
<1>4. CallTold(c)
  BY <1>1, <1>3 DEF CallTold
<1> QED
  BY <1>2, <1>4, CallMoves

LEMMA SendsTold ==
  ASSUME IInv, ToldInv, NEW r \in Requests, NEW i \in CallIds, Send(r, i)
  PROVE  ToldInv'
<1>1. call[r][i].phase = "idle" /\ UNCHANGED <<scenario, installed, logger, request>>
  BY DEF Send
<1>2. CASE FailedCall(r, i, AnError)
  BY <1>1, <1>2, FailsTold
<1>3. CASE SentCall(r, i, cached[r])
  BY <1>1, <1>3, SentTold
<1>4. CASE call' = [call EXCEPT ![r][i].phase = "resolving"]
  <2> DEFINE c == [call[r][i] EXCEPT !.phase = "resolving"]
  <2>1. Typed(call[r][i]) /\ call[r][i].error = NoError
    BY <1>1, KnownCall DEF CallTold
  <2>2. call' = [call EXCEPT ![r][i] = c]
    BY <1>4 DEF IInv, TypeOK
  <2>3. c.phase = "resolving" /\ c.error = NoError
    BY <2>1 DEF Typed, IdleCall
  <2> HIDE DEF c
  <2>4. CallTold(c)
    BY <2>3 DEF CallTold
  <2> QED
    BY <1>1, <2>2, <2>4, CallMoves
<1> QED
  BY <1>2, <1>3, <1>4 DEF Send, InstanceOf

LEMMA ResolvesTold ==
  ASSUME IInv, ToldInv, NEW r \in Requests, NEW i \in CallIds, Resolve(r, i)
  PROVE  ToldInv'
<1>1. call[r][i].phase = "resolving" /\ UNCHANGED <<scenario, installed, logger, request>>
  BY DEF Resolve
<1>2. ASSUME NEW ctx, SentCall(r, i, ctx)
      PROVE  ToldInv'
  BY <1>1, <1>2, SentTold
<1> QED
  BY <1>1, <1>2, FailsTold DEF Resolve

\* A service that throws: at the first hop the gateway gets what the filter made of it,
\* at the second the service between.
LEMMA ThrowsTold ==
  ASSUME IInv, ToldInv, NEW r \in Requests, NEW i \in CallIds, NEW e, RpcThrow(r, i, e), call[r][i].phase = "sent",
         IsThrowable(e), UNCHANGED <<scenario, installed, logger, request>>
  PROVE  ToldInv'
<1> DEFINE error == RpcProblemExceptionFilter(e)
           depth == Depth(call[r][i].at)
           phase == IF call[r][i].at = "B" THEN "returned" ELSE "failed"
           at == IF call[r][i].at = "B" THEN "A" ELSE "gateway"
           seen == Append(call[r][i].seen, ParseNatsHeaders(call[r][i].headers))
           c == [[call[r][i] EXCEPT !.phase = phase, !.at = at, !.seen = seen] EXCEPT !.error = error, !.thrown = e, !.depth = depth]
<1>1. Typed(call[r][i]) /\ call[r][i].at \in {"A", "B"}
  BY Known DEF Carries
<1>2. call' = [call EXCEPT ![r][i] = c]
  BY DEF RpcThrow, Answered, IInv, TypeOK
<1>3. IsPayload(error) /\ IsThrowable(error)
  BY FilteredIsPayload, PlainPayload
<1>4. \/ phase = "returned" /\ depth = 2
      \/ phase = "failed" /\ depth = 1
  BY <1>1 DEF Depth
<1> HIDE DEF error, depth, phase, at, seen
<1>5. c.phase = phase /\ c.error = error /\ c.thrown = e /\ c.depth = depth
  BY <1>1 DEF Typed, IdleCall
<1> HIDE DEF c
<1>6. CallTold(c)
  <2>1. CASE phase = "returned" /\ depth = 2
    BY <1>3, <1>5, <2>1 DEF CallTold
  <2>2. CASE phase = "failed" /\ depth = 1
    <3>1. ErrorKept(c.thrown, c.error, c.depth)
      BY <1>3, <1>5, <2>2 DEF ErrorKept, error
    <3> QED
      BY <1>5, <2>2, <3>1 DEF CallTold
  <2> QED
    BY <1>4, <2>1, <2>2
<1> QED
  BY <1>2, <1>6, CallMoves

LEMMA HandlesTold ==
  ASSUME IInv, ToldInv, NEW r \in Requests, NEW i \in CallIds, Handle(r, i)
  PROVE  ToldInv'
<1>1. call[r][i].phase = "sent" /\ UNCHANGED <<scenario, installed, logger, request>>
  BY DEF Handle
<1>2. CASE RpcReturn(r, i)
  <2> DEFINE phase == IF call[r][i].at = "B" THEN "returned" ELSE "done"
             at == IF call[r][i].at = "B" THEN "A" ELSE "gateway"
             seen == Append(call[r][i].seen, ParseNatsHeaders(call[r][i].headers))
             c == [call[r][i] EXCEPT !.phase = phase, !.at = at, !.seen = seen]
  <2>1. Typed(call[r][i]) /\ call[r][i].error = NoError
    BY <1>1, KnownCall DEF CallTold
  <2>2. call' = [call EXCEPT ![r][i] = c]
    BY <1>2 DEF RpcReturn, Answered, IInv, TypeOK
  <2>3. phase \in {"returned", "done"}
    OBVIOUS
  <2> HIDE DEF phase, at, seen
  <2>4. c.phase = phase /\ c.error = NoError
    BY <2>1 DEF Typed, IdleCall
  <2> HIDE DEF c
  <2>5. CallTold(c)
    BY <2>3, <2>4 DEF CallTold
  <2> QED
    BY <1>1, <2>2, <2>5, CallMoves
<1>3. ASSUME NEW e \in scenario.errors, RpcThrow(r, i, e)
      PROVE  ToldInv'
  <2>1. IsThrowable(e)
    BY ScenarioTypes DEF IInv, TypeOK
  <2> QED
    BY <1>1, <1>3, <2>1, ThrowsTold
<1>4. CASE RpcThrow(r, i, MissingHeader)
  BY <1>1, <1>4, AnErrorThrowable, ThrowsTold
<1> QED
  BY <1>2, <1>3, <1>4 DEF Handle

LEMMA ForwardsTold ==
  ASSUME IInv, ToldInv, NEW r \in Requests, NEW i \in CallIds, Forward(r, i)
  PROVE  ToldInv'
<1> DEFINE old == call[r][i]
           ctx == ParseNatsHeaders(old.headers)
<1>1. old.phase = "sent" /\ UNCHANGED <<scenario, installed, logger, request>>
  BY DEF Forward
<1>2. CASE RpcThrow(r, i, AnError)
  BY <1>1, <1>2, AnErrorThrowable, ThrowsTold
<1>3. CASE call' = [call EXCEPT ![r][i] = [@ EXCEPT !.headers = MicroserviceHeaders(ctx), !.at = "B",
                                                    !.seen = Append(old.seen, ctx)]]
  <2> DEFINE headers == MicroserviceHeaders(ctx)
             seen == Append(old.seen, ctx)
             c == [old EXCEPT !.headers = headers, !.at = "B", !.seen = seen]
  <2>1. Typed(old) /\ old.error = NoError
    BY <1>1, KnownCall DEF CallTold
  <2>2. call' = [call EXCEPT ![r][i] = c]
    BY <1>3 DEF IInv, TypeOK
  <2> HIDE DEF seen, headers
  <2>3. c.phase = "sent" /\ c.error = NoError
    BY <1>1, <2>1 DEF Typed, IdleCall
  <2> HIDE DEF c
  <2>4. CallTold(c)
    BY <2>3 DEF CallTold
  <2> QED
    BY <1>1, <2>2, <2>4, CallMoves
<1> QED
  BY <1>2, <1>3 DEF Forward

LEMMA BackwardsTold ==
  ASSUME IInv, ToldInv, NEW r \in Requests, NEW i \in CallIds, Backward(r, i)
  PROVE  ToldInv'
<1> DEFINE old == call[r][i]
<1>1. old.phase = "returned" /\ UNCHANGED <<scenario, installed, logger, request>>
  BY DEF Backward
<1>2. Typed(old) /\ CallTold(old)
  BY KnownCall
<1>3. CASE call' = [call EXCEPT ![r][i] = [@ EXCEPT !.phase = "done", !.at = "gateway", !.error = NoError,
                                                    !.thrown = NoError, !.depth = 0]]
  <2> DEFINE c == [old EXCEPT !.phase = "done", !.at = "gateway", !.error = NoError, !.thrown = NoError, !.depth = 0]
  <2>1. call' = [call EXCEPT ![r][i] = c]
    BY <1>3 DEF IInv, TypeOK
  <2>2. c.phase = "done"
    BY <1>2 DEF Typed, IdleCall
  <2> HIDE DEF c
  <2>3. CallTold(c)
    BY <2>2 DEF CallTold
  <2> QED
    BY <1>1, <2>1, <2>3, CallMoves
<1>4. CASE /\ old.error # NoError
           /\ call' = [call EXCEPT ![r][i] = [@ EXCEPT !.phase = "failed", !.at = "gateway",
                                                       !.error = RpcProblemExceptionFilter(old.error)]]
  <2> DEFINE error == RpcProblemExceptionFilter(old.error)
             c == [old EXCEPT !.phase = "failed", !.at = "gateway", !.error = error]
  <2>1. call' = [call EXCEPT ![r][i] = c]
    BY <1>4 DEF IInv, TypeOK
  <2>2. old.depth = 2 /\ IsPayload(old.error)
    BY <1>1, <1>2, <1>4 DEF CallTold
  <2>3. IsPayload(error) /\ IsThrowable(error)
    BY <2>2, PlainPayload, FilteredIsPayload
  <2> HIDE DEF error
  <2>4. c.phase = "failed" /\ c.error = error /\ c.depth = 2
    BY <1>2, <2>2 DEF Typed, IdleCall
  <2> HIDE DEF c
  <2>5. CallTold(c)
    BY <2>3, <2>4 DEF CallTold, ErrorKept
  <2> QED
    BY <1>1, <2>1, <2>5, CallMoves
<1> QED
  BY <1>3, <1>4 DEF Backward

-----------------------------------------------------------------------------
(* The requests.                                                           *)

LEMMA LineMade ==
  ASSUME NEW q, NEW type, NEW status, NEW sinks
  PROVE  LET l == LogLine(q, type, status, sinks) IN
         l.type = type /\ l.id = q.correlation.store /\ l.status = status /\ l.sinks = sinks
BY DEF LogLine

\* What is logged: the lines that were there, and one when the log has an output and
\* the switch is on.
LEMMA LoggedIs ==
  ASSUME NEW q, NEW type \in {"http_request", "http_response", "http_error"}, NEW status
  PROVE  LET sinks == SinksOf(logger, Severity(type, status))
             line == LogLine(q, type, status, sinks)
             on == q.transport = "http" /\ sinks # {} /\ (type = "http_error" \/ Switched(logger, type)) IN
         Logged(q, type, status) = IF on THEN q.log \cup {line} ELSE q.log
BY DEF Logged, SinksOf, Switched

LEMMA ArrivesTold ==
  ASSUME IInv, ToldInv, NEW r \in Requests, Arrive(r)
  PROVE  ToldInv'
<1>1. PICK t \in scenario.transports, s \in Sessions \cup {Absent} :
        LET q == [request[r] EXCEPT !.phase = "handling", !.transport = t, !.session = s, !.correlation = Correlated(r)]
        IN request' = [request EXCEPT ![r] = [q EXCEPT !.log = Logged(q, "http_request", Absent)]]
  BY DEF Arrive
<1> DEFINE correlation == Correlated(r)
           q == [request[r] EXCEPT !.phase = "handling", !.transport = t, !.session = s, !.correlation = correlation]
           log == Logged(q, "http_request", Absent)
           new == [q EXCEPT !.log = log]
<1>2. DOMAIN request[r] = DOMAIN NewRequest /\ request[r].phase = "new" /\ UNCHANGED <<scenario, installed, logger, call>>
  BY DEF IInv, TypeOK, Arrive
<1>3. request' = [request EXCEPT ![r] = new]
  BY <1>1
<1>4. installed.entries # {"onRequest", "use"} /\ correlation.header # Absent => correlation.store = correlation.header
  <2>1. installed.entries \subseteq {"onRequest", "use"}
    BY <1>2, ScenarioTypes DEF IInv, TypeOK, ToldInv, Installations
  <2> QED
    BY <2>1, OneId
<1>5. request[r].answer = Absent /\ request[r].log = {}
  BY <1>2 DEF ToldInv, RequestTold
<1> HIDE DEF correlation
<1>6. /\ DOMAIN q = DOMAIN NewRequest /\ q.phase = "handling" /\ q.transport = t /\ q.correlation = correlation
      /\ q.answer = Absent /\ q.log = {}
  BY <1>2, <1>5 DEF NewRequest
<1> HIDE DEF q
<1> DEFINE sinks == SinksOf(logger, "log")
           line == LogLine(q, "http_request", Absent, sinks)
           on == q.transport = "http" /\ sinks # {} /\ Switched(logger, "http_request")
<1>7. log = IF on THEN {line} ELSE {}
  <2>1. Severity("http_request", Absent) = "log"
    BY DEF Severity
  <2>2. log = IF q.transport = "http" /\ sinks # {} /\ ("http_request" = "http_error" \/ Switched(logger, "http_request"))
              THEN q.log \cup {line} ELSE q.log
    BY <2>1, LoggedIs
  <2> HIDE DEF log, line, sinks
  <2> QED
    BY <1>6, <2>2
<1>8. line.type = "http_request" /\ line.id = correlation.store
  BY <1>6, LineMade
<1> HIDE DEF log, line, sinks
<1>9. /\ new.phase = "handling" /\ new.transport = q.transport /\ new.correlation = correlation
      /\ new.answer = Absent /\ new.log = log
  BY <1>6 DEF NewRequest
<1> HIDE DEF new
<1>10. \A l \in new.log : LineTold(logger, new, l)
  BY <1>7, <1>8, <1>9 DEF LineTold
<1>11. new.transport = "http" /\ SinksOf(logger, "log") # {} /\ Switched(logger, "http_request")
        => \E l \in new.log : l.type = "http_request"
  BY <1>7, <1>8, <1>9 DEF sinks
<1>12. RequestTold(logger, new)
  BY <1>9, <1>10, <1>11 DEF RequestTold
<1>13. installed.entries # {"onRequest", "use"} => OneIdentity(new)
  BY <1>4, <1>9 DEF OneIdentity
<1> QED
  BY <1>2, <1>3, <1>12, <1>13, RequestChanges

\* The lines of a request that is being handled stay true when it is answered.
LEMMA LinesStay ==
  ASSUME NEW log, NEW q, NEW new, \A l \in q.log : LineTold(log, q, l), q.phase # "answered",
         new.correlation = q.correlation, new.transport = q.transport
  PROVE  \A l \in q.log : LineTold(log, new, l)
BY DEF LineTold

LEMMA FailedTold ==
  ASSUME IInv, ToldInv, NEW r \in Requests, NEW e, NEW thrown, NEW depth, ErrorKept(thrown, e, depth),
         request[r].phase = "handling", request' = [request EXCEPT ![r] = Failed(@, e, thrown, depth)],
         UNCHANGED <<scenario, installed, logger, call>>
  PROVE  ToldInv'
<1> DEFINE old == request[r]
           status == LoggedStatus(e)
           log == Logged(old, "http_error", status)
           answer == Filtered(old, e)
           new == [old EXCEPT !.phase = "answered", !.log = log, !.thrown = thrown, !.depth = depth,
                              !.caught = e, !.answer = answer]
           sinks == SinksOf(logger, "error")
           line == LogLine(old, "http_error", status, sinks)
<1>1. DOMAIN old = DOMAIN NewRequest /\ RequestTold(logger, old)
  BY DEF IInv, TypeOK, ToldInv
<1>2. request' = [request EXCEPT ![r] = new]
  BY DEF Failed, IInv, TypeOK
<1>3. log = IF old.transport = "http" /\ sinks # {} THEN old.log \cup {line} ELSE old.log
  <2>1. Severity("http_error", status) = "error"
    BY DEF Severity
  <2> QED
    BY <2>1, LoggedIs
<1>4. line.type = "http_error" /\ line.id = old.correlation.store /\ line.status = status /\ line.sinks = sinks
  BY LineMade
<1>5. old.transport = "http" => answer = HttpExceptionFilter(e)
  BY DEF Filtered
<1> HIDE DEF log, line, sinks, answer, status
<1>6. /\ new.phase = "answered" /\ new.transport = old.transport /\ new.correlation = old.correlation /\ new.log = log
      /\ new.thrown = thrown /\ new.depth = depth /\ new.caught = e /\ new.answer = answer
  BY <1>1 DEF NewRequest
<1> HIDE DEF new
<1>7. \A l \in new.log : LineTold(logger, new, l)
  <2>1. \A l \in old.log : LineTold(logger, new, l)
    BY <1>1, <1>6, LinesStay DEF RequestTold
  <2>2. old.transport = "http" => LineTold(logger, new, line)
    BY <1>1, <1>4, <1>5, <1>6 DEF LineTold, RequestTold, ErrorKept, status
  <2> QED
    BY <1>3, <1>6, <2>1, <2>2
<1>8. old.log \subseteq new.log
  BY <1>3, <1>6
<1>9. new.transport = "http" /\ sinks # {} => line \in new.log
  BY <1>3, <1>6
<1>10. new.answer = Filtered(new, e)
  BY <1>6 DEF Filtered, answer
<1>11. RequestTold(logger, new)
  BY <1>1, <1>4, <1>6, <1>7, <1>8, <1>9, <1>10 DEF RequestTold, sinks
<1>12. installed.entries # {"onRequest", "use"} => OneIdentity(new)
  BY <1>6 DEF ToldInv, OneIdentity
<1> QED
  BY <1>2, <1>11, <1>12, RequestChanges

LEMMA ThrownTold ==
  ASSUME IInv, ToldInv, NEW r \in Requests, Throw(r)
  PROVE  ToldInv'
<1>1. request[r].phase = "handling" /\ UNCHANGED <<scenario, installed, logger, call>>
  BY DEF Throw
<1>2. ASSUME NEW e \in scenario.errors, request' = [request EXCEPT ![r] = Failed(@, e, e, 0)]
      PROVE  ToldInv'
  <2>1. ErrorKept(e, e, 0)
    BY ScenarioTypes DEF IInv, TypeOK, ErrorKept
  <2> QED
    BY <1>1, <1>2, <2>1, FailedTold
<1>3. ASSUME NEW i \in CallIds, call[r][i].phase = "failed",
             request' = [request EXCEPT ![r] = Failed(@, call[r][i].error, call[r][i].thrown, call[r][i].depth)]
      PROVE  ToldInv'
  <2>1. ErrorKept(call[r][i].thrown, call[r][i].error, call[r][i].depth)
    BY <1>3, KnownCall DEF CallTold
  <2> QED
    BY <1>1, <1>3, <2>1, FailedTold
<1> QED
  BY <1>2, <1>3 DEF Throw

LEMMA AnswersTold ==
  ASSUME IInv, ToldInv, NEW r \in Requests, Answer(r)
  PROVE  ToldInv'
<1> DEFINE old == request[r]
           log == Logged(old, "http_response", 200)
           new == [old EXCEPT !.phase = "answered", !.log = log]
           sinks == SinksOf(logger, Severity("http_response", 200))
           line == LogLine(old, "http_response", 200, sinks)
<1>1. /\ DOMAIN old = DOMAIN NewRequest /\ RequestTold(logger, old) /\ old.phase = "handling"
      /\ UNCHANGED <<scenario, installed, logger, call>>
  BY DEF IInv, TypeOK, ToldInv, Answer
<1>2. request' = [request EXCEPT ![r] = new]
  BY DEF Answer, IInv, TypeOK
<1>3. \/ log = old.log
      \/ log = old.log \cup {line} /\ old.transport = "http" /\ Switched(logger, "http_response")
  BY LoggedIs
<1>4. line.type = "http_response" /\ line.id = old.correlation.store
  BY LineMade
<1> HIDE DEF log, line, sinks
<1>5. /\ new.phase = "answered" /\ new.transport = old.transport /\ new.correlation = old.correlation /\ new.log = log
      /\ new.answer = old.answer
  BY <1>1 DEF NewRequest
<1> HIDE DEF new
<1>6. old.answer = Absent
  BY <1>1 DEF RequestTold
<1>7. \A l \in new.log : LineTold(logger, new, l)
  <2>1. \A l \in old.log : LineTold(logger, new, l)
    BY <1>1, <1>5, LinesStay DEF RequestTold
  <2>2. old.transport = "http" /\ Switched(logger, "http_response") => LineTold(logger, new, line)
    BY <1>1, <1>4, <1>5 DEF LineTold, RequestTold
  <2> QED
    BY <1>3, <1>5, <2>1, <2>2
<1>8. old.log \subseteq new.log
  BY <1>3, <1>5
<1>9. RequestTold(logger, new)
  BY <1>1, <1>5, <1>6, <1>7, <1>8 DEF RequestTold
<1>10. installed.entries # {"onRequest", "use"} => OneIdentity(new)
  BY <1>5 DEF ToldInv, OneIdentity
<1> QED
  BY <1>1, <1>2, <1>9, <1>10, RequestChanges

LEMMA StartTold ==
  ASSUME Init
  PROVE  ToldInv
<1>1. NewRequest.phase = "new" /\ NewRequest.correlation = NoContext /\ NewRequest.log = {} /\ NewRequest.answer = Absent
  BY DEF NewRequest
<1>2. NoContext.store = NoContext.header
  BY DEF NoContext
<1>3. RequestTold(logger, NewRequest) /\ OneIdentity(NewRequest)
  BY <1>1, <1>2 DEF RequestTold, OneIdentity
<1>4. CallTold(IdleCall)
  BY DEF CallTold, IdleCall
<1>5. logger.options = MergeWithDefaults(logger.given) /\ logger.given \in scenario.loggers
  BY DEF Init
<1> QED
  BY <1>3, <1>4, <1>5 DEF Init, ToldInv

-----------------------------------------------------------------------------
(* The theorems on errors and log lines.                                   *)

\* The invariant that the errors, the answers and the log lines rest on.
THEOREM Told == Spec => []ToldInv
<1>1. Init => ToldInv
  BY StartTold
<1>2. ASSUME IInv, ToldInv, [Next]_vars
      PROVE  ToldInv'
  <2>1. ASSUME NEW r \in Requests, Arrive(r) \/ Throw(r) \/ Answer(r)
        PROVE  ToldInv'
    BY <1>2, <2>1, ArrivesTold, ThrownTold, AnswersTold
  <2>2. ASSUME NEW r \in Requests, NEW i \in CallIds,
               Send(r, i) \/ Resolve(r, i) \/ Handle(r, i) \/ Forward(r, i) \/ Backward(r, i)
        PROVE  ToldInv'
    BY <1>2, <2>2, SendsTold, ResolvesTold, HandlesTold, ForwardsTold, BackwardsTold
  <2>3. CASE UNCHANGED vars
    BY <1>2, <2>3 DEF vars, ToldInv
  <2> QED
    BY <1>2, <2>1, <2>2, <2>3 DEF Next
<1> QED
  BY <1>1, <1>2, Inductive, PTL DEF Spec

\* That an operation lives in a service does not show: what is portable of an error a
\* service throws is answered as if the gateway's own handler had thrown it.
THEOREM OneAnswerEverywhere == Spec => []AsThrown
<1>1. ToldInv => AsThrown
  <2> SUFFICES ASSUME ToldInv, NEW r \in Requests, request[r].answer # Absent, request[r].transport = "http",
                      request[r].depth = 1, Portable(request[r].thrown)
               PROVE  request[r].answer = HttpExceptionFilter(request[r].thrown)
    BY DEF AsThrown
  <2>1. ErrorKept(request[r].thrown, request[r].caught, 1) /\ request[r].answer = HttpExceptionFilter(request[r].caught)
    BY DEF ToldInv, RequestTold, Filtered
  <2>2. IsThrowable(request[r].thrown) /\ request[r].caught = RpcProblemExceptionFilter(request[r].thrown)
    BY <2>1 DEF ErrorKept
  <2> QED
    BY <2>1, <2>2, Ports
<1> QED
  BY <1>1, Told, PTL

\* What a call brings back is told alike by HttpExceptionFilter and by
\* graphqlFormatError: the same code, label and field errors.
THEOREM SameOverGraphql == Spec => []TransportsAgree
<1>1. ToldInv => TransportsAgree
  <2>1. ASSUME ToldInv, NEW r \in Requests, request[r].answer # Absent, request[r].depth > 0
        PROVE  IsPayload(request[r].caught)
    <3>1. request[r].depth # 0
      BY <2>1
    <3> QED
      BY <2>1, <3>1 DEF ToldInv, RequestTold, ErrorKept
  <2> QED
    BY <2>1, Agreement DEF TransportsAgree, Graphql
<1> QED
  BY <1>1, Told, PTL

\* The lines of HttpLoggerInterceptor have the id the client was answered with, if it was
\* answered with one and one entry point of the middleware is in use, and a failure's line
\* has the status it got, unless that is a status the filter translated.
THEOREM LogIsTrue == Spec => []LogTellsAnswer
<1>1. ToldInv => LogTellsAnswer
  <2> SUFFICES ASSUME ToldInv, NEW r \in Requests, NEW l \in request[r].log
               PROVE  /\ request[r].correlation.header # Absent /\ installed.entries # {"onRequest", "use"}
                           => l.id = request[r].correlation.header
                      /\ l.type = "http_error" /\ StatusOf(request[r].caught) \in 400..599
                           /\ ~IsUniqueViolation(request[r].caught)
                           => l.status = request[r].answer.status
    BY DEF LogTellsAnswer
  <2>1. LineTold(logger, request[r], l)
    BY DEF ToldInv, RequestTold
  <2>2. installed.entries # {"onRequest", "use"} => OneIdentity(request[r])
    BY DEF ToldInv
  <2> QED
    BY <2>1, <2>2, StatusTold DEF LineTold, OneIdentity
<1> QED
  BY <1>1, Told, PTL

\* For any options, under every preset: no traffic is logged but what Asked says they ask
\* for, and neither a request at level debug nor a failure under a Winston that knows its
\* level is missing.
THEOREM LogIsComplete == Spec => []LoggedAsConfigured
<1>1. ASSUME IInv, ToldInv
      PROVE  TrafficAsAsked
  <2> SUFFICES ASSUME NEW r \in Requests
               PROVE  /\ \A l \in request[r].log : l.type # "http_error" => Asked(SwitchOf(l.type))
                      /\ /\ request[r].phase # "new" /\ request[r].transport = "http"
                         /\ logger.options.level = "debug" /\ Asked("enableRequestLog")
                         => \E l \in request[r].log : l.type = "http_request"
    BY DEF TrafficAsAsked
  <2>1. SwitchesTyped(logger.given) /\ logger.options = MergeWithDefaults(logger.given)
    BY <1>1, ScenarioTypes DEF IInv, TypeOK, ToldInv
  <2>2. \A switch \in {"enableRequestLog", "enableResponseLog"} :
          Enabled(HttpLoggerOptions(logger.options), switch) <=> Asked(switch)
    BY <2>1, SwitchAsked, TestSwitchAsked DEF Asked, AsksFor
  <2>3. \A type : Switched(logger, type) <=> Asked(SwitchOf(type))
    BY <2>2 DEF Switched, SwitchOf
  <2>4. RequestTold(logger, request[r])
    BY <1>1 DEF ToldInv
  <2>5. \A l \in request[r].log : l.type # "http_error" => Asked(SwitchOf(l.type))
    BY <2>3, <2>4 DEF RequestTold, LineTold
  <2>6. ASSUME request[r].phase # "new", request[r].transport = "http", logger.options.level = "debug",
               Asked("enableRequestLog")
        PROVE  \E l \in request[r].log : l.type = "http_request"
    <3>1. SinksOf(logger, "log") # {}
      BY <2>6, DebugAdmits
    <3>2. Switched(logger, "http_request")
      BY <2>3, <2>6 DEF SwitchOf
    <3> QED
      BY <2>4, <2>6, <3>1, <3>2 DEF RequestTold
  <2> QED
    BY <2>5, <2>6
<1>2. ASSUME ToldInv
      PROVE  FailureLogged
  <2> SUFFICES ASSUME NEW r \in Requests, request[r].answer # Absent, request[r].transport = "http",
                      logger.options.provider = "winston", KnownToWinston(logger.options.level)
               PROVE  \E l \in request[r].log :
                        /\ l.type = "http_error"
                        /\ l.sinks = {"console"} \cup IF logger.options.enableFileLogger THEN {"combined", "error"} ELSE {}
    BY DEF FailureLogged
  <2>1. SinksOf(logger, "error") = {"console"} \cup IF logger.options.enableFileLogger THEN {"combined", "error"} ELSE {}
    BY ErrorsReach
  <2>2. SinksOf(logger, "error") # {}
    BY <2>1
  <2>3. \E l \in request[r].log : l.type = "http_error" /\ l.sinks = SinksOf(logger, "error")
    BY <1>2, <2>2 DEF ToldInv, RequestTold
  <2> QED
    BY <2>1, <2>3
<1>3. IInv /\ ToldInv => LoggedAsConfigured
  BY <1>1, <1>2 DEF LoggedAsConfigured
<1> QED
  BY <1>3, Inductive, Told, PTL
=============================================================================
