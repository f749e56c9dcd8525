-------------------------------- MODULE Calls --------------------------------
(***************************************************************************)
(* A request of the gateway and the calls it makes over NATS: the context  *)
(* NatsClientService resolves from the session and puts on the wire, what  *)
(* the called service reads back and what NatsMicroserviceClientService    *)
(* sends on, the errors on their way back through RpcProblemExceptionFilter*)
(* to the client's answer, and the correlation id and log lines of the     *)
(* request.                                                                *)
(*                                                                         *)
(* The gateway answers several requests at once and a request may await    *)
(* several calls at once; the actions split at the awaits.  The handlers,  *)
(* the context resolver and the NATS server are the application's and are  *)
(* external: a handler calls, forwards, throws, swallows or rethrows.      *)
(***************************************************************************)
EXTENDS ErrorPipeline, Logger, FiniteSets

CONSTANTS Requests, Sessions, CallIds,
          \* The instances of one run: its requests and the calls each may make, the errors a
          \* handler may throw, the transports, the sets of header keys a resolved
          \* context has a value for, how main.ts may have installed the correlation
          \* middleware, and the options it may give LoggerModule.
          Scenarios

\* The entry points of the correlation middleware in use, and its includeInResponse.
Installations == [entries : SUBSET {"onRequest", "use"}, includeInResponse : BOOLEAN]

ASSUME ScenarioTypes ==
  \A s \in Scenarios :
    /\ DOMAIN s.calls \subseteq Requests
    /\ \A r \in DOMAIN s.calls : s.calls[r] \subseteq CallIds
    /\ s.transports \subseteq {"http", "graphql"}
    /\ s.installs \subseteq Installations
    /\ \A e \in s.errors : IsThrowable(e)
    /\ \A given \in s.loggers : SwitchesTyped(given)

VARIABLES scenario,
          installed,    \* how the correlation middleware is installed
          logger,       \* the options the application gave LoggerModule, merged
          request,      \* the gateway's requests
          cached,       \* NatsClientService.cachedContext, one for each instance of the service
          call          \* the calls of each request
vars == <<scenario, installed, logger, request, cached, call>>

-----------------------------------------------------------------------------
(* The context on the wire.                                                *)

HeaderKeys == {"org", "user", "site", "le", "siteGroup", "timezone", "currency"}
Context == [HeaderKeys -> Sessions \cup {"", "UTC"}]
ASSUME ContextAssumption == Absent \notin Context
ContextsOf(session) == {[k \in HeaderKeys |-> IF k \in keys THEN session ELSE ""] : keys \in scenario.resolvable}

\* Headers that are not set are Absent.
ContextToHeaders(ctx) == [k \in HeaderKeys |-> IF k \in {"org", "user"} \/ ctx[k] # "" THEN ctx[k] ELSE Absent]
MicroserviceHeaders(ctx) == [k \in HeaderKeys |-> IF k \in {"org", "user", "site", "timezone"} THEN ctx[k] ELSE Absent]
Unset(header) == header \in {Absent, ""}
ParseNatsHeaders(headers) ==
  IF Unset(headers["org"]) \/ Unset(headers["user"]) THEN Absent
  ELSE [k \in HeaderKeys |-> IF ~Unset(headers[k]) THEN headers[k] ELSE IF k = "timezone" THEN "UTC" ELSE ""]

\* NatsClientService is request-scoped: each request has an instance of its own.
\* Faulty variant: a singleton.
OneForAll(r) == CHOOSE q \in Requests : TRUE
InstanceOf(r) == r

-----------------------------------------------------------------------------
(* Correlation.                                                            *)

\* A reply of Fastify takes a header.  What a Nest middleware is given on Fastify is the
\* raw response, which has neither header() nor a raw response of its own.
NoContext == [header |-> Absent, store |-> Absent]
AddCorrelationIdToResponse(ctx, id, reply) == IF reply = "FastifyReply" THEN [ctx EXCEPT !.header = id] ELSE ctx
Included(ctx, id, reply) ==
  IF installed.includeInResponse THEN AddCorrelationIdToResponse(ctx, id, reply) ELSE ctx
\* Faulty variant: the id of the store is drawn anew.
DrawsTwice(id, ctx) == [Included(ctx, id, "FastifyReply") EXCEPT !.store = Append(id, "again")]
\* A store that is there is kept.
OnRequest(id, ctx) ==
  LET answered == Included(ctx, id, "FastifyReply") IN
  IF ctx.store = Absent THEN [answered EXCEPT !.store = id] ELSE answered
Use(id, ctx) == [Included(ctx, id, "ServerResponse") EXCEPT !.store = id]
\* The onRequest hook runs before the Nest middleware; each draws an id.
Correlated(r) ==
  LET hooked == IF "onRequest" \in installed.entries THEN OnRequest(<<r, 1>>, NoContext) ELSE NoContext IN
  IF "use" \in installed.entries THEN Use(<<r, 2>>, hooked) ELSE hooked

\* What HttpLoggerInterceptor logs, over HTTP only.
LogLine(q, type, status, sinks) == [type |-> type, id |-> q.correlation.store, status |-> status, sinks |-> sinks]
Severity(type, status) ==
  IF type = "http_request" THEN "log"
  ELSE IF type = "http_error" \/ status >= 500 THEN "error"
  ELSE IF status >= 400 THEN "warn" ELSE "log"
SwitchOf(type) == IF type = "http_request" THEN "enableRequestLog" ELSE "enableResponseLog"
Logged(q, type, status) ==
  LET sinks == LogWithMetadata(logger.options, logger.filters, Severity(type, status)) IN
  IF /\ q.transport = "http" /\ sinks # {}
     /\ type = "http_error" \/ Enabled(HttpLoggerOptions(logger.options), SwitchOf(type))
  THEN q.log \cup {LogLine(q, type, status, sinks)} ELSE q.log
\* Fastify's reply has the status 200 until something sets another.
LoggedStatus(e) == Or(Or(e.status, e.statusCode), 200)

-----------------------------------------------------------------------------

NoError == [class |-> "none"]
IdleCall == [phase |-> "idle", ctx |-> Absent, headers |-> Absent, at |-> "gateway", seen |-> <<>>, error |-> NoError,
             thrown |-> NoError, depth |-> 0]
NewRequest == [phase |-> "new", transport |-> "http", session |-> Absent, correlation |-> NoContext, log |-> {},
               thrown |-> NoError, depth |-> 0, caught |-> NoError, answer |-> Absent]

Init == /\ scenario \in Scenarios
        /\ installed \in scenario.installs
        /\ \E given \in scenario.loggers, filters \in BOOLEAN :
             /\ logger = [given |-> given, options |-> MergeWithDefaults(given), filters |-> filters]
             /\ filters => logger.options.provider = "default"
        /\ request = [r \in Requests |-> NewRequest]
        /\ cached = [r \in Requests |-> Absent]
        /\ call = [r \in Requests |-> [i \in CallIds |-> IdleCall]]

\* A public endpoint may have no session.
Arrive(r) ==
  /\ r \in DOMAIN scenario.calls /\ request[r].phase = "new"
  /\ \E t \in scenario.transports, s \in Sessions \cup {Absent} :
       LET q == [request[r] EXCEPT !.phase = "handling", !.transport = t, !.session = s, !.correlation = Correlated(r)]
       IN request' = [request EXCEPT ![r] = [q EXCEPT !.log = Logged(q, "http_request", Absent)]]
  /\ UNCHANGED <<scenario, installed, logger, cached, call>>

\* A call that fails at the gateway, before anything is sent.
FailedCall(r, i, error) ==
  call' = [call EXCEPT ![r][i] = [@ EXCEPT !.phase = "failed", !.error = error, !.thrown = error, !.depth = 0]]
SentCall(r, i, ctx) ==
  call' = [call EXCEPT ![r][i] = [@ EXCEPT !.phase = "sent", !.ctx = ctx, !.headers = ContextToHeaders(ctx), !.at = "A"]]

\* NatsClientService.send up to its await of the resolver, or to the end.
Send(r, i) ==
  /\ request[r].phase = "handling" /\ i \in scenario.calls[r] /\ call[r][i].phase = "idle"
  /\ \/ FailedCall(r, i, AnError)                    \* the service is not registered
     \/ /\ cached[InstanceOf(r)] # Absent
        /\ SentCall(r, i, cached[InstanceOf(r)])
     \/ /\ cached[InstanceOf(r)] = Absent /\ request[r].session = Absent
        /\ FailedCall(r, i, AnError)
     \/ /\ cached[InstanceOf(r)] = Absent /\ request[r].session # Absent
        /\ call' = [call EXCEPT ![r][i].phase = "resolving"]
  /\ UNCHANGED <<scenario, installed, logger, request, cached>>

\* The resolver answers, or rejects, and send goes on to the end.
Resolve(r, i) ==
  /\ call[r][i].phase = "resolving"
  /\ \/ \E ctx \in ContextsOf(request[r].session) :
          /\ cached' = [cached EXCEPT ![InstanceOf(r)] = ctx]
          /\ SentCall(r, i, ctx)
     \/ /\ FailedCall(r, i, AnError)
        /\ UNCHANGED cached
  /\ UNCHANGED <<scenario, installed, logger, request>>

-----------------------------------------------------------------------------
(* In the services.  Service A handles what the gateway sends and may      *)
(* forward to service B.                                                   *)

Depth(service) == IF service = "A" THEN 1 ELSE 2
\* The handler has seen the context of its message and answers its caller.
Answered(c, outcome) ==
  [c EXCEPT !.phase = IF c.at = "B" THEN "returned" ELSE outcome, !.at = IF c.at = "B" THEN "A" ELSE "gateway",
            !.seen = Append(@, ParseNatsHeaders(c.headers))]
\* The handler throws e: the filter's answer travels to the caller.
RpcThrow(r, i, e) ==
  call' = [call EXCEPT ![r][i] =
             [Answered(@, "failed") EXCEPT !.error = RpcProblemExceptionFilter(e), !.thrown = e, !.depth = Depth(call[r][i].at)]]
RpcReturn(r, i) == call' = [call EXCEPT ![r][i] = Answered(@, "done")]
MissingHeader == ErrorOf("HttpException", 500, Absent, [shape |-> "standard", label |-> Absent, detail |-> "told", fields |-> {}])
\* The message is taken by a handler, which may ask for the site or the currency
\* of its parsed headers.
Handle(r, i) ==
  /\ call[r][i].phase = "sent"
  /\ LET ctx == ParseNatsHeaders(call[r][i].headers) IN
     \/ \E e \in scenario.errors : RpcThrow(r, i, e)
     \/ RpcReturn(r, i)
     \/ \E key \in {"site", "currency"} : (IF ctx = Absent THEN TRUE ELSE ctx[key] = "") /\ RpcThrow(r, i, MissingHeader)
  /\ UNCHANGED <<scenario, installed, logger, request, cached>>

\* NatsMicroserviceClientService.send in A's handler, with the headers it was given;
\* B may not be registered.
Forward(r, i) ==
  /\ call[r][i].phase = "sent" /\ call[r][i].at = "A"
  /\ LET ctx == ParseNatsHeaders(call[r][i].headers) IN
     \/ RpcThrow(r, i, AnError)
     \/ /\ ctx # Absent
        /\ call' = [call EXCEPT ![r][i] = [@ EXCEPT !.headers = MicroserviceHeaders(ctx), !.at = "B",
                                                    !.seen = Append(call[r][i].seen, ctx)]]
  /\ UNCHANGED <<scenario, installed, logger, request, cached>>

\* A has B's answer: it answers, swallowing an error, or rethrows what it caught.
Backward(r, i) ==
  /\ call[r][i].phase = "returned"
  /\ \/ call' = [call EXCEPT ![r][i] = [@ EXCEPT !.phase = "done", !.at = "gateway", !.error = NoError, !.thrown = NoError,
                                                 !.depth = 0]]
     \/ /\ call[r][i].error # NoError
        /\ call' = [call EXCEPT ![r][i] = [@ EXCEPT !.phase = "failed", !.at = "gateway",
                                                    !.error = RpcProblemExceptionFilter(call[r][i].error)]]
  /\ UNCHANGED <<scenario, installed, logger, request, cached>>

-----------------------------------------------------------------------------
(* The gateway's answer.                                                   *)

\* TransportAwareExceptionFilter: over GraphQL the error is left to formatError.
Filtered(q, e) == IF q.transport = "http" THEN HttpExceptionFilter(e) ELSE GraphqlFormatError(e, TRUE)
Failed(q, e, thrown, depth) ==
  [q EXCEPT !.phase = "answered", !.log = Logged(q, "http_error", LoggedStatus(e)), !.thrown = thrown, !.depth = depth,
            !.caught = e, !.answer = Filtered(q, e)]

\* The handler throws an error of its own, or what a call rejected with.
Throw(r) ==
  /\ request[r].phase = "handling"
  /\ \/ \E e \in scenario.errors : request' = [request EXCEPT ![r] = Failed(@, e, e, 0)]
     \/ \E i \in CallIds : /\ call[r][i].phase = "failed"
                           /\ LET c == call[r][i] IN
                              request' = [request EXCEPT ![r] = Failed(@, c.error, c.thrown, c.depth)]
  /\ UNCHANGED <<scenario, installed, logger, cached, call>>

Answer(r) ==
  /\ request[r].phase = "handling"
  /\ \A i \in CallIds : call[r][i].phase \in {"idle", "done", "failed"}
  /\ request' = [request EXCEPT ![r] = [@ EXCEPT !.phase = "answered", !.log = Logged(request[r], "http_response", 200)]]
  /\ UNCHANGED <<scenario, installed, logger, cached, call>>

Next == \/ \E r \in Requests : Arrive(r) \/ Throw(r) \/ Answer(r)
        \/ \E r \in Requests, i \in CallIds :
             Send(r, i) \/ Resolve(r, i) \/ Handle(r, i) \/ Forward(r, i) \/ Backward(r, i)
Spec == Init /\ [][Next]_vars

-----------------------------------------------------------------------------

CallPhases == {"idle", "resolving", "sent", "returned", "done", "failed"}

\* Types of what the context passes through; a record keeps its fields.
TypeOK ==
  /\ scenario \in Scenarios /\ cached \in [Requests -> Context \cup {Absent}]
  /\ DOMAIN request = Requests /\ DOMAIN call = Requests
  /\ \A r \in Requests :
       /\ DOMAIN request[r] = DOMAIN NewRequest /\ request[r].phase \in {"new", "handling", "answered"}
       /\ request[r].session \in Sessions \cup {Absent}
       /\ DOMAIN call[r] = CallIds
       /\ \A i \in CallIds : /\ DOMAIN call[r][i] = DOMAIN IdleCall
                             /\ call[r][i].phase \in CallPhases /\ call[r][i].at \in {"gateway", "A", "B"}

\* The context a service reads is the one resolved for its call: with other
\* requests and other calls of the same request between the cache's check and its
\* use, the organisation and the user are those of the session of the request at the
\* root, at either depth, and no header that is sent on is changed or dropped.
Reads(session, resolved, d, ctx) ==
  LET Sent == IF d = 1 THEN HeaderKeys ELSE {"org", "user", "site", "timezone"} IN
  IF ctx = Absent THEN Unset(resolved["org"]) \/ Unset(resolved["user"])
  ELSE /\ ctx["org"] = session /\ ctx["user"] = session
       /\ \A k \in Sent : ctx[k] = IF resolved[k] = "" /\ k = "timezone" THEN "UTC" ELSE resolved[k]
       /\ \A k \in HeaderKeys \ Sent : ctx[k] = ""
ContextOfSession ==
  \A r \in Requests, i \in CallIds : \A d \in DOMAIN call[r][i].seen :
    Reads(request[r].session, call[r][i].ctx, d, call[r][i].seen[d])

\* The inductive invariant behind it: what is cached and sent was resolved for the
\* session of its request, and the headers at each hop are those of what was read.
Resolved(ctx, session) == session # Absent /\ ctx \in [HeaderKeys -> {session, ""}]
CallInv(r, i) ==
  LET c == call[r][i]
      session == request[r].session
      read == ParseNatsHeaders(ContextToHeaders(c.ctx)) IN
  /\ request[r].phase = "new" => c.phase = "idle"
  /\ c.phase \in {"idle", "resolving"} => c.seen = <<>>
  /\ c.phase = "resolving" => session # Absent
  /\ c.phase = "sent" =>
       /\ Resolved(c.ctx, session)
       /\ \/ c.at = "A" /\ c.headers = ContextToHeaders(c.ctx) /\ c.seen = <<>>
          \/ c.at = "B" /\ c.headers = MicroserviceHeaders(read) /\ c.seen = <<read>> /\ read # Absent
IInv ==
  /\ TypeOK
  /\ \A r \in Requests : cached[r] # Absent => request[r].phase # "new" /\ Resolved(cached[r], request[r].session)
  /\ \A r \in Requests, i \in CallIds : CallInv(r, i)
  /\ ContextOfSession

\* That an operation lives in a service does not show: over HTTP, an HTTP exception
\* or a unique violation it throws there is answered as one the gateway's own handler
\* throws, with the same status, code, label, detail and field errors (a validation
\* body, whose messages the payload joins, and a body without a detail aside; a
\* violation is looked for under five wrappers, and the status is that of an error).
Portable(e) ==
  \/ \E i \in DOMAIN e.causes : i \in 1..6 /\ e.causes[i] = "unique" /\ \A j \in 1..(i - 1) : e.causes[j] = "none"
  \/ /\ e.class = "HttpException" /\ e.status \in 400..599
     /\ e.body.shape \in {"text", "standard", "problem"} /\ e.body.detail # Absent
AsThrown ==
  \A r \in Requests :
    LET q == request[r] IN
    q.answer # Absent /\ q.transport = "http" /\ q.depth = 1 /\ Portable(q.thrown)
      => q.answer = HttpExceptionFilter(q.thrown)

\* An error of a service gets the same code, label and field errors over HTTP and
\* over GraphQL ("transport-consistent"), whatever the service threw, except what an
\* RpcException of its own carries in another shape than that of a problem with a status.
ProblemOrNone(e) ==
  \/ e.body.shape = "problem" /\ StatusOf(e) # Absent
  \/ e.body.label = Absent /\ e.body.fields = {}
TransportsAgree ==
  \A r \in Requests :
    LET q == request[r]
        http == HttpExceptionFilter(q.caught)
        graphql == GraphqlFormatError(q.caught, TRUE) IN
    q.answer # Absent /\ q.depth > 0 /\ ProblemOrNone(q.caught)
      => http.code = graphql.code /\ http.label = graphql.label /\ http.fields = graphql.fields

\* The log tells the answer: whatever else the gateway is doing, the id a client was
\* answered with finds every line of its request, unless the hook and the middleware are
\* both installed (the header then has the hook's id and the lines the middleware's), and
\* the status logged for a failed request is the status it got, when the error caught has
\* an error status and the filter does not translate it.
LogTellsAnswer ==
  \A r \in Requests : \A l \in request[r].log :
    /\ request[r].correlation.header # Absent /\ installed.entries # {"onRequest", "use"}
         => l.id = request[r].correlation.header
    /\ l.type = "http_error" /\ StatusOf(request[r].caught) \in 400..599 /\ ~IsUniqueViolation(request[r].caught)
         => l.status = request[r].answer.status

\* What the options ask for: a switch given in httpLogger prevails; one left out is that of
\* the preset, for which enableHttpLogger has no say.  The test preset has no httpLogger:
\* there enableHttpLogger decides, which is off, and of a partial httpLogger what is left
\* out is on.
Asked(switch) ==
  LET http == IF "httpLogger" \in DOMAIN logger.given THEN logger.given.httpLogger ELSE Undefined IN
  IF http # Undefined /\ switch \in DOMAIN Defined(http) THEN http[switch]
  ELSE CASE EnvironmentOf(logger.given) = "test" /\ http = Undefined ->
              "enableHttpLogger" \in DOMAIN Defined(logger.given) /\ logger.given.enableHttpLogger
         [] EnvironmentOf(logger.given) = "production" -> switch # "enableRequestLog"
         [] OTHER -> TRUE
\* The logger is configured as asked, under every preset and whichever options are given,
\* undefined or left out: no traffic is logged but what is asked for, with a level that lets
\* everything through no request asked for is missing, and a failure leaves its line in
\* every output Winston writes to, whatever is switched off, if Winston knows the level.
TrafficAsAsked ==
  \A r \in Requests :
    LET arrived == request[r].phase # "new" /\ request[r].transport = "http"
        line == \E l \in request[r].log : l.type = "http_request" IN
    /\ \A l \in request[r].log : l.type # "http_error" => Asked(SwitchOf(l.type))
    /\ arrived /\ logger.options.level = "debug" /\ Asked("enableRequestLog") => line
FailureLogged ==
  \A r \in Requests :
    LET q == request[r] IN
    q.answer # Absent /\ q.transport = "http" /\ logger.options.provider = "winston" /\ KnownToWinston(logger.options.level)
      => \E l \in q.log : /\ l.type = "http_error"
                          /\ l.sinks = {"console"} \cup IF logger.options.enableFileLogger THEN {"combined", "error"} ELSE {}
LoggedAsConfigured == TrafficAsAsked /\ FailureLogged

\* What the properties of errors and log lines rest on: an error that a call brings
\* back is a plain value, after one hop what the filter made of what was thrown; an
\* answered request has the filter's answer, and a line of its failure.
ErrorKept(thrown, error, depth) ==
  /\ IsThrowable(error)
  /\ depth # 0 => IsPayload(error)
  /\ depth = 1 => IsThrowable(thrown) /\ error = RpcProblemExceptionFilter(thrown)
CallTold(c) ==
  /\ c.phase \in {"idle", "resolving", "sent"} => c.error = NoError
  /\ c.phase = "returned" /\ c.error # NoError => c.depth = 2 /\ IsPayload(c.error)
  /\ c.phase = "failed" => ErrorKept(c.thrown, c.error, c.depth)
Switched(log, type) == Enabled(HttpLoggerOptions(log.options), SwitchOf(type))
SinksOf(log, level) == LogWithMetadata(log.options, log.filters, level)
LineTold(log, q, l) ==
  /\ l.id = q.correlation.store /\ q.transport = "http"
  /\ IF l.type = "http_error"
     THEN q.phase = "answered" /\ l.status = LoggedStatus(q.caught)
          /\ q.answer = HttpExceptionFilter(q.caught) /\ IsThrowable(q.caught)
     ELSE Switched(log, l.type)
OneIdentity(q) == q.correlation.header # Absent => q.correlation.store = q.correlation.header
RequestTold(log, q) ==
  /\ q.phase # "answered" => q.answer = Absent
  /\ q.phase = "new" => q.log = {}
  /\ \A l \in q.log : LineTold(log, q, l)
  /\ q.answer # Absent => ErrorKept(q.thrown, q.caught, q.depth) /\ q.answer = Filtered(q, q.caught)
  /\ q.phase # "new" /\ q.transport = "http" /\ SinksOf(log, "log") # {} /\ Switched(log, "http_request")
       => \E l \in q.log : l.type = "http_request"
  /\ q.answer # Absent /\ q.transport = "http" /\ SinksOf(log, "error") # {}
       => \E l \in q.log : l.type = "http_error" /\ l.sinks = SinksOf(log, "error")
ToldInv ==
  /\ installed \in scenario.installs
  /\ logger.options = MergeWithDefaults(logger.given) /\ logger.given \in scenario.loggers
  /\ installed.entries # {"onRequest", "use"} => \A r \in Requests : OneIdentity(request[r])
  /\ \A r \in Requests : RequestTold(logger, request[r])
  /\ \A r \in Requests, i \in CallIds : CallTold(call[r][i])

-----------------------------------------------------------------------------
(* What the comments and the README say, and the code does not do.         *)

\* "exceptions thrown as `@nestjs/common` errors still surface their real message
\* across NATS": the message of an HTTP exception reaches the client over HTTP, at
\* either depth.
MessageSurfaces ==
  \A r \in Requests :
    LET q == request[r] IN
    q.answer # Absent /\ q.transport = "http" /\ q.depth > 0 /\ Portable(q.thrown) => q.answer.detail = "told"

\* "Automatic logging of all HTTP traffic", with either logger: an answered
\* request has left a line of its answer.
AllTrafficLogged ==
  \A r \in Requests :
    request[r].phase = "answered" /\ request[r].transport = "http" /\ Asked("enableResponseLog")
      => \E l \in request[r].log : l.type \in {"http_response", "http_error"}
=============================================================================
