----------------------------- MODULE AuthSession -----------------------------
(***************************************************************************)
(* VrittiAuthGuard with TokenService and RequestService: which requests    *)
(* reach their handler, and as whom.                                       *)
(*                                                                         *)
(* Tabs of one browser share its cookie jar and each keep an access token; *)
(* the endpoints that log in and rotate (of the consuming server) mint     *)
(* pairs with TokenService.  Apps sign their requests, which are delayed,  *)
(* repeated and rewritten on the way.  A request is what its headers were  *)
(* when it was sent; the guard runs in steps, from one await to the next.  *)
(*                                                                         *)
(* The guard's hook (onAuthenticated) and Fastify's CSRF plugin are        *)
(* external: they answer in every way the guard distinguishes.  A JWT is   *)
(* its payload; the hash of a token is the token.                          *)
(***************************************************************************)
EXTENDS Integers, FiniteSets, SignedRequest

CONSTANTS Requests, Tabs,
          Sessions, SessionType,   \* the type of every session
          Apps, AppType,           \* clients on record and their types
          Contents,                \* what a signed request says
          Configs,                 \* deployments, see ConfigType
          AccessLife, RefreshLife, \* ticks
          MaxSkew, MaxDrift,       \* ticks; drift of an app's clock
          MaxNow

SafeMethods == {"GET", "HEAD", "OPTIONS"}
SessionTypes == {SessionType[s] : s \in Sessions}
AppTypes == {AppType[a] : a \in Apps}
\* The decorators of a handler: app and sessions are Absent without the
\* decorator, {} when it names no type.  mints: it issues a pair itself.
EndpointType ==
  [app : (SUBSET STRING) \cup {Absent}, public : BOOLEAN, sessions : (SUBSET STRING) \cup {Absent},
   sse : BOOLEAN, skipCsrf : BOOLEAN, transport : {"http", "graphql"}, method : SafeMethods \cup {"POST"},
   mints : BOOLEAN]
\* The guard's settings; for the model, the endpoints and bounds on the
\* requests, the pairs issued and the requests signed.
ConfigType ==
  [csrfExemptTypes : SUBSET SessionTypes, csrfExemptTransports : SUBSET {"http", "graphql"},
   bindingExempt : SUBSET SessionTypes, hook : BOOLEAN, csrf : BOOLEAN,
   endpoints : SUBSET EndpointType, requests : Nat, issues : Nat, signs : Nat]
\* Payloads of the tokens: an access token carries its refresh token's hash.
RefreshToken == [session : Sessions, tokenType : {"refresh"}, hash : {Absent}, exp : Nat]
AccessToken == [session : Sessions, tokenType : {"access"}, hash : RefreshToken, exp : Nat]
\* What the apps sign.
Headers == {SignRequestHeaders(content, a, clock) : content \in Contents, a \in Apps, clock \in (-MaxDrift)..(MaxNow + MaxDrift)}

ASSUME AuthAssumption ==
  /\ AccessLife \in Nat \ {0} /\ RefreshLife \in Nat \ {0}
  /\ MaxSkew \in Nat /\ MaxDrift \in Nat /\ MaxNow \in Nat
  /\ Configs \subseteq ConfigType /\ Contents \subseteq RequestInput
  /\ Absent \notin RefreshToken \cup AccessToken \cup Values \cup Apps \cup Contents \cup Headers

VARIABLES config,
          now,
          jar,    \* the refresh cookie of the browser
          held,   \* held[t]: the access token tab t keeps
          pairs,  \* history: access and refresh tokens minted together
          req     \* req[p]: a request and how far its guard came

vars == <<config, now, jar, held, pairs, req>>

Anyone == [session |-> Absent, tokenType |-> Absent, hash |-> Absent, appType |-> Absent]
NoRequest ==
  [phase |-> "unsent", endpoint |-> Absent, tab |-> Absent, access |-> Absent, cookie |-> Absent,
   app |-> Absent, content |-> Absent, original |-> Absent, headers |-> Absent, signedAt |-> Absent,
   info |-> Anyone, csrf |-> "unasked", patched |-> FALSE]

Init ==
  /\ config \in Configs
  /\ now = 0 /\ jar = Absent /\ pairs = {}
  /\ held = [t \in Tabs |-> Absent]
  /\ req = [p \in Requests |-> NoRequest]

-----------------------------------------------------------------------------
(* TokenService.  Metadata of the session is spread last into a payload.   *)

Spread(metadata, value) == IF metadata = Absent THEN value ELSE metadata
GenerateRefreshToken(info) ==
  [session |-> info.session, tokenType |-> Spread(info.tokenType, "refresh"), hash |-> info.hash,
   exp |-> now + RefreshLife]
GenerateAccessToken(info, refresh) ==
  [session |-> info.session, tokenType |-> Spread(info.tokenType, "access"),
   hash |-> Spread(info.hash, refresh), exp |-> now + AccessLife]

Validates(token, type) == token # Absent /\ now < token.exp /\ token.tokenType = type
\* Faulty variant: the access token may belong to another cookie.
AnyCookie(access, cookie) == cookie # Absent
ValidateTokenBinding(access, cookie) == cookie # Absent /\ access.hash = cookie

\* A tab gets a new pair: the cookie goes to the jar, the access token to the tab.
Mint(t, info) ==
  LET refresh == GenerateRefreshToken(info)
      access == GenerateAccessToken(info, refresh) IN
  /\ jar' = refresh
  /\ held' = [held EXCEPT ![t] = access]
  /\ pairs' = pairs \cup {<<access, refresh>>}

InfoOf(s) == [Anyone EXCEPT !.session = s]
Login(t, s) ==
  /\ Cardinality(pairs) < config.issues
  /\ Mint(t, InfoOf(s))
  /\ UNCHANGED <<config, now, req>>
Rotate(t) ==
  /\ Cardinality(pairs) < config.issues
  /\ Validates(jar, "refresh")
  /\ Mint(t, InfoOf(jar.session))
  /\ UNCHANGED <<config, now, req>>

-----------------------------------------------------------------------------
(* Requests on their way.                                                  *)

\* RequestService reads the tokens off the request: the header and the cookie
\* of the moment it was sent.  A client that is no browser tab sends no cookie.
Unsent(p) == req[p] = NoRequest /\ Cardinality({q \in Requests : req[q] # NoRequest}) < config.requests
Send(p, t, e) ==
  /\ Unsent(p)
  /\ \E access \in {held[t], jar, Absent}, cookie \in {jar, Absent} :
       req' = [req EXCEPT ![p] = [NoRequest EXCEPT !.phase = "sent", !.endpoint = e, !.tab = t,
                                    !.access = access, !.cookie = cookie]]
  /\ UNCHANGED <<config, now, jar, held, pairs>>

Signed == {p \in Requests : req[p].headers # Absent}
SendSigned(p, a, e, content, clock) ==
  /\ Unsent(p) /\ Cardinality(Signed) < config.signs
  /\ req' = [req EXCEPT ![p] = [NoRequest EXCEPT !.phase = "sent", !.endpoint = e, !.app = a,
                                  !.content = content, !.original = content, !.signedAt = now,
                                  !.headers = SignRequestHeaders(content, a, clock)]]
  /\ UNCHANGED <<config, now, jar, held, pairs>>
\* A proxy strips or rewrites a part of it, or sends it twice.
Rewrite(p, content) ==
  /\ p \in Signed /\ req[p].phase = "sent" /\ req[p].content = req[p].original /\ content # req[p].content
  /\ req' = [req EXCEPT ![p].content = content]
  /\ UNCHANGED <<config, now, jar, held, pairs>>
Repeat(p, q) ==
  /\ p \in Signed /\ Unsent(q)
  /\ req' = [req EXCEPT ![q] = [req[p] EXCEPT !.phase = "sent", !.info = Anyone, !.csrf = "unasked", !.patched = FALSE]]
  /\ UNCHANGED <<config, now, jar, held, pairs>>

Tick == now < MaxNow /\ now' = now + 1 /\ UNCHANGED <<config, jar, held, pairs, req>>

-----------------------------------------------------------------------------
(* VrittiAuthGuard.                                                        *)

Goes(p, phase) ==
  /\ req' = [req EXCEPT ![p].phase = phase]
  /\ UNCHANGED <<config, now, jar, held, pairs>>
GoesAs(p, phase, info) ==
  /\ req' = [req EXCEPT ![p].phase = phase, ![p].info = info]
  /\ UNCHANGED <<config, now, jar, held, pairs>>

\* Where a request goes when its session is settled.
SkipCsrf(e) == e.skipCsrf \/ e.transport \in config.csrfExemptTransports
CsrfExempt(e, info) ==
  \/ SkipCsrf(e)
  \/ info.session # Absent /\ SessionType[info.session] \in config.csrfExemptTypes
\* Faulty variant: a public handler needs no CSRF either.
SettledIfPublic(e, info) ==
  IF CsrfExempt(e, info) \/ e.method \in SafeMethods \/ e.public THEN "run" ELSE "csrf"
Settled(e, info) == IF CsrfExempt(e, info) \/ e.method \in SafeMethods THEN "run" ELSE "csrf"

Allows(types, type) == types = Absent \/ types = {} \/ type \in types

\* handleHttpAuth until its hook.
\* Faulty variant: the whole payload becomes the session.
KeepsHash(token) == [InfoOf(token.session) EXCEPT !.hash = token.hash]
SessionInfo(token) == InfoOf(token.session)
Authenticated(r) ==
  /\ Validates(r.access, "access")
  /\ SessionType[r.access.session] \notin config.bindingExempt => ValidateTokenBinding(r.access, r.cookie)
  /\ Allows(r.endpoint.sessions, SessionType[r.access.session])
HandleHttpAuth(p) ==
  LET r == req[p]
      info == SessionInfo(r.access) IN
  IF Authenticated(r) THEN GoesAs(p, IF config.hook THEN "hook" ELSE Settled(r.endpoint, info), info)
                      ELSE Goes(p, "refused")

\* The cookie of an event stream is its authentication; no hook, no CSRF.
HandleSseAuth(p) ==
  LET r == req[p]
      valid == Validates(r.cookie, "refresh") /\ Allows(r.endpoint.sessions, SessionType[r.cookie.session]) IN
  IF valid THEN GoesAs(p, "run", InfoOf(r.cookie.session)) ELSE Goes(p, "refused")

\* Without the hook nothing can verify the signature.
HandleAppAuth(p) == Goes(p, IF config.hook THEN "hook" ELSE "refused")

CanActivate(p) ==
  LET e == req[p].endpoint IN
  /\ req[p].phase = "sent"
  /\ \/ e.app # Absent /\ HandleAppAuth(p)
     \/ e.app = Absent /\ e.public /\ Goes(p, Settled(e, Anyone))
     \/ e.app = Absent /\ ~e.public /\ e.sse /\ HandleSseAuth(p)
     \/ e.app = Absent /\ ~e.public /\ ~e.sse /\ HandleHttpAuth(p)

\* The hook of a session resolves, or rejects and the guard with it.
OnAuthenticated(p) ==
  LET r == req[p] IN
  /\ r.phase = "hook" /\ r.endpoint.app = Absent
  /\ Goes(p, Settled(r.endpoint, r.info)) \/ Goes(p, "rejected")
\* The hook of an app verifies the signature with the key on record and sets
\* the type; the guard filters by it.
VerifyApp(p) ==
  LET r == req[p]
      verified == r.app \in Apps /\ VerifySignedRequest(r.content, r.headers, r.app, now, MaxSkew)
      allowed == r.endpoint.app = {} \/ AppType[r.app] \in r.endpoint.app IN
  /\ r.phase = "hook" /\ r.endpoint.app # Absent
  /\ IF verified /\ allowed THEN GoesAs(p, "run", [Anyone EXCEPT !.appType = AppType[r.app]])
                            ELSE Goes(p, "refused")

\* validateCsrf.  The plugin is called at once, with reply.send patched; its
\* next and the patched send restore it.
ValidateCsrf(p) ==
  /\ req[p].phase = "csrf" /\ req[p].csrf = "unasked"
  /\ req' = [req EXCEPT ![p] = IF config.csrf THEN [@ EXCEPT !.csrf = "asked", !.patched = TRUE]
                                              ELSE [@ EXCEPT !.phase = "rejected"]]
  /\ UNCHANGED <<config, now, jar, held, pairs>>
\* Faulty variant: next leaves the patched send.
LeavesPatched(r) == r.patched
Restored(r) == FALSE
CsrfAnswers(p) ==
  /\ req[p].phase = "csrf" /\ req[p].csrf = "asked"
  /\ \E how \in {"passed", "failed", "sent", "threw"} :
       req' = [req EXCEPT ![p].csrf = how, ![p].phase = IF how = "passed" THEN "run" ELSE "rejected",
                          ![p].patched = IF how = "threw" THEN TRUE ELSE Restored(req[p])]
  /\ UNCHANGED <<config, now, jar, held, pairs>>

-----------------------------------------------------------------------------
(* What comes after the guard: the handler, or the exception filter.  Both *)
(* answer through reply.send; a patched one swallows the answer.           *)

Reply(r, phase) == IF r.patched THEN [r EXCEPT !.phase = "swallowed", !.patched = FALSE] ELSE [r EXCEPT !.phase = phase]
RunHandler(p) ==
  LET r == req[p]
      mints == r.endpoint.mints /\ r.info.session # Absent /\ Cardinality(pairs) < config.issues IN
  /\ r.phase = "run"
  /\ req' = [req EXCEPT ![p] = Reply(r, "handled")]
  /\ IF mints THEN Mint(r.tab, r.info) ELSE UNCHANGED <<jar, held, pairs>>
  /\ UNCHANGED <<config, now>>
Refuse(p) ==
  /\ req[p].phase \in {"refused", "rejected"}
  /\ req' = [req EXCEPT ![p] = Reply(@, "answered")]
  /\ UNCHANGED <<config, now, jar, held, pairs>>

Ended(p) == req[p].phase \in {"unsent", "handled", "answered", "swallowed"}
Rest == (\A p \in Requests : Ended(p)) /\ UNCHANGED vars

Guarding(p) == CanActivate(p) \/ OnAuthenticated(p) \/ VerifyApp(p) \/ ValidateCsrf(p) \/ CsrfAnswers(p) \/ RunHandler(p) \/ Refuse(p)
Clients ==
  \/ \E t \in Tabs : (\E s \in Sessions : Login(t, s)) \/ Rotate(t)
  \/ \E p \in Requests, t \in Tabs, e \in config.endpoints : Send(p, t, e)
  \/ \E p \in Requests, a \in Apps, e \in config.endpoints, content \in Contents, clock \in (now - MaxDrift)..(now + MaxDrift) :
       SendSigned(p, a, e, content, clock)
  \/ \E p \in Requests, content \in Contents : Rewrite(p, content)
  \/ \E p, q \in Requests : Repeat(p, q)
Next == Clients \/ Tick \/ (\E p \in Requests : Guarding(p)) \/ Rest
Spec == Init /\ [][Next]_vars

-----------------------------------------------------------------------------
(* Properties.                                                             *)

Phases == {"unsent", "sent", "hook", "csrf", "run", "refused", "rejected", "handled", "answered", "swallowed"}
Info == [session : Sessions \cup {Absent}, tokenType : {Absent}, hash : {Absent}, appType : AppTypes \cup {Absent}]
RequestType ==
  [phase : Phases, endpoint : EndpointType \cup {Absent}, tab : Tabs \cup {Absent},
   access : AccessToken \cup RefreshToken \cup {Absent}, cookie : RefreshToken \cup {Absent},
   app : Apps \cup {Absent}, content : Contents \cup {Absent}, original : Contents \cup {Absent},
   headers : Headers \cup {Absent}, signedAt : Nat \cup {Absent}, info : Info,
   csrf : {"unasked", "asked", "passed", "failed", "sent", "threw"}, patched : BOOLEAN]

\* Types.  What a payload does not carry is part of them: no hash or type of a
\* token is ever part of a session, or of a refresh token.
TypeOK ==
  /\ config \in Configs /\ now \in 0..MaxNow
  /\ jar \in RefreshToken \cup {Absent}
  /\ held \in [Tabs -> AccessToken \cup {Absent}]
  /\ pairs \subseteq AccessToken \X RefreshToken
  /\ req \in [Requests -> RequestType]

Admitted(r) == r.phase \in {"run", "handled"}
BySession(r) == r.endpoint.app = Absent /\ ~r.endpoint.public /\ ~r.endpoint.sse

\* Token binding (refreshTokenHash): whichever tab logged in last and whoever
\* rotated the cookie meanwhile, a handler runs for the session of both the
\* access token and the cookie of its request, and those were minted together.
OneSession ==
  \A p \in Requests : LET r == req[p] IN
    Admitted(r) /\ BySession(r) /\ SessionType[r.info.session] \notin config.bindingExempt =>
      <<r.access, r.cookie>> \in pairs /\ r.info.session = r.cookie.session

\* The guard itself decides for a session by its tokens alone, through any number
\* of rotations and handlers that mint from request.sessionInfo: tokens that were
\* minted together and have not expired, for a session the endpoint allows, are
\* never refused; and none is admitted beyond the life of an access token, however
\* long its refresh token lives and whichever of the two the client sent.
Entitled(r) ==
  \/ BySession(r) /\ <<r.access, r.cookie>> \in pairs /\ now < r.access.exp
     /\ Allows(r.endpoint.sessions, SessionType[r.access.session])
  \/ /\ r.endpoint.app = Absent /\ ~r.endpoint.public /\ r.endpoint.sse
     /\ \E x \in pairs : x[2] = r.cookie /\ now < x[2].exp
     /\ Allows(r.endpoint.sessions, SessionType[r.cookie.session])
GuardDecides ==
  [][\A p \in Requests : req[p].phase = "sent" =>
       /\ req'[p].phase = "refused" => ~Entitled(req[p])
       /\ BySession(req[p]) /\ req'[p].phase \in {"hook", "csrf", "run"} =>
            req[p].access.exp - now \in 1..AccessLife]_vars

\* "CSRF is skipped via @SkipCsrf() or when the transport is exempt": the
\* handler of any other request that may change state, public ones included,
\* runs only after the plugin passed it.  Streams and apps carry no CSRF.
CsrfBeforeHandler ==
  \A p \in Requests : LET r == req[p] IN
    Admitted(r) /\ r.endpoint.app = Absent /\ r.endpoint.method \notin SafeMethods
      /\ (r.endpoint.public \/ ~r.endpoint.sse) /\ ~CsrfExempt(r.endpoint, r.info) => r.csrf = "passed"

\* An app's request is admitted only as it was signed, by a client whose type
\* the endpoint allows, and not longer after than the window and the drift of its
\* clock; and one that arrives so, its timestamp in the window, is not refused.
SignatureDecides ==
  [][\A p \in Requests :
       LET r == req[p]
           typed == r.endpoint.app = {} \/ AppType[r.app] \in r.endpoint.app IN
       r.phase = "hook" /\ r.app # Absent /\ r.endpoint.app # Absent =>
         /\ req'[p].phase = "run" => r.content = r.original /\ now - r.signedAt <= MaxSkew + MaxDrift /\ typed
         /\ req'[p].phase = "refused" =>
              ~(r.content = r.original /\ now - r.headers.timestamp \in (-MaxSkew)..MaxSkew /\ typed)]_vars

\* reply.send is back in place before anything answers, unless the CSRF
\* plugin threw: every request gets its answer.
Answered == \A p \in Requests : req[p].patched \/ req[p].phase = "swallowed" => req[p].csrf \in {"asked", "threw"}

-----------------------------------------------------------------------------
(* The inductive invariant.                                                *)

\* Tokens minted together agree, and an access token does not outlive its term.
PairsAgree ==
  \A x \in pairs : x[1].hash = x[2] /\ x[1].session = x[2].session /\ x[1].exp <= now + AccessLife
Issued(token) == token \in AccessToken => \E x \in pairs : x[1] = token

\* What the guard found about a request with a session stays true while it runs.
Sound(r) ==
  /\ Issued(r.access)
  /\ r = NoRequest \/ (r.phase # "unsent" /\ r.endpoint \in EndpointType)
  /\ r.phase = "sent" => r.info = Anyone
  /\ r.phase \in {"hook", "csrf", "run", "handled"} /\ BySession(r) =>
       /\ r.access \in AccessToken /\ r.info = InfoOf(r.access.session)
       /\ SessionType[r.access.session] \notin config.bindingExempt => ValidateTokenBinding(r.access, r.cookie)
IInv ==
  /\ TypeOK /\ PairsAgree
  /\ (jar # Absent => \E x \in pairs : x[2] = jar) /\ \A t \in Tabs : Issued(held[t])
  /\ \A p \in Requests : Sound(req[p])
  /\ CsrfBeforeHandler /\ Answered

\* A signed request carries what its app signed, at the time of the app's clock.
Stamped(r) ==
  /\ r.app # Absent <=> r.headers # Absent
  /\ r.app # Absent =>
       /\ r.app \in Apps /\ r.content \in Contents /\ r.original \in Contents /\ r.signedAt \in Nat
       /\ \E clock \in (r.signedAt - MaxDrift)..(r.signedAt + MaxDrift) :
            r.headers = SignRequestHeaders(r.original, r.app, clock)
SignedInv == \A p \in Requests : Stamped(req[p])
=============================================================================
