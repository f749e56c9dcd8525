-------------------------- MODULE AuthSession_proof --------------------------
(***************************************************************************)
(* Theorems about AuthSession: for any number of tabs, requests, sessions  *)
(* and apps, any decorators and settings, and tokens of any life.          *)
(***************************************************************************)
EXTENDS AuthSession, TLAPS

\* The state of the guard beside the requests.
Else == <<config, now, jar, held, pairs>>

LEMMA EmptyRequest == NoRequest \in RequestType /\ Anyone \in Info
BY DEF NoRequest, Anyone, RequestType, Phases, Info

\* A request changed in one of its fields is a request.
LEMMA Retyped ==
  ASSUME NEW r \in RequestType
  PROVE  /\ \A phase \in Phases : [r EXCEPT !.phase = phase] \in RequestType
         /\ \A info \in Info : [r EXCEPT !.info = info] \in RequestType
         /\ \A patched \in BOOLEAN : [r EXCEPT !.patched = patched] \in RequestType
         /\ \A csrf \in {"unasked", "asked", "passed", "failed", "sent", "threw"} : [r EXCEPT !.csrf = csrf] \in RequestType
<1>1. \A phase \in Phases : [r EXCEPT !.phase = phase] \in RequestType
  BY DEF RequestType
<1>2. \A info \in Info : [r EXCEPT !.info = info] \in RequestType
  BY DEF RequestType
<1>3. \A patched \in BOOLEAN : [r EXCEPT !.patched = patched] \in RequestType
  BY DEF RequestType
<1>4. \A csrf \in {"unasked", "asked", "passed", "failed", "sent", "threw"} : [r EXCEPT !.csrf = csrf] \in RequestType
  BY DEF RequestType
<1> QED
  BY <1>1, <1>2, <1>3, <1>4

-----------------------------------------------------------------------------
(* Pairs.                                                                  *)

\* What is minted from a session is a pair that agrees.
LEMMA Minting ==
  ASSUME TypeOK, PairsAgree, NEW t, NEW info \in Info, info.session \in Sessions,
         jar # Absent => \E x \in pairs : x[2] = jar,
         \A u \in Tabs : Issued(held[u]),
         Mint(t, info), UNCHANGED now
  PROVE  /\ jar' \in RefreshToken \cup {Absent}
         /\ held' \in [Tabs -> AccessToken \cup {Absent}]
         /\ pairs' \subseteq AccessToken \X RefreshToken
         /\ pairs \subseteq pairs'
         /\ PairsAgree'
         /\ jar' # Absent => \E x \in pairs' : x[2] = jar'
         /\ \A u \in Tabs : Issued(held[u])'
<1> DEFINE refresh == GenerateRefreshToken(info)
           access == GenerateAccessToken(info, refresh)
<1>1. now \in Nat /\ AccessLife \in Nat /\ RefreshLife \in Nat /\ info.tokenType = Absent /\ info.hash = Absent
  BY AuthAssumption DEF TypeOK, Info
<1>2. refresh \in RefreshToken /\ refresh.session = info.session
  BY <1>1 DEF GenerateRefreshToken, Spread, RefreshToken
<1>3. access \in AccessToken /\ access.session = info.session /\ access.hash = refresh /\ access.exp = now + AccessLife
  <2>1. access = [session |-> info.session, tokenType |-> "access", hash |-> refresh, exp |-> now + AccessLife]
    BY <1>1 DEF GenerateAccessToken, Spread
  <2> HIDE DEF refresh, access
  <2> QED
    BY <1>1, <1>2, <2>1 DEF AccessToken
<1>4. jar' = refresh /\ held' = [held EXCEPT ![t] = access] /\ pairs' = pairs \cup {<<access, refresh>>}
  BY DEF Mint
<1> HIDE DEF refresh, access
<1>5. jar' \in RefreshToken /\ pairs' \subseteq AccessToken \X RefreshToken /\ pairs \subseteq pairs'
  BY <1>2, <1>3, <1>4 DEF TypeOK
<1>6. held' \in [Tabs -> AccessToken \cup {Absent}]
  BY <1>3, <1>4 DEF TypeOK
<1>7. PairsAgree'
  BY <1>1, <1>2, <1>3, <1>4 DEF PairsAgree
<1>8. <<access, refresh>> \in pairs' /\ <<access, refresh>>[1] = access /\ <<access, refresh>>[2] = refresh
  BY <1>4
<1>9. \E x \in pairs' : x[2] = jar'
  BY <1>4, <1>8
<1>10. ASSUME NEW u \in Tabs
       PROVE  Issued(held[u])'
  <2>1. held'[u] = access \/ held'[u] = held[u]
    BY <1>4 DEF TypeOK
  <2> QED
    BY <1>5, <1>8, <2>1 DEF Issued
<1> QED
  BY <1>5, <1>6, <1>7, <1>9, <1>10

\* More pairs and a later time leave a sound request sound.
LEMMA StaysSound ==
  ASSUME NEW r, Sound(r), pairs \subseteq pairs', UNCHANGED config
  PROVE  Sound(r)'
BY DEF Sound, Issued, BySession, ValidateTokenBinding, InfoOf, Anyone

-----------------------------------------------------------------------------
(* Steps of one request.                                                   *)

\* What the properties ask of one request.
Guarded(r) ==
  /\ Admitted(r) /\ r.endpoint.app = Absent /\ r.endpoint.method \notin SafeMethods
       /\ (r.endpoint.public \/ ~r.endpoint.sse) /\ ~CsrfExempt(r.endpoint, r.info) => r.csrf = "passed"
  /\ r.patched \/ r.phase = "swallowed" => r.csrf \in {"asked", "threw"}

LEMMA AllGuarded == CsrfBeforeHandler /\ Answered <=> \A p \in Requests : Guarded(req[p])
BY DEF CsrfBeforeHandler, Answered, Guarded

\* One request moves and nothing else changes.
LEMMA OneMoves ==
  ASSUME IInv, NEW p \in Requests, NEW r \in RequestType, Sound(r), Guarded(r),
         req' = [req EXCEPT ![p] = r], UNCHANGED Else
  PROVE  IInv'
<1> USE DEF Else
<1>1. TypeOK'
  BY DEF IInv, TypeOK
<1>2. PairsAgree' /\ (jar # Absent => \E x \in pairs : x[2] = jar)' /\ (\A t \in Tabs : Issued(held[t]))'
  BY DEF IInv, PairsAgree, Issued
<1>3. \A q \in Requests : req'[q] = IF q = p THEN r ELSE req[q]
  BY DEF IInv, TypeOK
<1>4. \A q \in Requests : Sound(req[q])'
  <2> TAKE q \in Requests
  <2>1. Sound(req'[q])
    BY <1>3 DEF IInv
  <2> QED
    BY <2>1 DEF Sound, Issued, BySession, ValidateTokenBinding, InfoOf, Anyone
<1>5. (\A q \in Requests : Guarded(req[q]))'
  <2>1. \A q \in Requests : Guarded(req'[q])
    BY <1>3, AllGuarded DEF IInv
  <2> QED
    BY <2>1 DEF Guarded, Admitted, CsrfExempt, SkipCsrf
<1>6. (CsrfBeforeHandler /\ Answered)'
  BY <1>5 DEF CsrfBeforeHandler, Answered, Guarded
<1> QED
  BY <1>1, <1>2, <1>4, <1>6 DEF IInv

LEMMA Known ==
  ASSUME IInv, NEW p \in Requests
  PROVE  req[p] \in RequestType /\ Sound(req[p]) /\ Guarded(req[p])
BY AllGuarded DEF IInv, TypeOK

LEMMA Sends ==
  ASSUME IInv, NEW p \in Requests, NEW t \in Tabs, NEW e \in config.endpoints, Send(p, t, e)
  PROVE  IInv'
<1>1. config \in ConfigType
  BY AuthAssumption DEF IInv, TypeOK
<1>2. e \in EndpointType
  BY <1>1 DEF ConfigType
<1>3. PICK access \in {held[t], jar, Absent}, cookie \in {jar, Absent} :
        req' = [req EXCEPT ![p] = [NoRequest EXCEPT !.phase = "sent", !.endpoint = e, !.tab = t,
                                     !.access = access, !.cookie = cookie]]
  BY DEF Send
<1> DEFINE r == [NoRequest EXCEPT !.phase = "sent", !.endpoint = e, !.tab = t, !.access = access, !.cookie = cookie]
<1>4. access \in AccessToken \cup RefreshToken \cup {Absent} /\ cookie \in RefreshToken \cup {Absent}
  BY <1>3 DEF IInv, TypeOK
<1>5. Issued(access)
  <2>1. jar \notin AccessToken
    BY AuthAssumption DEF IInv, TypeOK, AccessToken, RefreshToken
  <2> QED
    BY <1>3, <2>1, AuthAssumption DEF IInv, Issued
<1>6. r \in RequestType
  BY <1>2, <1>4, EmptyRequest DEF RequestType, Phases
<1>7. r.access = access /\ r.phase = "sent" /\ r.endpoint = e /\ r.info = Anyone /\ ~r.patched
  BY DEF NoRequest
<1> HIDE DEF r
<1>8. Sound(r) /\ Guarded(r)
  BY <1>2, <1>5, <1>7 DEF Sound, Guarded, Admitted
<1> QED
  BY <1>3, <1>6, <1>8, OneMoves DEF r, Send, Else

LEMMA SendsSigned ==
  ASSUME IInv, NEW p \in Requests, NEW a \in Apps, NEW e \in config.endpoints, NEW content \in Contents,
         NEW clock \in (now - MaxDrift)..(now + MaxDrift), SendSigned(p, a, e, content, clock)
  PROVE  IInv'
<1>1. config \in ConfigType
  BY AuthAssumption DEF IInv, TypeOK
<1>2. e \in EndpointType
  BY <1>1 DEF ConfigType
<1> DEFINE r == [NoRequest EXCEPT !.phase = "sent", !.endpoint = e, !.app = a,
                                  !.content = content, !.original = content, !.signedAt = now,
                                  !.headers = SignRequestHeaders(content, a, clock)]
<1>3. now \in 0..MaxNow /\ MaxNow \in Nat /\ MaxDrift \in Nat
  BY AuthAssumption DEF IInv, TypeOK
<1>4. clock \in (-MaxDrift)..(MaxNow + MaxDrift) /\ now \in Nat
  BY <1>3
<1>5. SignRequestHeaders(content, a, clock) \in Headers
  BY <1>4 DEF Headers
<1>6. r \in RequestType
  BY <1>2, <1>4, <1>5, EmptyRequest DEF RequestType, Phases
<1>7. r.access = Absent /\ r.phase = "sent" /\ r.endpoint = e /\ r.info = Anyone /\ ~r.patched
  BY DEF NoRequest
<1>8. req' = [req EXCEPT ![p] = r] /\ UNCHANGED Else
  BY DEF SendSigned, Else
<1> HIDE DEF r
<1>9. Sound(r) /\ Guarded(r)
  BY <1>2, <1>7, AuthAssumption DEF Sound, Guarded, Admitted, Issued
<1> QED
  BY <1>6, <1>8, <1>9, OneMoves

LEMMA Rewrites ==
  ASSUME IInv, NEW p \in Requests, NEW content \in Contents, Rewrite(p, content)
  PROVE  IInv'
<1> DEFINE r == [req[p] EXCEPT !.content = content]
<1>1. req[p] \in RequestType /\ Sound(req[p]) /\ Guarded(req[p]) /\ req[p].phase = "sent"
  BY Known DEF Rewrite
<1>2. r \in RequestType /\ r.phase = "sent" /\ r.access = req[p].access /\ r.endpoint = req[p].endpoint
        /\ r.info = req[p].info /\ r.patched = req[p].patched /\ r.csrf = req[p].csrf
  BY <1>1 DEF RequestType
<1>3. req' = [req EXCEPT ![p] = r] /\ UNCHANGED Else
  BY DEF Rewrite, Else
<1> HIDE DEF r
<1>4. Sound(r) /\ Guarded(r)
  BY <1>1, <1>2 DEF Sound, Guarded, Admitted, NoRequest
<1> QED
  BY <1>2, <1>3, <1>4, OneMoves

LEMMA Repeats ==
  ASSUME IInv, NEW p \in Requests, NEW q \in Requests, Repeat(p, q)
  PROVE  IInv'
<1> DEFINE r == [req[p] EXCEPT !.phase = "sent", !.info = Anyone, !.csrf = "unasked", !.patched = FALSE]
<1>1. req[p] \in RequestType /\ Sound(req[p]) /\ req[p].headers # Absent
  BY Known DEF Repeat, Signed
<1>2. r \in RequestType /\ r.phase = "sent" /\ r.access = req[p].access /\ r.endpoint = req[p].endpoint
        /\ r.info = Anyone /\ ~r.patched
  <2>1. /\ r.phase = "sent" /\ r.info = Anyone /\ r.csrf = "unasked" /\ r.patched = FALSE
        /\ r.access = req[p].access /\ r.endpoint = req[p].endpoint
        /\ r = [req[p] EXCEPT !.phase = "sent", !.info = r.info, !.csrf = "unasked", !.patched = FALSE]
    BY <1>1 DEF RequestType
  <2> HIDE DEF r
  <2>2. r.info \in Info
    BY <2>1, EmptyRequest
  <2>3. r \in RequestType
    BY <1>1, <2>1, <2>2 DEF RequestType, Phases
  <2> QED
    BY <2>1, <2>3
<1>3. req' = [req EXCEPT ![q] = r] /\ UNCHANGED Else
  BY DEF Repeat, Else
<1>4. req[p].phase # "unsent"
  BY <1>1 DEF Sound, NoRequest
<1> HIDE DEF r
<1>5. Sound(r) /\ Guarded(r)
  BY <1>1, <1>2, <1>4 DEF Sound, Guarded, Admitted, NoRequest
<1> QED
  BY <1>2, <1>3, <1>5, OneMoves

-----------------------------------------------------------------------------
(* The guard.                                                              *)

Found(r, info) ==
  /\ r.access \in AccessToken /\ info = InfoOf(r.access.session)
  /\ SessionType[r.access.session] \notin config.bindingExempt => ValidateTokenBinding(r.access, r.cookie)
NeedsCsrf(e, info) ==
  e.app = Absent /\ e.method \notin SafeMethods /\ (e.public \/ ~e.sse) /\ ~CsrfExempt(e, info)

\* The guard takes a request to its next phase, with what it found.
LEMMA GuardMoves ==
  ASSUME IInv, NEW p \in Requests, NEW phase \in {"hook", "csrf", "run", "refused", "rejected"}, NEW info \in Info,
         req[p].phase # "unsent", GoesAs(p, phase, info),
         phase \in {"hook", "csrf", "run"} /\ BySession(req[p]) => Found(req[p], info),
         phase = "run" /\ NeedsCsrf(req[p].endpoint, info) => req[p].csrf = "passed"
  PROVE  IInv'
<1> DEFINE r == [req[p] EXCEPT !.phase = phase, !.info = info]
<1>1. req[p] \in RequestType /\ Sound(req[p]) /\ Guarded(req[p])
  BY Known
<1>2. r \in RequestType /\ r.phase = phase /\ r.info = info /\ r.access = req[p].access /\ r.cookie = req[p].cookie
        /\ r.endpoint = req[p].endpoint /\ r.patched = req[p].patched /\ r.csrf = req[p].csrf
  <2>1. [req[p] EXCEPT !.phase = phase] \in RequestType
    BY <1>1, Retyped DEF Phases
  <2>2. r = [[req[p] EXCEPT !.phase = phase] EXCEPT !.info = info]
    OBVIOUS
  <2>3. r \in RequestType
    BY <2>1, <2>2, Retyped
  <2> QED
    BY <1>1, <2>3 DEF RequestType
<1>3. req' = [req EXCEPT ![p] = r] /\ UNCHANGED Else
  BY DEF GoesAs, Else
<1> HIDE DEF r
<1>4. BySession(r) <=> BySession(req[p])
  BY <1>2 DEF BySession
<1>5. Sound(r)
  BY <1>1, <1>2, <1>4 DEF Sound, Found, NoRequest
<1>6. Guarded(r)
  BY <1>1, <1>2 DEF Guarded, NeedsCsrf, Admitted
<1> QED
  BY <1>2, <1>3, <1>5, <1>6, OneMoves

LEMMA KeepsInfo ==
  ASSUME IInv, NEW p \in Requests, NEW phase, Goes(p, phase)
  PROVE  GoesAs(p, phase, req[p].info) /\ req[p].info \in Info
<1>1. req[p] \in RequestType
  BY Known
<1>2. [req[p] EXCEPT !.phase = phase] = [req[p] EXCEPT !.phase = phase, !.info = req[p].info] /\ req[p].info \in Info
  BY <1>1 DEF RequestType
<1> QED
  BY <1>2 DEF Goes, GoesAs

\* Only what needs no CSRF runs at once.
LEMMA SettledRuns ==
  ASSUME NEW e, NEW info
  PROVE  Settled(e, info) \in {"run", "csrf"} /\ (Settled(e, info) = "run" => ~NeedsCsrf(e, info))
BY DEF Settled, NeedsCsrf

LEMMA AuthenticatedFound ==
  ASSUME IInv, NEW p \in Requests, Authenticated(req[p])
  PROVE  Found(req[p], SessionInfo(req[p].access)) /\ SessionInfo(req[p].access) \in Info
<1>1. req[p] \in RequestType
  BY Known
<1>2. req[p].access \in AccessToken
  BY <1>1 DEF Authenticated, Validates, RequestType, RefreshToken
<1>3. req[p].access.session \in Sessions
  BY <1>2 DEF AccessToken
<1>4. InfoOf(req[p].access.session) \in Info
  BY <1>3, EmptyRequest DEF InfoOf, Info
<1> QED
  BY <1>2, <1>4 DEF Authenticated, Found, SessionInfo

LEMMA Activates ==
  ASSUME IInv, NEW p \in Requests, CanActivate(p)
  PROVE  IInv'
<1> DEFINE e == req[p].endpoint
<1>1. req[p] \in RequestType /\ Sound(req[p]) /\ req[p].phase = "sent" /\ req[p].phase # "unsent"
  BY Known DEF CanActivate
<1>2. e \in EndpointType /\ req[p].info = Anyone
  BY <1>1 DEF Sound, NoRequest
<1>3. ASSUME Goes(p, "refused")
      PROVE  IInv'
  BY <1>1, <1>3, KeepsInfo, GuardMoves
<1>4. CASE e.app # Absent /\ HandleAppAuth(p)
  <2>1. CASE Goes(p, "hook")
    BY <1>1, <1>4, <2>1, KeepsInfo, GuardMoves DEF BySession
  <2> QED
    BY <1>3, <1>4, <2>1 DEF HandleAppAuth
<1>5. CASE e.app = Absent /\ e.public /\ Goes(p, Settled(e, Anyone))
  BY <1>1, <1>2, <1>5, KeepsInfo, GuardMoves, SettledRuns DEF BySession
<1>6. CASE e.app = Absent /\ ~e.public /\ e.sse /\ HandleSseAuth(p)
  <2>1. CASE ~Goes(p, "refused")
    <3>1. GoesAs(p, "run", InfoOf(req[p].cookie.session)) /\ Validates(req[p].cookie, "refresh")
      BY <1>6, <2>1 DEF HandleSseAuth
    <3>2. req[p].cookie.session \in Sessions
      BY <1>1, <3>1 DEF RequestType, Validates, RefreshToken
    <3>3. InfoOf(req[p].cookie.session) \in Info
      BY <3>2, EmptyRequest DEF InfoOf, Info
    <3> QED
      BY <1>1, <1>6, <3>1, <3>3, GuardMoves DEF BySession, NeedsCsrf
  <2> QED
    BY <1>3, <2>1
<1>7. CASE e.app = Absent /\ ~e.public /\ ~e.sse /\ HandleHttpAuth(p)
  <2>1. CASE Authenticated(req[p])
    <3> DEFINE info == SessionInfo(req[p].access)
               phase == IF config.hook THEN "hook" ELSE Settled(e, info)
    <3>1. GoesAs(p, phase, info)
      BY <1>7, <2>1 DEF HandleHttpAuth
    <3>2. Found(req[p], info) /\ info \in Info
      BY <2>1, AuthenticatedFound
    <3>3. phase \in {"hook", "run", "csrf"} /\ (phase = "run" => ~NeedsCsrf(e, info))
      BY SettledRuns
    <3> HIDE DEF info, phase
    <3> QED
      BY <1>1, <3>1, <3>2, <3>3, GuardMoves
  <2>2. CASE ~Authenticated(req[p])
    BY <1>3, <1>7, <2>2 DEF HandleHttpAuth
  <2> QED
    BY <2>1, <2>2
<1> QED
  BY <1>4, <1>5, <1>6, <1>7 DEF CanActivate

LEMMA HookAnswers ==
  ASSUME IInv, NEW p \in Requests, OnAuthenticated(p)
  PROVE  IInv'
<1>1. req[p] \in RequestType /\ Sound(req[p]) /\ req[p].phase = "hook" /\ req[p].phase # "unsent"
  BY Known DEF OnAuthenticated
<1>2. BySession(req[p]) => Found(req[p], req[p].info)
  BY <1>1 DEF Sound, Found
<1>3. CASE Goes(p, "rejected")
  BY <1>1, <1>3, KeepsInfo, GuardMoves
<1>4. CASE Goes(p, Settled(req[p].endpoint, req[p].info))
  BY <1>1, <1>2, <1>4, KeepsInfo, GuardMoves, SettledRuns
<1> QED
  BY <1>3, <1>4 DEF OnAuthenticated

LEMMA AppVerified ==
  ASSUME IInv, NEW p \in Requests, VerifyApp(p)
  PROVE  IInv'
<1>1. req[p].phase = "hook" /\ req[p].phase # "unsent" /\ req[p].endpoint.app # Absent
  BY DEF VerifyApp
<1>2. CASE Goes(p, "refused")
  BY <1>1, <1>2, KeepsInfo, GuardMoves
<1>3. CASE req[p].app \in Apps /\ GoesAs(p, "run", [Anyone EXCEPT !.appType = AppType[req[p].app]])
  <2>1. [Anyone EXCEPT !.appType = AppType[req[p].app]] \in Info
    BY <1>3, EmptyRequest DEF Info, AppTypes
  <2> QED
    BY <1>1, <1>3, <2>1, GuardMoves DEF BySession, NeedsCsrf
<1> QED
  BY <1>2, <1>3 DEF VerifyApp

LEMMA CsrfSteps ==
  ASSUME IInv, NEW p \in Requests, ValidateCsrf(p) \/ CsrfAnswers(p)
  PROVE  IInv'
<1>1. req[p] \in RequestType /\ Sound(req[p]) /\ Guarded(req[p]) /\ req[p].phase = "csrf" /\ UNCHANGED Else
  BY Known DEF ValidateCsrf, CsrfAnswers, Else
<1>2. ASSUME NEW r \in RequestType, req' = [req EXCEPT ![p] = r], r.endpoint = req[p].endpoint, r.access = req[p].access,
             r.cookie = req[p].cookie, r.info = req[p].info, r.phase \in {"csrf", "run", "rejected"},
             r.phase = "run" => r.csrf = "passed", r.patched => r.csrf \in {"asked", "threw"}
      PROVE  IInv'
  <2>1. BySession(r) <=> BySession(req[p])
    BY <1>2 DEF BySession
  <2>2. Sound(r) /\ Guarded(r)
    BY <1>1, <1>2, <2>1 DEF Sound, Guarded, Admitted, NoRequest
  <2> QED
    BY <1>1, <1>2, <2>2, OneMoves
<1>3. CASE ValidateCsrf(p)
  <2>1. CASE config.csrf
    <3> DEFINE r == [req[p] EXCEPT !.csrf = "asked", !.patched = TRUE]
    <3>1. r \in RequestType
      BY <1>1 DEF RequestType
    <3>2. req' = [req EXCEPT ![p] = r]
      BY <1>1, <1>3, <2>1 DEF ValidateCsrf, IInv, TypeOK
    <3>3. r.endpoint = req[p].endpoint /\ r.access = req[p].access /\ r.cookie = req[p].cookie /\ r.info = req[p].info
            /\ r.phase = "csrf" /\ r.csrf = "asked"
      BY <1>1 DEF RequestType
    <3> HIDE DEF r
    <3> QED
      BY <1>2, <3>1, <3>2, <3>3
  <2>2. CASE ~config.csrf
    <3> DEFINE r == [req[p] EXCEPT !.phase = "rejected"]
    <3>1. r \in RequestType
      BY <1>1 DEF RequestType, Phases
    <3>2. req' = [req EXCEPT ![p] = r]
      BY <1>1, <1>3, <2>2 DEF ValidateCsrf, IInv, TypeOK
    <3>3. r.endpoint = req[p].endpoint /\ r.access = req[p].access /\ r.cookie = req[p].cookie /\ r.info = req[p].info
            /\ r.phase = "rejected" /\ r.csrf = req[p].csrf /\ r.patched = req[p].patched
      BY <1>1 DEF RequestType
    <3> HIDE DEF r
    <3>4. r.patched => r.csrf \in {"asked", "threw"}
      BY <1>1, <3>3 DEF Guarded
    <3> QED
      BY <1>2, <3>1, <3>2, <3>3, <3>4
  <2> QED
    BY <2>1, <2>2
<1>4. CASE CsrfAnswers(p)
  <2>1. PICK how \in {"passed", "failed", "sent", "threw"} :
          req' = [req EXCEPT ![p].csrf = how, ![p].phase = IF how = "passed" THEN "run" ELSE "rejected",
                             ![p].patched = IF how = "threw" THEN TRUE ELSE Restored(req[p])]
    BY <1>4 DEF CsrfAnswers
  <2> DEFINE phase == IF how = "passed" THEN "run" ELSE "rejected"
             patched == how = "threw"
             r == [req[p] EXCEPT !.csrf = how, !.phase = phase, !.patched = patched]
  <2>2. req' = [req EXCEPT ![p] = r]
    BY <1>1, <2>1 DEF Restored, IInv, TypeOK
  <2>3. phase \in {"run", "rejected"} /\ (phase = "run" => how = "passed") /\ patched \in BOOLEAN /\ (patched => how = "threw")
    OBVIOUS
  <2> HIDE DEF phase, patched
  <2>4. r \in RequestType
    <3> DEFINE s == [req[p] EXCEPT !.csrf = how]
    <3>1. s \in RequestType /\ phase \in Phases
      BY <1>1, <2>3, Retyped DEF Phases
    <3>2. [s EXCEPT !.phase = phase] \in RequestType
      BY <3>1, Retyped
    <3>3. r = [[s EXCEPT !.phase = phase] EXCEPT !.patched = patched]
      OBVIOUS
    <3> QED
      BY <2>3, <3>2, <3>3, Retyped
  <2>5. r.endpoint = req[p].endpoint /\ r.access = req[p].access /\ r.cookie = req[p].cookie /\ r.info = req[p].info
          /\ r.phase = phase /\ r.csrf = how /\ r.patched = patched
    BY <1>1 DEF RequestType
  <2> HIDE DEF r
  <2> QED
    BY <1>2, <2>2, <2>3, <2>4, <2>5
<1> QED
  BY <1>3, <1>4

\* An answer leaves what was found about its request.
LEMMA Replies ==
  ASSUME NEW r \in RequestType, Sound(r), Guarded(r), NEW phase \in {"handled", "answered"},
         r.phase \in {"run", "refused", "rejected"}, phase = "handled" => r.phase = "run"
  PROVE  Reply(r, phase) \in RequestType /\ Sound(Reply(r, phase)) /\ Guarded(Reply(r, phase))
<1> DEFINE s == Reply(r, phase)
<1>1. s \in RequestType
  <2>1. [r EXCEPT !.phase = phase] \in RequestType /\ [r EXCEPT !.phase = "swallowed"] \in RequestType
    BY Retyped DEF Phases
  <2>2. [[r EXCEPT !.phase = "swallowed"] EXCEPT !.patched = FALSE] \in RequestType
    BY <2>1, Retyped
  <2>3. [r EXCEPT !.phase = "swallowed", !.patched = FALSE] = [[r EXCEPT !.phase = "swallowed"] EXCEPT !.patched = FALSE]
    OBVIOUS
  <2> QED
    BY <2>1, <2>2, <2>3 DEF Reply
<1>2. /\ s.endpoint = r.endpoint /\ s.access = r.access /\ s.cookie = r.cookie /\ s.info = r.info /\ s.csrf = r.csrf
      /\ IF r.patched THEN s.phase = "swallowed" /\ ~s.patched ELSE s.phase = phase /\ s.patched = r.patched
  BY DEF Reply, RequestType
<1> HIDE DEF s
<1>3. BySession(s) <=> BySession(r)
  BY <1>2 DEF BySession
<1>4. Sound(s) /\ Guarded(s)
  BY <1>2, <1>3 DEF Sound, Guarded, Admitted, NoRequest
<1> QED
  BY <1>1, <1>4 DEF s

LEMMA Refuses ==
  ASSUME IInv, NEW p \in Requests, Refuse(p)
  PROVE  IInv'
<1>1. req[p] \in RequestType /\ Sound(req[p]) /\ Guarded(req[p]) /\ req[p].phase \in {"refused", "rejected"}
  BY Known DEF Refuse
<1>2. req' = [req EXCEPT ![p] = Reply(req[p], "answered")] /\ UNCHANGED Else
  BY DEF Refuse, Else
<1> QED
  BY <1>1, <1>2, Replies, OneMoves

-----------------------------------------------------------------------------
(* Steps that mint, and time.                                              *)

\* Tokens are minted, and the requests stay.
LEMMA Mints ==
  ASSUME IInv, NEW t, NEW info \in Info, info.session \in Sessions, Mint(t, info), UNCHANGED <<config, now, req>>
  PROVE  IInv'
<1>1. /\ jar' \in RefreshToken \cup {Absent} /\ held' \in [Tabs -> AccessToken \cup {Absent}]
      /\ pairs' \subseteq AccessToken \X RefreshToken /\ pairs \subseteq pairs' /\ PairsAgree'
      /\ (jar # Absent => \E x \in pairs : x[2] = jar)' /\ (\A u \in Tabs : Issued(held[u]))'
  BY Minting DEF IInv
<1>2. TypeOK'
  BY <1>1 DEF IInv, TypeOK
<1>3. \A q \in Requests : Sound(req[q])'
  <2> TAKE q \in Requests
  <2>1. Sound(req[q])
    BY DEF IInv
  <2>2. Sound(req[q]) /\ req'[q] = req[q] => Sound(req[q])'
    BY <1>1 DEF Sound, Issued, BySession, ValidateTokenBinding, InfoOf, Anyone
  <2> QED
    BY <2>1, <2>2
<1>4. (CsrfBeforeHandler /\ Answered)'
  BY DEF IInv, CsrfBeforeHandler, Answered, Admitted, CsrfExempt, SkipCsrf
<1> QED
  BY <1>1, <1>2, <1>3, <1>4 DEF IInv

LEMMA Handles ==
  ASSUME IInv, NEW p \in Requests, RunHandler(p)
  PROVE  IInv'
<1> DEFINE r == Reply(req[p], "handled")
<1>1. req[p] \in RequestType /\ Sound(req[p]) /\ Guarded(req[p]) /\ req[p].phase = "run"
  BY Known DEF RunHandler
<1>2. r \in RequestType /\ Sound(r) /\ Guarded(r)
  BY <1>1, Replies
<1>3. req' = [req EXCEPT ![p] = r] /\ UNCHANGED <<config, now>>
  BY DEF RunHandler
<1>4. CASE UNCHANGED <<jar, held, pairs>>
  <2> HIDE DEF r
  <2> QED
    BY <1>2, <1>3, <1>4, OneMoves DEF Else
<1>5. CASE req[p].info.session # Absent /\ Mint(req[p].tab, req[p].info)
  <2>1. req[p].info \in Info /\ req[p].info.session \in Sessions
    BY <1>1, <1>5 DEF RequestType, Info
  <2>2. /\ jar' \in RefreshToken \cup {Absent} /\ held' \in [Tabs -> AccessToken \cup {Absent}]
        /\ pairs' \subseteq AccessToken \X RefreshToken /\ pairs \subseteq pairs' /\ PairsAgree'
        /\ (jar # Absent => \E x \in pairs : x[2] = jar)' /\ (\A u \in Tabs : Issued(held[u]))'
    BY <1>3, <1>5, <2>1, Minting DEF IInv
  <2> HIDE DEF r
  <2>3. TypeOK'
    BY <1>2, <1>3, <2>2 DEF IInv, TypeOK
  <2>4. \A q \in Requests : req'[q] = IF q = p THEN r ELSE req[q]
    BY <1>3 DEF IInv, TypeOK
  <2>5. \A q \in Requests : Sound(req[q])'
    <3> TAKE q \in Requests
    <3>1. Sound(req'[q])
      BY <1>2, <2>4 DEF IInv
    <3> QED
      BY <1>3, <2>2, <3>1 DEF Sound, Issued, BySession, ValidateTokenBinding, InfoOf, Anyone
  <2>6. \A q \in Requests : Guarded(req'[q])
    BY <1>2, <2>4, AllGuarded DEF IInv
  <2>7. (CsrfBeforeHandler /\ Answered)'
    BY <1>3, <2>6 DEF CsrfBeforeHandler, Answered, Guarded, Admitted, CsrfExempt, SkipCsrf
  <2> QED
    BY <2>2, <2>3, <2>5, <2>7 DEF IInv
<1> QED
  BY <1>4, <1>5 DEF RunHandler

LEMMA TokensIssued ==
  ASSUME IInv, NEW t \in Tabs, (\E s \in Sessions : Login(t, s)) \/ Rotate(t)
  PROVE  IInv'
<1>1. ASSUME NEW s \in Sessions
      PROVE  InfoOf(s) \in Info /\ InfoOf(s).session = s
  BY EmptyRequest DEF InfoOf, Info
<1>2. ASSUME NEW s \in Sessions, Login(t, s)
      PROVE  IInv'
  BY <1>1, <1>2, Mints DEF Login
<1>3. CASE Rotate(t)
  <2>1. jar.session \in Sessions
    BY <1>3 DEF Rotate, Validates, IInv, TypeOK, RefreshToken
  <2> QED
    BY <1>1, <1>3, <2>1, Mints DEF Rotate
<1> QED
  BY <1>2, <1>3

LEMMA Ticks ==
  ASSUME IInv, Tick
  PROVE  IInv'
<1>1. TypeOK'
  BY AuthAssumption DEF IInv, TypeOK, Tick
<1>2. PairsAgree'
  <2>1. \A x \in pairs : x[1].exp \in Nat
    BY DEF IInv, TypeOK, AccessToken
  <2> QED
    BY <2>1, AuthAssumption DEF IInv, TypeOK, Tick, PairsAgree
<1>3. \A q \in Requests : Sound(req[q])'
  <2> TAKE q \in Requests
  <2>1. Sound(req[q])
    BY DEF IInv
  <2> QED
    BY <2>1 DEF Tick, Sound, Issued, BySession, ValidateTokenBinding, InfoOf, Anyone
<1>4. (CsrfBeforeHandler /\ Answered)'
  BY DEF IInv, Tick, CsrfBeforeHandler, Answered, Admitted, CsrfExempt, SkipCsrf
<1>5. (jar # Absent => \E x \in pairs : x[2] = jar)' /\ (\A u \in Tabs : Issued(held[u]))'
  BY DEF IInv, Tick, Issued
<1> QED
  BY <1>1, <1>2, <1>3, <1>4, <1>5 DEF IInv

-----------------------------------------------------------------------------
(* The theorems.                                                           *)

LEMMA Start ==
  ASSUME Init
  PROVE  IInv
<1>1. TypeOK
  BY EmptyRequest, AuthAssumption DEF Init, TypeOK
<1>2. \A p \in Requests : Sound(req[p])
  BY AuthAssumption DEF Init, Sound, NoRequest, Issued
<1>3. CsrfBeforeHandler /\ Answered
  BY DEF Init, CsrfBeforeHandler, Answered, Admitted, NoRequest
<1> QED
  BY <1>1, <1>2, <1>3, AuthAssumption DEF Init, IInv, PairsAgree, Issued

LEMMA Steps ==
  ASSUME IInv, [Next]_vars
  PROVE  IInv'
<1>1. CASE Clients
  BY <1>1, TokensIssued, Sends, SendsSigned, Rewrites, Repeats DEF Clients
<1>2. CASE Tick
  BY <1>2, Ticks
<1>3. ASSUME NEW p \in Requests, Guarding(p)
      PROVE  IInv'
  BY <1>3, Activates, HookAnswers, AppVerified, CsrfSteps, Handles, Refuses DEF Guarding
<1>4. CASE UNCHANGED vars
  <2>1. TypeOK' /\ PairsAgree' /\ (CsrfBeforeHandler /\ Answered)'
    BY <1>4 DEF vars, IInv, TypeOK, PairsAgree, CsrfBeforeHandler, Answered, Admitted, CsrfExempt, SkipCsrf
  <2>2. (jar # Absent => \E x \in pairs : x[2] = jar)' /\ (\A t \in Tabs : Issued(held[t]))'
    BY <1>4 DEF vars, IInv, Issued
  <2>3. \A p \in Requests : Sound(req[p])'
    BY <1>4 DEF vars, IInv, Sound, Issued, BySession, ValidateTokenBinding, InfoOf, Anyone
  <2> QED
    BY <2>1, <2>2, <2>3 DEF IInv
<1> QED
  BY <1>1, <1>2, <1>3, <1>4 DEF Next, Rest

\* The invariant the properties of the guard rest on.
THEOREM Inductive == Spec => []IInv
<1>1. Init => IInv
  BY Start
<1>2. IInv /\ [Next]_vars => IInv'
  BY Steps
<1> QED
  BY <1>1, <1>2, PTL DEF Spec

\* Types, and that a session is never given a hash or a type of a token.
THEOREM TypeCorrect == Spec => []TypeOK
<1>1. IInv => TypeOK
  BY DEF IInv
<1> QED
  BY <1>1, Inductive, PTL

\* Two credentials admit only together: the access token and the cookie of an
\* admitted request were minted together, for the session its handler sees.
LEMMA BothOfOneSession ==
  ASSUME IInv
  PROVE  OneSession
<1> SUFFICES ASSUME NEW p \in Requests, Admitted(req[p]), BySession(req[p]),
                    SessionType[req[p].info.session] \notin config.bindingExempt
             PROVE  <<req[p].access, req[p].cookie>> \in pairs /\ req[p].info.session = req[p].cookie.session
  BY DEF OneSession
<1>1. req[p].access \in AccessToken /\ req[p].info = InfoOf(req[p].access.session) /\ Issued(req[p].access)
        /\ (SessionType[req[p].access.session] \notin config.bindingExempt
              => ValidateTokenBinding(req[p].access, req[p].cookie))
  BY Known DEF Sound, Admitted
<1>2. req[p].info.session = req[p].access.session
  BY <1>1 DEF InfoOf, Anyone
<1>3. req[p].access.hash = req[p].cookie
  BY <1>1, <1>2 DEF ValidateTokenBinding
<1>4. PICK x \in pairs : x[1] = req[p].access
  BY <1>1 DEF Issued
<1>5. x[2] = req[p].cookie /\ x[1].session = x[2].session /\ x = <<x[1], x[2]>>
  BY <1>3, <1>4 DEF IInv, TypeOK, PairsAgree
<1> QED
  BY <1>2, <1>4, <1>5

THEOREM BoundTokens == Spec => []OneSession
<1>1. IInv => OneSession
  BY BothOfOneSession
<1> QED
  BY <1>1, Inductive, PTL

\* Whatever the decorators, a handler that may change state and is not exempt
\* runs only after the CSRF plugin passed its request.
THEOREM CsrfChecked == Spec => []CsrfBeforeHandler
<1>1. IInv => CsrfBeforeHandler
  BY DEF IInv
<1> QED
  BY <1>1, Inductive, PTL

\* No answer is swallowed unless the plugin threw.
THEOREM EveryAnswerSent == Spec => []Answered
<1>1. IInv => Answered
  BY DEF IInv
<1> QED
  BY <1>1, Inductive, PTL

\* A request that was sent goes on by steps of its own guard alone.
LEMMA OnlyGuarding ==
  ASSUME IInv, [Next]_vars, NEW p \in Requests, req[p].phase # "unsent", ~Guarding(p)
  PROVE  req'[p].phase = req[p].phase
<1>1. req[p] \in RequestType /\ req[p] # NoRequest /\ req \in [Requests -> RequestType]
  BY Known DEF NoRequest, IInv, TypeOK
<1>2. ASSUME NEW q \in Requests, NEW r, req' = [req EXCEPT ![q] = r], q # p
      PROVE  req'[p].phase = req[p].phase
  BY <1>1, <1>2
<1>3. CASE Clients
  <2>1. CASE UNCHANGED req
    BY <2>1
  <2>2. ASSUME NEW q \in Requests, NEW t \in Tabs, NEW e \in config.endpoints, Send(q, t, e)
        PROVE  req'[p].phase = req[p].phase
    BY <1>1, <2>2 DEF Send, Unsent
  <2>3. ASSUME NEW q \in Requests, NEW a \in Apps, NEW e \in config.endpoints, NEW content \in Contents,
               NEW clock, SendSigned(q, a, e, content, clock)
        PROVE  req'[p].phase = req[p].phase
    BY <1>1, <2>3 DEF SendSigned, Unsent
  <2>4. ASSUME NEW q \in Requests, NEW content \in Contents, Rewrite(q, content)
        PROVE  req'[p].phase = req[p].phase
    BY <1>1, <2>4 DEF Rewrite, RequestType
  <2>5. ASSUME NEW q \in Requests, NEW s \in Requests, Repeat(q, s)
        PROVE  req'[p].phase = req[p].phase
    BY <1>1, <2>5 DEF Repeat, Unsent
  <2> QED
    BY <1>3, <2>1, <2>2, <2>3, <2>4, <2>5 DEF Clients, Login, Rotate
<1>4. ASSUME NEW q \in Requests, q # p, Guarding(q)
      PROVE  req'[p].phase = req[p].phase
  <2>1. CASE CanActivate(q) \/ OnAuthenticated(q) \/ VerifyApp(q)
    BY <1>1, <1>4, <2>1 DEF CanActivate, HandleAppAuth, HandleSseAuth, HandleHttpAuth, OnAuthenticated, VerifyApp, Goes, GoesAs
  <2>2. CASE ValidateCsrf(q) \/ CsrfAnswers(q) \/ RunHandler(q) \/ Refuse(q)
    BY <1>1, <1>4, <2>2 DEF ValidateCsrf, CsrfAnswers, RunHandler, Refuse
  <2> QED
    BY <1>4, <2>1, <2>2 DEF Guarding
<1>5. CASE Tick \/ UNCHANGED vars
  BY <1>5 DEF Tick, vars
<1> QED
  BY <1>3, <1>4, <1>5 DEF Next, Rest

\* Only CanActivate takes a request from where it was sent.
LEMMA OnlyTheGuard ==
  ASSUME IInv, [Next]_vars, NEW p \in Requests, req[p].phase = "sent", ~CanActivate(p)
  PROVE  req'[p].phase = "sent"
<1>1. ~Guarding(p)
  BY DEF Guarding, OnAuthenticated, VerifyApp, ValidateCsrf, CsrfAnswers, RunHandler, Refuse
<1> QED
  BY <1>1, OnlyGuarding

\* What entitles a request passes the checks of its handler's path.
LEMMA EntitledPasses ==
  ASSUME IInv, NEW p \in Requests, Entitled(req[p])
  PROVE  /\ BySession(req[p]) => Authenticated(req[p])
         /\ ~BySession(req[p]) => /\ req[p].endpoint.sse /\ Validates(req[p].cookie, "refresh")
                                  /\ Allows(req[p].endpoint.sessions, SessionType[req[p].cookie.session])
<1>1. \A x \in pairs : /\ x[1] # Absent /\ x[1].tokenType = "access" /\ x[1].hash = x[2]
                       /\ x[2] # Absent /\ x[2].tokenType = "refresh"
  BY AuthAssumption DEF IInv, TypeOK, PairsAgree, AccessToken, RefreshToken
<1>2. CASE BySession(req[p])
  <2>1. <<req[p].access, req[p].cookie>> \in pairs /\ now < req[p].access.exp
          /\ Allows(req[p].endpoint.sessions, SessionType[req[p].access.session])
    BY <1>2 DEF Entitled, BySession
  <2>2. req[p].access # Absent /\ req[p].access.tokenType = "access" /\ req[p].access.hash = req[p].cookie
          /\ req[p].cookie # Absent
    BY <1>1, <2>1
  <2> QED
    BY <1>2, <2>1, <2>2 DEF Authenticated, Validates, ValidateTokenBinding
<1>3. CASE ~BySession(req[p])
  BY <1>1, <1>3 DEF Entitled, Validates
<1> QED
  BY <1>2, <1>3

LEMMA Decision ==
  ASSUME IInv, NEW p \in Requests, CanActivate(p)
  PROVE  /\ req'[p].phase = "refused" => ~Entitled(req[p])
         /\ BySession(req[p]) /\ req'[p].phase \in {"hook", "csrf", "run"} =>
              req[p].access.exp - now \in 1..AccessLife
<1> DEFINE e == req[p].endpoint
<1>1. req[p] \in RequestType /\ Sound(req[p]) /\ req[p].phase = "sent" /\ req \in [Requests -> RequestType]
  BY Known DEF CanActivate, IInv, TypeOK
<1>2. ASSUME NEW phase, NEW info, Goes(p, phase) \/ GoesAs(p, phase, info)
      PROVE  req'[p].phase = phase
  BY <1>1, <1>2 DEF Goes, GoesAs, RequestType
<1>3. ASSUME req'[p].phase = "refused", Entitled(req[p])
      PROVE  FALSE
  <2>1. CASE BySession(req[p])
    <3> DEFINE info == SessionInfo(req[p].access)
               phase == IF config.hook THEN "hook" ELSE Settled(e, info)
    <3>1. GoesAs(p, phase, info)
      BY <1>3, <2>1, EntitledPasses DEF CanActivate, BySession, HandleHttpAuth
    <3>2. phase # "refused"
      BY SettledRuns
    <3> HIDE DEF phase, info
    <3> QED
      BY <1>2, <1>3, <3>1, <3>2
  <2>2. CASE ~BySession(req[p])
    <3>1. e.app = Absent /\ ~e.public /\ e.sse /\ HandleSseAuth(p)
      BY <1>3, <2>2 DEF Entitled, CanActivate, BySession
    <3>2. GoesAs(p, "run", InfoOf(req[p].cookie.session))
      BY <1>3, <2>2, <3>1, EntitledPasses DEF HandleSseAuth
    <3> QED
      BY <1>2, <1>3, <3>2
  <2> QED
    BY <2>1, <2>2
<1>4. ASSUME BySession(req[p]), req'[p].phase \in {"hook", "csrf", "run"}
      PROVE  req[p].access.exp - now \in 1..AccessLife
  <2>1. Authenticated(req[p])
    BY <1>2, <1>4 DEF CanActivate, BySession, HandleHttpAuth
  <2>2. req[p].access \in AccessToken /\ now < req[p].access.exp
    BY <2>1, AuthenticatedFound DEF Found, Authenticated, Validates
  <2>3. PICK x \in pairs : x[1] = req[p].access
    BY <1>1, <2>2 DEF Sound, Issued
  <2>4. req[p].access.exp <= now + AccessLife /\ req[p].access.exp \in Nat /\ now \in Nat /\ AccessLife \in Nat
    BY <2>2, <2>3, AuthAssumption DEF IInv, TypeOK, PairsAgree, AccessToken
  <2> QED
    BY <2>2, <2>4
<1> QED
  BY <1>3, <1>4

\* A legitimate pair of tokens is never refused by the guard, and no session is
\* admitted beyond the life of an access token.
THEOREM DecidesByTokens == Spec => GuardDecides
<1>1. ASSUME IInv, [Next]_vars, NEW p \in Requests, req[p].phase = "sent"
      PROVE  /\ req'[p].phase = "refused" => ~Entitled(req[p])
             /\ BySession(req[p]) /\ req'[p].phase \in {"hook", "csrf", "run"} =>
                  req[p].access.exp - now \in 1..AccessLife
  <2>1. CASE CanActivate(p)
    BY <1>1, <2>1, Decision
  <2>2. CASE ~CanActivate(p)
    <3>1. req'[p].phase = "sent"
      BY <1>1, <2>2, OnlyTheGuard
    <3> QED
      BY <3>1
  <2> QED
    BY <2>1, <2>2
<1>2. IInv /\ [Next]_vars =>
        [\A p \in Requests : req[p].phase = "sent" =>
           /\ req'[p].phase = "refused" => ~Entitled(req[p])
           /\ BySession(req[p]) /\ req'[p].phase \in {"hook", "csrf", "run"} =>
                req[p].access.exp - now \in 1..AccessLife]_vars
  BY <1>1
<1> QED
  BY <1>2, Inductive, PTL DEF Spec, GuardDecides
-----------------------------------------------------------------------------
(* What a signature covers.                                                *)

Labels == {"query", "party", "x-site-id", "x-sg-id", "x-le-id", "x-org-id"}
Line == Labels \X Values
\* No line of s has this label.
Free(s, label) == s \in Seq(Line) /\ \A i \in DOMAIN s : s[i][1] # label

LEMMA LineOf ==
  ASSUME NEW label \in Labels, NEW v \in Optional
  PROVE  /\ Labelled(label, v) \in Seq(Line)
         /\ \A other \in Labels : other # label => Free(Labelled(label, v), other)
<1>1. CASE v = Absent
  <2>1. Labelled(label, v) = <<>>
    BY <1>1 DEF Labelled
  <2> QED
    BY <2>1 DEF Free
<1>2. CASE v # Absent
  <2> DEFINE e == <<label, v>>
  <2>1. Labelled(label, v) = <<e>> /\ e \in Line /\ e[1] = label
    BY <1>2 DEF Labelled, Optional, Line
  <2> HIDE DEF e
  <2>2. <<e>> \in Seq(Line) /\ DOMAIN <<e>> = {1} /\ <<e>>[1] = e
    BY <2>1
  <2> QED
    BY <2>1, <2>2 DEF Free
<1> QED
  BY <1>1, <1>2

LEMMA FreeJoin ==
  ASSUME NEW label \in Labels, NEW s, NEW t, Free(s, label), Free(t, label)
  PROVE  Free(s \o t, label)
<1>1. s \in Seq(Line) /\ t \in Seq(Line) /\ s \o t \in Seq(Line)
  BY DEF Free
<1>2. ASSUME NEW i \in DOMAIN (s \o t) PROVE (s \o t)[i][1] # label
  <2>1. (s \o t)[i] = IF i <= Len(s) THEN s[i] ELSE t[i - Len(s)]
    BY <1>1
  <2>2. IF i <= Len(s) THEN i \in DOMAIN s ELSE i - Len(s) \in DOMAIN t
    BY <1>1
  <2> QED
    BY <2>1, <2>2 DEF Free
<1> QED
  BY <1>1, <1>2 DEF Free

LEMMA Ending ==
  ASSUME NEW S, NEW s \in Seq(S), NEW t \in Seq(S), NEW x \in S, NEW y \in S
  PROVE  /\ s \o <<x>> = t \o <<y>> => s = t /\ x = y
         /\ s \o <<x>> = t => Len(t) \in DOMAIN t /\ t[Len(t)] = x
<1>1. /\ Len(s \o <<x>>) = Len(s) + 1 /\ (s \o <<x>>)[Len(s) + 1] = x
      /\ \A i \in 1..Len(s) : (s \o <<x>>)[i] = s[i]
  OBVIOUS
<1>2. /\ Len(t \o <<y>>) = Len(t) + 1 /\ (t \o <<y>>)[Len(t) + 1] = y
      /\ \A i \in 1..Len(t) : (t \o <<y>>)[i] = t[i]
  OBVIOUS
<1>3. Len(s) \in Nat /\ Len(t) \in Nat
  OBVIOUS
<1>4. ASSUME s \o <<x>> = t \o <<y>>
      PROVE  s = t /\ x = y
  <2>1. Len(s) = Len(t)
    BY <1>1, <1>2, <1>3, <1>4
  <2>2. x = y
    BY <1>1, <1>2, <1>4, <2>1
  <2>3. \A i \in 1..Len(s) : s[i] = t[i]
    BY <1>1, <1>2, <1>4, <2>1
  <2> QED
    BY <2>1, <2>2, <2>3
<1>5. ASSUME s \o <<x>> = t
      PROVE  Len(t) \in DOMAIN t /\ t[Len(t)] = x
  BY <1>1, <1>3, <1>5
<1> QED
  BY <1>4, <1>5

\* A labelled line at the end can be told from what comes before it.
LEMMA LastLine ==
  ASSUME NEW label \in Labels, NEW v \in Optional, NEW w \in Optional, NEW s, NEW t,
         Free(s, label), Free(t, label), s \o Labelled(label, v) = t \o Labelled(label, w)
  PROVE  s = t /\ v = w
<1>1. s \in Seq(Line) /\ t \in Seq(Line)
  BY DEF Free
<1>2. ASSUME NEW x \in Optional
      PROVE  /\ x = Absent => Labelled(label, x) = <<>>
             /\ x # Absent => /\ <<label, x>> \in Line /\ <<label, x>>[1] = label
                              /\ Labelled(label, x) = <<<<label, x>>>>
  BY DEF Labelled, Optional, Line
<1>3. s \o <<>> = s /\ t \o <<>> = t
  BY <1>1
<1>4. CASE v = Absent /\ w = Absent
  BY <1>2, <1>3, <1>4
<1>5. CASE v # Absent /\ w # Absent
  <2> DEFINE x == <<label, v>>
             y == <<label, w>>
  <2>1. x \in Line /\ y \in Line /\ s \o <<x>> = t \o <<y>>
    BY <1>2, <1>5
  <2>2. x = y => v = w
    OBVIOUS
  <2> HIDE DEF x, y
  <2>3. s = t /\ x = y
    BY <1>1, <2>1, Ending
  <2> QED
    BY <2>2, <2>3
<1>6. ASSUME NEW x \in Optional, x # Absent, NEW a, NEW b, Free(a, label), Free(b, label),
             a \o Labelled(label, x) = b
      PROVE  FALSE
  <2> DEFINE e == <<label, x>>
  <2>1. a \in Seq(Line) /\ b \in Seq(Line)
    BY <1>6 DEF Free
  <2>2. e \in Line /\ e[1] = label /\ a \o <<e>> = b
    BY <1>2, <1>6
  <2> HIDE DEF e
  <2>3. Len(b) \in DOMAIN b /\ b[Len(b)] = e
    BY <2>1, <2>2, Ending
  <2> QED
    BY <1>6, <2>2, <2>3 DEF Free
<1>7. v = Absent <=> w = Absent
  <2>1. ~(v = Absent /\ w # Absent)
    BY <1>2, <1>3, <1>6
  <2>2. ~(v # Absent /\ w = Absent)
    BY <1>2, <1>3, <1>6
  <2> QED
    BY <2>1, <2>2
<1> QED
  BY <1>4, <1>5, <1>7

LEMMA InputOf ==
  ASSUME NEW r \in RequestInput
  PROVE  /\ r.query \in Optional /\ r.partyId \in Optional
         /\ r.workspace["x-site-id"] \in Optional /\ r.workspace["x-sg-id"] \in Optional
         /\ r.workspace["x-le-id"] \in Optional /\ r.workspace["x-org-id"] \in Optional
BY DEF RequestInput, WorkspaceHeaders

\* Every line of s has one of these labels.
Only(s, labels) == \A label \in Labels \ labels : Free(s, label)

LEMMA OneMore ==
  ASSUME NEW label \in Labels, NEW v \in Optional, NEW labels, NEW s, Only(s, labels)
  PROVE  Only(s \o Labelled(label, v), labels \cup {label})
<1> SUFFICES ASSUME NEW other \in Labels, other # label, other \notin labels
             PROVE  Free(s \o Labelled(label, v), other)
  BY DEF Only
<1>1. Free(s, other)
  BY DEF Only
<1>2. Free(Labelled(label, v), other)
  BY LineOf
<1> QED
  BY <1>1, <1>2, FreeJoin

LEMMA LastOfMany ==
  ASSUME NEW label \in Labels, NEW v \in Optional, NEW w \in Optional, NEW s, NEW t, NEW labels,
         label \notin labels, Only(s, labels), Only(t, labels),
         s \o Labelled(label, v) = t \o Labelled(label, w)
  PROVE  s = t /\ v = w
<1>1. Free(s, label) /\ Free(t, label)
  BY DEF Only
<1> QED
  BY <1>1, LastLine

\* The lines of the optional fields tell which are there and what they say:
\* the values are read back from the last line.
LEMMA LinesExact ==
  ASSUME NEW r \in RequestInput, NEW q \in RequestInput, OptionalLines(r) = OptionalLines(q)
  PROVE  r.query = q.query /\ r.partyId = q.partyId /\ r.workspace = q.workspace
<1>1. PICK a1 \in Optional, a2 \in Optional, a3 \in Optional, a4 \in Optional, a5 \in Optional, a6 \in Optional,
            b1 \in Optional, b2 \in Optional, b3 \in Optional, b4 \in Optional, b5 \in Optional, b6 \in Optional :
         /\ a1 = r.query /\ a2 = r.partyId /\ a3 = r.workspace["x-site-id"] /\ a4 = r.workspace["x-sg-id"]
         /\ a5 = r.workspace["x-le-id"] /\ a6 = r.workspace["x-org-id"]
         /\ b1 = q.query /\ b2 = q.partyId /\ b3 = q.workspace["x-site-id"] /\ b4 = q.workspace["x-sg-id"]
         /\ b5 = q.workspace["x-le-id"] /\ b6 = q.workspace["x-org-id"]
  BY InputOf
<1> DEFINE s1 == Labelled("query", a1)
           s2 == s1 \o Labelled("party", a2)
           s3 == s2 \o Labelled("x-site-id", a3)
           s4 == s3 \o Labelled("x-sg-id", a4)
           s5 == s4 \o Labelled("x-le-id", a5)
           t1 == Labelled("query", b1)
           t2 == t1 \o Labelled("party", b2)
           t3 == t2 \o Labelled("x-site-id", b3)
           t4 == t3 \o Labelled("x-sg-id", b4)
           t5 == t4 \o Labelled("x-le-id", b5)
           s6 == s5 \o Labelled("x-org-id", a6)
           t6 == t5 \o Labelled("x-org-id", b6)
           l1 == {"query"}
           l2 == l1 \cup {"party"}
           l3 == l2 \cup {"x-site-id"}
           l4 == l3 \cup {"x-sg-id"}
           l5 == l4 \cup {"x-le-id"}
<1>2. /\ "query" \in Labels /\ "party" \in Labels /\ "x-site-id" \in Labels /\ "x-sg-id" \in Labels
      /\ "x-le-id" \in Labels /\ "x-org-id" \in Labels
      /\ "party" \notin l1 /\ "x-site-id" \notin l2 /\ "x-sg-id" \notin l3 /\ "x-le-id" \notin l4 /\ "x-org-id" \notin l5
  BY DEF Labels
<1>3. s6 = t6
  BY <1>1 DEF OptionalLines
<1>4. Only(s1, l1) /\ Only(t1, l1)
  BY <1>2, LineOf DEF Only
<1>5. s1 = t1 => a1 = b1
  BY DEF Labelled
<1> HIDE DEF s1, t1, l1
<1>6. Only(s2, l2) /\ Only(t2, l2)
  BY <1>2, <1>4, OneMore
<1>7. s2 = t2 => s1 = t1 /\ a2 = b2
  BY <1>2, <1>4, LastOfMany
<1> HIDE DEF s2, t2, l2
<1>8. Only(s3, l3) /\ Only(t3, l3)
  BY <1>2, <1>6, OneMore
<1>9. s3 = t3 => s2 = t2 /\ a3 = b3
  BY <1>2, <1>6, LastOfMany
<1> HIDE DEF s3, t3, l3
<1>10. Only(s4, l4) /\ Only(t4, l4)
  BY <1>2, <1>8, OneMore
<1>11. s4 = t4 => s3 = t3 /\ a4 = b4
  BY <1>2, <1>8, LastOfMany
<1> HIDE DEF s4, t4, l4
<1>12. Only(s5, l5) /\ Only(t5, l5)
  BY <1>2, <1>10, OneMore
<1>13. s5 = t5 => s4 = t4 /\ a5 = b5
  BY <1>2, <1>10, LastOfMany
<1> HIDE DEF s5, t5, l5
<1>14. s6 = t6 => s5 = t5 /\ a6 = b6
  BY <1>2, <1>12, LastOfMany
<1> HIDE DEF s6, t6
<1>15. /\ r.query = q.query /\ r.partyId = q.partyId
       /\ r.workspace["x-site-id"] = q.workspace["x-site-id"] /\ r.workspace["x-sg-id"] = q.workspace["x-sg-id"]
       /\ r.workspace["x-le-id"] = q.workspace["x-le-id"] /\ r.workspace["x-org-id"] = q.workspace["x-org-id"]
  BY <1>1, <1>3, <1>5, <1>7, <1>9, <1>11, <1>13, <1>14
<1>16. r.workspace \in [WorkspaceHeaders -> Optional] /\ q.workspace \in [WorkspaceHeaders -> Optional]
  BY DEF RequestInput
<1>17. \A h \in WorkspaceHeaders : r.workspace[h] = q.workspace[h]
  BY <1>15 DEF WorkspaceHeaders
<1> QED
  BY <1>15, <1>16, <1>17

LEMMA LinesOf ==
  ASSUME NEW r \in RequestInput
  PROVE  OptionalLines(r) \in Seq(Line)
<1> DEFINE L(label, v) == Labelled(label, v)
<1>1. /\ L("query", r.query) \in Seq(Line) /\ L("party", r.partyId) \in Seq(Line)
      /\ L("x-site-id", r.workspace["x-site-id"]) \in Seq(Line) /\ L("x-sg-id", r.workspace["x-sg-id"]) \in Seq(Line)
      /\ L("x-le-id", r.workspace["x-le-id"]) \in Seq(Line) /\ L("x-org-id", r.workspace["x-org-id"]) \in Seq(Line)
  <2>1. \A label \in Labels, v \in Optional : L(label, v) \in Seq(Line)
    BY LineOf
  <2> HIDE DEF L
  <2> QED
    BY <2>1, InputOf DEF Labels
<1>2. OptionalLines(r) = L("query", r.query) \o L("party", r.partyId)
    \o L("x-site-id", r.workspace["x-site-id"]) \o L("x-sg-id", r.workspace["x-sg-id"])
    \o L("x-le-id", r.workspace["x-le-id"]) \o L("x-org-id", r.workspace["x-org-id"])
  BY DEF OptionalLines
<1>3. \A s, t \in Seq(Line) : s \o t \in Seq(Line)
  OBVIOUS
<1> HIDE DEF Line, L
<1> QED
  BY <1>1, <1>2, <1>3

\* "They are labelled so that 'query present, party absent' can never be
\* confused with 'party present, query absent'": two requests with one
\* canonical string and timestamp are the same request in every field.
THEOREM CanonicalExact ==
  ASSUME NEW r \in RequestInput, NEW q \in RequestInput, NEW ts, NEW us,
         BuildRequestCanonical(r, ts) = BuildRequestCanonical(q, us)
  PROVE  r = q /\ ts = us
<1> DEFINE head(x, t) == <<x.method, x.path, x.orgId, x.body, t>>
           all == BuildRequestCanonical(r, ts)
<1>1. all = head(r, ts) \o OptionalLines(r) /\ all = head(q, us) \o OptionalLines(q)
  BY DEF BuildRequestCanonical
<1>2. OptionalLines(r) \in Seq(Line) /\ OptionalLines(q) \in Seq(Line)
  BY LinesOf
<1> HIDE DEF all
<1>3. /\ all[1] = r.method /\ all[2] = r.path /\ all[3] = r.orgId /\ all[4] = r.body /\ all[5] = ts
      /\ Len(all) = 5 + Len(OptionalLines(r))
      /\ \A i \in 1..Len(OptionalLines(r)) : all[5 + i] = OptionalLines(r)[i]
  BY <1>1, <1>2
<1>4. /\ all[1] = q.method /\ all[2] = q.path /\ all[3] = q.orgId /\ all[4] = q.body /\ all[5] = us
      /\ Len(all) = 5 + Len(OptionalLines(q))
      /\ \A i \in 1..Len(OptionalLines(q)) : all[5 + i] = OptionalLines(q)[i]
  BY <1>1, <1>2
<1>5. OptionalLines(r) = OptionalLines(q)
  BY <1>2, <1>3, <1>4
<1>6. r.query = q.query /\ r.partyId = q.partyId /\ r.workspace = q.workspace
  BY <1>5, LinesExact
<1>7. r = q
  <2>1. r.method = q.method /\ r.path = q.path /\ r.orgId = q.orgId /\ r.body = q.body
    BY <1>3, <1>4
  <2> HIDE DEF head
  <2> QED
    BY <2>1, <1>6 DEF RequestInput
<1> QED
  BY <1>3, <1>4, <1>7

-----------------------------------------------------------------------------
(* What the apps signed.                                                   *)

\* s is r as far as its app signed it.
SameSigned(r, s) ==
  s.app = r.app /\ s.content = r.content /\ s.original = r.original /\ s.headers = r.headers /\ s.signedAt = r.signedAt

LEMMA StaysStamped ==
  ASSUME NEW r, NEW s, Stamped(r), SameSigned(r, s)
  PROVE  Stamped(s)
BY DEF Stamped, SameSigned

LEMMA SignedMoves ==
  ASSUME TypeOK, SignedInv, NEW p \in Requests, NEW r, Stamped(r), req' = [req EXCEPT ![p] = r]
  PROVE  SignedInv'
<1>1. \A q \in Requests : req'[q] = IF q = p THEN r ELSE req[q]
  BY DEF TypeOK
<1>2. \A q \in Requests : Stamped(req'[q])
  BY <1>1 DEF SignedInv
<1> QED
  BY <1>2 DEF SignedInv

LEMMA SignedKept ==
  ASSUME TypeOK, SignedInv, NEW p \in Requests, NEW r, SameSigned(req[p], r), req' = [req EXCEPT ![p] = r]
  PROVE  SignedInv'
<1>1. Stamped(r)
  BY StaysStamped DEF SignedInv
<1> QED
  BY <1>1, SignedMoves

LEMMA SignedSent ==
  ASSUME TypeOK, SignedInv, NEW p \in Requests, NEW a \in Apps, NEW e, NEW content \in Contents,
         NEW clock \in (now - MaxDrift)..(now + MaxDrift), SendSigned(p, a, e, content, clock)
  PROVE  SignedInv'
<1> DEFINE headers == SignRequestHeaders(content, a, clock)
           r == [NoRequest EXCEPT !.phase = "sent", !.endpoint = e, !.app = a,
                                  !.content = content, !.original = content, !.signedAt = now, !.headers = headers]
<1>1. req' = [req EXCEPT ![p] = r]
  BY DEF SendSigned
<1> HIDE DEF headers
<1>2. r.app = a /\ r.content = content /\ r.original = content /\ r.signedAt = now /\ r.headers = headers
  BY DEF NoRequest
<1> HIDE DEF r
<1>3. now \in Nat /\ a # Absent
  BY AuthAssumption DEF TypeOK
<1>4. r.headers = SignRequestHeaders(r.original, r.app, clock)
  BY <1>2 DEF headers
<1>5. headers # Absent
  <2>1. clock \in (-MaxDrift)..(MaxNow + MaxDrift)
    BY AuthAssumption DEF TypeOK
  <2>2. headers \in Headers
    BY <2>1 DEF headers, Headers
  <2> QED
    BY <2>2, AuthAssumption
<1>6. Stamped(r)
  BY <1>2, <1>3, <1>4, <1>5 DEF Stamped
<1> QED
  BY <1>1, <1>6, SignedMoves

LEMMA SignedRewritten ==
  ASSUME TypeOK, SignedInv, NEW p \in Requests, NEW content \in Contents, Rewrite(p, content)
  PROVE  SignedInv'
<1> DEFINE r == [req[p] EXCEPT !.content = content]
<1>1. req' = [req EXCEPT ![p] = r] /\ req[p].headers # Absent /\ Stamped(req[p]) /\ req[p] \in RequestType
  BY DEF Rewrite, Signed, SignedInv, TypeOK
<1>2. /\ r.app = req[p].app /\ r.content = content /\ r.original = req[p].original
      /\ r.headers = req[p].headers /\ r.signedAt = req[p].signedAt
  BY <1>1 DEF RequestType
<1> HIDE DEF r
<1>3. Stamped(r)
  BY <1>1, <1>2 DEF Stamped
<1> QED
  BY <1>1, <1>3, SignedMoves

LEMMA SignedRepeated ==
  ASSUME TypeOK, SignedInv, NEW p \in Requests, NEW q \in Requests, Repeat(p, q)
  PROVE  SignedInv'
<1> DEFINE r == [req[p] EXCEPT !.phase = "sent", !.info = Anyone, !.csrf = "unasked", !.patched = FALSE]
<1>1. req' = [req EXCEPT ![q] = r] /\ Stamped(req[p]) /\ req[p] \in RequestType
  BY DEF Repeat, SignedInv, TypeOK
<1>2. SameSigned(req[p], r)
  BY <1>1 DEF SameSigned, RequestType
<1> HIDE DEF r
<1>3. Stamped(r)
  BY <1>1, <1>2, StaysStamped
<1> QED
  BY <1>1, <1>3, SignedMoves

\* The guard, the handler and the filter leave what was signed.
LEMMA SignedGuarded ==
  ASSUME TypeOK, SignedInv, NEW p \in Requests, Guarding(p)
  PROVE  SignedInv'
<1>1. req[p] \in RequestType /\ req \in [Requests -> RequestType]
  BY DEF TypeOK
<1>2. ASSUME NEW phase, NEW info, GoesAs(p, phase, info)
      PROVE  SignedInv'
  <2> DEFINE r == [req[p] EXCEPT !.phase = phase, !.info = info]
  <2>1. req' = [req EXCEPT ![p] = r] /\ SameSigned(req[p], r)
    BY <1>1, <1>2 DEF GoesAs, SameSigned, RequestType
  <2> HIDE DEF r
  <2> QED
    BY <2>1, SignedKept
<1>3. ASSUME NEW phase, Goes(p, phase)
      PROVE  SignedInv'
  <2> DEFINE r == [req[p] EXCEPT !.phase = phase]
  <2>1. req' = [req EXCEPT ![p] = r] /\ SameSigned(req[p], r)
    BY <1>1, <1>3 DEF Goes, SameSigned, RequestType
  <2> HIDE DEF r
  <2> QED
    BY <2>1, SignedKept
<1>4. CASE CanActivate(p) \/ OnAuthenticated(p) \/ VerifyApp(p)
  BY <1>2, <1>3, <1>4 DEF CanActivate, HandleAppAuth, HandleSseAuth, HandleHttpAuth, OnAuthenticated, VerifyApp
<1>5. CASE ValidateCsrf(p)
  <2> DEFINE r == IF config.csrf THEN [req[p] EXCEPT !.csrf = "asked", !.patched = TRUE] ELSE [req[p] EXCEPT !.phase = "rejected"]
  <2>1. req' = [req EXCEPT ![p] = r] /\ SameSigned(req[p], r)
    BY <1>1, <1>5 DEF ValidateCsrf, SameSigned, RequestType
  <2> HIDE DEF r
  <2> QED
    BY <2>1, SignedKept
<1>6. CASE CsrfAnswers(p)
  <2>1. PICK how : req' = [req EXCEPT ![p].csrf = how, ![p].phase = IF how = "passed" THEN "run" ELSE "rejected",
                                      ![p].patched = IF how = "threw" THEN TRUE ELSE Restored(req[p])]
    BY <1>6 DEF CsrfAnswers
  <2> DEFINE phase == IF how = "passed" THEN "run" ELSE "rejected"
             patched == IF how = "threw" THEN TRUE ELSE Restored(req[p])
  <2> HIDE DEF phase, patched
  <2> DEFINE r == [req[p] EXCEPT !.csrf = how, !.phase = phase, !.patched = patched]
  <2>2. req' = [req EXCEPT ![p] = r]
    BY <1>1, <2>1 DEF phase, patched
  <2>3. SameSigned(req[p], r)
    BY <1>1 DEF SameSigned, RequestType
  <2> HIDE DEF r
  <2> QED
    BY <2>2, <2>3, SignedKept
<1>7. ASSUME NEW phase, req' = [req EXCEPT ![p] = Reply(req[p], phase)]
      PROVE  SignedInv'
  <2>1. SameSigned(req[p], Reply(req[p], phase))
    BY <1>1 DEF Reply, SameSigned, RequestType
  <2> QED
    BY <1>7, <2>1, SignedKept
<1>8. CASE RunHandler(p) \/ Refuse(p)
  BY <1>1, <1>7, <1>8 DEF RunHandler, Refuse
<1> QED
  BY <1>4, <1>5, <1>6, <1>8 DEF Guarding

LEMMA SignedSteps ==
  ASSUME TypeOK, SignedInv, [Next]_vars
  PROVE  SignedInv'
<1>1. CASE UNCHANGED req
  BY <1>1 DEF SignedInv
<1>2. ASSUME NEW p \in Requests, NEW t, NEW e, Send(p, t, e)
      PROVE  SignedInv'
  <2>1. PICK access, cookie :
          req' = [req EXCEPT ![p] = [NoRequest EXCEPT !.phase = "sent", !.endpoint = e, !.tab = t,
                                       !.access = access, !.cookie = cookie]]
    BY <1>2 DEF Send
  <2> DEFINE r == [NoRequest EXCEPT !.phase = "sent", !.endpoint = e, !.tab = t, !.access = access, !.cookie = cookie]
  <2>2. r.app = Absent /\ r.headers = Absent
    BY DEF NoRequest
  <2>3. Stamped(r)
    BY <2>2 DEF Stamped
  <2> HIDE DEF r
  <2> QED
    BY <2>1, <2>3, SignedMoves DEF r
<1>3. CASE Clients
  BY <1>1, <1>2, <1>3, SignedSent, SignedRewritten, SignedRepeated DEF Clients, Login, Rotate
<1>4. CASE Tick \/ Rest \/ UNCHANGED vars
  BY <1>1, <1>4 DEF Tick, Rest, vars
<1> QED
  BY <1>3, <1>4, SignedGuarded DEF Next

LEMMA SignedStart ==
  ASSUME Init
  PROVE  SignedInv
BY DEF Init, SignedInv, Stamped, NoRequest

\* Whatever is rewritten or repeated on the way, a signed request keeps the
\* record of what its app signed and when.
THEOREM AsSigned == Spec => []SignedInv
<1>1. Init => SignedInv
  BY SignedStart
<1>2. IInv => TypeOK
  BY DEF IInv
<1>3. TypeOK /\ SignedInv /\ [Next]_vars => SignedInv'
  BY SignedSteps
<1> QED
  BY <1>1, <1>2, <1>3, Inductive, PTL DEF Spec

-----------------------------------------------------------------------------
(* The hook of an app decides by the signature.                            *)

\* Only VerifyApp takes an app's request from the hook.
LEMMA OnlyTheHook ==
  ASSUME IInv, [Next]_vars, NEW p \in Requests, req[p].phase = "hook", req[p].endpoint.app # Absent, ~VerifyApp(p)
  PROVE  req'[p].phase = "hook"
<1>1. ~Guarding(p)
  BY DEF Guarding, OnAuthenticated, CanActivate, ValidateCsrf, CsrfAnswers, RunHandler, Refuse
<1> QED
  BY <1>1, OnlyGuarding

\* A signature that verifies was made over this very request.
LEMMA VerifiesAsSigned ==
  ASSUME NEW r, NEW q, NEW a, NEW clock \in Int, NEW headers, headers = SignRequestHeaders(q, a, clock),
         headers # Absent, a # Absent, r \in RequestInput, q \in RequestInput, now \in Int
  PROVE  VerifySignedRequest(r, headers, a, now, MaxSkew) <=> r = q /\ WithinSkew(now, clock, MaxSkew)
<1>1. headers.timestamp = clock /\ headers.signature = [key |-> a, over |-> BuildRequestCanonical(q, clock)]
  BY DEF SignRequestHeaders
<1>2. [key |-> a, over |-> BuildRequestCanonical(q, clock)] = [key |-> a, over |-> BuildRequestCanonical(r, clock)]
        <=> BuildRequestCanonical(q, clock) = BuildRequestCanonical(r, clock)
  <2> DEFINE x == BuildRequestCanonical(q, clock)
             y == BuildRequestCanonical(r, clock)
  <2> HIDE DEF x, y
  <2> SUFFICES [key |-> a, over |-> x] = [key |-> a, over |-> y] <=> x = y
    BY DEF x, y
  <2>1. [key |-> a, over |-> x].over = x /\ [key |-> a, over |-> y].over = y
    OBVIOUS
  <2> QED
    BY <2>1
<1>3. BuildRequestCanonical(q, clock) = BuildRequestCanonical(r, clock) <=> r = q
  BY CanonicalExact
<1> QED
  BY <1>1, <1>2, <1>3 DEF VerifySignedRequest

LEMMA AppDecision ==
  ASSUME IInv, SignedInv, NEW p \in Requests, VerifyApp(p), req[p].app # Absent
  PROVE  LET r == req[p]
             typed == r.endpoint.app = {} \/ AppType[r.app] \in r.endpoint.app IN
         /\ req'[p].phase = "run" => r.content = r.original /\ now - r.signedAt <= MaxSkew + MaxDrift /\ typed
         /\ req'[p].phase = "refused" =>
              ~(r.content = r.original /\ now - r.headers.timestamp \in (-MaxSkew)..MaxSkew /\ typed)
<1> DEFINE r == req[p]
           typed == r.endpoint.app = {} \/ AppType[r.app] \in r.endpoint.app
           verified == VerifySignedRequest(r.content, r.headers, r.app, now, MaxSkew)
<1>1. r \in RequestType /\ req \in [Requests -> RequestType] /\ Stamped(r)
  BY Known DEF IInv, TypeOK, SignedInv
<1>2. r.app \in Apps /\ r.content \in Contents /\ r.original \in Contents /\ r.signedAt \in Nat
  BY <1>1 DEF Stamped
<1>3. PICK clock \in (r.signedAt - MaxDrift)..(r.signedAt + MaxDrift) : r.headers = SignRequestHeaders(r.original, r.app, clock)
  BY <1>1 DEF Stamped
<1>4. now \in Nat /\ MaxSkew \in Nat /\ MaxDrift \in Nat
  BY AuthAssumption DEF IInv, TypeOK
<1>5. clock \in Int /\ clock <= r.signedAt + MaxDrift
  BY <1>2, <1>3, <1>4
<1>6. r.headers.timestamp = clock
  BY <1>3 DEF SignRequestHeaders
<1>7. r.headers # Absent
  BY <1>1 DEF Stamped
<1>8. verified <=> r.content = r.original /\ WithinSkew(now, clock, MaxSkew)
  <2>1. r.content \in RequestInput /\ r.original \in RequestInput /\ r.app # Absent
    BY <1>2, AuthAssumption
  <2> HIDE DEF r
  <2> QED
    BY <1>3, <1>4, <1>5, <1>7, <2>1, VerifiesAsSigned
<1>9. WithinSkew(now, clock, MaxSkew) <=> now - clock \in (-MaxSkew)..MaxSkew
  BY <1>4, <1>5 DEF WithinSkew
<1>10. WithinSkew(now, clock, MaxSkew) => now - r.signedAt <= MaxSkew + MaxDrift
  BY <1>2, <1>4, <1>5 DEF WithinSkew
<1>11. IF verified /\ typed THEN GoesAs(p, "run", [Anyone EXCEPT !.appType = AppType[r.app]]) ELSE Goes(p, "refused")
  BY <1>2 DEF VerifyApp
<1>12. IF verified /\ typed THEN req'[p].phase = "run" ELSE req'[p].phase = "refused"
  <2> HIDE DEF verified, typed
  <2> QED
    BY <1>1, <1>11 DEF GoesAs, Goes, RequestType
<1> HIDE DEF verified
<1> QED
  BY <1>6, <1>8, <1>9, <1>10, <1>12

\* A signed request runs only as signed, in time and for a type the endpoint
\* allows, and is not refused when it is all that.
THEOREM SignatureDecided == Spec => SignatureDecides
<1> DEFINE Decided(p) ==
       LET r == req[p]
           typed == r.endpoint.app = {} \/ AppType[r.app] \in r.endpoint.app IN
       r.phase = "hook" /\ r.app # Absent /\ r.endpoint.app # Absent =>
         /\ req'[p].phase = "run" => r.content = r.original /\ now - r.signedAt <= MaxSkew + MaxDrift /\ typed
         /\ req'[p].phase = "refused" =>
              ~(r.content = r.original /\ now - r.headers.timestamp \in (-MaxSkew)..MaxSkew /\ typed)
<1>1. ASSUME IInv, SignedInv, [Next]_vars, NEW p \in Requests
      PROVE  Decided(p)
  <2>1. CASE VerifyApp(p)
    BY <1>1, <2>1, AppDecision
  <2>2. CASE req[p].phase = "hook" /\ req[p].endpoint.app # Absent /\ ~VerifyApp(p)
    <3>1. req'[p].phase = "hook"
      BY <1>1, <2>2, OnlyTheHook
    <3> QED
      BY <3>1
  <2> QED
    BY <2>1, <2>2
<1>2. IInv /\ SignedInv /\ [Next]_vars => [\A p \in Requests : Decided(p)]_vars
  BY <1>1
<1> QED
  BY <1>2, Inductive, AsSigned, PTL DEF Spec, SignatureDecides
=============================================================================
