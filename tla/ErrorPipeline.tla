---------------------------- MODULE ErrorPipeline ----------------------------
(***************************************************************************)
(* The exception filters: what becomes of an error on its way to the       *)
(* client, over HTTP, over GraphQL and over NATS.                          *)
(*                                                                         *)
(* An error is what the filters ask of it: its class, its numeric status   *)
(* and statusCode, the SQLSTATE codes along its chain of causes, and its   *)
(* body (getResponse() of an HttpException, the fields of an object).  A   *)
(* text is where it comes from: "told" by the thrower, "fallback" of the   *)
(* status or class, "generic".                                             *)
(***************************************************************************)
EXTENDS Integers, Sequences

CONSTANT Absent

Shapes == {"text", "problem", "validation", "standard", "other"}
Body == [shape : Shapes, label : {Absent, "told"}, detail : {Absent, "told"}, fields : SUBSET {"field"}]
NoBody == [shape |-> "other", label |-> Absent, detail |-> Absent, fields |-> {}]
\* causes: the code of the error, of its cause, ...; thrown: getError() of an
\* RpcException.
ErrorClasses == {"HttpException", "RpcException", "Error", "AxiosError", "object", "primitive"}
Problem(label, detail, fields) == [shape |-> "problem", label |-> label, detail |-> detail, fields |-> fields]
ErrorOf(class, status, statusCode, body) ==
  [class |-> class, status |-> status, statusCode |-> statusCode, causes |-> <<"none">>, body |-> body, thrown |-> Absent]
AnError == ErrorOf("Error", Absent, Absent, NoBody)

HttpProblem(status, label, detail, fields) == ErrorOf("HttpException", status, Absent, Problem(label, detail, fields))

\* What the filters may take for granted of what reaches them: a status is a
\* number, an HTTP exception has one and what is not an object has none; an RpcException
\* carries a plain value, as everything that came over NATS is.
Or(text, other) == IF text = Absent THEN other ELSE text
StatusOf(e) == Or(e.status, e.statusCode)
HasStatuses(e) ==
  /\ {e.status, e.statusCode} \subseteq Int \cup {Absent}
  /\ e.class = "primitive" => StatusOf(e) = Absent
IsPayload(e) == e.class \in {"object", "primitive"} /\ e.causes = <<"none">> /\ HasStatuses(e)
IsThrowable(e) ==
  /\ DOMAIN e.causes \subseteq Nat \ {0} /\ HasStatuses(e)
  /\ e.class = "HttpException" => e.status # Absent
  /\ e.class = "RpcException" => IsPayload(e.thrown)
ASSUME AbsentAssumption == Absent \notin Int \cup {"none", "told", "fallback", "generic"}

-----------------------------------------------------------------------------

\* The first code of the chain, six levels deep at most.
FindPgError(e) ==
  LET coded == {i \in DOMAIN e.causes : i <= 6 /\ e.causes[i] # "none"} IN
  IF coded = {} THEN "none" ELSE e.causes[CHOOSE i \in coded : \A j \in coded : i <= j]
\* Faulty variant: only the error itself is looked at, not what it wraps.
UniqueOnTop(e) == e.causes[1] = "unique"
IsUniqueViolation(e) == FindPgError(e) = "unique"
TryTranslatePgError(e) == IF IsUniqueViolation(e) THEN HttpProblem(409, "told", "told", {}) ELSE e

ErrorCodeFromStatus(status) ==
  CASE status = 401 -> "UNAUTHENTICATED"
    [] status = 403 -> "FORBIDDEN"
    [] status = 404 -> "NOT_FOUND"
    [] status \in {400, 422} -> "VALIDATION_FAILED"
    [] status = 409 -> "CONFLICT"
    [] status = 429 -> "RATE_LIMITED"
    [] status \in 400..499 \ {400, 401, 403, 404, 409, 422, 429} -> "BAD_REQUEST"
    [] OTHER -> "INTERNAL"

Extracted(label, detail, fields) == [label |-> label, detail |-> detail, fields |-> fields]
ExtractProblemFromResponse(body, fallback) ==
  CASE body.shape = "text" -> Extracted(Absent, "told", {})
    [] body.shape = "problem" -> Extracted(body.label, Or(body.detail, fallback), body.fields)
    [] body.shape = "validation" -> Extracted(Absent, "generic", body.fields)
    [] body.shape = "standard" -> Extracted(Absent, "told", {})
    [] OTHER -> Extracted(Absent, Absent, {})

-----------------------------------------------------------------------------
(* Over HTTP.                                                              *)

\* An object with a problem's detail or field errors has the shape "problem".
IsProblemLikeObject(e) ==
  /\ e.class # "primitive"
  /\ \/ e.status # Absent
     \/ e.statusCode # Absent
     \/ e.body.shape = "problem" /\ (e.body.detail # Absent \/ e.body.fields # {})
\* code is what the status stands for; over HTTP the answer says the status alone.
HttpAnswer(status, problem) ==
  [status |-> status, code |-> ErrorCodeFromStatus(status), label |-> problem.label, detail |-> problem.detail,
   fields |-> problem.fields]
\* A problem that names no status, or none of an error, is a 500.
HttpStatusOf(e) == IF StatusOf(e) # Absent /\ StatusOf(e) \in 400..599 THEN StatusOf(e) ELSE 500
HttpExceptionFilter(raw) ==
  LET e == TryTranslatePgError(raw) IN
  CASE e.class = "HttpException" ->
         LET problem == ExtractProblemFromResponse(e.body, "fallback") IN
         HttpAnswer(e.status, Extracted(problem.label, Or(problem.detail, "generic"), problem.fields))
    [] e.class # "HttpException" /\ IsProblemLikeObject(e) ->
         HttpAnswer(HttpStatusOf(e),
                    IF e.body.shape = "validation" THEN Extracted(Absent, "fallback", {})
                    ELSE Extracted(e.body.label, Or(e.body.detail, "fallback"),
                                   IF e.body.shape = "problem" THEN e.body.fields ELSE {}))
    [] e.class = "AxiosError" /\ ~IsProblemLikeObject(e) -> HttpAnswer(502, Extracted(Absent, "generic", {}))
    [] OTHER -> HttpAnswer(500, Extracted(Absent, "generic", {}))

-----------------------------------------------------------------------------
(* Over GraphQL.                                                           *)

\* Faulty variant: only `status` makes a problem.
HasStatus(e) == e.class # "primitive" /\ e.status # Absent
IsProblemLike(e) == e.class # "primitive" /\ (e.status # Absent \/ e.statusCode # Absent)
GraphqlFormatError(e, isProduction) ==
  LET found == e.class = "HttpException" \/ IsProblemLike(e)
      status == IF found THEN StatusOf(e) ELSE 500
      problem == IF found THEN ExtractProblemFromResponse(e.body, Or(e.body.detail, "fallback"))
                          ELSE Extracted(Absent, Absent, {})
      code == ErrorCodeFromStatus(status) IN
  [status |-> Absent, code |-> code, label |-> problem.label,
   detail |-> IF code = "INTERNAL" /\ isProduction THEN "generic" ELSE Or(problem.detail, "fallback"),
   fields |-> problem.fields]

-----------------------------------------------------------------------------
(* Over NATS: what the calling service catches.                            *)

\* Faulty variant: the status is left to the transport.
PayloadOfStatusless(body, status) == ErrorOf("object", Absent, Absent, Problem(Absent, "told", {}))
ToProblemPayload(body, status) ==
  LET label == IF body.shape = "problem" THEN body.label ELSE Absent
      detail == CASE body.shape = "problem" -> Or(body.detail, "generic")
                  [] body.shape = "other" -> "generic"
                  [] OTHER -> "told"
      fields == IF body.shape = "problem" THEN body.fields ELSE {} IN
  ErrorOf("object", status, status, Problem(label, detail, fields))
RpcProblemExceptionFilter(raw) ==
  LET e == TryTranslatePgError(raw) IN
  CASE e.class = "RpcException" -> e.thrown
    [] e.class = "HttpException" -> ToProblemPayload(e.body, e.status)
    [] e.class \in {"Error", "AxiosError"} -> ToProblemPayload(Problem(Absent, "told", {}), 500)
    [] OTHER -> ToProblemPayload(NoBody, 500)
=============================================================================
