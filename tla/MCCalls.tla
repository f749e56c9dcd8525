------------------------------ MODULE MCCalls ------------------------------
(***************************************************************************)
(* Three scenarios: requests that make calls side by side, whose services    *)
(* throw nothing of their own, one request with one call that meets        *)
(* every error, and one request under every configuration of the logger.    *)
(***************************************************************************)
EXTENDS Calls, TLC

CONSTANTS r1, r2, s1, s2

NestBody(shape) == [NoBody EXCEPT !.shape = shape, !.detail = "told"]
Nest(status, shape) == [AnError EXCEPT !.class = "HttpException", !.status = status, !.body = NestBody(shape)]
Plain(status, statusCode, detail) ==
  [AnError EXCEPT !.class = "object", !.status = status, !.statusCode = statusCode,
                  !.body = [NoBody EXCEPT !.shape = "problem", !.detail = detail]]
Rpc(thrown) == [AnError EXCEPT !.class = "RpcException", !.thrown = thrown]
Thrown ==
  {AnError, HttpProblem(409, "told", "told", {}), HttpProblem(422, "told", "told", {"field"}), HttpProblem(404, Absent, "told", {}),
   HttpProblem(403, "told", Absent, {}), Nest(400, "standard"), Nest(418, "text"), Nest(503, "standard"),
   [Nest(400, "validation") EXCEPT !.body.fields = {"field"}],
   [AnError EXCEPT !.causes = <<"unique">>], [AnError EXCEPT !.causes = <<"none", "unique">>],
   [Nest(400, "standard") EXCEPT !.causes = <<"none", "unique">>],
   [AnError EXCEPT !.causes = <<"none", "none", "none", "none", "none", "none", "unique">>],
   [AnError EXCEPT !.causes = <<"none", "other">>], [AnError EXCEPT !.class = "AxiosError"],
   Plain(404, 404, "told"), [AnError EXCEPT !.class = "primitive"],
   Rpc(Plain(409, 409, "told")), Rpc(Plain(Absent, 404, "told")), Rpc(Plain(429, Absent, Absent)), Rpc(Plain(302, Absent, "told")),
   Rpc(ErrorOf("object", Absent, Absent, Problem("told", "told", {"field"}))), Rpc(ErrorOf("object", 404, Absent, Problem("told", Absent, {}))),
   Rpc([AnError EXCEPT !.class = "primitive"])}

OrgOnly == {"org", "user"}
\* As the README has it installed.
Hooked == [entries |-> {"onRequest"}, includeInResponse |-> TRUE]
SideBySide ==
  [calls |-> (r1 :> {1, 2} @@ r2 :> {1}), errors |-> {}, transports |-> {"http"},
   resolvable |-> {HeaderKeys, OrgOnly}, installs |-> {Hooked},
   loggers |-> {[environment |-> "development"]}]
OneCall ==
  [calls |-> (r1 :> {1}), errors |-> Thrown, transports |-> {"http", "graphql"},
   resolvable |-> {HeaderKeys, OrgOnly, {"user", "site"}}, installs |-> Installations,
   loggers |-> {[environment |-> "development"]}]
\* Options that are given, undefined or left out.
Options ==
  {http @@ enable @@ level @@ provider @@ environment :
     environment \in {<<>>} \cup {[environment |-> e] : e \in {"development", "staging", "production", "test", "other"}},
     http \in {<<>>, [httpLogger |-> Undefined], [httpLogger |-> [enableRequestLog |-> Undefined, enableResponseLog |-> FALSE]],
              [httpLogger |-> [enableRequestLog |-> TRUE]]},
     enable \in {<<>>, [enableHttpLogger |-> Undefined], [enableHttpLogger |-> FALSE], [enableHttpLogger |-> TRUE]},
     level \in {<<>>, [level |-> Undefined], [level |-> "debug"], [level |-> "error"]},
     provider \in {<<>>, [provider |-> "default"]}}
Logs ==
  [calls |-> (r1 :> {}), errors |-> {AnError, HttpProblem(409, "told", "told", {})}, transports |-> {"http"},
   resolvable |-> {OrgOnly}, installs |-> {Hooked}, loggers |-> Options]
MCScenarios == {SideBySide, OneCall, Logs}
NestLogs == {[Logs EXCEPT !.loggers = {[environment |-> "development", provider |-> "default"]}]}
Symmetry == Permutations({s1, s2})
=============================================================================
