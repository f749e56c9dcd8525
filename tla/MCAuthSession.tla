---------------------------- MODULE MCAuthSession ----------------------------
(* Instances of AuthSession for TLC. *)
EXTENDS AuthSession, TLC

TypeOf == [s \in Sessions |-> IF s = "s1" THEN "USER" ELSE "DEVICE"]
AppTypeOf == [a \in Apps |-> "REST"]

Endpoint == [app |-> Absent, public |-> FALSE, sessions |-> Absent, sse |-> FALSE, skipCsrf |-> FALSE,
             transport |-> "http", method |-> "POST", mints |-> FALSE]
SessionEndpoints ==
  {[Endpoint EXCEPT !.mints = TRUE], [Endpoint EXCEPT !.sessions = {"USER"}, !.method = "GET"],
   [Endpoint EXCEPT !.sse = TRUE, !.method = "GET", !.sessions = {"USER"}],
   [Endpoint EXCEPT !.public = TRUE], [Endpoint EXCEPT !.transport = "graphql"]}
AppEndpoints ==
  {[Endpoint EXCEPT !.app = {}], [Endpoint EXCEPT !.app = {"REST"}], [Endpoint EXCEPT !.app = {"OTHER"}]}

Config == [csrfExemptTypes |-> {}, csrfExemptTransports |-> {"graphql"}, bindingExempt |-> {}, hook |-> TRUE,
           csrf |-> TRUE, endpoints |-> SessionEndpoints, requests |-> 1, issues |-> 3, signs |-> 0]
\* Every endpoint with one request at a time, an endpoint that mints and one
\* that does not with two; apps alone.
SomeConfigs ==
  {Config, [Config EXCEPT !.bindingExempt = {"DEVICE"}, !.csrfExemptTypes = {"DEVICE"}, !.hook = FALSE],
   [Config EXCEPT !.csrf = FALSE, !.issues = 1, !.endpoints = {Endpoint, [Endpoint EXCEPT !.skipCsrf = TRUE]}],
   [Config EXCEPT !.requests = 2, !.issues = 2, !.hook = FALSE,
                  !.endpoints = {[Endpoint EXCEPT !.mints = TRUE, !.skipCsrf = TRUE]}],
   [Config EXCEPT !.issues = 0, !.requests = 2, !.signs = 1, !.endpoints = AppEndpoints],
   [Config EXCEPT !.issues = 0, !.signs = 1, !.endpoints = AppEndpoints, !.hook = FALSE]}

Content(query, party, workspace) ==
  [method |-> "POST", path |-> "/people", orgId |-> Absent, body |-> "body", query |-> query,
   partyId |-> party, workspace |-> workspace]
Nowhere == [h \in WorkspaceHeaders |-> Absent]
SomeContents ==
  {Content("v", Absent, Nowhere), Content(Absent, "v", Nowhere), Content(Absent, Absent, Nowhere),
   Content(Absent, Absent, [Nowhere EXCEPT !["x-le-id"] = "v"]),
   Content(Absent, Absent, [Nowhere EXCEPT !["x-site-id"] = "v"])}
Symmetry == Permutations(Tabs) \cup Permutations(Requests)
=============================================================================
