---------------------------- MODULE SignedRequest ----------------------------
(***************************************************************************)
(* signing/request.ts: what the signature of an app's request covers and    *)
(* how long it is good for.  Hashes and signatures are ideal: a hash is the *)
(* hashed value, a signature names its key and the signed string.  A string *)
(* of lines is the sequence of its lines, a labelled line a pair.           *)
(***************************************************************************)
EXTENDS Integers, Sequences

CONSTANTS Absent, \* an optional field, a header or a token that is not there
          Values  \* what a field that is there may say, in one line

WorkspaceHeaders == {"x-site-id", "x-sg-id", "x-le-id", "x-org-id"}
Optional == Values \cup {Absent}
RequestInput ==
  [method : Values, path : Values, orgId : Optional, body : Optional, query : Optional, partyId : Optional,
   workspace : [WorkspaceHeaders -> Optional]]

\* Faulty variant: the values without their labels.
Unlabelled(label, value) == IF value = Absent THEN <<>> ELSE <<value>>
Labelled(label, value) == IF value = Absent THEN <<>> ELSE <<<<label, value>>>>

\* The workspace headers come in the order of WORKSPACE_HEADER_ORDER.
OptionalLines(r) ==
  Labelled("query", r.query) \o Labelled("party", r.partyId)
    \o Labelled("x-site-id", r.workspace["x-site-id"]) \o Labelled("x-sg-id", r.workspace["x-sg-id"])
    \o Labelled("x-le-id", r.workspace["x-le-id"]) \o Labelled("x-org-id", r.workspace["x-org-id"])
\* r is a request, ts the timestamp its signer stamped.
BuildRequestCanonical(r, ts) == <<r.method, r.path, r.orgId, r.body, ts>> \o OptionalLines(r)

SignRequestHeaders(r, key, clock) ==
  [timestamp |-> clock, signature |-> [key |-> key, over |-> BuildRequestCanonical(r, clock)]]

WithinSkew(clock, ts, maxSkew) == clock - ts <= maxSkew /\ ts - clock <= maxSkew

\* headers: the timestamp and the signature as they arrived; key: the one on
\* record for the caller, Absent when there is none.
VerifySignedRequest(r, headers, key, clock, maxSkew) ==
  /\ headers # Absent /\ key # Absent
  /\ WithinSkew(clock, headers.timestamp, maxSkew)
  /\ headers.signature = [key |-> key, over |-> BuildRequestCanonical(r, headers.timestamp)]
=============================================================================
