------------------------- MODULE MCPrimaryDatabase -------------------------
(* Instances of PrimaryDatabase for TLC. *)
EXTENDS PrimaryDatabase, TLC

\* Tenants are interchangeable: neither the fairness nor a liveness property
\* names one, so that the reduction is sound for both.
Symmetry == Permutations(Tenants)

\* Two instances in one: two flows, with two calls and one and one level
\* of nesting, or a single flow with room for all.
TwoFlowsOrDeep ==
  \/ /\ \A r \in Requests : calls[r] <= 2 /\ depth[r] <= 2
     /\ \E r \in Requests : calls[r] <= 1
  \/ \E r \in Requests : \A q \in Requests \ {r} : calls[q] = 0 /\ pc[q] = "idle" /\ store[q] = NoContext
=============================================================================
