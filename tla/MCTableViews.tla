---------------------------- MODULE MCTableViews ----------------------------
(* Instances of TableViews for TLC. *)
EXTENDS TableViews, TLC

\* What fairness does not tell apart.  Users have a pool each, and each pool
\* expires.
Symmetry == Permutations(Tasks) \cup Permutations(Views) \cup Permutations(Names) \cup Permutations(States)

\* Two instances in one: one view with every kind of request, or two views of
\* one user that compete for names, with mutations only and one more of them.
OneViewOrMutations ==
  \/ Cardinality(born) <= 1 /\ writes <= 2
  \/ /\ \A k \in Pools : cache[k] = Miss
     /\ \A p \in Tasks : Active(p) => task[p].op # "find"
     /\ Cardinality({row.owner : row \in Rows} \cup {task[p].user : p \in {q \in Tasks : Active(q)}}) <= 1
=============================================================================
