-------------------------- MODULE MCPermissionDeps --------------------------
(* Instances of PermissionDeps for TLC. *)
EXTENDS PermissionDeps, TLC

\* Codes are compared for equality only.
Symmetry == Permutations(Codes)
=============================================================================
