------------------------------- MODULE DepsWalk -------------------------------
(***************************************************************************)
(* filterGrantedByDeps (catalog-resolver/permission-deps) as it runs: a    *)
(* depth-first walk that remembers the codes it found satisfied and        *)
(* answers a provisional yes for a code it is still visiting.  Where       *)
(* prerequisites form a cycle the answer depends on the order of the       *)
(* lists, which Order fixes.  (PermissionDeps has the same walk call by    *)
(* call, in every order.)                                                  *)
(***************************************************************************)
EXTENDS Sequences

CONSTANT Order  \* all permissions, in the order documents list them

\* The walk of a list: whether each code was answered yes, up to the first that was
\* not (`every`), and what is remembered after it (`ok`).
RECURSIVE CheckEvery(_, _, _, _, _)
\* `check` of one code.
CheckCode(c, ok, visiting, granted, edges) ==
  CASE c \in ok -> [yes |-> TRUE, ok |-> ok]
    [] c \notin ok \cup granted -> [yes |-> FALSE, ok |-> ok]
    [] c \in (granted \cap visiting) \ ok -> [yes |-> TRUE, ok |-> ok]
    [] OTHER ->
         LET needs == SelectSeq(Order, LAMBDA d : <<c, d>> \in edges)
             every == CheckEvery(needs, ok, visiting \cup {c}, granted, edges) IN
         [every EXCEPT !.ok = IF every.yes THEN @ \cup {c} ELSE @]
CheckEvery(codes, ok, visiting, granted, edges) ==
  IF codes = <<>> THEN [yes |-> TRUE, ok |-> ok]
  ELSE LET first == CheckCode(Head(codes), ok, visiting, granted, edges) IN
       IF first.yes THEN CheckEvery(Tail(codes), first.ok, visiting, granted, edges) ELSE first

\* Each granted code is checked, whatever was answered for the others.
RECURSIVE CheckAll(_, _, _, _)
CheckAll(codes, ok, granted, edges) ==
  IF codes = <<>> THEN ok
  ELSE CheckAll(Tail(codes), CheckCode(Head(codes), ok, {}, granted, edges).ok, granted, edges)

WalkGranted(granted, edges) ==
  CheckAll(SelectSeq(Order, LAMBDA c : c \in granted), {}, granted, edges)
=============================================================================
