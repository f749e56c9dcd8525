--------------------------- MODULE PermissionDeps ---------------------------
(***************************************************************************)
(* catalog-resolver/permission-deps: the prerequisites between the         *)
(* permissions of one feature.  cascadeLocked and filterGrantedByDeps are  *)
(* recursive walks that remember the codes they marked and cut cycles with *)
(* a set `visiting`; prereqClosure is a worklist.  The walks are modelled  *)
(* call by call, with the call stack as a variable: what a walk remembers  *)
(* in the middle of a cycle is the interesting part.                       *)
(*                                                                         *)
(* The order in which a walk takes the codes of a list is left open: the   *)
(* lists come from a document, in any order.                               *)
(***************************************************************************)
EXTENDS Naturals, Sequences

CONSTANTS Codes,  \* the permissions of the feature
          Ghosts  \* codes that other documents still name, absent from it

ASSUME CodesAssumption == Codes \cap Ghosts = {}

Names == Codes \cup Ghosts
Jobs == {"closure", "lock", "filter"}
Verdicts == {"none", "yes", "no"}

VARIABLES job,    \* which function runs
          deps,   \* its DependsMap; a missing key reads as no edges
          given,  \* the code asked for, directlyLocked, or granted
          todo,   \* codes the outer loop (or the worklist) has not taken
          stack,  \* active calls of `check`, innermost first
          ret,    \* what the last call returned
          marked  \* out, locked, or ok

vars == <<job, deps, given, todo, stack, ret, marked>>

\* Edges to the code itself or to an absent code are dropped.
BuildDependsMap(dependsOn) ==
  [c \in Names |-> IF c \in Codes THEN {d \in dependsOn[c] : d # c /\ d \in Codes} ELSE {}]

Init ==
  /\ job \in Jobs
  /\ deps \in {BuildDependsMap(dependsOn) : dependsOn \in [Codes -> SUBSET Names]}
  /\ given \in SUBSET Names
  /\ job = "closure" => \E c \in Codes : given = {c}
  /\ todo = IF job = "lock" THEN Codes ELSE given
  /\ stack = <<>>
  /\ ret = "none"
  /\ marked = {}

Done == todo = {} /\ stack = <<>> /\ ret = "none"

-----------------------------------------------------------------------------
(* prereqClosure.                                                          *)

\* Faulty variants: `seen` is not consulted, or starts without the code.
ClosureSeesAll ==
  /\ job = "closure"
  /\ \E c \in todo :
       /\ todo' = (todo \ {c}) \cup deps[c]
       /\ marked' = marked \cup (deps[c] \ given)
  /\ UNCHANGED <<job, deps, given, stack, ret>>

ClosureForgetsStart ==
  /\ job = "closure"
  /\ \E c \in todo :
       LET new == deps[c] \ marked IN
       /\ todo' = (todo \ {c}) \cup new
       /\ marked' = marked \cup new
  /\ UNCHANGED <<job, deps, given, stack, ret>>

PrereqClosure ==
  /\ job = "closure"
  /\ \E c \in todo :
       LET new == deps[c] \ (marked \cup given) IN
       /\ todo' = (todo \ {c}) \cup new
       /\ marked' = marked \cup new
  /\ UNCHANGED <<job, deps, given, stack, ret>>

-----------------------------------------------------------------------------
(* The recursive walks.                                                    *)

Visiting == {stack[i].code : i \in DOMAIN stack}

\* Faulty variant: only direct prerequisites are looked at.
LockDirectOnly(c) == IF c \in marked \cup given THEN "yes" ELSE IF stack # <<>> THEN "no" ELSE "none"
\* The early returns of `check`; "none" is a call that recurses.
LockVerdict(c) ==
  CASE c \in marked \cup given -> "yes"
    [] c \notin marked \cup given /\ c \in Visiting -> "no"
    [] OTHER -> "none"
\* Faulty variants: a code that is not granted is walked like any other; the
\* cycle guard answers no.
FilterIgnoresGrants(c) ==
  CASE c \in marked -> "yes"
    [] c \in Visiting \ marked -> "yes"
    [] OTHER -> "none"
FilterRefusesCycles(c) ==
  CASE c \in marked -> "yes"
    [] c \notin marked /\ (c \notin given \/ c \in Visiting) -> "no"
    [] OTHER -> "none"
FilterVerdict(c) ==
  CASE c \in marked -> "yes"
    [] c \notin marked /\ c \notin given -> "no"
    [] c \in (given \cap Visiting) \ marked -> "yes"
    [] OTHER -> "none"
Verdict(c) == IF job = "lock" THEN LockVerdict(c) ELSE FilterVerdict(c)

\* `some` stops at yes, `every` at no; the other answer is that of a loop
\* that ran to its end.
Decisive == IF job = "lock" THEN "yes" ELSE "no"
Exhausted == IF job = "lock" THEN "no" ELSE "yes"
\* A call that returns yes marks its code.
MarkOn(answer, code) == marked' = IF answer = "yes" THEN marked \cup {code} ELSE marked

\* check(c), from the outer loop or from the loop of the innermost call.
Check(c) ==
  /\ ret = "none"
  /\ job # "closure"
  /\ \/ /\ stack = <<>> /\ c \in todo
        /\ todo' = todo \ {c}
        /\ stack' = IF Verdict(c) = "none" THEN <<[code |-> c, rest |-> deps[c]]>> ELSE stack
     \/ /\ stack # <<>> /\ c \in stack[1].rest
        /\ LET calls == <<[code |-> stack[1].code, rest |-> stack[1].rest \ {c}]>>
                       \o Tail(stack) IN
           stack' = IF Verdict(c) = "none"
                    THEN <<[code |-> c, rest |-> deps[c]]>> \o calls ELSE calls
        /\ UNCHANGED todo
  /\ ret' = Verdict(c)
  /\ MarkOn(IF job = "lock" THEN Verdict(c) ELSE "no", c)
  /\ UNCHANGED <<job, deps, given>>

\* The caller receives the answer: a decisive one ends its loop as well.
Receive ==
  /\ ret # "none"
  /\ IF stack # <<>> /\ ret = Decisive
     THEN /\ stack' = Tail(stack)
          /\ MarkOn(ret, stack[1].code)
          /\ UNCHANGED ret
     ELSE /\ ret' = "none"
          /\ UNCHANGED <<stack, marked>>
  /\ UNCHANGED <<job, deps, given, todo>>

\* Faulty variant: an exhausted call always marks its code.
MarksOnExhaustion ==
  /\ ret = "none"
  /\ stack # <<>> /\ stack[1].rest = {}
  /\ stack' = Tail(stack)
  /\ ret' = Exhausted
  /\ MarkOn("yes", stack[1].code)
  /\ UNCHANGED <<job, deps, given, todo>>

\* The loop over the prerequisites ran to its end.
ReturnExhausted ==
  /\ ret = "none"
  /\ stack # <<>> /\ stack[1].rest = {}
  /\ stack' = Tail(stack)
  /\ ret' = Exhausted
  /\ MarkOn(Exhausted, stack[1].code)
  /\ UNCHANGED <<job, deps, given, todo>>

Finished == Done /\ UNCHANGED vars

Walk == PrereqClosure \/ (\E c \in Names : Check(c)) \/ Receive \/ ReturnExhausted
Next == Walk \/ Finished
Spec == Init /\ [][Next]_vars
\* The code is sequential and synchronous: it runs until it returns.
FairSpec == Spec /\ WF_vars(Walk)

-----------------------------------------------------------------------------
(* The reference: prerequisites as the least closed set.                   *)

Closed(S) == \A c \in S : deps[c] \subseteq S
Prereqs(c) == {d \in Names : \A S \in SUBSET Names : Closed(S) /\ deps[c] \subseteq S => d \in S}
Acyclic == \A c \in Names : c \notin Prereqs(c)
Locked == {c \in Names : ({c} \cup Prereqs(c)) \cap given # {}}
Usable == {c \in given : Prereqs(c) \subseteq given}

-----------------------------------------------------------------------------
(* Properties.                                                             *)

\* Types, and the shape of the call stack: calls are distinct, each one a
\* direct prerequisite of its caller that the caller has taken.
TypeOK ==
  /\ job \in Jobs
  /\ deps \in [Names -> SUBSET Codes]
  /\ given \in SUBSET Names /\ todo \in SUBSET Names /\ marked \in SUBSET Names
  /\ stack \in Seq([code : Names, rest : SUBSET Codes])
  /\ ret \in Verdicts
  /\ \A i \in DOMAIN stack :
       /\ stack[i].rest \subseteq deps[stack[i].code]
       /\ \A j \in 1..(i - 1) : stack[j].code # stack[i].code
       /\ i > 1 => stack[i - 1].code \in deps[stack[i].code] \ stack[i].rest

\* prereqClosure returns the transitive prerequisites and, in a cycle too,
\* leaves the code itself out.
ClosureExact == Done /\ job = "closure" => \A c \in given : marked = Prereqs(c) \ {c}

\* cascadeLocked never locks a code that is not directly locked and has no
\* directly locked prerequisite, whatever cycles it cut.
LockSound == job = "lock" => marked \subseteq Locked

\* When it returns, every such code is locked: a no that a cycle forced on an
\* inner call was not remembered.
LockComplete == Done /\ job = "lock" => Locked \cap Codes \subseteq marked

\* filterGrantedByDeps never drops a granted code all of whose transitive
\* prerequisites are granted, whatever cycles it met.
FilterKeepsUsable == Done /\ job = "filter" => Usable \subseteq marked

\* Where the prerequisites form no cycle, it keeps nothing else.
FilterExactAcyclic == job = "filter" /\ Acyclic => marked \subseteq Usable

\* The four properties above made inductive.  A call on the stack is a
\* transitive prerequisite of every call below it; an answer on its way to a
\* caller says something of the caller.
Linked == \A i, j \in DOMAIN stack : i < j => stack[i].code \in Prereqs(stack[j].code)
ClosureInv == \A c \in given :
  /\ marked \subseteq Prereqs(c) \ {c}
  /\ todo \subseteq marked \cup {c}
  /\ \A d \in (marked \cup {c}) \ todo : deps[d] \subseteq marked \cup {c}
LockInv ==
  /\ marked \subseteq Locked
  /\ ret = "yes" /\ stack # <<>> => stack[1].code \in Locked
FilterInv ==
  /\ Usable \subseteq todo \cup marked \cup Visiting
  /\ ret = "no" /\ stack # <<>> => stack[1].code \notin Usable
\* What the innermost calls still wait for: everything they have taken and
\* that was answered yes is marked.
AcyclicInv ==
  /\ \A m \in marked : m \in given /\ deps[m] \subseteq marked
  /\ \A i \in DOMAIN stack :
       /\ stack[i].code \in given
       /\ i > 1 => deps[stack[i].code] \ stack[i].rest \subseteq marked \cup {stack[i - 1].code}
       /\ i = 1 /\ ret # "no" => deps[stack[i].code] \ stack[i].rest \subseteq marked
WalkInv ==
  /\ TypeOK
  /\ Linked
  /\ job = "closure" => stack = <<>> /\ ret = "none" /\ ClosureInv /\ \E c \in Codes : given = {c}
  /\ job = "lock" => LockInv
  /\ job = "filter" => FilterInv /\ (Acyclic => AcyclicInv)

\* Why a no that is not remembered loses nothing.  A call answered no to d
\* when, short of the codes V on the stack, d leads to nothing directly locked;
\* every prerequisite an active call has been through is of that kind, the one
\* being walked or the one just answered yes apart.
Under(s, i) == {s[j].code : j \in i..Len(s)}
CutOff(d, V) ==
  \/ d \in V
  \/ \E S \in SUBSET Names :
       d \in S /\ S \cap given = {} /\ \A x \in S : deps[x] \subseteq S \cup V
Refused(s, answer) == \A i \in DOMAIN s :
  /\ s[i].code \notin given
  /\ \A d \in deps[s[i].code] \ s[i].rest :
       \/ CutOff(d, Under(s, i))
       \/ i > 1 /\ d = s[i - 1].code
       \/ i = 1 /\ answer = "yes"
CompleteInv == job = "lock" =>
  /\ Refused(stack, ret)
  /\ \A c \in (Codes \cap Locked) \ (todo \cup marked) :
       stack # <<>> /\ c = stack[Len(stack)].code

\* Every function returns: the cycle guards bound the recursion.
Terminates == <>Done
=============================================================================
