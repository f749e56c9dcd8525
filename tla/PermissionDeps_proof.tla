------------------------ MODULE PermissionDeps_proof ------------------------
(***************************************************************************)
(* Proofs about PermissionDeps: what the three functions compute, for      *)
(* every set of permissions and every graph over it.                       *)
(***************************************************************************)
EXTENDS PermissionDeps, TLAPS

Frames == [code : Names, rest : SUBSET Codes]

-----------------------------------------------------------------------------
(* The call stack.                                                         *)

\* What a recursive call does to the stack.
LEMMA PushStack ==
  ASSUME NEW F, NEW s \in Seq(F), NEW x \in F
  PROVE  LET t == <<x>> \o s IN
         /\ t \in Seq(F) /\ t # <<>> /\ t[1] = x
         /\ DOMAIN t = 1..(Len(s) + 1)
         /\ \A i \in DOMAIN t : i > 1 => i - 1 \in DOMAIN s /\ t[i] = s[i - 1]
OBVIOUS

\* What a return does to it.
LEMMA PopStack ==
  ASSUME NEW F, NEW s \in Seq(F), s # <<>>
  PROVE  /\ 1 \in DOMAIN s /\ s[1] \in F
         /\ Tail(s) \in Seq(F)
         /\ \A i \in DOMAIN Tail(s) : i + 1 \in DOMAIN s /\ Tail(s)[i] = s[i + 1]
         /\ Tail(s) # <<>> => 2 \in DOMAIN s /\ 1 \in DOMAIN Tail(s)
         /\ \A i \in DOMAIN s : i > 1 => i - 1 \in DOMAIN Tail(s)
OBVIOUS

\* What a step of the innermost loop does to it.
LEMMA ReplaceTop ==
  ASSUME NEW F, NEW s \in Seq(F), s # <<>>, NEW x \in F
  PROVE  LET t == <<x>> \o Tail(s) IN
         /\ t \in Seq(F) /\ t # <<>> /\ t[1] = x
         /\ DOMAIN t = DOMAIN s
         /\ 1 \in DOMAIN s
         /\ \A i \in DOMAIN s : i > 1 => i - 1 \in DOMAIN s /\ t[i] = s[i]
OBVIOUS

-----------------------------------------------------------------------------
(* The graph.                                                              *)

\* A direct prerequisite is one, and so are its own prerequisites.
LEMMA Direct ==
  ASSUME NEW c \in Names, NEW d \in deps[c], d \in Names
  PROVE  d \in Prereqs(c) /\ Prereqs(d) \subseteq Prereqs(c)
BY DEF Prereqs, Closed

LEMMA Transitive ==
  ASSUME NEW c \in Names, NEW d \in Prereqs(c), NEW e \in Prereqs(d)
  PROVE  e \in Prereqs(c)
BY DEF Prereqs, Closed

\* A closed set that holds the direct prerequisites holds them all.
LEMMA Least ==
  ASSUME NEW c \in Names, NEW S \in SUBSET Names, Closed(S), deps[c] \subseteq S
  PROVE  Prereqs(c) \subseteq S
BY DEF Prereqs

\* The graph and the given codes do not change while a function runs.
LEMMA SameGraph ==
  ASSUME deps' = deps, given' = given
  PROVE  /\ \A c : Prereqs(c)' = Prereqs(c)
         /\ Usable' = Usable /\ Locked' = Locked /\ Acyclic' = Acyclic
<1>1. \A c : Prereqs(c)' = Prereqs(c)
  BY DEF Prereqs, Closed
<1>2. QED
  BY <1>1 DEF Usable, Locked, Acyclic

\* A code with a locked prerequisite is locked.
LEMMA LockedUp ==
  ASSUME NEW c \in Names, NEW d \in deps[c], d \in Locked
  PROVE  c \in Locked
BY Direct DEF Locked

\* A code with an unusable prerequisite is unusable.
LEMMA UsableDown ==
  ASSUME NEW c \in Usable, NEW d \in deps[c], given \subseteq Names, d \in Names
  PROVE  d \in Usable
BY Direct DEF Usable

-----------------------------------------------------------------------------
(* What pushing, popping and taking a prerequisite do to a stack of calls. *)

Shape(s) ==
  /\ s \in Seq(Frames)
  /\ \A i \in DOMAIN s :
       /\ s[i].rest \subseteq deps[s[i].code]
       /\ \A j \in 1..(i - 1) : s[j].code # s[i].code
       /\ i > 1 => s[i - 1].code \in deps[s[i].code] \ s[i].rest
Chain(s) == \A i, j \in DOMAIN s : i < j => s[i].code \in Prereqs(s[j].code)
CodesOf(s) == {s[i].code : i \in DOMAIN s}

LEMMA TypedShape ==
  /\ TypeOK => Shape(stack) /\ deps \in [Names -> SUBSET Codes] /\ given \subseteq Names
  /\ Linked <=> Chain(stack)
  /\ Visiting = CodesOf(stack)
BY DEF TypeOK, Shape, Linked, Chain, Visiting, CodesOf, Frames

LEMMA PushShape ==
  ASSUME deps \in [Names -> SUBSET Codes], NEW s, Shape(s), Chain(s),
         NEW c \in Names, c \notin CodesOf(s),
         s # <<>> => c \in deps[s[1].code] \ s[1].rest
  PROVE  LET t == <<[code |-> c, rest |-> deps[c]]>> \o s IN
         /\ Shape(t) /\ Chain(t)
         /\ CodesOf(t) = CodesOf(s) \cup {c}
         /\ t # <<>> /\ t[1] = [code |-> c, rest |-> deps[c]]
         /\ DOMAIN t = 1..(Len(s) + 1)
         /\ \A i \in DOMAIN t : i > 1 => i - 1 \in DOMAIN s /\ t[i] = s[i - 1]
<1> DEFINE x == [code |-> c, rest |-> deps[c]]
           t == <<x>> \o s
<1>1. s \in Seq(Frames) /\ x \in Frames /\ DOMAIN s = 1..Len(s) /\ Len(s) \in Nat
  BY DEF Shape, Frames
<1>2. /\ t \in Seq(Frames) /\ t # <<>> /\ t[1] = x
      /\ DOMAIN t = 1..(Len(s) + 1)
      /\ \A i \in DOMAIN t : i > 1 => i - 1 \in DOMAIN s /\ t[i] = s[i - 1]
  BY <1>1, PushStack
<1> HIDE DEF t
<1>3. \A i \in DOMAIN s : i + 1 \in DOMAIN t /\ t[i + 1] = s[i]
  BY <1>1, <1>2
<1>4. CodesOf(t) = CodesOf(s) \cup {c}
  <2>1. CodesOf(t) \subseteq CodesOf(s) \cup {c}
    BY <1>1, <1>2 DEF CodesOf
  <2>2. CodesOf(s) \subseteq CodesOf(t)
    BY <1>3 DEF CodesOf
  <2>3. c \in CodesOf(t)
    BY <1>1, <1>2 DEF CodesOf
  <2> QED
    BY <2>1, <2>2, <2>3
<1>5. \A j \in DOMAIN s : s[j].code # c /\ s[j].code \in Names
  <2> TAKE j \in DOMAIN s
  <2>1. s[j] \in Frames
    BY <1>1
  <2>2. s[j].code \in CodesOf(s)
    BY DEF CodesOf
  <2> QED
    BY <2>1, <2>2 DEF Frames
<1>6. ASSUME NEW i \in DOMAIN t
      PROVE  /\ t[i].rest \subseteq deps[t[i].code]
             /\ \A j \in 1..(i - 1) : t[j].code # t[i].code
             /\ i > 1 => t[i - 1].code \in deps[t[i].code] \ t[i].rest
  <2>1. CASE i = 1
    BY <2>1, <1>2
  <2>2. CASE i > 1
    <3>1. i - 1 \in DOMAIN s /\ t[i] = s[i - 1] /\ i \in Nat
      BY <2>2, <1>1, <1>2
    <3>2. t[i].rest \subseteq deps[t[i].code]
      BY <3>1 DEF Shape
    <3>3. ASSUME NEW j \in 1..(i - 1) PROVE t[j].code # t[i].code
      <4>1. CASE j = 1
        BY <4>1, <3>1, <1>2, <1>5
      <4>2. CASE j > 1
        <5>1. j \in DOMAIN t /\ t[j] = s[j - 1] /\ j - 1 \in 1..((i - 1) - 1)
          BY <4>2, <3>1, <1>1, <1>2
        <5> QED
          BY <5>1, <3>1 DEF Shape
      <4> QED
        BY <4>1, <4>2
    <3>4. t[i - 1].code \in deps[t[i].code] \ t[i].rest
      <4>1. CASE i = 2
        <5>1. s # <<>> /\ t[2] = s[1]
          BY <4>1, <3>1, <1>1
        <5> QED
          BY <5>1, <4>1, <1>2
      <4>2. CASE i > 2
        <5>1. i - 1 \in DOMAIN t /\ i - 1 > 1
          BY <4>2, <3>1, <1>1, <1>2
        <5>2. t[i - 1] = s[(i - 1) - 1]
          BY <5>1, <1>2
        <5> QED
          BY <5>1, <5>2, <3>1 DEF Shape
      <4> QED
        BY <4>1, <4>2, <2>2, <3>1
    <3> QED
      BY <3>2, <3>3, <3>4
  <2> QED
    BY <2>1, <2>2, <1>1, <1>2
<1>7. Shape(t)
  BY <1>2, <1>6 DEF Shape
<1>8. ASSUME NEW i \in DOMAIN t, NEW j \in DOMAIN t, i < j
      PROVE  t[i].code \in Prereqs(t[j].code)
  <2>1. j > 1 /\ j - 1 \in DOMAIN s /\ t[j] = s[j - 1] /\ s[j - 1].code \in Names
    BY <1>1, <1>2, <1>5, <1>8
  <2>2. CASE i > 1
    <3>1. i - 1 \in DOMAIN s /\ t[i] = s[i - 1] /\ i - 1 < j - 1
      BY <2>2, <1>1, <1>2, <1>8
    <3> QED
      BY <3>1, <2>1 DEF Chain
  <2>3. CASE i = 1
    <3>1. s # <<>> /\ 1 \in DOMAIN s /\ s[1].code \in Names
      BY <2>1, <1>1, <1>5
    <3>2. c \in Prereqs(s[1].code)
      BY <3>1, Direct
    <3>3. s[1].code = s[j - 1].code \/ s[1].code \in Prereqs(s[j - 1].code)
      BY <2>1, <3>1, <1>1 DEF Chain
    <3> QED
      BY <2>1, <2>3, <3>2, <3>3, <1>2, Transitive
  <2> QED
    BY <2>2, <2>3, <1>1, <1>2
<1>9. Chain(t)
  BY <1>8 DEF Chain
<1> QED
  BY <1>2, <1>4, <1>7, <1>9 DEF t

LEMMA TakeShape ==
  ASSUME deps \in [Names -> SUBSET Codes], NEW s, Shape(s), Chain(s), s # <<>>,
         NEW c \in s[1].rest
  PROVE  LET t == <<[code |-> s[1].code, rest |-> s[1].rest \ {c}]>> \o Tail(s) IN
         /\ Shape(t) /\ Chain(t)
         /\ CodesOf(t) = CodesOf(s)
         /\ t # <<>> /\ t[1] = [code |-> s[1].code, rest |-> s[1].rest \ {c}]
         /\ DOMAIN t = DOMAIN s /\ 1 \in DOMAIN s
         /\ \A i \in DOMAIN t : i > 1 => i - 1 \in DOMAIN t /\ t[i] = s[i]
         /\ s[1].code \in Names /\ c \in Names /\ c \in deps[s[1].code]
<1> DEFINE x == [code |-> s[1].code, rest |-> s[1].rest \ {c}]
           t == <<x>> \o Tail(s)
<1>1. s \in Seq(Frames) /\ DOMAIN s = 1..Len(s) /\ Len(s) \in Nat /\ 1 \in DOMAIN s
  BY PopStack DEF Shape
<1>2. s[1] \in Frames
  BY <1>1
<1>3. x \in Frames /\ x.code = s[1].code /\ x.rest \subseteq s[1].rest
  BY <1>2 DEF Frames
<1>4. /\ t \in Seq(Frames) /\ t # <<>> /\ t[1] = x
      /\ DOMAIN t = DOMAIN s
      /\ \A i \in DOMAIN s : i > 1 => i - 1 \in DOMAIN s /\ t[i] = s[i]
  BY <1>1, <1>3, ReplaceTop
<1>5. s[1].code \in Names /\ s[1].rest \subseteq deps[s[1].code]
  BY <1>1, <1>2 DEF Frames, Shape
<1>6. c \in deps[s[1].code] /\ c \in Names
  BY <1>5 DEF Names
<1> HIDE DEF t, x
<1>7. \A i \in DOMAIN t : t[i].code = s[i].code /\ t[i].rest \subseteq s[i].rest
  BY <1>1, <1>3, <1>4
<1>8. CodesOf(t) = CodesOf(s)
  BY <1>4, <1>7 DEF CodesOf
<1>9. ASSUME NEW i \in DOMAIN t
      PROVE  /\ t[i].rest \subseteq deps[t[i].code]
             /\ \A j \in 1..(i - 1) : t[j].code # t[i].code
             /\ i > 1 => t[i - 1].code \in deps[t[i].code] \ t[i].rest
  <2>1. \A j \in 1..(i - 1) : j \in DOMAIN t
    BY <1>1, <1>4
  <2>2. i > 1 => i - 1 \in DOMAIN t
    BY <1>1, <1>4
  <2> QED
    BY <2>1, <2>2, <1>4, <1>7 DEF Shape
<1>10. Shape(t)
  BY <1>4, <1>9 DEF Shape
<1>11. Chain(t)
  BY <1>4, <1>7 DEF Chain
<1> QED
  BY <1>1, <1>3, <1>4, <1>5, <1>6, <1>8, <1>10, <1>11 DEF t, x

LEMMA PopShape ==
  ASSUME NEW s, Shape(s), Chain(s), s # <<>>
  PROVE  LET t == Tail(s) IN
         /\ Shape(t) /\ Chain(t)
         /\ CodesOf(s) = CodesOf(t) \cup {s[1].code}
         /\ s[1].code \in Names /\ 1 \in DOMAIN s
         /\ \A i \in DOMAIN t : i + 1 \in DOMAIN s /\ t[i] = s[i + 1]
         /\ t # <<>> => /\ 1 \in DOMAIN t /\ t[1].code \in Names
                        /\ s[1].code \in deps[t[1].code] \ t[1].rest
<1> DEFINE t == Tail(s)
<1>1. s \in Seq(Frames) /\ DOMAIN s = 1..Len(s) /\ Len(s) \in Nat
  BY DEF Shape
<1>2. /\ 1 \in DOMAIN s /\ s[1] \in Frames
      /\ t \in Seq(Frames)
      /\ \A i \in DOMAIN t : i + 1 \in DOMAIN s /\ t[i] = s[i + 1]
      /\ t # <<>> => 2 \in DOMAIN s /\ 1 \in DOMAIN t
      /\ \A i \in DOMAIN s : i > 1 => i - 1 \in DOMAIN t
  BY <1>1, PopStack
<1> HIDE DEF t
<1>3. DOMAIN t = 1..Len(t) /\ Len(t) \in Nat /\ s[1].code \in Names
  BY <1>2 DEF Frames
<1>4. CodesOf(s) = CodesOf(t) \cup {s[1].code}
  <2>1. \A i \in DOMAIN s : i = 1 \/ (i - 1 \in DOMAIN t /\ t[i - 1] = s[i])
    <3> TAKE i \in DOMAIN s
    <3>1. CASE i > 1
      <4>1. i - 1 \in DOMAIN t /\ i \in Nat
        BY <3>1, <1>1, <1>2
      <4>2. t[i - 1] = s[(i - 1) + 1] /\ (i - 1) + 1 = i
        BY <4>1, <1>2
      <4> QED
        BY <4>1, <4>2
    <3> QED
      BY <3>1, <1>1
  <2> QED
    BY <2>1, <1>2 DEF CodesOf
<1>5. ASSUME NEW i \in DOMAIN t
      PROVE  /\ t[i].rest \subseteq deps[t[i].code]
             /\ \A j \in 1..(i - 1) : t[j].code # t[i].code
             /\ i > 1 => t[i - 1].code \in deps[t[i].code] \ t[i].rest
  <2>1. i + 1 \in DOMAIN s /\ t[i] = s[i + 1] /\ i \in Nat
    BY <1>2, <1>3
  <2>2. \A j \in 1..(i - 1) : j \in DOMAIN t /\ t[j] = s[j + 1] /\ j + 1 \in 1..((i + 1) - 1)
    <3> TAKE j \in 1..(i - 1)
    <3>1. j \in DOMAIN t
      BY <2>1, <1>3
    <3>2. j + 1 \in 1..((i + 1) - 1)
      BY <2>1
    <3> QED
      BY <3>1, <3>2, <1>2
  <2>3. i > 1 => t[i - 1] = s[(i + 1) - 1]
    <3> HAVE i > 1
    <3>1. i - 1 \in DOMAIN t
      BY <1>3, <2>1
    <3>2. t[i - 1] = s[(i - 1) + 1] /\ (i - 1) + 1 = (i + 1) - 1
      BY <3>1, <2>1, <1>2
    <3> QED
      BY <3>2
  <2>4. \A j \in 1..((i + 1) - 1) : s[j].code # s[i + 1].code
    BY <2>1 DEF Shape
  <2>5. s[(i + 1) - 1].code \in deps[s[i + 1].code] \ s[i + 1].rest
    BY <2>1 DEF Shape
  <2>6. s[i + 1].rest \subseteq deps[s[i + 1].code]
    BY <2>1 DEF Shape
  <2> QED
    BY <2>1, <2>2, <2>3, <2>4, <2>5, <2>6
<1>6. Shape(t)
  BY <1>2, <1>5 DEF Shape
<1>7. Chain(t)
  <2> SUFFICES ASSUME NEW i \in DOMAIN t, NEW j \in DOMAIN t, i < j
               PROVE  t[i].code \in Prereqs(t[j].code)
    BY DEF Chain
  <2>1. i + 1 < j + 1
    BY <1>3
  <2> QED
    BY <2>1, <1>2 DEF Chain
<1>8. t # <<>> => /\ 1 \in DOMAIN t /\ t[1].code \in Names
                 /\ s[1].code \in deps[t[1].code] \ t[1].rest
  <2> HAVE t # <<>>
  <2>1. 1 \in DOMAIN t /\ 2 \in DOMAIN s /\ t[1] = s[2] /\ t[1] \in Frames
    BY <1>2
  <2>2. s[2 - 1].code \in deps[s[2].code] \ s[2].rest
    BY <2>1 DEF Shape
  <2> QED
    BY <2>1, <2>2 DEF Frames
<1> QED
  BY <1>2, <1>3, <1>4, <1>6, <1>7, <1>8 DEF t

-----------------------------------------------------------------------------
(* The invariant.                                                          *)

LEMMA InitWalkInv == Init => WalkInv
<1> SUFFICES ASSUME Init PROVE WalkInv
  OBVIOUS
<1>1. deps \in [Names -> SUBSET Codes]
  BY DEF Init, BuildDependsMap, Names
<1>2. stack = <<>> /\ DOMAIN stack = {} /\ stack \in Seq(Frames)
  BY DEF Init
<1>3. TypeOK
  BY <1>1, <1>2 DEF Init, TypeOK, Frames, Names, Jobs, Verdicts
<1>4. Linked
  BY <1>2 DEF Linked
<1>5. job = "closure" => ClosureInv /\ \E c \in Codes : given = {c}
  BY DEF Init, ClosureInv
<1>6. job = "lock" => LockInv
  BY <1>2 DEF Init, LockInv
<1>7. job = "filter" => FilterInv /\ AcyclicInv
  BY <1>2 DEF Init, FilterInv, AcyclicInv, Usable
<1> QED
  BY <1>2, <1>3, <1>4, <1>5, <1>6, <1>7 DEF WalkInv, Init

\* One round of the worklist.
LEMMA ClosureStep == WalkInv /\ PrereqClosure => WalkInv'
<1> SUFFICES ASSUME WalkInv, PrereqClosure PROVE WalkInv'
  OBVIOUS
<1>1. PICK c \in todo :
        LET new == deps[c] \ (marked \cup given) IN
        todo' = (todo \ {c}) \cup new /\ marked' = marked \cup new
  BY DEF PrereqClosure
<1>2. PICK a \in Codes : given = {a}
  BY DEF WalkInv, PrereqClosure
<1> DEFINE new == deps[c] \ (marked \cup {a})
<1>3. todo' = (todo \ {c}) \cup new /\ marked' = marked \cup new
  BY <1>1, <1>2
<1>4. job = "closure" /\ UNCHANGED <<job, deps, given, stack, ret>>
  BY DEF PrereqClosure
<1>5. TypeOK /\ ClosureInv /\ stack = <<>> /\ ret = "none" /\ a \in Names
  BY <1>4 DEF WalkInv, Names
<1>6. c \in Names /\ c \in marked \cup {a} /\ deps[c] \subseteq Names
  BY <1>2, <1>5 DEF TypeOK, ClosureInv, Names
<1>7. deps[c] \subseteq Prereqs(a)
  <2>1. CASE c = a
    BY <2>1, <1>6, Direct
  <2>2. CASE c # a
    <3>1. c \in Prereqs(a)
      BY <2>2, <1>2, <1>5, <1>6 DEF ClosureInv
    <3>2. QED
      BY <3>1, <1>5, <1>6, Direct, Transitive
  <2> QED
    BY <2>1, <2>2
<1>8. TypeOK'
  <2>1. new \subseteq Names
    BY <1>6
  <2>2. todo' \in SUBSET Names /\ marked' \in SUBSET Names
    BY <2>1, <1>3, <1>5 DEF TypeOK
  <2> QED
    BY <2>2, <1>4, <1>5 DEF TypeOK
<1>9. Linked'
  BY <1>4, <1>5 DEF Linked
<1>10. Prereqs(a)' = Prereqs(a)
  BY <1>4, SameGraph
<1>11. ClosureInv'
  <2>1. marked' \subseteq Prereqs(a) \ {a}
    BY <1>2, <1>3, <1>5, <1>7 DEF ClosureInv
  <2>2. todo' \subseteq marked' \cup {a}
    BY <1>2, <1>3, <1>5 DEF ClosureInv
  <2>3. \A d \in (marked' \cup {a}) \ todo' : deps[d] \subseteq marked' \cup {a}
    BY <1>2, <1>3, <1>5 DEF ClosureInv
  <2> QED
    BY <2>1, <2>2, <2>3, <1>2, <1>4, <1>10 DEF ClosureInv
<1> QED
  BY <1>2, <1>4, <1>5, <1>8, <1>9, <1>11 DEF WalkInv

\* What a step of a walk leaves of the invariant when the stack keeps its
\* shape: the part about types.
LEMMA WalkShape ==
  ASSUME WalkInv, UNCHANGED <<job, deps, given>>, Shape(stack'), Chain(stack'),
         todo' \in SUBSET Names, marked' \in SUBSET Names, ret' \in Verdicts
  PROVE  TypeOK' /\ Linked'
<1>1. \A c : Prereqs(c)' = Prereqs(c)
  BY SameGraph
<1>2. Linked'
  BY <1>1 DEF Chain, Linked
<1>3. TypeOK
  BY DEF WalkInv
<1>4. TypeOK'
  BY <1>3 DEF TypeOK, Shape, Frames
<1> QED
  BY <1>2, <1>4

\* The parts the case analyses share: a step of cascadeLocked, and one of
\* filterGrantedByDeps.
LEMMA LockStep ==
  ASSUME WalkInv, UNCHANGED <<job, deps, given>>, job = "lock",
         TypeOK', Linked',
         marked' \subseteq Locked,
         ret' = "yes" /\ stack' # <<>> => stack'[1].code \in Locked
  PROVE  WalkInv'
<1>1. Locked' = Locked
  BY SameGraph
<1> QED
  BY <1>1 DEF WalkInv, LockInv

LEMMA FilterStep ==
  ASSUME WalkInv, UNCHANGED <<job, deps, given>>, job = "filter",
         TypeOK', Linked',
         Usable \subseteq todo' \cup marked' \cup CodesOf(stack'),
         ret' = "no" /\ stack' # <<>> => stack'[1].code \notin Usable,
         Acyclic => AcyclicInv'
  PROVE  WalkInv'
<1>1. Usable' = Usable /\ Acyclic' = Acyclic
  BY SameGraph
<1>2. Visiting' = CodesOf(stack')
  BY DEF Visiting, CodesOf
<1> QED
  BY <1>1, <1>2 DEF WalkInv, FilterInv

\* The loop of the innermost call ran to its end.
LEMMA ReturnStep == WalkInv /\ ReturnExhausted => WalkInv'
<1> SUFFICES ASSUME WalkInv, ReturnExhausted PROVE WalkInv'
  OBVIOUS
<1> DEFINE t == Tail(stack)
<1>1. /\ UNCHANGED <<job, deps, given, todo>>
      /\ ret = "none" /\ stack # <<>> /\ stack[1].rest = {} /\ stack' = t
      /\ ret' = Exhausted
      /\ marked' = IF Exhausted = "yes" THEN marked \cup {stack[1].code} ELSE marked
  BY DEF ReturnExhausted, MarkOn
<1>2. TypeOK /\ Linked /\ job \in {"lock", "filter"}
  BY <1>1 DEF WalkInv, TypeOK, Jobs
<1>3. Shape(stack) /\ Chain(stack)
  BY <1>2, TypedShape
<1>4. /\ Shape(t) /\ Chain(t)
      /\ CodesOf(stack) = CodesOf(t) \cup {stack[1].code}
      /\ stack[1].code \in Names /\ 1 \in DOMAIN stack
      /\ \A i \in DOMAIN t : i + 1 \in DOMAIN stack /\ t[i] = stack[i + 1]
  BY <1>1, <1>3, PopShape
<1> HIDE DEF t
<1>5. TypeOK' /\ Linked'
  <2>1. todo' \in SUBSET Names /\ marked' \in SUBSET Names /\ ret' \in Verdicts
    BY <1>1, <1>2, <1>4 DEF TypeOK, Verdicts, Exhausted
  <2> QED
    BY <2>1, <1>1, <1>4, WalkShape
<1>6. CASE job = "lock"
  <2>1. marked' = marked /\ ret' = "no"
    BY <1>1, <1>6 DEF Exhausted
  <2>2. marked \subseteq Locked
    BY <1>6 DEF WalkInv, LockInv
  <2> QED
    BY <2>1, <2>2, <1>1, <1>5, <1>6, LockStep
<1>7. CASE job = "filter"
  <2>1. marked' = marked \cup {stack[1].code} /\ ret' = "yes"
    BY <1>1, <1>7 DEF Exhausted
  <2>2. FilterInv /\ (Acyclic => AcyclicInv)
    BY <1>7 DEF WalkInv
  <2>3. Usable \subseteq todo' \cup marked' \cup CodesOf(stack')
    BY <2>1, <2>2, <1>1, <1>4, TypedShape DEF FilterInv
  <2>4. ASSUME Acyclic PROVE AcyclicInv'
    <3>1. AcyclicInv
      BY <2>2, <2>4
    <3>2. stack[1].code \in given /\ deps[stack[1].code] \subseteq marked
      BY <3>1, <1>1, <1>4 DEF AcyclicInv
    <3>3. \A m \in marked' : m \in given /\ deps[m] \subseteq marked'
      BY <3>1, <3>2, <2>1 DEF AcyclicInv
    <3>4. ASSUME NEW i \in DOMAIN t
          PROVE  /\ t[i].code \in given
                 /\ i > 1 => deps[t[i].code] \ t[i].rest \subseteq marked' \cup {t[i - 1].code}
                 /\ i = 1 => deps[t[i].code] \ t[i].rest \subseteq marked'
      <4>1. i \in Nat /\ i >= 1 /\ DOMAIN t = 1..Len(t) /\ Len(t) \in Nat
        BY <1>4 DEF Shape
      <4>2. i + 1 \in DOMAIN stack /\ t[i] = stack[i + 1] /\ i + 1 > 1 /\ (i + 1) - 1 = i
        BY <4>1, <1>4
      <4>3. t[i].code \in given /\ deps[t[i].code] \ t[i].rest \subseteq marked \cup {stack[i].code}
        BY <4>2, <3>1 DEF AcyclicInv
      <4>4. i > 1 => stack[i] = t[i - 1]
        <5> HAVE i > 1
        <5>1. i - 1 \in DOMAIN t /\ (i - 1) + 1 = i
          BY <4>1
        <5> QED
          BY <5>1, <1>4
      <4> QED
        BY <4>3, <4>4, <2>1
    <3> QED
      BY <3>3, <3>4, <1>1 DEF AcyclicInv
  <2> QED
    BY <2>1, <2>3, <2>4, <1>1, <1>5, <1>7, FilterStep
<1> QED
  BY <1>2, <1>6, <1>7

\* A caller receives an answer.
LEMMA ReceiveStep == WalkInv /\ Receive => WalkInv'
<1> SUFFICES ASSUME WalkInv, Receive PROVE WalkInv'
  OBVIOUS
<1>1. UNCHANGED <<job, deps, given, todo>> /\ ret # "none"
  BY DEF Receive
<1>2. TypeOK /\ Linked /\ job \in {"lock", "filter"}
  BY <1>1 DEF WalkInv, TypeOK, Jobs
<1>3. Shape(stack) /\ Chain(stack)
  BY <1>2, TypedShape
<1>4. CASE stack # <<>> /\ ret = Decisive
  <2> DEFINE t == Tail(stack)
  <2>1. /\ stack' = t /\ ret' = ret
        /\ marked' = IF ret = "yes" THEN marked \cup {stack[1].code} ELSE marked
    BY <1>4 DEF Receive, MarkOn
  <2>2. /\ Shape(t) /\ Chain(t)
        /\ CodesOf(stack) = CodesOf(t) \cup {stack[1].code}
        /\ stack[1].code \in Names /\ 1 \in DOMAIN stack
        /\ \A i \in DOMAIN t : i + 1 \in DOMAIN stack /\ t[i] = stack[i + 1]
        /\ t # <<>> => /\ 1 \in DOMAIN t /\ t[1].code \in Names
                       /\ stack[1].code \in deps[t[1].code] \ t[1].rest
    BY <1>3, <1>4, PopShape
  <2> HIDE DEF t
  <2>3. TypeOK' /\ Linked'
    <3>1. todo' \in SUBSET Names /\ marked' \in SUBSET Names /\ ret' \in Verdicts
      BY <1>1, <1>2, <2>1, <2>2 DEF TypeOK
    <3> QED
      BY <3>1, <1>1, <2>1, <2>2, WalkShape
  <2>4. CASE job = "lock"
    <3>1. ret = "yes" /\ marked' = marked \cup {stack[1].code}
      BY <1>4, <2>1, <2>4 DEF Decisive
    <3>2. marked \subseteq Locked /\ stack[1].code \in Locked
      BY <3>1, <1>4, <2>4 DEF WalkInv, LockInv
    <3>3. t # <<>> => t[1].code \in Locked
      BY <3>2, <2>2, LockedUp
    <3> QED
      BY <3>1, <3>2, <3>3, <1>1, <2>1, <2>3, <2>4, LockStep
  <2>5. CASE job = "filter"
    <3>1. ret = "no" /\ marked' = marked
      BY <1>4, <2>1, <2>5 DEF Decisive
    <3>2. FilterInv /\ (Acyclic => AcyclicInv)
      BY <2>5 DEF WalkInv
    <3>3. stack[1].code \notin Usable
      BY <3>1, <3>2, <1>4 DEF FilterInv
    <3>4. Usable \subseteq todo' \cup marked' \cup CodesOf(stack')
      BY <3>1, <3>2, <3>3, <1>1, <2>1, <2>2, TypedShape DEF FilterInv
    <3>5. t # <<>> => t[1].code \notin Usable
      BY <3>3, <2>2, <1>2, UsableDown DEF TypeOK
    <3>6. ASSUME Acyclic PROVE AcyclicInv'
      <4>1. AcyclicInv
        BY <3>2, <3>6
      <4>2. ASSUME NEW i \in DOMAIN t
            PROVE  /\ t[i].code \in given
                   /\ i > 1 => deps[t[i].code] \ t[i].rest \subseteq marked \cup {t[i - 1].code}
        <5>1. i \in Nat /\ i >= 1 /\ DOMAIN t = 1..Len(t) /\ Len(t) \in Nat
          BY <2>2 DEF Shape
        <5>2. i + 1 \in DOMAIN stack /\ t[i] = stack[i + 1] /\ i + 1 > 1 /\ (i + 1) - 1 = i
          BY <5>1, <2>2
        <5>3. t[i].code \in given /\ deps[t[i].code] \ t[i].rest \subseteq marked \cup {stack[i].code}
          BY <5>2, <4>1 DEF AcyclicInv
        <5>4. i > 1 => stack[i] = t[i - 1]
          <6> HAVE i > 1
          <6>1. i - 1 \in DOMAIN t /\ (i - 1) + 1 = i
            BY <5>1
          <6> QED
            BY <6>1, <2>2
        <5> QED
          BY <5>3, <5>4
      <4> QED
        BY <4>1, <4>2, <3>1, <1>1, <2>1 DEF AcyclicInv
    <3> QED
      BY <3>1, <3>4, <3>5, <3>6, <1>1, <2>1, <2>3, <2>5, FilterStep
  <2> QED
    BY <1>2, <2>4, <2>5
<1>5. CASE ~(stack # <<>> /\ ret = Decisive)
  <2>1. ret' = "none" /\ UNCHANGED <<stack, marked>>
    BY <1>5 DEF Receive
  <2>2. TypeOK' /\ Linked'
    <3>1. todo' \in SUBSET Names /\ marked' \in SUBSET Names /\ ret' \in Verdicts
      BY <1>1, <1>2, <2>1 DEF TypeOK, Verdicts
    <3> QED
      BY <3>1, <1>1, <1>3, <2>1, WalkShape
  <2>3. CASE job = "lock"
    <3>1. marked' \subseteq Locked
      BY <2>1, <2>3 DEF WalkInv, LockInv
    <3> QED
      BY <3>1, <1>1, <2>1, <2>2, <2>3, LockStep
  <2>4. CASE job = "filter"
    <3>1. FilterInv /\ (Acyclic => AcyclicInv)
      BY <2>4 DEF WalkInv
    <3>2. Usable \subseteq todo' \cup marked' \cup CodesOf(stack')
      BY <3>1, <1>1, <2>1, TypedShape DEF FilterInv
    <3>3. stack = <<>> \/ ret # "no"
      BY <1>5, <2>4 DEF Decisive
    <3>4. Acyclic => AcyclicInv'
      BY <3>1, <3>3, <1>1, <2>1 DEF AcyclicInv
    <3> QED
      BY <3>2, <3>4, <1>1, <2>1, <2>2, <2>4, FilterStep
  <2> QED
    BY <1>2, <2>3, <2>4
<1> QED
  BY <1>4, <1>5

\* The outer loop takes a code.
LEMMA CheckOuter ==
  ASSUME WalkInv, NEW c \in todo, Check(c), stack = <<>>
  PROVE  WalkInv'
<1> DEFINE v == Verdict(c)
           t == <<[code |-> c, rest |-> deps[c]]>> \o stack
<1>1. /\ UNCHANGED <<job, deps, given>> /\ job # "closure" /\ ret = "none"
      /\ todo' = todo \ {c}
      /\ ret' = v
      /\ marked' = IF job = "lock" /\ v = "yes" THEN marked \cup {c} ELSE marked
  BY DEF Check, MarkOn
<1>2. TypeOK /\ Linked /\ job \in {"lock", "filter"} /\ c \in Names
  BY <1>1 DEF WalkInv, TypeOK, Jobs
<1>3. Shape(stack) /\ Chain(stack) /\ CodesOf(stack) = {} /\ Visiting = {}
  BY <1>2, TypedShape DEF CodesOf
<1>4. /\ Shape(t) /\ Chain(t) /\ CodesOf(t) = {c}
      /\ t # <<>> /\ t[1] = [code |-> c, rest |-> deps[c]] /\ DOMAIN t = {1}
  <2>1. Len(stack) = 0
    OBVIOUS
  <2>2. /\ Shape(t) /\ Chain(t) /\ CodesOf(t) = CodesOf(stack) \cup {c}
        /\ t # <<>> /\ t[1] = [code |-> c, rest |-> deps[c]] /\ DOMAIN t = 1..(Len(stack) + 1)
    BY <1>2, <1>3, PushShape, TypedShape
  <2> QED
    BY <2>1, <2>2, <1>3
<1>5. stack' = IF v = "none" THEN t ELSE stack
  BY DEF Check
<1>6. v \in Verdicts
  BY DEF Verdict, LockVerdict, FilterVerdict, Verdicts
<1> HIDE DEF t, v
<1>7. TypeOK' /\ Linked'
  <2>1. todo' \in SUBSET Names /\ marked' \in SUBSET Names /\ ret' \in Verdicts
    BY <1>1, <1>2, <1>6 DEF TypeOK
  <2> QED
    BY <2>1, <1>1, <1>3, <1>4, <1>5, WalkShape
<1>8. CASE job = "lock"
  <2>1. marked \subseteq Locked
    BY <1>8 DEF WalkInv, LockInv
  <2>2. v = "yes" => c \in marked \cup given
    BY <1>8, <1>3 DEF v, Verdict, LockVerdict
  <2>3. marked' \subseteq Locked
    BY <2>1, <2>2, <1>1, <1>2 DEF Locked
  <2>4. ~(ret' = "yes" /\ stack' # <<>>)
    BY <1>1, <1>5
  <2> QED
    BY <2>3, <2>4, <1>1, <1>7, <1>8, LockStep
<1>9. CASE job = "filter"
  <2>1. FilterInv /\ (Acyclic => AcyclicInv)
    BY <1>9 DEF WalkInv
  <2>2. /\ v = "none" => c \in given
        /\ v = "yes" => c \in marked
        /\ v = "no" => c \notin given
    BY <1>3, <1>9 DEF v, Verdict, FilterVerdict
  <2>3. marked' = marked
    BY <1>1, <1>9
  <2>4. Usable \subseteq todo \cup marked
    BY <2>1, <1>3 DEF FilterInv
  <2>5. c \in Usable => v # "no"
    BY <2>2 DEF Usable
  <2>6. Usable \subseteq todo' \cup marked' \cup CodesOf(stack')
    BY <2>2, <2>3, <2>4, <2>5, <1>1, <1>4, <1>5, <1>6 DEF Verdicts
  <2>7. ~(ret' = "no" /\ stack' # <<>>)
    BY <1>1, <1>5
  <2>8. ASSUME Acyclic PROVE AcyclicInv'
    <3>1. \A m \in marked : m \in given /\ deps[m] \subseteq marked
      BY <2>1, <2>8 DEF AcyclicInv
    <3>2. CASE v = "none"
      BY <3>1, <3>2, <2>2, <2>3, <1>1, <1>4, <1>5 DEF AcyclicInv
    <3>3. CASE v # "none"
      BY <3>1, <3>3, <2>3, <1>1, <1>5 DEF AcyclicInv
    <3> QED
      BY <3>2, <3>3
  <2> QED
    BY <2>6, <2>7, <2>8, <1>1, <1>7, <1>9, FilterStep
<1> QED
  BY <1>2, <1>8, <1>9

\* The innermost call takes one of its prerequisites.
LEMMA CheckInner ==
  ASSUME WalkInv, NEW c, Check(c), stack # <<>>
  PROVE  WalkInv'
<1> DEFINE v == Verdict(c)
           t == <<[code |-> stack[1].code, rest |-> stack[1].rest \ {c}]>> \o Tail(stack)
           u == <<[code |-> c, rest |-> deps[c]]>> \o t
           top == stack[1].code
<1>1. /\ UNCHANGED <<job, deps, given, todo>> /\ job # "closure" /\ ret = "none"
      /\ c \in stack[1].rest
      /\ ret' = v
      /\ marked' = IF job = "lock" /\ v = "yes" THEN marked \cup {c} ELSE marked
      /\ stack' = IF v = "none" THEN u ELSE t
  BY DEF Check, MarkOn
<1>2. TypeOK /\ Linked /\ job \in {"lock", "filter"}
  BY <1>1 DEF WalkInv, TypeOK, Jobs
<1>3. /\ Shape(stack) /\ Chain(stack) /\ Visiting = CodesOf(stack)
      /\ deps \in [Names -> SUBSET Codes] /\ given \subseteq Names
  BY <1>2, TypedShape
<1>4. /\ Shape(t) /\ Chain(t) /\ CodesOf(t) = CodesOf(stack)
      /\ t # <<>> /\ t[1] = [code |-> top, rest |-> stack[1].rest \ {c}]
      /\ DOMAIN t = DOMAIN stack /\ 1 \in DOMAIN stack
      /\ \A i \in DOMAIN t : i > 1 => i - 1 \in DOMAIN t /\ t[i] = stack[i]
      /\ top \in Names /\ c \in Names /\ c \in deps[top]
  BY <1>1, <1>3, TakeShape
<1>5. v \in Verdicts /\ (v = "none" => c \notin Visiting)
  BY DEF Verdict, LockVerdict, FilterVerdict, Verdicts
<1> HIDE DEF t
<1>6. v = "none" =>
        /\ Shape(u) /\ Chain(u) /\ CodesOf(u) = CodesOf(t) \cup {c}
        /\ u # <<>> /\ u[1] = [code |-> c, rest |-> deps[c]]
        /\ DOMAIN u = 1..(Len(t) + 1)
        /\ \A i \in DOMAIN u : i > 1 => i - 1 \in DOMAIN t /\ u[i] = t[i - 1]
  <2>1. c \in deps[t[1].code] \ t[1].rest
    BY <1>4
  <2> QED
    BY <2>1, <1>3, <1>4, <1>5, PushShape
<1> HIDE DEF u, v, top
<1>7. TypeOK' /\ Linked'
  <2>1. todo' \in SUBSET Names /\ marked' \in SUBSET Names /\ ret' \in Verdicts
    BY <1>1, <1>2, <1>4, <1>5 DEF TypeOK
  <2> QED
    BY <2>1, <1>1, <1>4, <1>6, WalkShape
<1>8. CASE job = "lock"
  <2>1. marked \subseteq Locked
    BY <1>8 DEF WalkInv, LockInv
  <2>2. v = "yes" => c \in Locked
    <3>1. v = "yes" => c \in marked \cup given
      BY <1>8 DEF v, Verdict, LockVerdict
    <3> QED
      BY <3>1, <2>1, <1>4 DEF Locked
  <2>3. marked' \subseteq Locked
    BY <2>1, <2>2, <1>1
  <2>4. v = "yes" => stack' = t /\ t[1].code \in Locked
    BY <2>2, <1>1, <1>4, LockedUp
  <2> QED
    BY <2>3, <2>4, <1>1, <1>7, <1>8, LockStep
<1>9. CASE job = "filter"
  <2>1. FilterInv /\ (Acyclic => AcyclicInv)
    BY <1>9 DEF WalkInv
  <2>2. /\ v = "none" => c \in given
        /\ v = "yes" => c \in marked \cup Visiting
        /\ v = "no" => c \notin given
    BY <1>9 DEF v, Verdict, FilterVerdict
  <2>3. marked' = marked
    BY <1>1, <1>9
  <2>4. Usable \subseteq todo' \cup marked' \cup CodesOf(stack')
    BY <2>1, <2>3, <1>1, <1>3, <1>4, <1>6 DEF FilterInv
  <2>5. ret' = "no" /\ stack' # <<>> => stack'[1].code \notin Usable
    <3> SUFFICES ASSUME v = "no" PROVE stack' = t /\ top \notin Usable
      BY <1>1, <1>4
    <3>1. c \notin Usable
      BY <2>2 DEF Usable
    <3> QED
      BY <3>1, <1>1, <1>3, <1>4, UsableDown
  <2>6. ASSUME Acyclic PROVE AcyclicInv'
    <3>1. AcyclicInv
      BY <2>1, <2>6
    <3>2. c \notin Visiting
      <4> SUFFICES ASSUME NEW k \in DOMAIN stack, stack[k].code = c PROVE FALSE
        BY DEF Visiting
      <4>1. c \in Prereqs(top)
        BY <1>4, Direct
      <4>2. k = 1 \/ top \in Prereqs(c)
        BY <1>3, <1>4 DEF Chain, Shape, top
      <4>3. c \in Prereqs(c)
        BY <4>1, <4>2, <1>4, Transitive DEF top
      <4> QED
        BY <4>3, <2>6, <1>4 DEF Acyclic
    <3>3. /\ \A m \in marked : m \in given /\ deps[m] \subseteq marked
          /\ top \in given /\ deps[top] \ stack[1].rest \subseteq marked
      BY <3>1, <1>1, <1>4 DEF AcyclicInv, top
    <3>4. ASSUME NEW i \in DOMAIN t
          PROVE  /\ t[i].code \in given
                 /\ i > 1 => deps[t[i].code] \ t[i].rest \subseteq marked \cup {t[i - 1].code}
                 /\ i = 1 => deps[t[i].code] \ t[i].rest \subseteq marked \cup {c}
      <4>1. i \in Nat /\ i >= 1
        BY <1>4 DEF Shape
      <4>2. CASE i = 1
        BY <4>2, <3>3, <1>4
      <4>3. CASE i > 1
        <5>1. t[i] = stack[i] /\ i - 1 \in DOMAIN t /\ i \in DOMAIN stack
          BY <4>3, <1>4
        <5>2. t[i - 1].code = stack[i - 1].code
          <6>1. CASE i - 1 = 1
            BY <6>1, <1>4 DEF top
          <6>2. CASE i - 1 > 1
            BY <6>2, <5>1, <1>4
          <6> QED
            BY <6>1, <6>2, <4>1, <4>3
        <5> QED
          BY <5>1, <5>2, <4>3, <3>1 DEF AcyclicInv
      <4> QED
        BY <4>1, <4>2, <4>3
    <3>5. CASE v = "none"
      <4>1. stack' = u /\ ret' = "none"
        BY <3>5, <1>1
      <4>2. ASSUME NEW i \in DOMAIN u
            PROVE  /\ u[i].code \in given
                   /\ i > 1 => deps[u[i].code] \ u[i].rest \subseteq marked \cup {u[i - 1].code}
                   /\ i = 1 => deps[u[i].code] \ u[i].rest \subseteq marked
        <5>1. i \in Nat /\ i >= 1 /\ DOMAIN u = 1..(Len(t) + 1) /\ Len(t) \in Nat
          BY <3>5, <1>4, <1>6 DEF Shape
        <5>2. CASE i = 1
          BY <5>2, <3>5, <2>2, <1>6
        <5>3. CASE i > 1
          <6>1. i - 1 \in DOMAIN t /\ u[i] = t[i - 1]
            BY <5>3, <3>5, <1>6
          <6>2. CASE i = 2
            <7>1. u[1].code = c /\ i - 1 = 1
              BY <6>2, <3>5, <1>6
            <7> QED
              BY <7>1, <6>1, <6>2, <3>4
          <6>3. CASE i > 2
            <7>1. i - 1 \in DOMAIN u /\ i - 1 > 1
              BY <6>3, <5>1
            <7>2. u[i - 1] = t[(i - 1) - 1]
              BY <7>1, <3>5, <1>6
            <7> QED
              BY <7>1, <7>2, <6>1, <6>3, <3>4
          <6> QED
            BY <6>2, <6>3, <5>1, <5>3
        <5> QED
          BY <5>1, <5>2, <5>3
      <4> QED
        BY <4>1, <4>2, <3>3, <2>3, <1>1 DEF AcyclicInv
    <3>6. CASE v # "none"
      <4>1. stack' = t /\ ret' = v /\ (v # "no" => c \in marked)
        BY <3>2, <3>6, <2>2, <1>1, <1>5 DEF Verdicts
      <4> QED
        BY <4>1, <3>3, <3>4, <2>3, <1>1 DEF AcyclicInv
    <3> QED
      BY <3>5, <3>6
  <2> QED
    BY <2>4, <2>5, <2>6, <1>1, <1>7, <1>9, FilterStep
<1> QED
  BY <1>2, <1>8, <1>9

LEMMA CheckStep == ASSUME NEW c PROVE WalkInv /\ Check(c) => WalkInv'
BY CheckOuter, CheckInner DEF Check

-----------------------------------------------------------------------------
(* The theorems.                                                           *)

\* The strengthening holds in every state of every run of the functions.
THEOREM Inductive == Spec => []WalkInv
<1>1. WalkInv /\ UNCHANGED vars => WalkInv'
  <2> SUFFICES ASSUME WalkInv, UNCHANGED vars PROVE WalkInv'
    OBVIOUS
  <2>1. UNCHANGED <<job, deps, given, todo, stack, ret, marked>>
    BY DEF vars
  <2>2. \A c : Prereqs(c)' = Prereqs(c)
    BY <2>1, SameGraph
  <2>3. Usable' = Usable /\ Locked' = Locked /\ Acyclic' = Acyclic
    BY <2>1, SameGraph
  <2> QED
    BY <2>1, <2>2, <2>3
    DEF WalkInv, TypeOK, Linked, ClosureInv, LockInv, FilterInv, AcyclicInv, Visiting
<1>2. WalkInv /\ [Next]_vars => WalkInv'
  BY <1>1, ClosureStep, CheckStep, ReceiveStep, ReturnStep DEF Next, Walk, Finished
<1> QED
  BY <1>2, InitWalkInv, PTL DEF Spec

\* prereqClosure returns exactly the transitive prerequisites of its code, on
\* every graph, cyclic ones included.
THEOREM ClosureCorrect == Spec => []ClosureExact
<1>1. WalkInv => ClosureExact
  <2> SUFFICES ASSUME WalkInv, Done, job = "closure", NEW c \in given
               PROVE  marked = Prereqs(c) \ {c}
    BY DEF ClosureExact
  <2>1. given = {c} /\ c \in Names /\ TypeOK /\ ClosureInv /\ todo = {}
    BY DEF WalkInv, Names, Done
  <2>2. marked \subseteq Prereqs(c) \ {c}
    BY <2>1 DEF ClosureInv
  <2>3. Closed(marked \cup {c}) /\ deps[c] \subseteq marked \cup {c}
    BY <2>1 DEF ClosureInv, Closed
  <2>4. Prereqs(c) \subseteq marked \cup {c}
    BY <2>1, <2>3, Least DEF TypeOK
  <2> QED
    BY <2>2, <2>4
<1> QED
  BY <1>1, Inductive, PTL

\* cascadeLocked locks no code without a reason, on every graph.
THEOREM LockJustified == Spec => []LockSound
<1>1. WalkInv => LockSound
  BY DEF WalkInv, LockInv, LockSound
<1> QED
  BY <1>1, Inductive, PTL

\* filterGrantedByDeps drops no usable code, on every graph.
THEOREM FilterComplete == Spec => []FilterKeepsUsable
<1>1. WalkInv => FilterKeepsUsable
  BY DEF WalkInv, FilterInv, FilterKeepsUsable, Done, Visiting
<1> QED
  BY <1>1, Inductive, PTL

\* On a graph without cycles it keeps only usable codes.
THEOREM FilterSoundAcyclic == Spec => []FilterExactAcyclic
<1>1. WalkInv => FilterExactAcyclic
  <2> SUFFICES ASSUME WalkInv, job = "filter", Acyclic, NEW m \in marked
               PROVE  m \in Usable
    BY DEF FilterExactAcyclic
  <2>1. AcyclicInv /\ TypeOK
    BY DEF WalkInv
  <2>2. Closed(marked) /\ deps[m] \subseteq marked /\ marked \subseteq given
    BY <2>1 DEF AcyclicInv, Closed
  <2>3. m \in Names /\ marked \in SUBSET Names
    BY <2>1 DEF TypeOK
  <2>4. Prereqs(m) \subseteq marked
    BY <2>2, <2>3, Least
  <2> QED
    BY <2>2, <2>4 DEF Usable
<1> QED
  BY <1>1, Inductive, PTL

-----------------------------------------------------------------------------
(* What a no means, and what is left of it.                                *)

\* A code all of whose prerequisites are cut off short of itself and of V is
\* cut off short of V.
LEMMA CutOffUnion ==
  ASSUME NEW c \in Names, c \notin given, deps \in [Names -> SUBSET Codes], NEW V,
         \A d \in deps[c] : CutOff(d, V \cup {c})
  PROVE  CutOff(c, V)
<1> DEFINE Good(S) == S \cap given = {} /\ \A x \in S : deps[x] \subseteq S \cup V \cup {c}
           S == {c} \cup UNION {G \in SUBSET Names : Good(G)}
<1>1. S \in SUBSET Names /\ c \in S
  OBVIOUS
<1>2. S \cap given = {}
  OBVIOUS
<1>3. ASSUME NEW x \in S, NEW d \in deps[x] PROVE d \in S \cup V
  <2>1. CASE x = c
    <3>1. CutOff(d, V \cup {c})
      BY <1>3, <2>1
    <3>2. CASE d \in V \cup {c}
      BY <3>2, <1>1
    <3>3. CASE d \notin V \cup {c}
      <4>1. PICK G \in SUBSET Names : d \in G /\ Good(G)
        BY <3>1, <3>3 DEF CutOff
      <4> QED
        BY <4>1
    <3> QED
      BY <3>2, <3>3
  <2>2. CASE x # c
    <3>1. PICK G \in SUBSET Names : x \in G /\ Good(G)
      BY <2>2
    <3>2. d \in G \cup V \cup {c}
      BY <1>3, <3>1
    <3> QED
      BY <3>1, <3>2, <1>1
  <2> QED
    BY <2>1, <2>2
<1> HIDE DEF S
<1> QED
  BY <1>1, <1>2, <1>3 DEF CutOff

\* With nothing on the stack it is not locked.
LEMMA CutOffFree ==
  ASSUME NEW c \in Names, CutOff(c, {})
  PROVE  c \notin Locked
<1>1. PICK S \in SUBSET Names :
        c \in S /\ S \cap given = {} /\ \A x \in S : deps[x] \subseteq S \cup {}
  BY DEF CutOff
<1>2. Closed(S) /\ deps[c] \subseteq S
  BY <1>1 DEF Closed
<1>3. Prereqs(c) \subseteq S
  BY <1>2, Least
<1> QED
  BY <1>1, <1>3 DEF Locked

LEMMA SameCutOff ==
  ASSUME deps' = deps, given' = given
  PROVE  \A s, a : Refused(s, a)' <=> Refused(s, a)
BY DEF Refused, CutOff, Under

\* The stack below a call when one is popped, pushed or replaced.
LEMMA UnderPop ==
  ASSUME NEW s \in Seq(Frames), s # <<>>
  PROVE  /\ \A i \in DOMAIN Tail(s) : Under(Tail(s), i) = Under(s, i + 1)
         /\ Under(s, 1) = Under(Tail(s), 1) \cup {s[1].code}
<1> DEFINE t == Tail(s)
<1>1. /\ Len(s) \in Nat \ {0} /\ Len(t) = Len(s) - 1
      /\ \A j \in 1..Len(t) : t[j] = s[j + 1]
      /\ DOMAIN t = 1..Len(t)
  OBVIOUS
<1> HIDE DEF t
<1>2. ASSUME NEW i \in Nat \ {0} PROVE Under(t, i) = Under(s, i + 1)
  <2>1. ASSUME NEW j \in i..Len(t) PROVE t[j].code \in Under(s, i + 1)
    <3>1. j + 1 \in (i + 1)..Len(s) /\ t[j] = s[j + 1]
      BY <1>1
    <3> QED
      BY <3>1 DEF Under
  <2>2. ASSUME NEW j \in (i + 1)..Len(s) PROVE s[j].code \in Under(t, i)
    <3>1. j - 1 \in i..Len(t) /\ t[j - 1] = s[(j - 1) + 1] /\ (j - 1) + 1 = j
      BY <1>1
    <3> QED
      BY <3>1 DEF Under
  <2> QED
    BY <2>1, <2>2 DEF Under
<1>3. Under(s, 1) = Under(s, 2) \cup {s[1].code}
  <2>1. 1..Len(s) = 2..Len(s) \cup {1}
    BY <1>1
  <2> QED
    BY <2>1 DEF Under
<1>4. Under(t, 1) = Under(s, 2)
  BY <1>2
<1> QED
  BY <1>1, <1>2, <1>3, <1>4 DEF t

LEMMA UnderTop ==
  ASSUME NEW s \in Seq(Frames), NEW t \in Seq(Frames), DOMAIN t = DOMAIN s,
         \A i \in DOMAIN s : t[i].code = s[i].code
  PROVE  /\ Len(t) = Len(s)
         /\ \A i \in DOMAIN s : Under(t, i) = Under(s, i)
<1>1. Len(t) = Len(s) /\ DOMAIN s = 1..Len(s) /\ Len(s) \in Nat
  OBVIOUS
<1>2. ASSUME NEW i \in DOMAIN s PROVE Under(t, i) = Under(s, i)
  <2>1. \A j \in i..Len(s) : t[j].code = s[j].code
    BY <1>1
  <2> QED
    BY <2>1, <1>1 DEF Under
<1> QED
  BY <1>1, <1>2

\* The codes on the stack are those under its top.
LEMMA UnderAll ==
  ASSUME NEW s \in Seq(Frames)
  PROVE  CodesOf(s) = Under(s, 1)
BY DEF CodesOf, Under

-----------------------------------------------------------------------------
(* The steps.                                                              *)

\* An exhausted call returns no, or a call that got a yes returns it.
LEMMA RefusedPop ==
  ASSUME NEW s, Shape(s), Chain(s), s # <<>>, NEW a, Refused(s, a), NEW b,
         b = "yes" \/ CutOff(s[1].code, Under(Tail(s), 1))
  PROVE  Refused(Tail(s), b)
<1> DEFINE t == Tail(s)
<1>1. /\ t \in Seq(Frames)
      /\ \A i \in DOMAIN t : i + 1 \in DOMAIN s /\ t[i] = s[i + 1] /\ Under(t, i) = Under(s, i + 1)
  BY PopShape, UnderPop DEF Shape
<1> SUFFICES ASSUME NEW i \in DOMAIN t
             PROVE  /\ t[i].code \notin given
                    /\ \A d \in deps[t[i].code] \ t[i].rest :
                         \/ CutOff(d, Under(t, i))
                         \/ i > 1 /\ d = t[i - 1].code
                         \/ i = 1 /\ b = "yes"
  BY DEF Refused
<1>2. i \in Nat /\ i >= 1 /\ DOMAIN t = 1..Len(t) /\ Len(t) \in Nat
  BY <1>1
<1>3. /\ i + 1 \in DOMAIN s /\ t[i] = s[i + 1] /\ Under(t, i) = Under(s, i + 1)
      /\ i > 1 => t[i - 1] = s[i]
  <2>1. i > 1 => i - 1 \in DOMAIN t /\ (i - 1) + 1 = i
    BY <1>2
  <2> QED
    BY <2>1, <1>1
<1> HIDE DEF t
<1>4. t[i].code \notin given
  BY <1>3 DEF Refused
<1>5. ASSUME NEW d \in deps[t[i].code] \ t[i].rest
      PROVE  \/ CutOff(d, Under(t, i))
             \/ i > 1 /\ d = t[i - 1].code
             \/ i = 1 /\ b = "yes"
  <2>1. CutOff(d, Under(s, i + 1)) \/ d = s[i].code
    <3>1. (i + 1) - 1 = i /\ i + 1 # 1
      BY <1>2
    <3>2. \/ CutOff(d, Under(s, i + 1))
          \/ i + 1 > 1 /\ d = s[(i + 1) - 1].code
          \/ i + 1 = 1 /\ a = "yes"
      BY <1>3, <1>5 DEF Refused
    <3> QED
      BY <3>1, <3>2
  <2>2. CASE i > 1
    BY <2>1, <2>2, <1>3
  <2>3. CASE i = 1
    BY <2>1, <2>3, <1>3 DEF t
  <2> QED
    BY <2>2, <2>3, <1>2
<1> QED
  BY <1>4, <1>5

\* A call takes a prerequisite and learns its answer at once.
LEMMA RefusedTake ==
  ASSUME deps \in [Names -> SUBSET Codes], NEW s, Shape(s), Chain(s), s # <<>>,
         NEW c \in s[1].rest, NEW a, Refused(s, "none"),
         a # "yes" => CutOff(c, Under(s, 1)),
         NEW t, Shape(t), t[1].code = s[1].code, t[1].rest = s[1].rest \ {c},
         DOMAIN t = DOMAIN s, 1 \in DOMAIN s,
         \A i \in DOMAIN t : i > 1 => i - 1 \in DOMAIN t /\ t[i] = s[i]
  PROVE  Refused(t, a)
<1>2. DOMAIN s = 1..Len(s) /\ Len(s) \in Nat /\ s \in Seq(Frames) /\ t \in Seq(Frames)
  BY DEF Shape
<1>3. \A i \in DOMAIN s : t[i].code = s[i].code
  BY <1>2
<1>4. \A i \in DOMAIN s : Under(t, i) = Under(s, i)
  BY <1>2, <1>3, UnderTop
<1> SUFFICES ASSUME NEW i \in DOMAIN t
             PROVE  /\ t[i].code \notin given
                    /\ \A d \in deps[t[i].code] \ t[i].rest :
                         \/ CutOff(d, Under(t, i))
                         \/ i > 1 /\ d = t[i - 1].code
                         \/ i = 1 /\ a = "yes"
  BY DEF Refused
<1>5. t[i].code \notin given
  BY <1>3 DEF Refused
<1>6. CASE i = 1
  <2>1. \A d \in deps[s[1].code] \ s[1].rest : CutOff(d, Under(s, 1))
    BY DEF Refused
  <2>2. t[1].code = s[1].code /\ t[1].rest = s[1].rest \ {c} /\ Under(t, 1) = Under(s, 1)
    BY <1>4
  <2>3. \A d \in deps[t[1].code] \ t[1].rest : CutOff(d, Under(t, 1)) \/ (d = c /\ c \in s[1].rest)
    BY <2>1, <2>2
  <2>4. a = "yes" \/ CutOff(c, Under(t, 1))
    BY <2>2
  <2> QED
    BY <2>3, <2>4, <1>5, <1>6
<1>7. CASE i > 1
  <2>0. i \in DOMAIN s /\ i - 1 \in DOMAIN s /\ t[i] = s[i] /\ i # 1
    BY <1>7
  <2>1. t[i] = s[i] /\ t[i - 1].code = s[i - 1].code /\ i # 1
    BY <2>0, <1>3
  <2>2. \A d \in deps[s[i].code] \ s[i].rest : CutOff(d, Under(s, i)) \/ d = s[i - 1].code
    BY <2>0 DEF Refused
  <2>3. Under(t, i) = Under(s, i)
    BY <1>4
  <2> QED
    BY <2>1, <2>2, <2>3, <1>5, <1>7
<1> QED
  BY <1>2, <1>6, <1>7

\* A call takes a prerequisite and recurses into it, or the outer loop does.
LEMMA RefusedPush ==
  ASSUME deps \in [Names -> SUBSET Codes], NEW s, Shape(s), Chain(s),
         NEW c \in Names, c \notin CodesOf(s), c \notin given,
         s # <<>> => c \in deps[s[1].code] \ s[1].rest,
         \A i \in DOMAIN s : s[i].code \notin given,
         \A i \in DOMAIN s : \A d \in deps[s[i].code] \ s[i].rest :
            \/ CutOff(d, Under(s, i))
            \/ i > 1 /\ d = s[i - 1].code
            \/ i = 1 /\ d = c,
         NEW u, u = <<[code |-> c, rest |-> deps[c]]>> \o s
  PROVE  Refused(u, "none") /\ u[Len(u)].code = IF s = <<>> THEN c ELSE s[Len(s)].code
<1>1. /\ Shape(u) /\ u # <<>> /\ u[1] = [code |-> c, rest |-> deps[c]]
      /\ DOMAIN u = 1..(Len(s) + 1)
      /\ \A i \in DOMAIN u : i > 1 => i - 1 \in DOMAIN s /\ u[i] = s[i - 1]
  BY PushShape
<1>2. /\ s \in Seq(Frames) /\ u \in Seq(Frames) /\ Len(s) \in Nat /\ DOMAIN s = 1..Len(s)
      /\ Len(u) = Len(s) + 1
  <2>1. s \in Seq(Frames) /\ u \in Seq(Frames)
    BY <1>1 DEF Shape
  <2> QED
    BY <2>1, <1>1
<1>3. Tail(u) = s
  BY <1>2
<1>4. \A i \in DOMAIN s : Under(s, i) = Under(u, i + 1)
  BY <1>1, <1>2, <1>3, UnderPop
<1>5. ASSUME NEW i \in DOMAIN u
      PROVE  /\ u[i].code \notin given
             /\ \A d \in deps[u[i].code] \ u[i].rest :
                  \/ CutOff(d, Under(u, i))
                  \/ i > 1 /\ d = u[i - 1].code
                  \/ i = 1 /\ "none" = "yes"
  <2>1. CASE i = 1
    BY <2>1, <1>1
  <2>2. CASE i > 1
    <3>1. i - 1 \in DOMAIN s /\ u[i] = s[i - 1] /\ Under(s, i - 1) = Under(u, i) /\ i \in Nat
      <4>1. i - 1 \in DOMAIN s /\ (i - 1) + 1 = i /\ i \in Nat
        BY <2>2, <1>1, <1>2
      <4> QED
        BY <4>1, <2>2, <1>1, <1>4
    <3>2. i - 1 > 1 => u[i - 1] = s[(i - 1) - 1]
      BY <3>1, <1>1, <1>2
    <3>3. i - 1 = 1 => u[i - 1].code = c
      BY <1>1
    <3>4. \A d \in deps[s[i - 1].code] \ s[i - 1].rest :
            \/ CutOff(d, Under(s, i - 1))
            \/ i - 1 > 1 /\ d = s[(i - 1) - 1].code
            \/ i - 1 = 1 /\ d = c
      BY <3>1
    <3> QED
      BY <2>2, <3>1, <3>2, <3>3, <3>4
  <2> QED
    BY <2>1, <2>2, <1>1, <1>2
<1>6. u[Len(u)].code = IF s = <<>> THEN c ELSE s[Len(s)].code
  <2>1. CASE s = <<>>
    BY <2>1, <1>1, <1>2
  <2>2. CASE s # <<>>
    <3>1. Len(u) \in DOMAIN u /\ Len(u) > 1 /\ Len(u) - 1 = Len(s)
      BY <2>2, <1>1, <1>2
    <3> QED
      BY <2>2, <3>1, <1>1
  <2> QED
    BY <2>1, <2>2
<1> QED
  BY <1>5, <1>6 DEF Refused

\* The part about the codes the outer loop has been through.
LEMMA Through ==
  ASSUME CompleteInv, job = "lock", UNCHANGED <<job, deps, given>>,
         Refused(stack', ret'),
         todo' = todo, marked \subseteq marked',
         stack # <<>>,
         stack' # <<>> => stack'[Len(stack')].code = stack[Len(stack)].code,
         \/ stack' # <<>>
         \/ stack[Len(stack)].code \notin Locked
         \/ stack[Len(stack)].code \in marked'
  PROVE  CompleteInv'
<1>1. Locked' = Locked /\ (Refused(stack, ret)' <=> Refused(stack', ret'))
  BY SameGraph DEF Refused, CutOff, Under
<1>2. ASSUME NEW c \in (Codes \cap Locked) \ (todo' \cup marked')
      PROVE  stack' # <<>> /\ c = stack'[Len(stack')].code
  BY <1>2 DEF CompleteInv
<1> QED
  BY <1>1, <1>2 DEF CompleteInv

\* The last frame stays the last one until it is the only one.
LEMMA LastOfTail ==
  ASSUME NEW s \in Seq(Frames), s # <<>>
  PROVE  /\ Tail(s) # <<>> => Tail(s)[Len(Tail(s))] = s[Len(s)]
         /\ Tail(s) = <<>> => Len(s) = 1
<1> DEFINE n == Len(s)
           t == Tail(s)
<1>1. n \in Nat \ {0} /\ t \in Seq(Frames) /\ Len(t) = n - 1 /\ \A i \in 1..(n - 1) : t[i] = s[i + 1]
  OBVIOUS
<1>2. t = <<>> <=> n = 1
  BY <1>1
<1>3. CASE n # 1
  <2>1. n - 1 \in 1..(n - 1)
    BY <1>1, <1>3
  <2>2. t[n - 1] = s[(n - 1) + 1] /\ (n - 1) + 1 = n
    BY <1>1, <2>1
  <2> QED
    BY <1>1, <1>2, <1>3, <2>2
<1>4. CASE n = 1
  BY <1>2, <1>4
<1> QED
  BY <1>3, <1>4

LEMMA CompleteReturn == WalkInv /\ CompleteInv /\ job = "lock" /\ ReturnExhausted => CompleteInv'
<1> SUFFICES ASSUME WalkInv, CompleteInv, job = "lock", ReturnExhausted PROVE CompleteInv'
  OBVIOUS
<1> DEFINE t == Tail(stack)
           c == stack[1].code
<1>1. /\ UNCHANGED <<job, deps, given, todo, marked>>
      /\ ret = "none" /\ stack # <<>> /\ stack[1].rest = {} /\ stack' = t
      /\ ret' = "no"
  BY DEF ReturnExhausted, MarkOn, Exhausted
<1>2. Shape(stack) /\ Chain(stack) /\ deps \in [Names -> SUBSET Codes]
  BY TypedShape DEF WalkInv
<1>3. stack \in Seq(Frames) /\ c \in Names /\ 1 \in DOMAIN stack
  BY <1>1, <1>2, PopShape DEF Shape
<1>4. Under(stack, 1) = Under(t, 1) \cup {c}
  BY <1>1, <1>3, UnderPop
<1>5. Refused(stack, "none")
  BY <1>1 DEF CompleteInv
<1>6. c \notin given /\ \A d \in deps[c] : CutOff(d, Under(stack, 1))
  BY <1>1, <1>3, <1>5 DEF Refused
<1>7. CutOff(c, Under(t, 1))
  <2> HIDE DEF c, t
  <2>1. \A d \in deps[c] : CutOff(d, Under(t, 1) \cup {c})
    BY <1>4, <1>6
  <2> QED
    BY <2>1, <1>2, <1>3, <1>6, CutOffUnion
<1>8. Refused(t, "no")
  BY <1>1, <1>2, <1>5, <1>7, RefusedPop
<1>9. /\ t # <<>> => t[Len(t)].code = stack[Len(stack)].code
      /\ t = <<>> => stack[Len(stack)].code = c /\ Under(t, 1) = {}
  <2>1. t # <<>> => t[Len(t)] = stack[Len(stack)]
    BY <1>1, <1>3, LastOfTail
  <2>2. t = <<>> => Len(stack) = 1
    BY <1>1, <1>3, LastOfTail
  <2>3. Under(<<>>, 1) = {}
    BY DEF Under
  <2> QED
    BY <2>1, <2>2, <2>3
<1>10. t = <<>> => c \notin Locked
  BY <1>3, <1>7, <1>9, CutOffFree
<1> HIDE DEF t, c
<1> QED
  BY <1>1, <1>8, <1>9, <1>10, Through

LEMMA CompleteReceive == WalkInv /\ CompleteInv /\ job = "lock" /\ Receive => CompleteInv'
<1> SUFFICES ASSUME WalkInv, CompleteInv, job = "lock", Receive PROVE CompleteInv'
  OBVIOUS
<1>1. UNCHANGED <<job, deps, given, todo>>
  BY DEF Receive
<1>2. Shape(stack) /\ Chain(stack)
  BY TypedShape DEF WalkInv
<1>3. CASE stack # <<>> /\ ret = "yes"
  <2> DEFINE t == Tail(stack)
  <2>1. stack' = t /\ ret' = "yes" /\ marked' = marked \cup {stack[1].code}
    BY <1>3 DEF Receive, MarkOn, Decisive
  <2>2. Refused(t, "yes")
    BY <1>2, <1>3, RefusedPop DEF CompleteInv
  <2>3. /\ t # <<>> => t[Len(t)].code = stack[Len(stack)].code
        /\ t = <<>> => stack[Len(stack)].code = stack[1].code
    BY <1>2, <1>3, LastOfTail DEF Shape
  <2> HIDE DEF t
  <2> QED
    BY <2>1, <2>2, <2>3, <1>1, <1>3, Through
<1>4. CASE ~(stack # <<>> /\ ret = "yes")
  <2>1. ret' = "none" /\ UNCHANGED <<stack, marked>>
    BY <1>4 DEF Receive, Decisive
  <2>2. Refused(stack, "none")
    <3>1. CASE stack = <<>>
      BY <3>1 DEF Refused
    <3>2. CASE ret # "yes"
      BY <3>2 DEF CompleteInv, Refused
    <3> QED
      BY <3>1, <3>2, <1>4
  <2>3. Locked' = Locked /\ (Refused(stack, ret)' <=> Refused(stack', ret'))
    BY <1>1, SameGraph DEF Refused, CutOff, Under
  <2> QED
    BY <2>1, <2>2, <2>3, <1>1 DEF CompleteInv
<1> QED
  BY <1>3, <1>4

LEMMA CompleteOuter ==
  ASSUME WalkInv, CompleteInv, job = "lock", NEW c \in todo, Check(c), stack = <<>>
  PROVE  CompleteInv'
<1> DEFINE v == Verdict(c)
           u == <<[code |-> c, rest |-> deps[c]]>> \o stack
<1>1. /\ UNCHANGED <<job, deps, given>>
      /\ todo' = todo \ {c}
      /\ ret' = v
      /\ marked' = IF v = "yes" THEN marked \cup {c} ELSE marked
      /\ stack' = IF v = "none" THEN u ELSE stack
  BY DEF Check, MarkOn
<1>2. /\ Shape(stack) /\ Chain(stack) /\ CodesOf(stack) = {} /\ Visiting = {} /\ c \in Names
      /\ deps \in [Names -> SUBSET Codes]
  BY TypedShape DEF WalkInv, TypeOK, CodesOf
<1>3. v = "none" \/ v = "yes"
  BY <1>2 DEF Verdict, LockVerdict
<1>4. v = "none" => c \notin given
  BY DEF Verdict, LockVerdict
<1>5. Locked' = Locked /\ (Refused(stack, ret)' <=> Refused(stack', ret'))
  BY <1>1, SameGraph DEF Refused, CutOff, Under
<1>6. CASE v = "yes"
  <2>1. Refused(stack, ret)'
    BY <1>1, <1>5, <1>6 DEF Refused
  <2> HIDE DEF v
  <2> QED
    BY <2>1, <1>1, <1>5, <1>6 DEF CompleteInv
<1>7. CASE v = "none"
  <2>1. Refused(u, "none") /\ u[Len(u)].code = c
    <3>1. DOMAIN stack = {}
      OBVIOUS
    <3>2. /\ Refused(u, "none")
          /\ u[Len(u)].code = IF stack = <<>> THEN c ELSE stack[Len(stack)].code
      BY <3>1, <1>2, <1>4, <1>7, RefusedPush
    <3> QED
      BY <3>2
  <2>2. u # <<>>
    OBVIOUS
  <2> HIDE DEF u, v
  <2> QED
    BY <2>1, <2>2, <1>1, <1>5, <1>7 DEF CompleteInv
<1> QED
  BY <1>3, <1>6, <1>7

LEMMA CompleteInner ==
  ASSUME WalkInv, CompleteInv, job = "lock", NEW c, Check(c), stack # <<>>
  PROVE  CompleteInv'
<1> DEFINE v == Verdict(c)
           t == <<[code |-> stack[1].code, rest |-> stack[1].rest \ {c}]>> \o Tail(stack)
           u == <<[code |-> c, rest |-> deps[c]]>> \o t
<1>1. /\ UNCHANGED <<job, deps, given, todo>> /\ ret = "none"
      /\ c \in stack[1].rest
      /\ ret' = v
      /\ marked' = IF v = "yes" THEN marked \cup {c} ELSE marked
      /\ stack' = IF v = "none" THEN u ELSE t
  BY DEF Check, MarkOn
<1>2. /\ Shape(stack) /\ Chain(stack) /\ Visiting = CodesOf(stack)
      /\ deps \in [Names -> SUBSET Codes] /\ Refused(stack, "none") /\ stack \in Seq(Frames)
  BY <1>1, TypedShape DEF WalkInv, CompleteInv, Shape
<1>3. /\ Shape(t) /\ Chain(t) /\ CodesOf(t) = CodesOf(stack)
      /\ t # <<>> /\ t[1] = [code |-> stack[1].code, rest |-> stack[1].rest \ {c}]
      /\ DOMAIN t = DOMAIN stack /\ 1 \in DOMAIN stack
      /\ \A i \in DOMAIN t : i > 1 => i - 1 \in DOMAIN t /\ t[i] = stack[i]
      /\ c \in Names /\ c \in deps[stack[1].code]
  BY <1>1, <1>2, TakeShape
<1>4. /\ v \in Verdicts
      /\ v = "none" => c \notin Visiting /\ c \notin given
      /\ v = "no" => c \in Visiting
  BY DEF Verdict, LockVerdict, Verdicts
<1> HIDE DEF t, v
<1>5. t[1].code = stack[1].code /\ t[1].rest = stack[1].rest \ {c}
  BY <1>3
<1>6. t[Len(t)].code = stack[Len(stack)].code
  <2>1. t \in Seq(Frames) /\ DOMAIN t = 1..Len(t) /\ DOMAIN stack = 1..Len(stack)
    BY <1>2, <1>3 DEF Shape
  <2>2. \A i \in DOMAIN stack : t[i].code = stack[i].code
    BY <2>1, <1>3, <1>5
  <2>3. Len(t) = Len(stack)
    BY <2>1, <2>2, <1>2, <1>3, UnderTop
  <2>4. Len(t) \in DOMAIN t
    BY <2>1, <1>3
  <2> QED
    BY <2>1, <2>2, <2>3, <2>4, <1>3
<1>7. CASE v # "none"
  <2>1. v # "yes" => CutOff(c, Under(stack, 1))
    BY <1>2, <1>4, <1>7, UnderAll DEF CutOff, Verdicts
  <2>2. Refused(t, v)
    BY <2>1, <1>1, <1>2, <1>3, <1>5, RefusedTake
  <2>3. stack' = t /\ ret' = v /\ marked \subseteq marked'
    BY <1>1, <1>7
  <2> QED
    BY <2>2, <2>3, <1>1, <1>3, <1>6, Through
<1>8. CASE v = "none"
  <2>1. Refused(t, "yes")
    BY <1>1, <1>2, <1>3, <1>5, RefusedTake
  <2>2. \A i \in DOMAIN t : t[i].code \notin given
    BY <2>1 DEF Refused
  <2>3. \A i \in DOMAIN t : \A d \in deps[t[i].code] \ t[i].rest :
          \/ CutOff(d, Under(t, i))
          \/ i > 1 /\ d = t[i - 1].code
          \/ i = 1 /\ d = c
    <3>1. \A d \in deps[stack[1].code] \ stack[1].rest : CutOff(d, Under(stack, 1))
      BY <1>2, <1>3 DEF Refused
    <3>2. Under(t, 1) = Under(stack, 1)
      BY <1>2, <1>3, UnderAll DEF Shape
    <3>3. \A d \in deps[t[1].code] \ t[1].rest : CutOff(d, Under(t, 1)) \/ d = c
      BY <3>1, <3>2, <1>5
    <3> QED
      BY <3>3, <2>1 DEF Refused
  <2>4. Refused(u, "none") /\ u[Len(u)].code = t[Len(t)].code
    <3>1. c \in deps[t[1].code] \ t[1].rest
      BY <1>3, <1>5
    <3>2. /\ Refused(u, "none")
          /\ u[Len(u)].code = IF t = <<>> THEN c ELSE t[Len(t)].code
      BY <3>1, <2>2, <2>3, <1>2, <1>3, <1>4, <1>8, RefusedPush
    <3> QED
      BY <3>2, <1>3
  <2>5. u # <<>>
    BY <1>3 DEF Shape
  <2> HIDE DEF u
  <2>6. stack' = u /\ ret' = "none" /\ marked' = marked
    BY <1>1, <1>8
  <2> QED
    BY <2>4, <2>5, <2>6, <1>1, <1>6, Through
<1> QED
  BY <1>7, <1>8

LEMMA InitCompleteInv == Init => CompleteInv
<1> SUFFICES ASSUME Init, job = "lock" PROVE CompleteInv
  BY DEF CompleteInv
<1>1. stack = <<>> /\ DOMAIN stack = {} /\ todo = Codes
  BY DEF Init
<1> QED
  BY <1>1 DEF CompleteInv, Refused

\* A no that the cycle guard or a later no forced says only that the code leads
\* nowhere else, so forgetting it is enough: the invariant behind LockFinds.
THEOREM NoIsForgotten == Spec => []CompleteInv
<1>1. WalkInv /\ CompleteInv /\ [Next]_vars => CompleteInv'
  <2> SUFFICES ASSUME WalkInv, CompleteInv, [Next]_vars PROVE CompleteInv'
    OBVIOUS
  <2>1. CASE UNCHANGED vars
    <3>1. UNCHANGED <<job, deps, given, todo, stack, ret, marked>>
      BY <2>1 DEF vars
    <3>2. Locked' = Locked
      BY <3>1, SameGraph
    <3> QED
      BY <3>1, <3>2 DEF CompleteInv, Refused, CutOff, Under
  <2>2. CASE PrereqClosure
    BY <2>2 DEF PrereqClosure, CompleteInv
  <2>3. CASE job # "lock" /\ job' = job
    BY <2>3 DEF CompleteInv
  <2>4. CASE job = "lock" /\ \E c \in Names : Check(c)
    BY <2>4, CompleteOuter, CompleteInner DEF Check
  <2>5. CASE job = "lock" /\ Receive
    BY <2>5, CompleteReceive
  <2>6. CASE job = "lock" /\ ReturnExhausted
    BY <2>6, CompleteReturn
  <2>7. job' = job
    BY DEF Next, Walk, Finished, vars, PrereqClosure, Check, Receive, ReturnExhausted
  <2> QED
    BY <2>1, <2>2, <2>3, <2>4, <2>5, <2>6, <2>7 DEF Next, Walk, Finished
<1> QED
  BY <1>1, Inductive, InitCompleteInv, PTL DEF Spec

\* cascadeLocked finds every code with a reason to be locked, whatever cycles
\* it cut and in whatever order it took the codes.
THEOREM LockFinds == Spec => []LockComplete
<1>1. CompleteInv => LockComplete
  BY DEF CompleteInv, LockComplete, Done
<1> QED
  BY <1>1, NoIsForgotten, PTL
=============================================================================
