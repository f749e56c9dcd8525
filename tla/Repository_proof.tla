-------------------------- MODULE Repository_proof --------------------------
(***************************************************************************)
(* The lists of PrimaryBaseRepository, for every table, every walk and any *)
(* number of writes between two statements.                                *)
(*                                                                         *)
(* Three parts rest on TypeOK.  AnswerInv says what each statement of an   *)
(* answer left behind for the next.  OffsetInv gives every row answered    *)
(* its rank in the list, while nobody writes.  KeysetInv says that what    *)
(* stays in the list and was not answered sorts behind the cursor; it      *)
(* needs the order of buildAfter (AfterThisRow) and, as a hypothesis, that *)
(* no timestamp the walk sorts by is finer than the Date a cursor keeps    *)
(* (WholeTimes): the run Repository_times is what happens otherwise.       *)
(***************************************************************************)
EXTENDS Repository, FiniteSetTheorems, SequenceTheorems, TLAPS

-----------------------------------------------------------------------------
(* What buildAfter selects, for every ORDER BY and every two rows.         *)

\* The rows a walk meets: NULL only in a column declared to have NULLs.
RowFor(o, x) ==
  \A i \in DOMAIN o :
    /\ x[o[i].column] \in Nat \cup {Null}
    /\ o[i].nulls = "none" => x[o[i].column] # Null
ValuesOf(o, y) == [i \in DOMAIN o |-> y[o[i].column]]

LEMMA Places ==
  ASSUME NEW o \in Seq(KeysetOrderBy), NEW i \in DOMAIN o
  PROVE  o[i] \in KeysetOrderBy
<1> DEFINE Entry == KeysetOrderBy
<1>1. o \in Seq(Entry) /\ i \in DOMAIN o
  OBVIOUS
<1> HIDE DEF Entry
<1>2. o[i] \in Entry
  BY <1>1
<1> QED
  BY <1>2 DEF Entry

\* On one column: to be strictly after a value is to come behind it in the
\* ORDER BY, NULLs included (KeysetProcessor.strictlyAfter).
LEMMA AfterOnColumn ==
  ASSUME NEW o \in KeysetOrderBy, NEW a \in Nat \cup {Null}, NEW v \in Nat \cup {Null},
         o.nulls = "none" => a # Null /\ v # Null
  PROVE  StrictlyAfter(o, a, v) <=> SortsBefore(o, v, a)
<1>1. o.direction \in {"asc", "desc"} /\ o.nulls \in {"none", "first", "last"}
  BY DEF KeysetOrderBy, Directions
<1>2. CASE o.direction = "asc"
  BY <1>1, <1>2 DEF StrictlyAfter, SortsBefore, Less, Null
<1>3. CASE o.direction = "desc"
  BY <1>1, <1>3 DEF StrictlyAfter, SortsBefore, Less, Null
<1> QED
  BY <1>1, <1>2, <1>3

\* A tie is equality, NULL with NULL included (KeysetProcessor.tie).
LEMMA TieIsEquality ==
  ASSUME NEW a \in Nat \cup {Null}, NEW v \in Nat \cup {Null}
  PROVE  Tie(a, v) <=> a = v
BY DEF Tie

LEMMA ExpansionExact ==
  ASSUME NEW o \in Seq(KeysetOrderBy), NEW x, NEW y, RowFor(o, x), RowFor(o, y)
  PROVE  BuildOrExpansion(o, ValuesOf(o, y), x) <=> Before(o, y, x)
<1> DEFINE v == ValuesOf(o, y)
           At(z, i) == z[o[i].column]
<1>1. \A i \in DOMAIN o : v[i] = At(y, i)
  BY DEF ValuesOf
<1>2. ASSUME NEW i \in DOMAIN o
      PROVE  StrictlyAfter(o[i], At(x, i), v[i]) <=> SortsBefore(o[i], At(y, i), At(x, i))
  <2>1. o[i] \in KeysetOrderBy
    BY <1>2, Places
  <2>2. At(x, i) \in Nat \cup {Null} /\ At(y, i) \in Nat \cup {Null}
    BY <1>2 DEF RowFor
  <2>3. o[i].nulls = "none" => At(x, i) # Null /\ At(y, i) # Null
    BY <1>2 DEF RowFor
  <2> HIDE DEF At, v
  <2>4. StrictlyAfter(o[i], At(x, i), At(y, i)) <=> SortsBefore(o[i], At(y, i), At(x, i))
    BY <2>1, <2>2, <2>3, AfterOnColumn
  <2> QED
    BY <1>1, <1>2, <2>4
<1>3. ASSUME NEW i \in DOMAIN o
      PROVE  (\A j \in 1..(i - 1) : Tie(At(x, j), v[j])) <=> (\A j \in 1..(i - 1) : At(y, j) = At(x, j))
  <2>1. ASSUME NEW j \in 1..(i - 1)
        PROVE  Tie(At(x, j), v[j]) <=> At(y, j) = At(x, j)
    <3>1. j \in DOMAIN o
      BY <1>3, <2>1
    <3>2. At(x, j) \in Nat \cup {Null} /\ At(y, j) \in Nat \cup {Null}
      BY <3>1 DEF RowFor
    <3> HIDE DEF At, v
    <3> QED
      BY <1>1, <3>1, <3>2, TieIsEquality
  <2> QED
    BY <2>1
<1> QED
  BY <1>2, <1>3 DEF BuildOrExpansion, Before

\* Where the fast path is taken, no column has NULLs and all have the
\* direction of the first: there the row comparison is the ORDER BY.
LEMMA RowValueExact ==
  ASSUME NEW o \in Seq(KeysetOrderBy), NEW x, NEW y, RowFor(o, x), RowFor(o, y),
         o # <<>>,
         \A i \in DOMAIN o : o[i].direction = o[1].direction,
         \A i \in DOMAIN o : o[i].nulls = "none"
  PROVE  BuildRowValue(o, ValuesOf(o, y), x) <=> Before(o, y, x)
<1> DEFINE v == ValuesOf(o, y)
           At(z, i) == z[o[i].column]
<1>1. \A i \in DOMAIN o : v[i] = At(y, i)
  BY DEF ValuesOf
<1>2. ASSUME NEW i \in DOMAIN o
      PROVE  (IF o[1].direction = "asc" THEN Less(v[i], At(x, i)) ELSE Less(At(x, i), v[i]))
               <=> SortsBefore(o[i], At(y, i), At(x, i))
  <2>1. At(x, i) # Null /\ At(y, i) # Null
    BY <1>2 DEF RowFor
  <2>2. o[i].direction = o[1].direction /\ o[i].nulls = "none"
    BY <1>2
  <2> HIDE DEF At, v
  <2> QED
    BY <1>1, <1>2, <2>1, <2>2 DEF SortsBefore
<1>3. ASSUME NEW i \in DOMAIN o
      PROVE  (\A j \in 1..(i - 1) : At(x, j) = v[j]) <=> (\A j \in 1..(i - 1) : At(y, j) = At(x, j))
  <2>1. \A j \in 1..(i - 1) : j \in DOMAIN o
    BY <1>3
  <2> HIDE DEF At, v
  <2> QED
    BY <1>1, <2>1
<1> QED
  BY <1>2, <1>3 DEF BuildRowValue, Before

\* "Builds the 'after this row' predicate": over any ORDER BY with at least
\* one column, whatever its directions and NULL placements, the rows that
\* buildAfter selects behind the values of a row are exactly those that the
\* ORDER BY puts behind that row.
THEOREM AfterThisRow ==
  ASSUME NEW o \in Seq(KeysetOrderBy), NEW x, NEW y, RowFor(o, x), RowFor(o, y), o # <<>>
  PROVE  BuildAfter(o, ValuesOf(o, y), x) <=> Before(o, y, x)
<1>1. CASE /\ \A i \in DOMAIN o : o[i].direction = o[1].direction
           /\ \A i \in DOMAIN o : o[i].nulls = "none"
  <2>1. BuildRowValue(o, ValuesOf(o, y), x) <=> Before(o, y, x)
    BY <1>1, RowValueExact
  <2>2. BuildOrExpansion(o, ValuesOf(o, y), x) <=> Before(o, y, x)
    BY ExpansionExact
  <2> QED
    BY <2>1, <2>2 DEF BuildAfter
<1>2. CASE ~(/\ \A i \in DOMAIN o : o[i].direction = o[1].direction
             /\ \A i \in DOMAIN o : o[i].nulls = "none")
  <2>1. BuildAfter(o, ValuesOf(o, y), x) <=> BuildOrExpansion(o, ValuesOf(o, y), x)
    BY <1>2 DEF BuildAfter
  <2> QED
    BY <2>1, ExpansionExact
<1> QED
  BY <1>1, <1>2

\* The boundary a cursor keeps is the row itself where no timestamp is finer
\* than a Date: then the next page starts right behind the last row.
THEOREM CursorExact ==
  ASSUME NEW o \in Seq(KeysetOrderBy), NEW x, NEW y, RowFor(o, x), RowFor(o, y), o # <<>>,
         \A i \in DOMAIN o : o[i].column \in Timestamps => y[o[i].column] % Precision = 0
  PROVE  BuildAfter(o, Encode(o, y).v, x) <=> Before(o, y, x)
<1>1. \A i \in DOMAIN o : y[o[i].column] \in Int
  BY DEF RowFor, Null
<1>2. Encode(o, y).v = ValuesOf(o, y)
  BY <1>1 DEF Encode, Boundary, ValuesOf
<1> QED
  BY <1>2, AfterThisRow

-----------------------------------------------------------------------------
(* Sequences that enumerate a set, and their pages.                        *)

LEMMA Enumerates ==
  ASSUME NEW S, IsFiniteSet(S), NEW s \in SetToSeqs(S)
  PROVE  /\ s \in Seq(S) /\ Len(s) = Cardinality(S) /\ ToSet(s) = S
         /\ \A i, j \in DOMAIN s : i # j => s[i] # s[j]
<1> DEFINE n == Cardinality(S)
<1>1. n \in Nat
  BY FS_CardinalityType
<1>2. s \in [1..n -> S] /\ \A i, j \in 1..n : i # j => s[i] # s[j]
  BY DEF SetToSeqs
<1>3. s \in Seq(S) /\ Len(s) = n /\ DOMAIN s = 1..n
  BY <1>1, <1>2
<1>4. s \in Injection(1..n, S)
  BY <1>2 DEF Injection, IsInjective
<1>5. Cardinality(1..n) = n
  BY <1>1, FS_Interval
<1>6. s \in Surjection(1..n, S)
  BY <1>4, <1>5, FS_Injection
<1>7. ToSet(s) = S
  BY <1>2, <1>6 DEF Surjection, ToSet
<1> QED
  BY <1>2, <1>3, <1>7

LEMMA SliceOf ==
  ASSUME NEW S, NEW s \in Seq(S), offset \in Nat, Limit \in Nat
  PROVE  /\ Slice(s) \in Seq(S) /\ Len(Slice(s)) = PageLength(Len(s))
         /\ \A i \in DOMAIN Slice(s) : offset + i \in DOMAIN s /\ Slice(s)[i] = s[offset + i]
<1> DEFINE m == offset + 1
           n == IF Limit = 0 \/ offset + Limit > Len(s) THEN Len(s) ELSE offset + Limit
<1>1. m \in 1..(Len(s) + 1) \/ m > Len(s) + 1
  OBVIOUS
<1>2. n \in Nat /\ n <= Len(s)
  OBVIOUS
<1>3. Slice(s) = SubSeq(s, m, n)
  BY DEF Slice
<1>4. CASE m <= Len(s)
  <2>1. m \in 1..Len(s) /\ n \in 1..Len(s)
    BY <1>2, <1>4
  <2>2. \A i \in m..n : s[i] \in S
    BY <1>2
  <2>3. /\ SubSeq(s, m, n) \in Seq(S)
        /\ Len(SubSeq(s, m, n)) = IF m <= n THEN n - m + 1 ELSE 0
        /\ \A i \in 1..(n - m + 1) : SubSeq(s, m, n)[i] = s[m + i - 1]
    BY <1>2, <2>1, <2>2, SubSeqProperties
  <2> QED
    BY <2>3, <2>1, <1>2, <1>3 DEF PageLength
<1>5. CASE m > Len(s)
  <2>1. SubSeq(s, m, n) = <<>>
    BY <1>2, <1>5, SubSeqEmpty
  <2> QED
    BY <2>1, <1>3, <1>5 DEF PageLength
<1> QED
  BY <1>1, <1>4, <1>5

LEMMA FetchedOf ==
  ASSUME NEW S, NEW s \in Seq(S), NEW n \in Nat
  PROVE  /\ Fetched(s, n) \in Seq(S)
         /\ Len(Fetched(s, n)) = IF Len(s) > n THEN n ELSE Len(s)
         /\ \A i \in DOMAIN Fetched(s, n) : i \in DOMAIN s /\ Fetched(s, n)[i] = s[i]
<1>1. CASE Len(s) > n
  <2>1. \A i \in 1..n : s[i] \in S
    BY <1>1
  <2>2. /\ SubSeq(s, 1, n) \in Seq(S)
        /\ Len(SubSeq(s, 1, n)) = IF 1 <= n THEN n - 1 + 1 ELSE 0
        /\ \A i \in 1..(n - 1 + 1) : SubSeq(s, 1, n)[i] = s[1 + i - 1]
    BY <1>1, <2>1, SubSeqProperties
  <2> QED
    BY <2>2, <1>1 DEF Fetched
<1>2. CASE ~(Len(s) > n)
  BY <1>2 DEF Fetched
<1> QED
  BY <1>1, <1>2

\* The last of a sequence; what a page adds to the rows already answered.
LEMMA LastOf ==
  ASSUME NEW S, NEW s \in Seq(S), s # <<>>
  PROVE  Last(s) = s[Len(s)] /\ Len(s) \in DOMAIN s /\ Last(s) \in S /\ Last(s) \in ToSet(s)
BY DEF Last, ToSet

LEMMA Joined ==
  ASSUME NEW S, NEW s \in Seq(S), NEW t \in Seq(S)
  PROVE  /\ s \o t \in Seq(S) /\ Len(s \o t) = Len(s) + Len(t)
         /\ \A i \in DOMAIN (s \o t) :
              IF i <= Len(s) THEN i \in DOMAIN s /\ (s \o t)[i] = s[i]
                             ELSE i - Len(s) \in DOMAIN t /\ (s \o t)[i] = t[i - Len(s)]
         /\ ToSet(s \o t) = ToSet(s) \cup ToSet(t)
         /\ t # <<>> => Last(s \o t) = Last(t)
         /\ t = <<>> => s \o t = s
<1> DEFINE u == s \o t
<1>1. /\ u \in Seq(S) /\ Len(u) = Len(s) + Len(t) /\ Len(s) \in Nat /\ Len(t) \in Nat
      /\ DOMAIN s = 1..Len(s) /\ DOMAIN t = 1..Len(t) /\ DOMAIN u = 1..(Len(s) + Len(t))
      /\ \A i \in 1..Len(s) : u[i] = s[i]
      /\ \A i \in 1..Len(t) : u[Len(s) + i] = t[i]
  OBVIOUS
<1>2. t = <<>> => u = s
  OBVIOUS
<1> HIDE DEF u
<1>3. ASSUME NEW i \in DOMAIN u
      PROVE  IF i <= Len(s) THEN i \in DOMAIN s /\ u[i] = s[i]
                            ELSE i - Len(s) \in DOMAIN t /\ u[i] = t[i - Len(s)]
  <2>1. CASE i <= Len(s)
    BY <1>1, <2>1
  <2>2. CASE i > Len(s)
    <3>1. i - Len(s) \in 1..Len(t) /\ Len(s) + (i - Len(s)) = i
      BY <1>1, <2>2
    <3>2. u[Len(s) + (i - Len(s))] = t[i - Len(s)]
      BY <1>1, <3>1
    <3> QED
      BY <1>1, <2>2, <3>1, <3>2
  <2> QED
    BY <1>1, <2>1, <2>2
<1>4. ToSet(u) = ToSet(s) \cup ToSet(t)
  <2>1. ASSUME NEW i \in DOMAIN s PROVE u[i] = s[i] /\ i \in DOMAIN u
    BY <1>1
  <2>2. ASSUME NEW i \in DOMAIN t PROVE u[Len(s) + i] = t[i] /\ Len(s) + i \in DOMAIN u
    BY <1>1
  <2> QED
    BY <1>3, <2>1, <2>2 DEF ToSet
<1>5. t # <<>> => Last(u) = Last(t)
  <2> HAVE t # <<>>
  <2>1. Len(t) \in 1..Len(t)
    BY <1>1
  <2>2. u[Len(s) + Len(t)] = t[Len(t)]
    BY <1>1, <2>1
  <2> QED
    BY <1>1, <2>2 DEF Last
<1> QED
  BY <1>1, <1>2, <1>3, <1>4, <1>5 DEF u

-----------------------------------------------------------------------------
(* The rows of a statement.                                                *)

\* Whatever the constants, a walk knows its columns.
LEMMA ConfigOf ==
  ASSUME TypeOK
  PROVE  /\ config \in ConfigType /\ config.limits \subseteq Int
         /\ config.op # "keyset" => config.limits \subseteq Nat
         /\ Row(config) \subseteq Options
         /\ limit \in Int /\ offset \in Nat
         /\ config.op # "keyset" => Limit \in Nat
         /\ Clamp \in Nat \ {0}
<1>1. config \in Configs /\ config \in ConfigType
  BY RepositoryAssumption DEF TypeOK
<1>2. config.limits \subseteq Int /\ (config.op # "keyset" => config.limits \subseteq Nat)
  BY <1>1, RepositoryAssumption DEF ConfigType
<1>3. config.names \subseteq Names /\ config.times \subseteq Times /\ config.groups \subseteq GroupIds
  BY <1>1 DEF ConfigType
<1>4. Row(config) \subseteq Options
  BY <1>3 DEF Row, Options
<1>5. limit \in Int /\ offset \in Nat /\ (config.op # "keyset" => limit \in Nat)
  BY <1>2 DEF TypeOK
<1>6. config.op # "keyset" => Limit \in Nat
  BY <1>5, RepositoryAssumption DEF Limit
<1>7. Clamp \in Nat \ {0}
  BY <1>5, RepositoryAssumption DEF Clamp
<1> QED
  BY <1>1, <1>2, <1>4, <1>5, <1>6, <1>7

\* A table is finite, its rows having an id each.
LEMMA FiniteRows ==
  ASSUME NEW R, R \subseteq Options, \A x, y \in R : x.id = y.id => x = y, \A x \in R : x.id \in Ids
  PROVE  IsFiniteSet(R)
<1> DEFINE f == [x \in R |-> x.id]
<1>1. f \in Injection(R, Ids)
  BY DEF Injection, IsInjective
<1> QED
  BY <1>1, FS_Injection, RepositoryAssumption

LEMMA FiniteMatching ==
  ASSUME TypeOK
  PROVE  /\ IsFiniteSet(rows) /\ IsFiniteSet(Matching) /\ Matching \subseteq rows
         /\ rows \subseteq Row(config) /\ rows \subseteq Options
<1>1. rows \subseteq Row(config) /\ rows \subseteq Options
  BY ConfigOf DEF TypeOK
<1>2. \A x \in rows : x.id \in Ids
  BY <1>1 DEF Row
<1>3. \A x, y \in rows : x.id = y.id => x = y
  BY DEF TypeOK
<1>4. IsFiniteSet(rows)
  BY <1>1, <1>2, <1>3, FiniteRows
<1>5. Matching \subseteq rows
  BY DEF Matching
<1> QED
  BY <1>1, <1>4, <1>5, FS_Subset

\* What DISTINCT or GROUP BY leaves is no more than there was.
LEMMA Collapsed ==
  ASSUME TypeOK
  PROVE  /\ IsFiniteSet(Collapse(Matching)) /\ Collapse(Matching) \subseteq Options
         /\ \A x \in Collapse(Matching) :
              config.op = "select" => \E y \in Matching : x.group = y.group
         /\ config.op = "keyset" => Collapse(Matching) = Matching
         /\ config.op = "select" /\ ~config.distinct => Collapse(Matching) = Matching
<1> DEFINE M == Matching
           G == CHOOSE g \in GroupIds : TRUE
           D == {[x EXCEPT !.id = 0] : x \in M}
           B == {[x EXCEPT !.id = 0, !.group = G] : x \in M}
           d == [x \in M |-> [x EXCEPT !.id = 0]]
           b == [x \in M |-> [x EXCEPT !.id = 0, !.group = G]]
<1>1. IsFiniteSet(M) /\ M \subseteq Options
  BY FiniteMatching
<1>2. G \in GroupIds
  BY ConfigOf DEF ConfigType
<1>3. D \subseteq Options /\ B \subseteq Options
  BY <1>1, <1>2 DEF Options
<1>4. d \in Surjection(M, D) /\ b \in Surjection(M, B)
  BY DEF Surjection
<1>5. IsFiniteSet(D) /\ IsFiniteSet(B)
  BY <1>1, <1>4, FS_Surjection
<1>6. \A x \in D : \E y \in M : x.group = y.group
  BY <1>1 DEF Options
<1>7. CASE IsSelect /\ config.distinct
  <2>1. Collapse(M) = D
    BY <1>7 DEF Collapse, IsSelect
  <2> QED
    BY <2>1, <1>3, <1>5, <1>6, <1>7 DEF IsSelect
<1>8. CASE ~(IsSelect /\ config.distinct) /\ config.op = "list" /\ config.groupBy
  <2>1. Collapse(M) = B
    BY <1>8 DEF Collapse, IsSelect
  <2> QED
    BY <2>1, <1>3, <1>5, <1>8
<1>9. CASE ~(IsSelect /\ config.distinct) /\ ~(config.op = "list" /\ config.groupBy)
  <2>1. Collapse(M) = M
    BY <1>9 DEF Collapse
  <2> QED
    BY <2>1, <1>1, <1>9 DEF IsSelect
<1> QED
  BY <1>7, <1>8, <1>9

-----------------------------------------------------------------------------
(* The orders.                                                             *)

\* Of two rows with different keys one precedes the other, and not both.
LEMMA Strict ==
  ASSUME TypeOK, NEW x \in Options, NEW y \in Options
  PROVE  /\ ~(Precedes(x, y) /\ Precedes(y, x))
         /\ OrderKey(x) # OrderKey(y) => Precedes(x, y) \/ Precedes(y, x)
<1>1. /\ OrderKey(x) \in Int /\ OrderKey(y) \in Int
      /\ x.group \in Int /\ y.group \in Int
  <2>1. \A k \in Names : k \in Int
    BY RepositoryAssumption DEF Null
  <2>2. \A k \in Ids \cup GroupIds \cup {0} : k \in Int
    BY RepositoryAssumption
  <2>3. \A r \in Options : r.id \in Ids \cup {0} /\ r.name \in Names /\ r.group \in GroupIds
    BY DEF Options
  <2>4. \A r \in Options : r.id \in Int /\ r.name \in Int /\ r.group \in Int
    BY <2>1, <2>2, <2>3
  <2> QED
    BY <2>4 DEF OrderKey
<1> QED
  BY <1>1 DEF Precedes

\* In a list sorted by distinct keys the i-th row has i - 1 rows before it.
LEMMA RankOf ==
  ASSUME TypeOK, NEW S, IsFiniteSet(S), S \subseteq Options,
         \A x, y \in S : x # y => OrderKey(x) # OrderKey(y),
         NEW s \in Orderings(S)
  PROVE  s \in Seq(S) /\ Len(s) = Cardinality(S) /\ Ranked(S, s, 0)
<1>1. s \in SetToSeqs(S) /\ \A i, j \in DOMAIN s : i < j => ~Precedes(s[j], s[i])
  BY DEF Orderings
<1>2. /\ s \in Seq(S) /\ Len(s) = Cardinality(S) /\ ToSet(s) = S
      /\ \A i, j \in DOMAIN s : i # j => s[i] # s[j]
  BY <1>1, Enumerates
<1>3. ASSUME NEW i \in DOMAIN s
      PROVE  s[i] \in S /\ Rank(S, s[i]) = 0 + i
  <2> DEFINE D == 1..(i - 1)
             P == {y \in S : Precedes(y, s[i])}
             f == [j \in D |-> s[j]]
  <2>1. i \in Nat /\ i >= 1 /\ DOMAIN s = 1..Len(s) /\ D \subseteq DOMAIN s
    BY <1>2
  <2>2. ASSUME NEW j \in DOMAIN s PROVE Precedes(s[j], s[i]) <=> j \in D
    <3>1. s[i] \in Options /\ s[j] \in Options /\ s[i] \in S /\ s[j] \in S
      BY <1>2
    <3>2. CASE j < i
      <4>1. Precedes(s[i], s[j]) \/ Precedes(s[j], s[i])
        BY <3>1, <3>2, <1>2, <2>1, Strict
      <4>2. ~Precedes(s[i], s[j])
        BY <3>2, <1>1
      <4> QED
        BY <4>1, <4>2, <3>2, <2>1
    <3>3. CASE j = i
      BY <3>1, <3>3, <2>1, Strict
    <3>4. CASE i < j
      BY <3>4, <1>1, <2>1
    <3> QED
      BY <3>2, <3>3, <3>4, <2>1
  <2>3. f \in Bijection(D, P)
    <3>1. f \in [D -> P]
      BY <2>1, <2>2, <1>2
    <3>2. f \in Injection(D, P)
      BY <3>1, <2>1, <1>2 DEF Injection, IsInjective
    <3>3. \A y \in P : \E j \in D : f[j] = y
      <4> TAKE y \in P
      <4>1. PICK j \in DOMAIN s : s[j] = y
        BY <1>2 DEF ToSet
      <4> QED
        BY <4>1, <2>2
    <3> QED
      BY <3>1, <3>2, <3>3 DEF Bijection, Surjection
  <2>4. IsFiniteSet(D) /\ Cardinality(D) = i - 1
    <3>1. i - 1 \in Int /\ 1 \in Int
      BY <2>1
    <3>2. IsFiniteSet(D) /\ Cardinality(D) = IF 1 > i - 1 THEN 0 ELSE (i - 1) - 1 + 1
      BY <3>1, FS_Interval
    <3> QED
      BY <3>2, <2>1
  <2>5. Cardinality(P) = i - 1
    BY <2>3, <2>4, FS_Bijection DEF ExistsBijection
  <2> QED
    BY <2>1, <2>5, <1>2 DEF Rank
<1> QED
  BY <1>2, <1>3 DEF Ranked

\* One column of an ORDER BY.
LEMMA ColumnOrder ==
  ASSUME NEW o \in KeysetOrderBy, NEW a \in Nat \cup {Null}, NEW b \in Nat \cup {Null},
         NEW c \in Nat \cup {Null}
  PROVE  /\ ~SortsBefore(o, a, a)
         /\ SortsBefore(o, a, b) /\ SortsBefore(o, b, c) => SortsBefore(o, a, c)
<1>1. o.direction \in {"asc", "desc"} /\ o.nulls \in {"none", "first", "last"}
  BY DEF KeysetOrderBy, Directions
<1>2. CASE o.direction = "asc"
  BY <1>1, <1>2 DEF SortsBefore, Less, Null
<1>3. CASE o.direction = "desc"
  BY <1>1, <1>3 DEF SortsBefore, Less, Null
<1> QED
  BY <1>1, <1>2, <1>3

\* The ORDER BY of PostgreSQL is a strict order.
LEMMA BeforeStrict ==
  ASSUME NEW o \in Seq(KeysetOrderBy), NEW x, RowFor(o, x)
  PROVE  ~Before(o, x, x)
<1> SUFFICES ASSUME NEW i \in DOMAIN o,
                    SortsBefore(o[i], x[o[i].column], x[o[i].column])
             PROVE  FALSE
  BY DEF Before
<1>1. o[i] \in KeysetOrderBy /\ x[o[i].column] \in Nat \cup {Null}
  BY Places DEF RowFor
<1> QED
  BY <1>1, ColumnOrder

LEMMA BeforeTransitive ==
  ASSUME NEW o \in Seq(KeysetOrderBy), NEW x, NEW y, NEW z,
         RowFor(o, x), RowFor(o, y), RowFor(o, z), Before(o, x, y), Before(o, y, z)
  PROVE  Before(o, x, z)
<1> DEFINE At(r, i) == r[o[i].column]
<1>1. PICK i \in DOMAIN o : /\ \A j \in 1..(i - 1) : At(x, j) = At(y, j)
                            /\ SortsBefore(o[i], At(x, i), At(y, i))
  BY DEF Before
<1>2. PICK k \in DOMAIN o : /\ \A j \in 1..(k - 1) : At(y, j) = At(z, j)
                            /\ SortsBefore(o[k], At(y, k), At(z, k))
  BY DEF Before
<1>3. /\ i \in Nat /\ k \in Nat /\ o[i] \in KeysetOrderBy
      /\ At(x, i) \in Nat \cup {Null} /\ At(y, i) \in Nat \cup {Null} /\ At(z, i) \in Nat \cup {Null}
      /\ i >= 1 /\ k >= 1
  BY Places DEF RowFor
<1> HIDE DEF At
<1>4. ASSUME NEW m \in DOMAIN o, \A j \in 1..(m - 1) : At(x, j) = At(z, j),
             SortsBefore(o[m], At(x, m), At(z, m))
      PROVE  Before(o, x, z)
  BY <1>4 DEF Before, At
<1>5. CASE i < k
  <2>1. At(y, i) = At(z, i)
    BY <1>2, <1>3, <1>5
  <2>2. \A j \in 1..(i - 1) : At(x, j) = At(z, j)
    BY <1>1, <1>2, <1>3, <1>5
  <2> QED
    BY <2>1, <2>2, <1>1, <1>4
<1>6. CASE k < i
  <2>1. At(x, k) = At(y, k)
    BY <1>1, <1>3, <1>6
  <2>2. \A j \in 1..(k - 1) : At(x, j) = At(z, j)
    BY <1>1, <1>2, <1>3, <1>6
  <2> QED
    BY <2>1, <2>2, <1>2, <1>4
<1>7. CASE i = k
  <2>1. \A j \in 1..(i - 1) : At(x, j) = At(z, j)
    BY <1>1, <1>2, <1>7
  <2>2. SortsBefore(o[i], At(x, i), At(z, i))
    BY <1>1, <1>2, <1>3, <1>7, ColumnOrder
  <2> QED
    BY <2>1, <2>2, <1>4
<1> QED
  BY <1>3, <1>5, <1>6, <1>7

\* The orders of a keyset walk and its rows.
LEMMA OrdersOf ==
  ASSUME TypeOK, config.op = "keyset"
  PROVE  /\ order \in config.orders
         /\ \A o \in config.orders :
              /\ o \in Seq(KeysetOrderBy) /\ o # <<>>
              /\ \A x \in Row(config) : RowFor(o, x)
         /\ \A o, p \in config.orders : KeysetSignature(o) = KeysetSignature(p) => o = p
<1>1. config \in Configs /\ config \in ConfigType /\ order \in config.orders
  BY RepositoryAssumption DEF TypeOK
<1>2. ASSUME NEW o \in config.orders
      PROVE  /\ o \in Seq(KeysetOrderBy) /\ o # <<>>
             /\ \A i \in DOMAIN o : o[i].nulls # "none" <=> o[i].column = "name" /\ Null \in config.names
  <2>1. config.orders \subseteq Seq(KeysetOrderBy)
    BY <1>1 DEF ConfigType
  <2> QED
    BY <2>1, <1>1, RepositoryAssumption
<1>3. ASSUME NEW o \in config.orders, NEW x \in Row(config)
      PROVE  RowFor(o, x)
  <2> SUFFICES ASSUME NEW i \in DOMAIN o
               PROVE  /\ x[o[i].column] \in Nat \cup {Null}
                      /\ o[i].nulls = "none" => x[o[i].column] # Null
    BY DEF RowFor
  <2>1. o[i] \in KeysetOrderBy
    BY <1>2, Places
  <2>2. o[i].column \in {"id", "name", "at", "group"}
    BY <2>1, RepositoryAssumption DEF KeysetOrderBy
  <2>3. config.names \subseteq Names /\ config.times \subseteq Times /\ config.groups \subseteq GroupIds
    BY <1>1 DEF ConfigType
  <2>4. /\ x["id"] \in Nat /\ x["at"] \in Nat /\ x["group"] \in Nat
        /\ x["name"] \in Nat \cup {Null} /\ x["name"] \in config.names
    BY <2>3, RepositoryAssumption DEF Row
  <2>5. -1 \notin Nat
    OBVIOUS
  <2> QED
    BY <2>2, <2>4, <2>5, <1>2 DEF Null
<1> QED
  BY <1>1, <1>2, <1>3, RepositoryAssumption

\* The page cut from an ordering of the rows of the statement.
LEMMA PageOf ==
  ASSUME TypeOK, config.op # "keyset", NEW s \in Orderings(Collapse(Matching))
  PROVE  /\ Slice(s) \in Seq(Options)
         /\ Len(Slice(s)) = PageLength(Cardinality(Collapse(Matching)))
         /\ ToSet(Slice(s)) \subseteq Collapse(Matching)
         /\ s \in Seq(Options)
         /\ \A i \in DOMAIN Slice(s) : offset + i \in DOMAIN s /\ Slice(s)[i] = s[offset + i]
         /\ Cardinality(Collapse(Matching)) \in Nat
<1> DEFINE C == Collapse(Matching)
<1>1. IsFiniteSet(C) /\ C \subseteq Options /\ Cardinality(C) \in Nat
  BY Collapsed, FS_CardinalityType
<1>2. s \in SetToSeqs(C)
  BY DEF Orderings
<1> HIDE DEF C
<1>3. s \in Seq(C) /\ Len(s) = Cardinality(C)
  BY <1>1, <1>2, Enumerates
<1>4. offset \in Nat /\ Limit \in Nat
  BY ConfigOf
<1>5. /\ Slice(s) \in Seq(C) /\ Len(Slice(s)) = PageLength(Len(s))
      /\ \A i \in DOMAIN Slice(s) : offset + i \in DOMAIN s /\ Slice(s)[i] = s[offset + i]
  BY <1>3, <1>4, SliceOf
<1>6. Slice(s) \in Seq(Options) /\ s \in Seq(Options)
  BY <1>1, <1>3, <1>5
<1>7. ToSet(Slice(s)) \subseteq C
  BY <1>5 DEF ToSet
<1> QED
  BY <1>1, <1>3, <1>5, <1>6, <1>7 DEF C

\* The page of a keyset statement.
Found(s) == Fetched(Fetched(s, Clamp + 1), Clamp)
LEMMA KeysetPageOf ==
  ASSUME TypeOK, config.op = "keyset",
         NEW s \in {all \in SetToSeqs(After) : InOrderOf(order, all)}
  PROVE  /\ s \in Seq(Row(config)) /\ ToSet(s) = After /\ After \subseteq Matching
         /\ Found(s) \in Seq(Row(config))
         /\ Len(Found(s)) = IF Len(s) > Clamp THEN Clamp ELSE Len(s)
         /\ \A i \in DOMAIN Found(s) : i \in DOMAIN s /\ Found(s)[i] = s[i]
         /\ Len(Fetched(s, Clamp + 1)) = IF Len(s) > Clamp THEN Clamp + 1 ELSE Len(s)
<1>1. After \subseteq Matching /\ IsFiniteSet(After) /\ After \subseteq Row(config)
  <2>1. After \subseteq Matching
    BY DEF After
  <2> QED
    BY <2>1, FiniteMatching, FS_Subset
<1>2. s \in Seq(After) /\ ToSet(s) = After
  BY <1>1, Enumerates
<1>3. s \in Seq(Row(config))
  BY <1>1, <1>2
<1>4. Clamp \in Nat /\ Clamp + 1 \in Nat
  BY ConfigOf
<1> DEFINE f == Fetched(s, Clamp + 1)
<1>5. /\ f \in Seq(Row(config))
      /\ Len(f) = IF Len(s) > Clamp + 1 THEN Clamp + 1 ELSE Len(s)
      /\ \A i \in DOMAIN f : i \in DOMAIN s /\ f[i] = s[i]
  BY <1>3, <1>4, FetchedOf
<1> HIDE DEF f
<1>6. /\ Fetched(f, Clamp) \in Seq(Row(config))
      /\ Len(Fetched(f, Clamp)) = IF Len(f) > Clamp THEN Clamp ELSE Len(f)
      /\ \A i \in DOMAIN Fetched(f, Clamp) : i \in DOMAIN f /\ Fetched(f, Clamp)[i] = f[i]
  BY <1>4, <1>5, FetchedOf
<1>7. Len(s) \in Nat
  BY <1>3
<1> QED
  BY <1>1, <1>2, <1>3, <1>4, <1>5, <1>6, <1>7 DEF Found, f

-----------------------------------------------------------------------------
(* Types.                                                                  *)

LEMMA InitTypeOK == Init => TypeOK
<1> SUFFICES ASSUME Init PROVE TypeOK
  OBVIOUS
<1>1. config \in Configs /\ config \in ConfigType
  BY RepositoryAssumption DEF Init
<1>2. /\ rows \subseteq Row(config) /\ \A x, y \in rows : x.id = y.id => x = y
      /\ groups \subseteq config.groups /\ \A x \in rows : x.group \in groups
  BY DEF Init
<1>3. stable \subseteq rows
  BY DEF Init, Matching
<1>4. pending = Statements(config) /\ phase = "asking"
  BY DEF Init
<1> QED
  BY <1>1, <1>2, <1>3, <1>4 DEF Init, TypeOK

\* A statement runs.
LEMMA TypeRuns ==
  ASSUME TypeOK, NEW st, Runs(st), page' \in Seq(Answers(config)), total' \in Nat, listed' \subseteq GroupIds,
         phase' # phase => phase' = "rejected" /\ pending = {st}
  PROVE  TypeOK'
<1>1. UNCHANGED <<config, order, filter, limit, offset, cursor, rows, groups, seen, writes, disturbed, stable>>
  BY DEF Runs, request
<1>2. pending' = pending \ {st} /\ phase = "asking"
  BY DEF Runs
<1>3. /\ phase' \in {"asking", "more", "end", "rejected"}
      /\ pending' \subseteq Statements(config) /\ (phase' # "asking" => pending' = {})
  BY <1>2 DEF TypeOK
<1>4. /\ Row(config)' = Row(config) /\ Statements(config)' = Statements(config)
      /\ Answers(config)' = Answers(config)
  BY <1>1 DEF Row, Statements, Answers
<1> QED
  BY <1>1, <1>3, <1>4 DEF TypeOK

LEMMA TypeStatements ==
  ASSUME TypeOK, SelectPage \/ SelectValues \/ SelectGroups \/ ListPage \/ ListCount
  PROVE  TypeOK'
<1>0. /\ config.op # "keyset" /\ Answers(config) = Options
      /\ page \in Seq(Options) /\ total \in Nat /\ listed \subseteq GroupIds
  <2>1. config.op # "keyset"
    BY DEF SelectPage, SelectValues, SelectGroups, ListPage, ListCount, GroupsAreNext, Statements, TypeOK
  <2> QED
    BY <2>1 DEF Answers, TypeOK
<1>1. CASE SelectPage
  <2>1. PICK s \in Orderings(Collapse(Matching)) : page' = Slice(s) /\ total' = WindowCount(page')
    BY <1>1 DEF SelectPage
  <2>2. Runs("page") /\ config.op # "keyset" /\ UNCHANGED <<phase, listed>>
    BY <1>1 DEF SelectPage
  <2>3. page' \in Seq(Options)
    BY <2>1, <2>2, PageOf
  <2>4. total' \in Nat
    BY <2>1, FiniteMatching, FS_CardinalityType DEF WindowCount
  <2> QED
    BY <2>2, <2>3, <2>4, <1>0, TypeRuns
<1>2. CASE SelectValues
  <2> DEFINE V == {x \in rows : x.id \in config.values}
             C == Collapse(V)
  <2>1. Runs("page") /\ page' \in SetToSeqs(C) /\ UNCHANGED <<phase, total, listed>>
    BY <1>2 DEF SelectValues
  <2>2. V \subseteq rows /\ IsFiniteSet(V) /\ V \subseteq Options
    BY FiniteMatching, FS_Subset
  <2>3. IsFiniteSet(C) /\ C \subseteq Options
    <3> HIDE DEF V
    <3> DEFINE D == {[x EXCEPT !.id = 0] : x \in V}
               d == [x \in V |-> [x EXCEPT !.id = 0]]
    <3>1. D \subseteq Options
      BY <2>2 DEF Options
    <3>2. d \in Surjection(V, D)
      BY DEF Surjection
    <3>3. IsFiniteSet(D)
      BY <2>2, <3>2, FS_Surjection
    <3>4. config.op = "values"
      BY <1>2 DEF SelectValues
    <3>5. C = D \/ C = V
      BY <3>4 DEF Collapse, IsSelect
    <3> QED
      BY <3>1, <3>3, <3>5, <2>2
  <2> HIDE DEF C, V
  <2>4. page' \in Seq(C)
    BY <2>1, <2>3, Enumerates
  <2>5. page' \in Seq(Options)
    BY <2>3, <2>4
  <2> QED
    BY <2>1, <2>5, <1>0, TypeRuns
<1>3. CASE SelectGroups
  <2>1. Runs("groups") /\ listed' = groups /\ UNCHANGED <<phase, page, total>>
    BY <1>3 DEF SelectGroups
  <2>2. listed' \subseteq GroupIds
    BY <2>1, ConfigOf DEF TypeOK, ConfigType
  <2> QED
    BY <2>1, <2>2, <1>0, TypeRuns
<1>4. CASE ListPage
  <2>1. PICK s \in Orderings(Collapse(Matching)) : page' = Slice(s)
    BY <1>4 DEF ListPage
  <2>2. Runs("page") /\ config.op # "keyset" /\ UNCHANGED <<phase, total, listed>>
    BY <1>4 DEF ListPage
  <2>3. page' \in Seq(Options)
    BY <2>1, <2>2, PageOf
  <2> QED
    BY <2>2, <2>3, <1>0, TypeRuns
<1>5. CASE ListCount
  <2>1. Runs("count") /\ total' = CountOf /\ UNCHANGED <<phase, page, listed>>
    BY <1>5 DEF ListCount
  <2>2. total' \in Nat
    BY <2>1, Collapsed, FS_CardinalityType DEF CountOf
  <2> QED
    BY <2>1, <2>2, <1>0, TypeRuns
<1> QED
  BY <1>1, <1>2, <1>3, <1>4, <1>5

LEMMA TypeKeyset == TypeOK /\ KeysetPage => TypeOK'
<1> SUFFICES ASSUME TypeOK, KeysetPage PROVE TypeOK'
  OBVIOUS
<1>1. config.op = "keyset" /\ Runs("page") /\ pending = {"page"}
  BY DEF KeysetPage, Runs, TypeOK, Statements
<1>0. /\ Answers(config) = Row(config)
      /\ page \in Seq(Row(config)) /\ total \in Nat /\ listed \subseteq GroupIds
  BY <1>1 DEF Answers, TypeOK
<1>2. CASE cursor # NoCursor /\ ~Decodes(cursor, order)
  <2>1. phase' = "rejected" /\ UNCHANGED <<page, total, listed>>
    BY <1>2 DEF KeysetPage, results
  <2> QED
    BY <2>1, <1>1, <1>0, TypeRuns
<1>3. CASE ~(cursor # NoCursor /\ ~Decodes(cursor, order))
  <2>1. PICK s \in {all \in SetToSeqs(After) : InOrderOf(order, all)} :
          page' = Found(s) /\ total' = Len(Fetched(s, Clamp + 1))
    BY <1>3 DEF KeysetPage, Found
  <2>2. UNCHANGED <<phase, listed>>
    BY <1>3 DEF KeysetPage
  <2>3. /\ Found(s) \in Seq(Row(config)) /\ s \in Seq(Row(config))
        /\ Len(Fetched(s, Clamp + 1)) = IF Len(s) > Clamp THEN Clamp + 1 ELSE Len(s)
    BY <1>1, <2>1, KeysetPageOf
  <2>4. page' \in Seq(Row(config)) /\ total' \in Nat
    <3>1. Clamp \in Nat
      BY ConfigOf
    <3> QED
      BY <2>1, <2>3, <3>1
  <2> QED
    BY <1>1, <2>2, <2>4, <1>0, TypeRuns
<1> QED
  BY <1>2, <1>3

LEMMA TypeRespond == TypeOK /\ Respond => TypeOK'
<1> SUFFICES ASSUME TypeOK, Respond PROVE TypeOK'
  OBVIOUS
<1>1. /\ UNCHANGED <<rows, groups, config, order, filter, limit, offset, pending, page, total, listed, writes,
                     disturbed, stable>>
      /\ phase = "asking" /\ pending = {}
      /\ seen' = seen \o page
      /\ cursor' = IF config.op = "keyset" /\ page # <<>> THEN Encode(order, page[Len(page)]) ELSE cursor
  BY DEF Respond, results
<1>2. phase' \in {"asking", "more", "end", "rejected"} /\ (phase' # "asking" => pending' = {})
  BY <1>1 DEF Respond
<1>3. seen' \in Seq(Answers(config))
  BY <1>1 DEF TypeOK
<1>4. cursor' = NoCursor \/ \E o \in config.orders, x \in Row(config) : cursor' = Encode(o, x)
  <2>1. CASE config.op = "keyset" /\ page # <<>>
    <3>1. page \in Seq(Row(config)) /\ order \in config.orders
      BY <2>1 DEF TypeOK, Answers
    <3>2. page[Len(page)] \in Row(config)
      BY <2>1, <3>1, LastOf
    <3> QED
      BY <2>1, <3>1, <3>2, <1>1
  <2>2. CASE ~(config.op = "keyset" /\ page # <<>>)
    BY <2>2, <1>1 DEF TypeOK
  <2> QED
    BY <2>1, <2>2
<1>5. /\ Row(config)' = Row(config) /\ Statements(config)' = Statements(config)
      /\ Answers(config)' = Answers(config)
  BY <1>1 DEF Row, Statements, Answers
<1> QED
  BY <1>1, <1>2, <1>3, <1>4, <1>5 DEF TypeOK

LEMMA TypeAskNext == TypeOK /\ AskNext => TypeOK'
<1> SUFFICES ASSUME TypeOK, AskNext PROVE TypeOK'
  OBVIOUS
<1>1. /\ UNCHANGED <<rows, groups, config, order, filter, cursor, seen, writes, stable>>
      /\ phase' = "asking" /\ pending' = Statements(config)
      /\ limit' \in config.limits
      /\ page' = <<>> /\ total' = 0 /\ listed' = {}
      /\ disturbed' = [disturbed EXCEPT !.request = FALSE, !.dropped = FALSE]
  BY DEF AskNext
<1>2. offset' \in Nat
  <2>1. offset \in Nat /\ (config.op # "keyset" => Limit \in Nat)
    BY ConfigOf
  <2> QED
    BY <2>1 DEF AskNext
<1>3. disturbed' \in [request : BOOLEAN, walk : BOOLEAN, dropped : BOOLEAN]
  BY <1>1 DEF TypeOK
<1>4. /\ Row(config)' = Row(config) /\ Statements(config)' = Statements(config)
      /\ Answers(config)' = Answers(config)
  BY <1>1 DEF Row, Statements, Answers
<1>5. page' \in Seq(Answers(config))
  BY <1>1
<1> QED
  BY <1>1, <1>2, <1>3, <1>4, <1>5 DEF TypeOK

\* A write stores a new set of rows, each with its own id and a group.
LEMMA TypeStore ==
  ASSUME TypeOK, NEW new, Store(new), new \subseteq Row(config), \A x, y \in new : x.id = y.id => x = y
  PROVE  TypeOK'
<1>1. /\ UNCHANGED <<config, groups, order, filter, limit, offset, cursor, phase, pending, page, total, listed, seen>>
      /\ rows' = new /\ stable' = stable \cap new /\ writes' = writes + 1
      /\ \A x \in new : x.group \in groups
      /\ disturbed' = [disturbed EXCEPT !.request = TRUE, !.walk = TRUE]
  BY DEF Store, Change, results
<1>2. disturbed' \in [request : BOOLEAN, walk : BOOLEAN, dropped : BOOLEAN]
  BY <1>1 DEF TypeOK
<1>3. /\ Row(config)' = Row(config) /\ Statements(config)' = Statements(config)
      /\ Answers(config)' = Answers(config)
  BY <1>1 DEF Row, Statements, Answers
<1> QED
  BY <1>1, <1>2, <1>3 DEF TypeOK

LEMMA TypeWrites == TypeOK /\ Writes => TypeOK' /\ \E new \in SUBSET Row(config) : Store(new)
<1> SUFFICES ASSUME TypeOK, Writes PROVE TypeOK' /\ \E new \in SUBSET Row(config) : Store(new)
  OBVIOUS
<1> DEFINE Good(new) == new \subseteq Row(config) /\ \A x, y \in new : x.id = y.id => x = y
<1>1. rows \subseteq Row(config) /\ \A x, y \in rows : x.id = y.id => x = y
  BY DEF TypeOK
<1>2. \E new : Store(new) /\ Good(new)
  <2>1. CASE \E x \in Row(config) : Create(x)
    <3>1. PICK x \in Row(config) : (\A y \in rows : y.id # x.id) /\ Store(rows \cup {x})
      BY <2>1 DEF Create
    <3>2. Good(rows \cup {x})
      BY <1>1, <3>1
    <3> HIDE DEF Good
    <3> QED
      BY <3>1, <3>2
  <2>2. CASE \E i \in Ids, data \in [name : config.names, at : config.times] : Update(i, data)
    <3>1. PICK i \in Ids, data \in [name : config.names, at : config.times] : Update(i, data)
      BY <2>2
    <3> DEFINE Set(y) == [y EXCEPT !.name = data.name, !.at = data.at]
               kept == {y \in rows : y.id # i}
               set == {Set(y) : y \in {z \in rows : z.id = i}}
    <3>2. Store(kept \cup set)
      BY <3>1 DEF Update
    <3>3. \A y \in rows : Set(y) \in Row(config) /\ Set(y).id = y.id
      BY <1>1 DEF Row
    <3> HIDE DEF Set
    <3>4. Good(kept \cup set)
      BY <1>1, <3>3
    <3> HIDE DEF Good
    <3> QED
      BY <3>2, <3>4
  <2>3. CASE \E g \in config.groups, name \in config.names : UpdateMany(g, name)
    <3>1. PICK g \in config.groups, name \in config.names : UpdateMany(g, name)
      BY <2>3
    <3> DEFINE Set(y) == IF y.group = g THEN [y EXCEPT !.name = name] ELSE y
               set == {Set(y) : y \in rows}
    <3>2. Store(set)
      BY <3>1 DEF UpdateMany
    <3>3. \A y \in rows : Set(y) \in Row(config) /\ Set(y).id = y.id
      BY <1>1 DEF Row
    <3> HIDE DEF Set
    <3>4. Good(set)
      BY <1>1, <3>3
    <3> HIDE DEF Good
    <3> QED
      BY <3>2, <3>4
  <2>4. CASE \E i \in Ids : Delete(i)
    <3>1. PICK i \in Ids : Store({y \in rows : y.id # i})
      BY <2>4 DEF Delete
    <3>2. Good({y \in rows : y.id # i})
      BY <1>1
    <3> HIDE DEF Good
    <3> QED
      BY <3>1, <3>2
  <2>5. CASE \E g \in config.groups : DeleteMany(g)
    <3>1. PICK g \in config.groups : Store({y \in rows : y.group # g})
      BY <2>5 DEF DeleteMany
    <3>2. Good({y \in rows : y.group # g})
      BY <1>1
    <3> HIDE DEF Good
    <3> QED
      BY <3>1, <3>2
  <2> QED
    BY <2>1, <2>2, <2>3, <2>4, <2>5 DEF Writes
<1>3. PICK new : Store(new) /\ Good(new)
  BY <1>2
<1>4. TypeOK'
  BY <1>3, TypeStore
<1> QED
  BY <1>3, <1>4

LEMMA TypeOthers == TypeOK /\ (WriteGroups \/ ChangeFilter \/ ChangeSort) => TypeOK'
<1> SUFFICES ASSUME TypeOK, WriteGroups \/ ChangeFilter \/ ChangeSort PROVE TypeOK'
  OBVIOUS
<1>1. /\ UNCHANGED <<config, rows, limit, offset, cursor, phase, pending, page, total, listed, seen>>
      /\ writes' = writes + 1
  BY DEF WriteGroups, ChangeFilter, ChangeSort, Change, results, request
<1>2. disturbed' \in [request : BOOLEAN, walk : BOOLEAN, dropped : BOOLEAN]
  BY DEF TypeOK, WriteGroups, ChangeFilter, ChangeSort, Change
<1>3. /\ Row(config)' = Row(config) /\ Statements(config)' = Statements(config)
      /\ Answers(config)' = Answers(config)
  BY <1>1 DEF Row, Statements, Answers
<1>4. CASE WriteGroups
  <2>1. UNCHANGED <<order, filter, stable>>
    BY <1>4 DEF WriteGroups, request
  <2>2. groups' \subseteq config.groups /\ \A x \in rows : x.group \in groups'
    BY <1>4 DEF WriteGroups, TypeOK
  <2> QED
    BY <2>1, <2>2, <1>1, <1>2, <1>3 DEF TypeOK
<1>5. CASE ChangeFilter
  BY <1>5, <1>1, <1>2, <1>3 DEF TypeOK, ChangeFilter
<1>6. CASE ChangeSort
  BY <1>6, <1>1, <1>2, <1>3 DEF TypeOK, ChangeSort
<1> QED
  BY <1>4, <1>5, <1>6

LEMMA TypeStep == TypeOK /\ [Next]_vars => TypeOK'
<1> SUFFICES ASSUME TypeOK, [Next]_vars PROVE TypeOK'
  OBVIOUS
<1>1. CASE UNCHANGED vars
  BY <1>1 DEF vars, request, results, TypeOK, Row, Statements, Answers, NoCursor, Encode, KeysetSignature, Boundary, Options
<1>2. CASE Answering
  BY <1>2, TypeStatements, TypeKeyset, TypeRespond, TypeAskNext DEF Answering
<1>3. CASE Writes \/ WriteGroups \/ ChangeFilter \/ ChangeSort
  BY <1>3, TypeWrites, TypeOthers
<1> QED
  BY <1>1, <1>2, <1>3 DEF Next, Stop

\* The variables of Repository keep their types: ids stay unique, every row has
\* its group, and a cursor is one that encodes a row of the walk.
THEOREM TypeCorrect == Spec => []TypeOK
  BY InitTypeOK, TypeStep, PTL DEF Spec

-----------------------------------------------------------------------------
(* The parts of one answer.                                                *)

\* What a step leaves alone.
LEMMA SameRequest ==
  ASSUME UNCHANGED <<config, limit, offset>>
  PROVE  /\ IsSelect' = IsSelect /\ Limit' = Limit /\ Clamp' = Clamp
         /\ total' = total => (HasMore' <=> HasMore)
         /\ \A n : PageLength(n)' = PageLength(n)
BY DEF IsSelect, Limit, Clamp, PageLength, HasMore

LEMMA SameRows ==
  ASSUME UNCHANGED <<config, rows, filter>>
  PROVE  Matching' = Matching /\ \A S : Collapse(S)' = Collapse(S)
BY DEF Matching, Selected, Collapse, IsSelect

Limits == (config.op # "keyset" => Limit \in Nat) /\ Clamp \in Nat \ {0}
LEMMA LimitsOf == TypeOK => Limits
BY ConfigOf DEF Limits
LEMMA LimitsAfter == TypeOK' => Limits'
BY LimitsOf, PTL

LEMMA Lengths ==
  ASSUME TypeOK, config.op # "keyset", NEW n \in Nat
  PROVE  PageLength(n) \in Nat /\ (Limit > 0 => PageLength(n) <= Limit)
BY LimitsOf DEF Limits, PageLength, TypeOK

AnswerInv == SelectInv /\ ListInv /\ PageInv

\* A statement of the answer to a select runs.
LEMMA SelectAnswer ==
  ASSUME TypeOK, AnswerInv, SelectPage \/ SelectValues \/ SelectGroups
  PROVE  AnswerInv'
<1>1. /\ UNCHANGED <<config, limit, offset, rows, filter, groups, disturbed>>
      /\ phase = "asking" /\ phase' # "more"
  BY DEF SelectPage, SelectValues, SelectGroups, Runs, request
<1>2. Limit' = Limit /\ \A n : PageLength(n)' = PageLength(n)
  BY <1>1, SameRequest
<1>3. CASE SelectPage
  <2> DEFINE C == Collapse(Matching)
  <2>1. /\ config.op = "select" /\ UNCHANGED listed
        /\ "page" \in pending /\ pending' = pending \ {"page"}
    BY <1>3 DEF SelectPage, Runs
  <2>2. PICK s \in Orderings(C) : page' = Slice(s) /\ total' = WindowCount(page')
    BY <1>3 DEF SelectPage
  <2>3. /\ page' \in Seq(Options) /\ Len(page') = PageLength(Cardinality(C))
        /\ ToSet(page') \subseteq C /\ Cardinality(C) \in Nat
    BY <2>1, <2>2, PageOf
  <2>4. PageInv'
    BY <2>1, <2>3, <1>1, <1>2, Lengths DEF PageInv
  <2>5. ~config.distinct => IF page' = <<>> THEN total' = 0 ELSE Len(page') = PageLength(total')
    BY <2>1, <2>2, <2>3, Collapsed DEF WindowCount
  <2>6. ASSUME config.grouped PROVE pending' # {}
    BY <2>1, <2>6 DEF AnswerInv, SelectInv
  <2>7. ASSUME NEW x \in ToSet(page') PROVE x.group \in groups
    <3>1. PICK y \in Matching : x.group = y.group
      BY <2>1, <2>3, <2>7, Collapsed
    <3>2. y \in rows
      BY <3>1, FiniteMatching
    <3> QED
      BY <3>1, <3>2 DEF TypeOK
  <2>8. SelectInv'
    BY <2>1, <2>5, <2>6, <2>7, <1>1, <1>2 DEF SelectInv
  <2> QED
    BY <2>1, <2>4, <2>8, <1>1 DEF AnswerInv, ListInv
<1>4. CASE SelectValues
  <2>1. config.op = "values" /\ pending' = pending \ {"page"}
    BY <1>4 DEF SelectValues, Runs
  <2> QED
    BY <2>1, <1>1 DEF AnswerInv, SelectInv, ListInv, PageInv
<1>5. CASE SelectGroups
  <2>1. /\ pending = {"groups"} /\ pending' = {} /\ listed' = groups /\ UNCHANGED <<page, total>>
    BY <1>5 DEF SelectGroups, GroupsAreNext, Runs
  <2>2. config.op = "select"
    BY <2>1 DEF TypeOK, Statements
  <2>3. PageInv'
    BY <2>1, <2>2, <1>1, <1>2 DEF PageInv, AnswerInv
  <2>4. SelectInv'
    BY <2>1, <2>2, <1>1, <1>2 DEF SelectInv, AnswerInv
  <2> QED
    BY <2>2, <2>3, <2>4, <1>1 DEF AnswerInv, ListInv
<1> QED
  BY <1>3, <1>4, <1>5

\* A statement of the answer to a list.
LEMMA ListAnswer ==
  ASSUME TypeOK, AnswerInv, ListPage \/ ListCount
  PROVE  AnswerInv'
<1> DEFINE C == Collapse(Matching)
<1>1. /\ UNCHANGED <<config, limit, offset, rows, filter, groups, disturbed>>
      /\ phase = "asking" /\ phase' # "more" /\ config.op = "list"
  BY DEF ListPage, ListCount, Runs, request
<1>2. Limit' = Limit /\ \A n : PageLength(n)' = PageLength(n)
  BY <1>1, SameRequest
<1>3. C' = C
  BY <1>1, SameRows
<1>4. CASE ListPage
  <2>1. "page" \in pending /\ pending' = pending \ {"page"} /\ UNCHANGED total
    BY <1>4 DEF ListPage, Runs
  <2>2. PICK s \in Orderings(C) : page' = Slice(s)
    BY <1>4 DEF ListPage
  <2>3. Len(page') = PageLength(Cardinality(C)) /\ Cardinality(C) \in Nat
    BY <2>2, <1>1, PageOf
  <2>4. PageInv'
    BY <2>1, <2>3, <1>1, <1>2, Lengths DEF PageInv
  <2> HIDE DEF C
  <2>5. ListInv'
    BY <2>1, <2>3, <1>1, <1>2, <1>3 DEF ListInv, AnswerInv, C
  <2> QED
    BY <2>4, <2>5, <1>1 DEF AnswerInv, SelectInv
<1>5. CASE ListCount
  <2>1. /\ pending' = pending \ {"count"} /\ total' = Cardinality(C) /\ UNCHANGED page
    BY <1>5 DEF ListCount, Runs, CountOf
  <2>2. PageInv'
    BY <2>1, <1>1, <1>2 DEF PageInv, AnswerInv
  <2> HIDE DEF C
  <2>3. ListInv'
    BY <2>1, <1>1, <1>2, <1>3 DEF ListInv, AnswerInv, C
  <2> QED
    BY <2>2, <2>3, <1>1 DEF AnswerInv, SelectInv
<1> QED
  BY <1>4, <1>5

\* The one statement of a keyset page.
LEMMA KeysetAnswer == TypeOK /\ AnswerInv /\ KeysetPage => AnswerInv'
<1> SUFFICES ASSUME TypeOK, AnswerInv, KeysetPage PROVE AnswerInv'
  OBVIOUS
<1>1. /\ UNCHANGED <<config, limit, offset>>
      /\ config.op = "keyset" /\ pending' = pending \ {"page"} /\ "page" \in pending
  BY DEF KeysetPage, Runs, request
<1>2. phase' # "more"
  BY DEF KeysetPage, Runs
<1>3. Clamp' = Clamp /\ Clamp \in Nat
  BY <1>1, SameRequest, LimitsOf DEF Limits
<1>4. Len(page') <= Clamp
  <2>1. CASE cursor # NoCursor /\ ~Decodes(cursor, order)
    <3>1. page' = page /\ page = <<>>
      BY <2>1, <1>1 DEF KeysetPage, results, AnswerInv, PageInv
    <3> QED
      BY <3>1, <1>3
  <2>2. CASE ~(cursor # NoCursor /\ ~Decodes(cursor, order))
    <3>1. PICK s \in {all \in SetToSeqs(After) : InOrderOf(order, all)} : page' = Found(s)
      BY <2>2 DEF KeysetPage, Found
    <3>2. Len(Found(s)) = (IF Len(s) > Clamp THEN Clamp ELSE Len(s)) /\ s \in Seq(Row(config))
      BY <3>1, <1>1, KeysetPageOf
    <3>3. Len(s) \in Nat
      BY <3>2
    <3> QED
      BY <3>1, <3>2, <3>3, <1>3
  <2> QED
    BY <2>1, <2>2
<1> QED
  BY <1>1, <1>2, <1>3, <1>4 DEF AnswerInv, SelectInv, ListInv, PageInv

\* The client asks for the next page.
LEMMA AskAnswer == TypeOK /\ TypeOK' /\ AskNext => AnswerInv'
<1> SUFFICES ASSUME TypeOK, TypeOK', AskNext PROVE AnswerInv'
  OBVIOUS
<1>1. /\ config' = config /\ pending' = Statements(config) /\ page' = <<>>
      /\ Len(page') = 0 /\ ToSet(page') = {} /\ phase' = "asking"
  BY DEF AskNext, ToSet
<1>2. /\ "page" \in pending'
      /\ config.op = "select" /\ config.grouped => "groups" \in pending'
      /\ config.op = "list" => "count" \in pending'
  BY <1>1 DEF Statements
<1>3. PageInv'
  BY <1>1, LimitsAfter DEF PageInv, Limits
<1> QED
  BY <1>1, <1>2, <1>3 DEF AnswerInv, SelectInv, ListInv

\* The answer is sent, or somebody writes, or the client changes its mind.
LEMMA OtherAnswer ==
  ASSUME TypeOK, AnswerInv, Respond \/ Writes \/ WriteGroups \/ ChangeFilter \/ ChangeSort
  PROVE  AnswerInv'
<1>1. UNCHANGED <<config, limit, offset, pending, page, total, listed>>
  BY DEF Respond, Writes, Create, Update, UpdateMany, Delete, DeleteMany, Store, Change, WriteGroups,
         ChangeFilter, ChangeSort, request, results
<1>2. /\ Limit' = Limit /\ Clamp' = Clamp /\ \A n : PageLength(n)' = PageLength(n)
  BY <1>1, SameRequest
<1>3. PageInv'
  <2>1. HasMore' <=> HasMore
    BY <1>1, SameRequest
  <2>2. phase' = "more" => phase = "more" \/ HasMore
    BY DEF Respond, Writes, Create, Update, UpdateMany, Delete, DeleteMany, Store, Change, WriteGroups,
           ChangeFilter, ChangeSort, request, results
  <2> QED
    BY <2>1, <2>2, <1>1, <1>2 DEF AnswerInv, PageInv
<1>4. ~disturbed'.dropped => ~disturbed.dropped /\ groups \subseteq groups'
  <2>1. CASE WriteGroups
    BY <2>1 DEF WriteGroups, TypeOK
  <2>2. CASE Writes \/ ChangeFilter \/ ChangeSort
    BY <2>2 DEF Writes, Create, Update, UpdateMany, Delete, DeleteMany, Store, Change, ChangeFilter,
                ChangeSort, TypeOK
  <2>3. CASE Respond
    BY <2>3 DEF Respond
  <2> QED
    BY <2>1, <2>2, <2>3
<1>5. SelectInv'
  BY <1>1, <1>2, <1>4 DEF AnswerInv, SelectInv
<1>6. ListInv'
  <2>1. CASE Respond
    <3>1. UNCHANGED <<rows, filter, disturbed>>
      BY <2>1 DEF Respond
    <3>2. Collapse(Matching)' = Collapse(Matching)
      BY <3>1, <1>1, SameRows
    <3> QED
      BY <3>1, <3>2, <1>1, <1>2 DEF AnswerInv, ListInv
  <2>2. CASE Writes \/ WriteGroups \/ ChangeFilter \/ ChangeSort
    <3>1. disturbed'.request
      BY <2>2 DEF Writes, Create, Update, UpdateMany, Delete, DeleteMany, Store, Change, WriteGroups,
                  ChangeFilter, ChangeSort, TypeOK
    <3> QED
      BY <3>1 DEF ListInv
  <2> QED
    BY <2>1, <2>2
<1> QED
  BY <1>3, <1>5, <1>6 DEF AnswerInv

LEMMA InitAnswerInv == Init => AnswerInv
<1> SUFFICES ASSUME Init PROVE AnswerInv
  OBVIOUS
<1>1. /\ pending = Statements(config) /\ page = <<>> /\ Len(page) = 0 /\ ToSet(page) = {}
      /\ phase = "asking"
  BY DEF Init, ToSet
<1>2. /\ "page" \in pending
      /\ config.op = "select" /\ config.grouped => "groups" \in pending
      /\ config.op = "list" => "count" \in pending
  BY <1>1 DEF Statements
<1>3. PageInv
  BY <1>1, InitTypeOK, LimitsOf DEF PageInv, Limits
<1> QED
  BY <1>1, <1>2, <1>3 DEF AnswerInv, SelectInv, ListInv

\* What each statement contributed to the answer, whatever was written between
\* it and the next: the invariant behind OneAnswer.
THEOREM Statemented == Spec => []AnswerInv
<1>1. TypeOK /\ TypeOK' /\ AnswerInv /\ [Next]_vars => AnswerInv'
  <2> SUFFICES ASSUME TypeOK, TypeOK', AnswerInv, [Next]_vars PROVE AnswerInv'
    OBVIOUS
  <2>1. CASE UNCHANGED vars
    <3>1. UNCHANGED <<config, limit, offset, rows, filter, groups, pending, page, total, listed, disturbed>>
      BY <2>1 DEF vars, request, results
    <3>2. Collapse(Matching)' = Collapse(Matching)
      BY <3>1, SameRows
    <3>3. /\ Limit' = Limit /\ Clamp' = Clamp /\ \A n : PageLength(n)' = PageLength(n)
          /\ phase' = phase /\ (HasMore' <=> HasMore)
      BY <2>1, <3>1, SameRequest DEF vars
    <3> QED
      BY <3>1, <3>2, <3>3 DEF AnswerInv, SelectInv, ListInv, PageInv
  <2> QED
    BY <2>1, SelectAnswer, ListAnswer, KeysetAnswer, AskAnswer, OtherAnswer DEF Next, Answering, Stop
<1> QED
  BY <1>1, TypeCorrect, InitAnswerInv, PTL DEF Spec

\* Page, count and groups of an answer agree, for every table, config and
\* interleaving with the writes of other requests.
THEOREM OneAnswer == Spec => []AnswerAgrees
<1>1. TypeOK /\ AnswerInv => AnswerAgrees
  <2> SUFFICES ASSUME TypeOK, AnswerInv PROVE AnswerAgrees
    OBVIOUS
  <2>1. Answered => pending = {}
    BY DEF Answered, TypeOK
  <2>2. offset \in Nat /\ total \in Nat /\ (config.op # "keyset" => Limit \in Nat)
    BY LimitsOf DEF Limits, TypeOK
  <2>3. SelectConsistent
    <3> SUFFICES ASSUME Answered, config.op = "select", ~config.distinct
                 PROVE  /\ page # <<>> => total >= offset + Len(page)
                        /\ phase = "more" => Len(page) = Limit
      BY DEF SelectConsistent
    <3>1. IF page = <<>> THEN total = 0 ELSE Len(page) = PageLength(total)
      BY <2>1 DEF AnswerInv, SelectInv
    <3>2. page # <<>> => Len(page) > 0
      BY DEF TypeOK, Answers
    <3>3. phase = "more" => Limit > 0 /\ offset + Limit < total
      BY DEF AnswerInv, PageInv, HasMore
    <3> QED
      BY <3>1, <3>2, <3>3, <2>2 DEF PageLength
  <2>4. ListConsistent
    BY <2>1 DEF ListConsistent, AnswerInv, ListInv
  <2>5. GroupsCoverOptions
    <3> SUFFICES ASSUME Answered, config.op = "select", config.grouped, ~disturbed.dropped,
                        NEW i \in DOMAIN page
                 PROVE  page[i].group \in listed
      BY DEF GroupsCoverOptions
    <3>1. page[i] \in ToSet(page)
      BY DEF ToSet
    <3> QED
      BY <3>1, <2>1 DEF AnswerInv, SelectInv
  <2> QED
    BY <2>3, <2>4, <2>5 DEF AnswerAgrees, AnswerInv, PageInv
<1> QED
  BY <1>1, TypeCorrect, Statemented, PTL

-----------------------------------------------------------------------------
(* A walk by offset.                                                       *)

Counted == IF IsSelect THEN "page" ELSE "count"
\* The walks OffsetInv is about, and what it says of them.
ByOffset ==
  config.op \in {"select", "list"} /\ ~disturbed.walk /\ TotalOrder /\ (config.distinct => ~IsSelect)
OffsetWalk(S, n) ==
  /\ Ranked(S, seen, 0)
  /\ phase = "asking" =>
       /\ Len(seen) = offset /\ (offset = 0 \/ offset < n)
       /\ "page" \notin pending => Ranked(S, page, offset) /\ Len(page) = PageLength(n)
       /\ Counted \notin pending => total = n
  /\ phase = "more" => Len(seen) = offset + Limit /\ offset + Limit < n
  /\ phase = "end" => Len(seen) = n

LEMMA OffsetIs ==
  OffsetInv <=> (ByOffset => OffsetWalk(Collapse(Matching), Cardinality(Collapse(Matching))))
BY DEF OffsetInv, ByOffset, OffsetWalk, Counted
LEMMA OffsetIsAfter ==
  OffsetInv' <=> (ByOffset => OffsetWalk(Collapse(Matching), Cardinality(Collapse(Matching))))'
BY OffsetIs, PTL

\* Nothing a step does but a write changes the list a walk is through.
LEMMA SameList ==
  ASSUME UNCHANGED <<config, rows, filter>>, disturbed'.walk = disturbed.walk
  PROVE  /\ ByOffset' <=> ByOffset
         /\ Collapse(Matching)' = Collapse(Matching)
         /\ Cardinality(Collapse(Matching))' = Cardinality(Collapse(Matching))
         /\ \A S, s, k : Ranked(S, s, k)' <=> Ranked(S, s, k)
         /\ Counted' = Counted
<1>1. Matching' = Matching /\ Collapse(Matching)' = Collapse(Matching) /\ IsSelect' = IsSelect
  BY SameRows DEF IsSelect
<1>2. /\ \A x : OrderKey(x)' = OrderKey(x)
      /\ \A x, y : Precedes(x, y)' <=> Precedes(x, y)
  BY DEF OrderKey, Precedes, IsSelect
<1>3. \A S, x : Rank(S, x)' = Rank(S, x)
  BY <1>2 DEF Rank
<1>4. \A S, s, k : Ranked(S, s, k)' <=> Ranked(S, s, k)
  BY <1>3 DEF Ranked
<1>5. TotalOrder' <=> TotalOrder
  BY <1>1, <1>2 DEF TotalOrder
<1> QED
  BY <1>1, <1>4, <1>5 DEF ByOffset, Counted

\* The page of a walk in an order without ties.
LEMMA RankedPage ==
  ASSUME TypeOK, ByOffset, NEW s \in Orderings(Collapse(Matching))
  PROVE  Ranked(Collapse(Matching), Slice(s), offset)
<1> DEFINE S == Collapse(Matching)
<1>1. config.op # "keyset" /\ \A x, y \in S : x # y => OrderKey(x) # OrderKey(y)
  BY DEF ByOffset, TotalOrder
<1>2. IsFiniteSet(S) /\ S \subseteq Options
  BY Collapsed
<1>3. \A i \in DOMAIN Slice(s) : offset + i \in DOMAIN s /\ Slice(s)[i] = s[offset + i]
  BY <1>1, PageOf
<1> HIDE DEF S
<1>4. Ranked(S, s, 0) /\ s \in Seq(S)
  BY <1>1, <1>2, RankOf DEF S
<1>5. ASSUME NEW i \in DOMAIN Slice(s)
      PROVE  Slice(s)[i] \in S /\ Rank(S, Slice(s)[i]) = offset + i
  <2>1. offset + i \in DOMAIN s /\ Slice(s)[i] = s[offset + i]
    BY <1>3
  <2>2. s[offset + i] \in S /\ Rank(S, s[offset + i]) = 0 + (offset + i) /\ offset + i \in Nat
    BY <2>1, <1>4 DEF Ranked
  <2> QED
    BY <2>1, <2>2
<1>6. Ranked(S, Slice(s), offset)
  BY <1>5 DEF Ranked
<1> QED
  BY <1>6 DEF S

LEMMA OffsetStatement ==
  ASSUME TypeOK, OffsetInv, SelectPage \/ SelectValues \/ SelectGroups \/ ListPage \/ ListCount
  PROVE  OffsetInv'
<1> DEFINE S == Collapse(Matching)
           n == Cardinality(S)
<1>1. /\ UNCHANGED <<config, limit, offset, rows, filter, disturbed, seen, phase>> /\ phase = "asking"
  BY DEF SelectPage, SelectValues, SelectGroups, ListPage, ListCount, Runs, request
<1>2. /\ ByOffset' <=> ByOffset
      /\ S' = S /\ n' = n /\ Counted' = Counted
      /\ \A T, s, k : Ranked(T, s, k)' <=> Ranked(T, s, k)
      /\ PageLength(n)' = PageLength(n)
  BY <1>1, SameList, SameRequest
<1>3. n \in Nat /\ offset \in Nat
  BY Collapsed, FS_CardinalityType DEF TypeOK
<1> SUFFICES ASSUME ByOffset PROVE OffsetWalk(S, n)'
  BY <1>2, OffsetIsAfter
<1>4. OffsetWalk(S, n)
  BY OffsetIs
<1>5. config.op # "keyset" /\ Limit \in Nat
  BY LimitsOf DEF Limits, ByOffset
<1> SUFFICES /\ "page" \notin pending' => Ranked(S, page', offset) /\ Len(page') = PageLength(n)
             /\ Counted \notin pending' => total' = n
  <2> HIDE DEF S, n
  <2> QED
    BY <1>1, <1>2, <1>4 DEF OffsetWalk
<1>6. ASSUME SelectPage \/ ListPage
      PROVE  Ranked(S, page', offset) /\ Len(page') = PageLength(n)
  <2>1. PICK s \in Orderings(S) : page' = Slice(s)
    BY <1>6 DEF SelectPage, ListPage
  <2> QED
    BY <2>1, <1>5, RankedPage, PageOf
<1>7. CASE SelectPage
  <2>1. total' = WindowCount(page') /\ config.op = "select" /\ ~config.distinct
    BY <1>7 DEF SelectPage, ByOffset, IsSelect
  <2>2. S = Matching
    BY <2>1, Collapsed
  <2>3. Len(page') = PageLength(n) /\ (offset = 0 \/ offset < n)
    BY <1>1, <1>4, <1>6, <1>7 DEF OffsetWalk
  <2> HIDE DEF n
  <2>4. page' = <<>> => n = 0
    <3> HAVE page' = <<>>
    <3>1. PageLength(n) = 0
      BY <2>3
    <3> QED
      BY <3>1, <2>3, <1>3, <1>5 DEF PageLength
  <2> QED
    BY <2>1, <2>2, <2>4, <1>6, <1>7 DEF WindowCount, n
<1>8. CASE SelectValues
  BY <1>8 DEF SelectValues, ByOffset
<1>9. CASE SelectGroups
  <2>1. UNCHANGED <<page, total>> /\ pending = {"groups"}
    BY <1>9 DEF SelectGroups, GroupsAreNext
  <2>2. "page" \notin pending /\ Counted \notin pending
    BY <2>1 DEF Counted
  <2> HIDE DEF S, n
  <2> QED
    BY <2>1, <2>2, <1>1, <1>4 DEF OffsetWalk
<1>10. CASE ListPage
  <2>1. UNCHANGED total /\ Counted = "count" /\ (Counted \in pending => Counted \in pending')
    BY <1>10 DEF ListPage, Counted, IsSelect, Runs
  <2> HIDE DEF S, n
  <2> QED
    BY <2>1, <1>1, <1>4, <1>6, <1>10 DEF OffsetWalk
<1>11. CASE ListCount
  <2>1. total' = n /\ UNCHANGED page /\ ("page" \in pending => "page" \in pending')
    BY <1>11 DEF ListCount, CountOf, Runs
  <2> HIDE DEF S, n
  <2> QED
    BY <2>1, <1>1, <1>4 DEF OffsetWalk
<1> QED
  BY <1>7, <1>8, <1>9, <1>10, <1>11

LEMMA RankedJoin ==
  ASSUME NEW S, NEW T, NEW s \in Seq(T), NEW t \in Seq(T), Ranked(S, s, 0), Ranked(S, t, Len(s))
  PROVE  Ranked(S, s \o t, 0)
<1> DEFINE u == s \o t
<1>1. /\ \A i \in DOMAIN u :
           IF i <= Len(s) THEN i \in DOMAIN s /\ u[i] = s[i]
                          ELSE i - Len(s) \in DOMAIN t /\ u[i] = t[i - Len(s)]
      /\ u \in Seq(T) /\ Len(s) \in Nat
  BY Joined
<1> HIDE DEF u
<1>2. ASSUME NEW i \in DOMAIN u PROVE u[i] \in S /\ Rank(S, u[i]) = 0 + i
  <2>1. i \in Nat
    BY <1>1
  <2>2. CASE i <= Len(s)
    BY <2>2, <1>1 DEF Ranked
  <2>3. CASE ~(i <= Len(s))
    <3>1. i - Len(s) \in DOMAIN t /\ u[i] = t[i - Len(s)]
      BY <2>3, <1>1
    <3>2. t[i - Len(s)] \in S /\ Rank(S, t[i - Len(s)]) = Len(s) + (i - Len(s))
      BY <3>1 DEF Ranked
    <3>3. Len(s) + (i - Len(s)) = 0 + i
      BY <2>1, <1>1
    <3> QED
      BY <3>1, <3>2, <3>3
  <2> QED
    BY <2>2, <2>3
<1> QED
  BY <1>2 DEF Ranked, u

LEMMA OffsetRespond == TypeOK /\ OffsetInv /\ Respond => OffsetInv'
<1> SUFFICES ASSUME TypeOK, OffsetInv, Respond PROVE OffsetInv'
  OBVIOUS
<1> DEFINE S == Collapse(Matching)
           n == Cardinality(S)
<1>1. /\ UNCHANGED <<config, limit, offset, rows, filter, disturbed, pending, page, total>>
      /\ phase = "asking" /\ pending = {} /\ seen' = seen \o page
      /\ phase' = IF HasMore THEN "more" ELSE "end"
  BY DEF Respond, results
<1>2. /\ ByOffset' <=> ByOffset
      /\ S' = S /\ n' = n
      /\ \A T, s, k : Ranked(T, s, k)' <=> Ranked(T, s, k)
      /\ Limit' = Limit
  BY <1>1, SameList, SameRequest
<1>3. n \in Nat /\ offset \in Nat
  BY Collapsed, FS_CardinalityType DEF TypeOK
<1> SUFFICES ASSUME ByOffset PROVE OffsetWalk(S, n)'
  BY <1>2, OffsetIsAfter
<1>4. OffsetWalk(S, n)
  BY OffsetIs
<1>5. /\ config.op \in {"select", "list"} /\ Limit \in Nat
      /\ seen \in Seq(Answers(config)) /\ page \in Seq(Answers(config))
  BY LimitsOf DEF Limits, ByOffset, TypeOK
<1> HIDE DEF S, n
<1>6. /\ Len(seen) = offset /\ (offset = 0 \/ offset < n)
      /\ Ranked(S, seen, 0) /\ Ranked(S, page, offset) /\ Len(page) = PageLength(n) /\ total = n
  BY <1>1, <1>4 DEF OffsetWalk
<1>7. Ranked(S, seen', 0) /\ Len(seen') = offset + PageLength(n)
  BY <1>1, <1>5, <1>6, RankedJoin, Joined
<1>8. HasMore <=> Limit > 0 /\ offset + Limit < n
  BY <1>5, <1>6 DEF HasMore
<1>9. /\ HasMore => offset + PageLength(n) = offset + Limit
      /\ ~HasMore => offset + PageLength(n) = n
  BY <1>3, <1>5, <1>6, <1>8 DEF PageLength
<1> QED
  BY <1>1, <1>2, <1>7, <1>8, <1>9 DEF OffsetWalk

LEMMA OffsetAsk == TypeOK /\ OffsetInv /\ AskNext => OffsetInv'
<1> SUFFICES ASSUME TypeOK, OffsetInv, AskNext PROVE OffsetInv'
  OBVIOUS
<1> DEFINE S == Collapse(Matching)
           n == Cardinality(S)
<1>1. /\ UNCHANGED <<config, rows, filter, seen>> /\ phase = "more" /\ phase' = "asking"
      /\ pending' = Statements(config) /\ disturbed'.walk = disturbed.walk
      /\ config.op # "keyset" => offset' = offset + Limit
  BY DEF AskNext, TypeOK
<1>2. /\ ByOffset' <=> ByOffset
      /\ S' = S /\ n' = n /\ Counted' = Counted
      /\ \A T, s, k : Ranked(T, s, k)' <=> Ranked(T, s, k)
  BY <1>1, SameList
<1> SUFFICES ASSUME ByOffset PROVE OffsetWalk(S, n)'
  BY <1>2, OffsetIsAfter
<1>3. OffsetWalk(S, n)
  BY OffsetIs
<1>4. "page" \in pending' /\ Counted \in pending' /\ config.op # "keyset"
  BY <1>1 DEF ByOffset, Statements, Counted, IsSelect
<1> HIDE DEF S, n
<1> QED
  BY <1>1, <1>2, <1>3, <1>4 DEF OffsetWalk

LEMMA OffsetStep == TypeOK /\ OffsetInv /\ [Next]_vars => OffsetInv'
<1> SUFFICES ASSUME TypeOK, OffsetInv, [Next]_vars PROVE OffsetInv'
  OBVIOUS
<1>1. CASE UNCHANGED vars
  <2>1. UNCHANGED <<config, rows, filter, disturbed, limit, offset, seen, phase, pending, page, total>>
    BY <1>1 DEF vars, request, results
  <2>2. /\ ByOffset' <=> ByOffset
        /\ Collapse(Matching)' = Collapse(Matching)
        /\ \A S, s, k : Ranked(S, s, k)' <=> Ranked(S, s, k)
        /\ Counted' = Counted
        /\ Limit' = Limit /\ \A n : PageLength(n)' = PageLength(n)
    BY <2>1, SameList, SameRequest
  <2>3. \A S, n : OffsetWalk(S, n)' <=> OffsetWalk(S, n)
    BY <2>1, <2>2 DEF OffsetWalk
  <2> QED
    BY <2>2, <2>3, OffsetIs, OffsetIsAfter
<1>2. CASE KeysetPage \/ ChangeFilter \/ ChangeSort
  <2>1. config.op = "keyset" /\ config' = config
    BY <1>2 DEF KeysetPage, ChangeFilter, ChangeSort, Change, Runs, request
  <2> QED
    BY <2>1 DEF OffsetInv
<1>3. CASE Writes \/ WriteGroups
  <2>1. disturbed'.walk
    BY <1>3 DEF Writes, Create, Update, UpdateMany, Delete, DeleteMany, Store, Change, WriteGroups, TypeOK
  <2> QED
    BY <2>1 DEF OffsetInv
<1> QED
  BY <1>1, <1>2, <1>3, OffsetStatement, OffsetRespond, OffsetAsk DEF Next, Answering, Stop

LEMMA InitOffsetInv == Init => OffsetInv
<1> SUFFICES ASSUME Init PROVE OffsetInv
  OBVIOUS
<1>1. /\ seen = <<>> /\ DOMAIN seen = {} /\ Len(seen) = 0 /\ offset = 0 /\ phase = "asking"
      /\ pending = Statements(config)
  BY DEF Init
<1>2. config.op \in {"select", "list"} => "page" \in pending /\ Counted \in pending
  BY <1>1 DEF Statements, Counted, IsSelect
<1> QED
  BY <1>1, <1>2, OffsetIs DEF OffsetWalk, Ranked, ByOffset

\* Page after page, the rows answered are the first of the list: the invariant
\* behind the walks by offset.
THEOREM Positions == Spec => []OffsetInv
  BY TypeCorrect, InitOffsetInv, OffsetStep, PTL DEF Spec

\* A sequence in which the i-th row has rank i answers a list of its length
\* once and in full.
LEMMA RankedAll ==
  ASSUME NEW S, IsFiniteSet(S), NEW T, NEW s \in Seq(T), Ranked(S, s, 0), Len(s) = Cardinality(S)
  PROVE  ToSet(s) = S /\ \A i, j \in DOMAIN s : i # j => s[i] # s[j]
<1> DEFINE n == Cardinality(S)
<1>1. n \in Nat /\ DOMAIN s = 1..n /\ s \in [1..n -> S]
  BY DEF Ranked
<1>2. \A i, j \in DOMAIN s : s[i] = s[j] => i = j
  BY <1>1 DEF Ranked
<1>3. s \in Injection(1..n, S)
  BY <1>1, <1>2 DEF Injection, IsInjective
<1>4. Cardinality(1..n) = n
  BY <1>1, FS_Interval
<1>5. s \in Surjection(1..n, S)
  BY <1>3, <1>4, FS_Injection
<1> QED
  BY <1>1, <1>2, <1>5 DEF Surjection, ToSet

-----------------------------------------------------------------------------
(* A keyset walk.                                                          *)

\* Where a keyset walk sorts by a timestamp, what its cursor says of one is the whole
\* of it.  The code does not see to it: without it the theorems are false
\* (Repository_times).
WholeTimes ==
  \A c \in Configs : c.op = "keyset" =>
    \A o \in c.orders : \A i \in DOMAIN o : o[i].column \in Timestamps => \A t \in c.times : t % Precision = 0

\* The parts of KeysetInv.
Delivered ==
  /\ cursor = NoCursor <=> seen = <<>>
  /\ seen # <<>> => \E o \in config.orders : cursor = Encode(o, Last(seen)) /\ InOrderOf(o, seen)
ToCome == phase \in {"asking", "more"} => \A x \in stable \ ToSet(seen) : Behind(x)
Cut == phase = "asking" /\ pending = {} =>
  /\ InOneOrder /\ InOrderOf(order, page)
  /\ \A x \in ToSet(page) : Behind(x)
  /\ \A x \in stable \ (ToSet(seen) \cup ToSet(page)) :
       total > Clamp /\ page # <<>> /\ Before(order, Last(page), x)
Whole == ~disturbed.walk =>
  /\ InOneOrder /\ stable = Matching
  /\ ToSet(seen) \cup ToSet(page) \subseteq Matching
KeysetWalk ==
  /\ stable \subseteq Matching /\ Delivered /\ ToCome /\ Cut
  /\ phase = "end" => stable \subseteq ToSet(seen)
  /\ Whole

LEMMA KeysetIs == KeysetInv <=> (config.op = "keyset" => KeysetWalk)
BY DEF KeysetInv, KeysetWalk, Delivered, ToCome, Cut, Whole
LEMMA KeysetIsAfter == KeysetInv' <=> (config.op = "keyset" => KeysetWalk)'
BY KeysetIs, PTL

\* A cursor says which order it is of.
LEMMA OneOrder ==
  ASSUME TypeOK, config.op = "keyset", Delivered, InOneOrder, seen # <<>>
  PROVE  /\ cursor = Encode(order, Last(seen)) /\ InOrderOf(order, seen)
         /\ Last(seen) \in Row(config) /\ seen \in Seq(Row(config))
         /\ \A x : Behind(x) <=> Before(order, Last(seen), x)
<1>1. order \in config.orders
      /\ \A o, p \in config.orders : KeysetSignature(o) = KeysetSignature(p) => o = p
  BY OrdersOf
<1>2. cursor.s = KeysetSignature(order)
  BY DEF InOneOrder, Delivered
<1>3. \A o \in config.orders : cursor = Encode(o, Last(seen)) => o = order
  BY <1>1, <1>2 DEF Encode
<1>4. cursor = Encode(order, Last(seen)) /\ InOrderOf(order, seen)
  BY <1>3 DEF Delivered
<1>5. seen \in Seq(Row(config)) /\ Last(seen) \in Row(config)
  BY LastOf DEF TypeOK, Answers
<1> QED
  BY <1>1, <1>3, <1>4, <1>5 DEF Behind

\* The statement of a page answers the rows behind the last one answered.
LEMMA AfterIs ==
  ASSUME WholeTimes, TypeOK, config.op = "keyset", Delivered, InOneOrder
  PROVE  After = {x \in Matching : Behind(x)}
<1>1. CASE seen = <<>>
  BY <1>1 DEF Delivered, After, Behind
<1>2. CASE seen # <<>>
  <2> DEFINE y == Last(seen)
  <2>1. cursor = Encode(order, y) /\ y \in Row(config) /\ \A x : Behind(x) <=> Before(order, y, x)
    BY <1>2, OneOrder
  <2>2. cursor # NoCursor
    BY <1>2 DEF Delivered
  <2>3. Matching \subseteq Row(config)
    BY FiniteMatching
  <2>4. /\ order \in Seq(KeysetOrderBy) /\ order # <<>> /\ RowFor(order, y)
        /\ \A x \in Row(config) : RowFor(order, x)
    BY <2>1, OrdersOf
  <2>5. \A i \in DOMAIN order : order[i].column \in Timestamps => y[order[i].column] % Precision = 0
    <3>1. SUFFICES ASSUME NEW i \in DOMAIN order, order[i].column \in Timestamps
                   PROVE  y[order[i].column] % Precision = 0
      OBVIOUS
    <3>2. Timestamps = {"at"} /\ y.at \in config.times
      BY <2>1, RepositoryAssumption DEF Row
    <3>3. config \in Configs /\ order \in config.orders
      BY OrdersOf DEF TypeOK
    <3>4. \A t \in config.times : t % Precision = 0
      BY <3>1, <3>3 DEF WholeTimes
    <3> QED
      BY <3>1, <3>2, <3>4
  <2>6. ASSUME NEW x \in Matching
        PROVE  BuildAfter(order, cursor.v, x) <=> Behind(x)
    <3>1. RowFor(order, x)
      BY <2>3, <2>4
    <3> HIDE DEF y
    <3>2. BuildAfter(order, Encode(order, y).v, x) <=> Before(order, y, x)
      BY <3>1, <2>4, <2>5, CursorExact
    <3> QED
      BY <2>1, <3>2
  <2> QED
    BY <2>2, <2>6 DEF After
<1> QED
  BY <1>1, <1>2

LEMMA InitKeysetInv == Init => KeysetInv
<1> SUFFICES ASSUME Init, config.op = "keyset" PROVE KeysetWalk
  BY KeysetIs
<1>1. /\ seen = <<>> /\ page = <<>> /\ cursor = NoCursor /\ stable = Matching
      /\ phase = "asking" /\ pending = {"page"}
  BY DEF Init, Statements
<1>2. ToSet(seen) = {} /\ ToSet(page) = {}
  BY <1>1 DEF ToSet
<1> QED
  BY <1>1, <1>2 DEF KeysetWalk, Delivered, ToCome, Cut, Whole, Behind, InOneOrder

\* What leaves the walk where it is, and at most takes rows from the stable ones.
LEMMA KeysetKept ==
  ASSUME KeysetInv,
         UNCHANGED <<config, limit, cursor, phase, pending, page, total, seen>>,
         order' = order \/ phase = "more",
         stable' \subseteq stable, stable \subseteq Matching => stable' \subseteq Matching',
         \/ disturbed'.walk
         \/ UNCHANGED <<order, rows, filter, stable>> /\ disturbed'.walk = disturbed.walk
  PROVE  KeysetInv'
<1> SUFFICES ASSUME config.op = "keyset" PROVE KeysetWalk'
  BY KeysetIsAfter
<1>1. KeysetWalk
  BY KeysetIs
<1>2. /\ Clamp' = Clamp
      /\ \A x : Behind(x)' <=> Behind(x)
      /\ Delivered' <=> Delivered
      /\ order' = order => (InOneOrder' <=> InOneOrder)
  BY DEF Clamp, Behind, Delivered, InOneOrder, NoCursor, Encode, KeysetSignature, Boundary, InOrderOf, Before, SortsBefore, Less, Null
<1>3. ToCome'
  BY <1>1, <1>2 DEF KeysetWalk, ToCome
<1>4. Cut'
  <2> SUFFICES ASSUME phase = "asking", pending = {} PROVE Cut'
    BY DEF Cut
  <2>1. order' = order
    OBVIOUS
  <2> QED
    BY <1>1, <1>2, <2>1 DEF KeysetWalk, Cut, InOrderOf
<1>5. Whole'
  <2> SUFFICES ASSUME ~disturbed'.walk PROVE Whole'
    BY DEF Whole
  <2>1. UNCHANGED <<order, rows, filter, stable>> /\ disturbed'.walk = disturbed.walk
    OBVIOUS
  <2>2. Matching' = Matching
    BY <2>1, SameRows
  <2> QED
    BY <1>1, <1>2, <2>1, <2>2 DEF KeysetWalk, Whole
<1> QED
  BY <1>1, <1>2, <1>3, <1>4, <1>5 DEF KeysetWalk

LEMMA KeysetWrites == TypeOK /\ KeysetInv /\ Writes => KeysetInv'
<1> SUFFICES ASSUME TypeOK, KeysetInv, Writes PROVE KeysetInv'
  OBVIOUS
<1>1. PICK new \in SUBSET Row(config) : Store(new)
  BY TypeWrites
<1>2. /\ UNCHANGED <<config, limit, cursor, phase, pending, page, total, seen, order, filter>>
      /\ rows' = new /\ stable' = stable \cap new /\ disturbed'.walk
  BY <1>1 DEF Store, Change, results, TypeOK
<1>3. stable \subseteq Matching => stable' \subseteq Matching'
  BY <1>2 DEF Matching, Selected, IsSelect
<1> QED
  BY <1>2, <1>3, KeysetKept

LEMMA KeysetOthers == TypeOK /\ KeysetInv /\ (WriteGroups \/ ChangeFilter \/ ChangeSort) => KeysetInv'
<1> SUFFICES ASSUME TypeOK, KeysetInv, WriteGroups \/ ChangeFilter \/ ChangeSort PROVE KeysetInv'
  OBVIOUS
<1>1. /\ UNCHANGED <<config, limit, cursor, phase, pending, page, total, seen, rows>>
      /\ disturbed'.walk
  BY DEF WriteGroups, ChangeFilter, ChangeSort, Change, results, request, TypeOK
<1>2. /\ order' = order \/ phase = "more"
      /\ stable' \subseteq stable
  BY DEF WriteGroups, ChangeFilter, ChangeSort, Change, request
<1>3. stable \subseteq Matching => stable' \subseteq Matching'
  <2>1. CASE WriteGroups \/ ChangeSort
    <3>1. UNCHANGED <<config, rows, filter, stable>>
      BY <2>1 DEF WriteGroups, ChangeSort, Change, request
    <3> QED
      BY <3>1, SameRows
  <2>2. CASE ChangeFilter
    <3>1. stable' = {x \in stable : x.id \in filter'}
      BY <2>2 DEF ChangeFilter
    <3> QED
      BY <3>1, <1>1 DEF Matching, Selected, IsSelect
  <2> QED
    BY <2>1, <2>2
<1> QED
  BY <1>1, <1>2, <1>3, KeysetKept

LEMMA KeysetAsk == TypeOK /\ KeysetInv /\ AskNext => KeysetInv'
<1> SUFFICES ASSUME TypeOK, KeysetInv, AskNext, config.op = "keyset" PROVE KeysetWalk'
  BY KeysetIsAfter DEF AskNext
<1>1. KeysetWalk
  BY KeysetIs
<1>2. /\ UNCHANGED <<config, order, filter, rows, cursor, seen, stable>>
      /\ phase = "more" /\ phase' = "asking" /\ pending' = {"page"} /\ page' = <<>>
      /\ disturbed'.walk = disturbed.walk
  BY DEF AskNext, Statements, TypeOK
<1>3. Matching' = Matching /\ ToSet(page') = {}
  BY <1>2, SameRows DEF ToSet
<1>4. /\ \A x : Behind(x)' <=> Behind(x)
      /\ Delivered' <=> Delivered
      /\ InOneOrder' <=> InOneOrder
  BY <1>2 DEF Behind, Delivered, InOneOrder, NoCursor, Encode, KeysetSignature, Boundary, InOrderOf, Before, SortsBefore, Less, Null
<1>5. ToCome'
  BY <1>1, <1>2, <1>4 DEF KeysetWalk, ToCome
<1>6. Whole'
  BY <1>1, <1>2, <1>3, <1>4 DEF KeysetWalk, Whole
<1> QED
  BY <1>1, <1>2, <1>3, <1>4, <1>5, <1>6 DEF KeysetWalk, Cut

LEMMA KeysetStatement ==
  ASSUME WholeTimes, TypeOK, KeysetInv, KeysetPage
  PROVE  KeysetInv'
<1> SUFFICES KeysetWalk'
  BY KeysetIsAfter
<1>1. /\ config.op = "keyset" /\ phase = "asking"
      /\ UNCHANGED <<config, order, filter, limit, offset, rows, cursor, seen, disturbed, stable>>
      /\ pending' = {}
  BY DEF KeysetPage, Runs, request, TypeOK, Statements
<1>2. KeysetWalk
  BY <1>1, KeysetIs
<1>3. Matching' = Matching /\ Clamp' = Clamp
  BY <1>1, SameRows, SameRequest
<1>4. /\ \A x : Behind(x)' <=> Behind(x)
      /\ Delivered' <=> Delivered
      /\ InOneOrder' <=> InOneOrder
  BY <1>1 DEF Behind, Delivered, InOneOrder, NoCursor, Encode, KeysetSignature, Boundary, InOrderOf, Before, SortsBefore, Less, Null
<1>5. CASE cursor # NoCursor /\ ~Decodes(cursor, order)
  <2>1. phase' = "rejected" /\ UNCHANGED <<page, total>>
    BY <1>5 DEF KeysetPage, results
  <2>2. Whole'
    BY <2>1, <1>1, <1>2, <1>3, <1>4 DEF KeysetWalk, Whole
  <2> QED
    BY <2>1, <2>2, <1>1, <1>2, <1>3, <1>4 DEF KeysetWalk, ToCome, Cut
<1>6. CASE ~(cursor # NoCursor /\ ~Decodes(cursor, order))
  <2>1. PICK s \in {all \in SetToSeqs(After) : InOrderOf(order, all)} :
          page' = Found(s) /\ total' = Len(Fetched(s, Clamp + 1))
    BY <1>6 DEF KeysetPage, Found
  <2>2. phase' = phase
    BY <1>6 DEF KeysetPage
  <2>3. InOneOrder
    BY <1>6 DEF InOneOrder, Decodes
  <2>4. After = {x \in Matching : Behind(x)}
    BY <1>1, <1>2, <2>3, AfterIs DEF KeysetWalk
  <2>5. /\ s \in Seq(Row(config)) /\ ToSet(s) = After /\ InOrderOf(order, s)
        /\ page' \in Seq(Row(config))
        /\ Len(page') = IF Len(s) > Clamp THEN Clamp ELSE Len(s)
        /\ \A i \in DOMAIN page' : i \in DOMAIN s /\ page'[i] = s[i]
        /\ total' = IF Len(s) > Clamp THEN Clamp + 1 ELSE Len(s)
    BY <1>1, <2>1, KeysetPageOf
  <2>6. Clamp \in Nat \ {0}
    BY LimitsOf DEF Limits
  <2>7. ToSet(page') \subseteq After
    BY <2>5 DEF ToSet
  <2>8. InOrderOf(order, page')
    BY <2>5 DEF InOrderOf
  <2>9. ASSUME NEW x \in stable \ (ToSet(seen) \cup ToSet(page'))
        PROVE  total' > Clamp /\ page' # <<>> /\ Before(order, Last(page'), x)
    <3>1. x \in After
      BY <1>1, <1>2, <2>4, <2>9 DEF KeysetWalk, ToCome
    <3>2. PICK i \in DOMAIN s : s[i] = x
      BY <2>5, <3>1 DEF ToSet
    <3>3. DOMAIN s = 1..Len(s) /\ DOMAIN page' = 1..Len(page') /\ Len(s) \in Nat
      BY <2>5
    <3>4. i \notin DOMAIN page'
      BY <2>5, <2>9, <3>2 DEF ToSet
    <3>5. Len(s) > Clamp /\ Clamp < i /\ Len(page') = Clamp /\ Clamp \in DOMAIN page'
      <4> DEFINE m == Len(s)
                 n == Len(page')
      <4>1. n = IF m > Clamp THEN Clamp ELSE m
        BY <2>5
      <4>2. i \in 1..m /\ i \notin 1..n /\ m \in Nat /\ DOMAIN page' = 1..n
        BY <3>3, <3>4
      <4> HIDE DEF m, n
      <4>3. m > Clamp /\ Clamp < i /\ n = Clamp /\ Clamp \in 1..n
        BY <2>6, <4>1, <4>2
      <4> QED
        BY <4>2, <4>3 DEF m, n
    <3>6. page' # <<>> /\ Last(page') = s[Clamp]
      BY <2>5, <3>5, LastOf
    <3>7. Clamp \in DOMAIN s
      BY <2>5, <3>5
    <3> QED
      BY <2>5, <2>6, <3>2, <3>5, <3>6, <3>7 DEF InOrderOf
  <2>10. Cut'
    <3>1. \A x \in ToSet(page') : Behind(x)
      BY <2>4, <2>7
    <3> QED
      BY <1>1, <1>3, <1>4, <2>3, <2>8, <2>9, <3>1 DEF Cut
  <2>11. Whole'
    BY <1>1, <1>2, <1>3, <1>4, <2>4, <2>7 DEF KeysetWalk, Whole
  <2>12. ToCome'
    BY <1>1, <1>2, <1>4, <2>2 DEF KeysetWalk, ToCome
  <2> QED
    BY <1>1, <1>2, <1>3, <1>4, <2>2, <2>10, <2>11, <2>12 DEF KeysetWalk
<1> QED
  BY <1>5, <1>6

LEMMA KeysetRespond == TypeOK /\ KeysetInv /\ Respond => KeysetInv'
<1> SUFFICES ASSUME TypeOK, KeysetInv, Respond, config.op = "keyset" PROVE KeysetWalk'
  BY KeysetIsAfter DEF Respond
<1>1. KeysetWalk
  BY KeysetIs
<1>2. /\ UNCHANGED <<config, order, filter, limit, offset, rows, pending, page, total, disturbed, stable>>
      /\ phase = "asking" /\ pending = {}
      /\ seen' = seen \o page
      /\ cursor' = IF page # <<>> THEN Encode(order, page[Len(page)]) ELSE cursor
      /\ phase' = IF total > Clamp THEN "more" ELSE "end"
  BY DEF Respond, results, HasMore
<1>3. /\ InOneOrder /\ InOrderOf(order, page)
      /\ \A x \in ToSet(page) : Behind(x)
      /\ \A x \in stable \ (ToSet(seen) \cup ToSet(page)) :
           total > Clamp /\ page # <<>> /\ Before(order, Last(page), x)
  BY <1>1, <1>2 DEF KeysetWalk, Cut
<1>4. /\ seen \in Seq(Row(config)) /\ page \in Seq(Row(config))
      /\ order \in config.orders /\ order \in Seq(KeysetOrderBy)
      /\ \A x \in Row(config) : RowFor(order, x)
  BY OrdersOf DEF TypeOK, Answers
<1>5. ToSet(seen') = ToSet(seen) \cup ToSet(page)
  BY <1>2, <1>4, Joined
<1>6. Matching' = Matching
  BY <1>2, SameRows
<1>7. phase' = "end" => stable' \subseteq ToSet(seen')
  BY <1>2, <1>3, <1>5
<1>8. CASE page = <<>>
  <2>1. seen' = seen /\ cursor' = cursor /\ order' = order /\ config' = config
    BY <1>2, <1>4, <1>8, Joined
  <2>2. /\ Delivered' <=> Delivered
        /\ InOneOrder' <=> InOneOrder
    BY <2>1 DEF Delivered, InOneOrder, NoCursor, Encode, KeysetSignature, Boundary, InOrderOf, Before, SortsBefore, Less, Null
  <2>3. ToCome'
    BY <1>2, <1>3, <1>5, <1>8 DEF ToCome
  <2>4. Whole'
    BY <1>1, <1>2, <1>5, <1>6, <2>2 DEF KeysetWalk, Whole
  <2> QED
    BY <1>1, <1>2, <1>6, <1>7, <2>2, <2>3, <2>4 DEF KeysetWalk, Cut
<1>9. CASE page # <<>>
  <2>1. /\ Last(page) = page[Len(page)] /\ Last(page) \in Row(config)
        /\ Last(seen') = Last(page) /\ seen' # <<>>
    <3>1. Last(page) = page[Len(page)] /\ Last(page) \in Row(config) /\ Last(page) \in ToSet(page)
      BY <1>4, <1>9, LastOf
    <3>2. Last(seen') = Last(page)
      BY <1>2, <1>4, <1>9, Joined
    <3>3. seen' # <<>>
      BY <1>5, <3>1 DEF ToSet
    <3> QED
      BY <3>1, <3>2, <3>3
  <2>2. cursor' = Encode(order, Last(seen'))
    BY <1>2, <1>9, <2>1
  <2>3. cursor' # NoCursor /\ cursor'.s = KeysetSignature(order)
    <3>1. order # <<>> /\ DOMAIN order = 1..Len(order) /\ Len(order) \in Nat /\ Len(order) # 0
      BY <1>4, OrdersOf
    <3>2. DOMAIN KeysetSignature(order) # {}
      BY <3>1 DEF KeysetSignature
    <3>3. cursor'.s = KeysetSignature(order)
      BY <2>2 DEF Encode
    <3>4. NoCursor.s = <<>> /\ DOMAIN NoCursor.s = {}
      BY DEF NoCursor
    <3> QED
      BY <3>2, <3>3, <3>4
  <2>4. InOrderOf(order, seen')
    <3> DEFINE n == Len(seen)
    <3>1. /\ DOMAIN seen = 1..n /\ n \in Nat
          /\ DOMAIN seen' \subseteq Nat
          /\ \A i \in DOMAIN seen' :
               IF i <= n THEN i \in DOMAIN seen /\ seen'[i] = seen[i]
                         ELSE i - n \in DOMAIN page /\ seen'[i] = page[i - n]
      <4>1. seen' \in Seq(Row(config))
        BY <1>2, <1>4, Joined
      <4> QED
        BY <4>1, <1>2, <1>4, Joined
    <3>2. ASSUME NEW i \in DOMAIN seen, NEW j \in DOMAIN page
          PROVE  Before(order, seen[i], page[j])
      <4>1. seen # <<>> /\ Delivered
        BY <1>1, <3>2 DEF KeysetWalk
      <4>2. /\ InOrderOf(order, seen) /\ Last(seen) \in Row(config)
            /\ \A x : Behind(x) <=> Before(order, Last(seen), x)
        BY <1>3, <4>1, OneOrder
      <4>3. page[j] \in ToSet(page) /\ page[j] \in Row(config) /\ seen[i] \in Row(config)
        BY <1>4 DEF ToSet
      <4>4. Before(order, Last(seen), page[j])
        BY <1>3, <4>2, <4>3
      <4>5. Last(seen) = seen[n] /\ n \in DOMAIN seen
        BY <1>4, <4>1, LastOf
      <4>6. CASE i = n
        BY <4>4, <4>5, <4>6
      <4>7. CASE i # n
        <5>1. i < n
          BY <3>1, <4>7
        <5>2. Before(order, seen[i], Last(seen))
          BY <5>1, <4>2, <4>5 DEF InOrderOf
        <5> HIDE DEF n
        <5> QED
          BY <1>4, <4>2, <4>3, <4>4, <5>2, BeforeTransitive
      <4> QED
        BY <4>6, <4>7
    <3> HIDE DEF n
    <3>3. InOrderOf(order, seen)
      <4>1. CASE seen = <<>>
        BY <4>1 DEF InOrderOf
      <4>2. CASE seen # <<>>
        BY <4>2, <1>1, <1>3, OneOrder DEF KeysetWalk
      <4> QED
        BY <4>1, <4>2
    <3>4. ASSUME NEW i \in DOMAIN seen', NEW j \in DOMAIN seen', i < j
          PROVE  Before(order, seen'[i], seen'[j])
      <4>1. i \in Nat /\ j \in Nat
        BY <3>1
      <4>2. CASE j <= n
        <5>1. i <= n
          BY <3>1, <3>4, <4>1, <4>2
        <5> QED
          BY <3>1, <3>3, <3>4, <4>2, <5>1 DEF InOrderOf
      <4>3. CASE ~(j <= n) /\ i <= n
        BY <3>1, <3>2, <4>3
      <4>4. CASE ~(j <= n) /\ ~(i <= n)
        <5>1. i - n < j - n
          BY <3>1, <3>4, <4>1
        <5>2. Before(order, page[i - n], page[j - n])
          BY <1>3, <3>1, <4>4, <5>1 DEF InOrderOf
        <5> QED
          BY <3>1, <4>4, <5>2
      <4> QED
        BY <4>2, <4>3, <4>4
    <3> QED
      BY <3>4 DEF InOrderOf
  <2>5. Delivered'
    BY <1>2, <1>4, <2>1, <2>2, <2>3, <2>4 DEF Delivered, InOrderOf
  <2>6. InOneOrder'
    BY <1>2, <2>3 DEF InOneOrder
  <2>7. ToCome'
    <3>1. \A x : Before(order, Last(seen'), x) => Behind(x)'
      BY <1>2, <1>4, <2>2 DEF Behind
    <3> QED
      BY <1>2, <1>3, <1>5, <2>1, <3>1 DEF ToCome
  <2>8. Whole'
    BY <1>1, <1>2, <1>5, <1>6, <2>6 DEF KeysetWalk, Whole
  <2> QED
    BY <1>1, <1>2, <1>6, <1>7, <2>5, <2>7, <2>8 DEF KeysetWalk, Cut
<1> QED
  BY <1>8, <1>9

LEMMA KeysetStep ==
  ASSUME WholeTimes
  PROVE  TypeOK /\ KeysetInv /\ [Next]_vars => KeysetInv'
<1> SUFFICES ASSUME TypeOK, KeysetInv, [Next]_vars PROVE KeysetInv'
  OBVIOUS
<1>1. CASE UNCHANGED vars
  <2>1. /\ UNCHANGED <<config, limit, cursor, phase, pending, page, total, seen>>
        /\ UNCHANGED <<order, rows, filter, stable>> /\ disturbed'.walk = disturbed.walk
    BY <1>1 DEF vars, request, results
  <2>2. Matching' = Matching
    BY <2>1, SameRows
  <2> QED
    BY <2>1, <2>2, KeysetKept
<1>2. CASE SelectPage \/ SelectValues \/ SelectGroups \/ ListPage \/ ListCount
  <2>1. config.op # "keyset" /\ config' = config
    BY <1>2 DEF SelectPage, SelectValues, SelectGroups, ListPage, ListCount, GroupsAreNext, Runs, request,
         Statements, TypeOK
  <2> QED
    BY <2>1, KeysetIsAfter
<1> QED
  BY <1>1, <1>2, KeysetStatement, KeysetRespond, KeysetAsk, KeysetWrites, KeysetOthers DEF Next, Answering, Stop

\* Where no timestamp it sorts by is finer than a Date, whatever is written between two
\* pages a walk continues behind the last row it answered, and what stays in the list
\* and was not answered is still to come.
THEOREM Continues == ASSUME WholeTimes PROVE Spec => []KeysetInv
  BY TypeCorrect, InitKeysetInv, KeysetStep, PTL DEF Spec

\* The rows a keyset walk answered, in the order of its sort, have no row twice.
LEMMA OrderedOnce ==
  ASSUME TypeOK, config.op = "keyset", InOrderOf(order, seen)
  PROVE  \A i, j \in DOMAIN seen : i # j => seen[i] # seen[j]
<1> SUFFICES ASSUME NEW i \in DOMAIN seen, NEW j \in DOMAIN seen, i < j
             PROVE  seen[i] # seen[j]
  BY DEF TypeOK
<1>1. seen[i] \in Row(config) /\ Before(order, seen[i], seen[j])
  BY DEF TypeOK, Answers, InOrderOf
<1>2. order \in Seq(KeysetOrderBy) /\ RowFor(order, seen[i])
  BY <1>1, OrdersOf
<1> QED
  BY <1>1, <1>2, BeforeStrict

LEMMA OrderOf == TypeOK /\ KeysetInv => InOrder
<1> SUFFICES ASSUME TypeOK, KeysetInv, config.op = "keyset", InOneOrder PROVE InOrderOf(order, seen)
  BY DEF InOrder
<1>1. Delivered
  BY KeysetIs DEF KeysetWalk
<1>2. CASE seen = <<>>
  BY <1>2 DEF InOrderOf
<1>3. CASE seen # <<>>
  BY <1>1, <1>3, OneOrder
<1> QED
  BY <1>2, <1>3

\* "After this row": where no timestamp it sorts by is finer than a Date, the rows of a
\* keyset walk come in the order of its sort, whatever is written meanwhile.
THEOREM Ordered == ASSUME WholeTimes PROVE Spec => []InOrder
  BY TypeCorrect, Continues, OrderOf, PTL

LEMMA OnceOf == TypeOK /\ KeysetInv => StableSeenOnce
<1> SUFFICES ASSUME TypeOK, KeysetInv, config.op = "keyset", phase = "end", InOneOrder, NEW x \in stable
             PROVE  Cardinality({i \in DOMAIN seen : seen[i] = x}) = 1
  BY DEF StableSeenOnce
<1>1. x \in ToSet(seen)
  BY KeysetIs DEF KeysetWalk
<1>2. InOrderOf(order, seen)
  BY OrderOf DEF InOrder
<1>3. \A i, j \in DOMAIN seen : i # j => seen[i] # seen[j]
  BY <1>2, OrderedOnce
<1>4. PICK k \in DOMAIN seen : seen[k] = x
  BY <1>1 DEF ToSet
<1>5. {i \in DOMAIN seen : seen[i] = x} = {k}
  BY <1>3, <1>4
<1> QED
  BY <1>5, FS_Singleton

\* Under the same condition a keyset walk that ended answered every row that stayed in
\* the list, once.
THEOREM NoneLost == ASSUME WholeTimes PROVE Spec => []StableSeenOnce
  BY TypeCorrect, Continues, OnceOf, PTL

LEMMA ExactOf == TypeOK /\ OffsetInv /\ KeysetInv => WalkExact
<1> SUFFICES ASSUME TypeOK, OffsetInv, KeysetInv, phase = "end", config.op # "values", ~disturbed.walk,
                    TotalOrder, config.distinct => ~IsSelect
             PROVE  /\ ToSet(seen) = Collapse(Matching)
                    /\ \A i, j \in DOMAIN seen : i # j => seen[i] # seen[j]
  BY DEF WalkExact
<1>1. CASE config.op = "keyset"
  <2>1. KeysetWalk
    BY <1>1, KeysetIs
  <2>2. InOneOrder /\ stable = Matching /\ ToSet(seen) \subseteq Matching /\ stable \subseteq ToSet(seen)
    BY <2>1 DEF KeysetWalk, Whole
  <2>3. InOrderOf(order, seen)
    BY <1>1, <2>2, OrderOf DEF InOrder
  <2>4. Collapse(Matching) = Matching
    BY <1>1, Collapsed
  <2> QED
    BY <1>1, <2>2, <2>3, <2>4, OrderedOnce
<1>2. CASE config.op # "keyset"
  <2> DEFINE S == Collapse(Matching)
  <2>1. config.op \in {"select", "list"}
    BY <1>2, ConfigOf DEF ConfigType
  <2>2. ByOffset
    BY <2>1 DEF ByOffset
  <2>3. OffsetWalk(S, Cardinality(S))
    BY <2>2, OffsetIs
  <2>4. Ranked(S, seen, 0) /\ Len(seen) = Cardinality(S)
    BY <2>3 DEF OffsetWalk
  <2>5. IsFiniteSet(S) /\ seen \in Seq(Answers(config))
    BY Collapsed DEF TypeOK
  <2> HIDE DEF S
  <2>6. ToSet(seen) = S /\ \A i, j \in DOMAIN seen : i # j => seen[i] # seen[j]
    BY <2>4, <2>5, RankedAll
  <2> QED
    BY <2>6 DEF S
<1> QED
  BY <1>1, <1>2

\* A walk over a table nobody writes to, by an order without ties, answers
\* every matching row once, and no other; by keyset only where no timestamp it sorts
\* by is finer than a Date (an offset walk needs no assumption).
THEOREM WalkedInFull == ASSUME WholeTimes PROVE Spec => []WalkExact
  BY TypeCorrect, Positions, Continues, ExactOf, PTL
=============================================================================
