------------------------------- MODULE Keyset -------------------------------
(***************************************************************************)
(* KeysetProcessor and CursorCodec: the predicate that finds the rows after *)
(* a boundary row, and the cursor a client gets of that row.               *)
(*                                                                         *)
(* A row is a function of its columns.  An ORDER BY is a sequence of       *)
(* columns with a direction and, for a nullable column, the place of its   *)
(* NULLs.  Comparisons are those of SQL: one with NULL is never true.      *)
(***************************************************************************)
EXTENDS Integers, Sequences

CONSTANTS Columns,
          Timestamps,   \* those of Columns that hold timestamps
          Precision     \* stored timestamps per value of a JavaScript Date

ASSUME KeysetAssumption == Timestamps \subseteq Columns /\ Precision \in Nat \ {0}

Null == -1
Directions == {"asc", "desc"}
KeysetOrderBy == [column : Columns, direction : Directions, nulls : {"none", "first", "last"}]

\* The ORDER BY of PostgreSQL.
Less(a, b) == a # Null /\ b # Null /\ a < b
SortsBefore(o, a, b) ==
  \/ a = Null /\ b # Null /\ o.nulls = "first"
  \/ a # Null /\ b = Null /\ o.nulls = "last"
  \/ IF o.direction = "asc" THEN Less(a, b) ELSE Less(b, a)
Before(order, x, y) ==
  \E i \in DOMAIN order :
    /\ \A j \in 1..(i - 1) : x[order[j].column] = y[order[j].column]
    /\ SortsBefore(order[i], x[order[i].column], y[order[i].column])

-----------------------------------------------------------------------------

\* Faulty variant: a NULL boundary is compared like a value.
TieByValue(a, v) == v # Null /\ a = v
Tie(a, v) == IF v = Null THEN a = Null ELSE a = v

StrictlyAfter(o, a, v) ==
  LET cmp == IF o.direction = "asc" THEN Less(v, a) ELSE Less(a, v) IN
  CASE o.nulls = "none" -> cmp
    [] o.nulls # "none" /\ v = Null -> o.nulls = "first" /\ a # Null
    [] o.nulls = "last" /\ v # Null -> cmp \/ a = Null
    [] OTHER -> cmp

BuildOrExpansion(order, values, x) ==
  \E i \in DOMAIN order :
    /\ \A j \in 1..(i - 1) : Tie(x[order[j].column], values[j])
    /\ StrictlyAfter(order[i], x[order[i].column], values[i])

\* PostgreSQL compares rows column by column, all in one direction.
BuildRowValue(order, values, x) ==
  \E i \in DOMAIN order :
    /\ \A j \in 1..(i - 1) : x[order[j].column] = values[j]
    /\ IF order[1].direction = "asc" THEN Less(values[i], x[order[i].column])
                                     ELSE Less(x[order[i].column], values[i])

\* Faulty variant: the fast path for every order.
AlwaysRowValue(order, values, x) == order = <<>> \/ BuildRowValue(order, values, x)
BuildAfter(order, values, x) ==
  LET uniform == \A i \in DOMAIN order : order[i].direction = order[1].direction
      anyNullable == \E i \in DOMAIN order : order[i].nulls # "none" IN
  \/ order = <<>>
  \/ /\ order # <<>>
     /\ IF uniform /\ ~anyNullable /\ Len(order) >= 2
        THEN BuildRowValue(order, values, x) ELSE BuildOrExpansion(order, values, x)

-----------------------------------------------------------------------------

KeysetSignature(order) == [i \in DOMAIN order |-> <<order[i].column, order[i].direction>>]
\* A timestamp reaches the program as a Date.
Boundary(order, x) ==
  [i \in DOMAIN order |->
     LET c == order[i].column IN IF c \in Timestamps THEN x[c] - (x[c] % Precision) ELSE x[c]]
Encode(order, x) == [s |-> KeysetSignature(order), v |-> Boundary(order, x)]
Decodes(c, order) == c.s = KeysetSignature(order)
=============================================================================
