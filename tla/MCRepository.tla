---------------------------- MODULE MCRepository ----------------------------
(* Instances of Repository for TLC. *)
EXTENDS Repository

Base == [op |-> "select", distinct |-> FALSE, search |-> Names, exclude |-> {}, values |-> {},
         where |-> "none", group |-> 1, grouped |-> FALSE, groupBy |-> FALSE,
         orderBy |-> "id", direction |-> "asc", limits |-> {1}, orders |-> {},
         names |-> {1, 2}, times |-> {0}, groups |-> {1, 2}, writes |-> 1]
Selects ==
  {[Base EXCEPT !.where = w, !.grouped = g, !.direction = d] :
     w \in {"none", "group", "unknown"}, g \in BOOLEAN, d \in {"asc", "desc"}}
  \cup {[Base EXCEPT !.search = {1}], [Base EXCEPT !.exclude = {1}, !.limits = {2}],
        [Base EXCEPT !.limits = {0}], [Base EXCEPT !.distinct = TRUE, !.orderBy = "name"],
        [Base EXCEPT !.orderBy = "unknown"], [Base EXCEPT !.op = "values", !.values = {1, 2}]}
\* Enough writes for a new group and a row in it.
GroupedSelects == {[Base EXCEPT !.grouped = TRUE, !.names = {1}, !.writes = 2, !.limits = l] : l \in {{0}, {1}}}
Lists ==
  {[Base EXCEPT !.op = "list", !.where = w, !.limits = l] : w \in {"none", "group"}, l \in {{0}, {1}, {2}}}
  \cup {[Base EXCEPT !.op = "list", !.groupBy = TRUE, !.orderBy = "name", !.limits = l] : l \in {{0}, {1}}}

By(c, d) == [column |-> c, direction |-> d, nulls |-> "none"]
NullsBy(d, n) == [column |-> "name", direction |-> d, nulls |-> n]
Walk == [Base EXCEPT !.op = "keyset", !.groups = {1}, !.writes = 2]
\* A nullable column, its NULLs first or last; limits out of range.
NullWalks ==
  {[Walk EXCEPT !.names = {Null, 0, 1}, !.limits = {0, 7},
                !.orders = {<<NullsBy("asc", n), By("id", "asc")>>, <<NullsBy("desc", n), By("id", "asc")>>}] :
     n \in {"first", "last"}}
\* Three columns, uniform and mixed: the row comparison and the expansion.
ValueWalks ==
  {[Walk EXCEPT !.names = {0, 1}, !.times = {0, 1}, !.writes = 1,
                !.orders = {<<By("name", d), By("at", e), By("id", "asc")>> : d, e \in Directions}
                             \cup {<<By("at", "desc"), By("id", "desc")>>}],
   [Walk EXCEPT !.groups = {1, 2}, !.where = "group", !.writes = 1,
                !.names = {0}, !.orders = {<<By("name", "asc"), By("id", "asc")>>}]}
Pages == Selects \cup GroupedSelects \cup Lists \cup NullWalks \cup ValueWalks

TimeWalks == {[Walk EXCEPT !.names = {0}, !.times = {0, 1, 2}, !.writes = 0,
                           !.orders = {<<By("at", d), By("id", "asc")>> : d \in Directions}]}
AllNames == {Null, 0, 1, 2}
=============================================================================
