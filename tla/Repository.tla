----------------------------- MODULE Repository -----------------------------
(***************************************************************************)
(* PrimaryBaseRepository over one table whose rows refer to a table of     *)
(* groups: the select-options lookup (findForSelect), the offset list      *)
(* (findAllAndCount), the keyset list (findKeyset) and the writes.  One    *)
(* client walks a list page by page while other requests write, and may    *)
(* change the filter or the sort of a keyset walk; each statement of an    *)
(* answer reads the tables as they are when it runs.                       *)
(*                                                                         *)
(* Rows that an ORDER BY leaves tied come in any order, a new one for each *)
(* statement.  A projection that keeps duplicates is the set of the rows   *)
(* themselves; one that removes them forgets the id.                       *)
(***************************************************************************)
EXTENDS Integers, Sequences, FiniteSets, SequencesExt, Keyset

CONSTANTS Ids, Names, Times, GroupIds, \* contents of the columns
          Configs,                     \* the walks a client may make
          DefaultLimit,                \* 20
          MaxPageSize

\* search: the names the pattern matches; where and exclude: as in the
\* config, a field the table does not have being "unknown".  For the model: the
\* contents a column may have in this walk, and a bound on the writes.
ConfigType ==
  [op : {"select", "values", "list", "keyset"}, distinct : BOOLEAN, search : SUBSET Names,
   exclude : SUBSET Ids, values : SUBSET Ids, where : {"none", "group", "unknown"}, group : GroupIds,
   grouped : BOOLEAN, groupBy : BOOLEAN, orderBy : Columns \cup {"unknown"}, direction : Directions,
   limits : SUBSET Int, orders : SUBSET Seq(KeysetOrderBy),
   names : SUBSET Names, times : SUBSET Times, groups : SUBSET GroupIds, writes : Nat]
\* The orders of a keyset walk end with the id, place NULLs in the nullable
\* column and there alike whenever they have the same signature, which does
\* not tell.
ASSUME RepositoryAssumption ==
  /\ Columns = {"id", "name", "at", "group"} /\ Timestamps = {"at"}
  /\ Ids \cup GroupIds \cup Times \subseteq Nat /\ Names \subseteq Nat \cup {Null}
  /\ DefaultLimit \in Nat \ {0} /\ MaxPageSize \in Nat \ {0}
  /\ IsFiniteSet(Ids)
  /\ \A c \in Configs :
       /\ c \in ConfigType
       /\ c.limits # {} /\ (c.op # "keyset" => c.limits \subseteq Nat)
       /\ c.op # "keyset" => Null \notin c.names
       /\ \A o \in c.orders :
            /\ o # <<>> /\ o[Len(o)].column = "id"
            /\ \A i \in DOMAIN o : o[i].nulls # "none" <=> o[i].column = "name" /\ Null \in c.names
       /\ \A o, p \in c.orders : KeysetSignature(o) = KeysetSignature(p) => o = p

Row(c) == [id : Ids, name : c.names, at : c.times, group : c.groups]
Options == [id : Ids \cup {0}, name : Names, at : Times, group : GroupIds]
NoCursor == [s |-> <<>>, v |-> <<>>]

VARIABLES rows, groups, \* the tables
          config,       \* what the client asks for
          order, filter, \* sort of its next keyset request, ids its `where` lets through
          limit, offset, cursor, \* of its current request
          phase,        \* "asking", "more" (hasMore), "end" or "rejected"
          pending,      \* statements of the request that have not run
          page, total, listed, \* their results: rows, a count, the groups
          seen,         \* rows of the pages answered so far
          writes,
          disturbed,    \* what happened since the request, and the walk, began
          stable        \* rows in the list, unchanged, since the walk began

request == <<config, order, filter, limit, offset, cursor>>
results == <<page, total, listed>>
vars == <<rows, groups, request, phase, pending, results, seen, writes, disturbed, stable>>

-----------------------------------------------------------------------------
(* The statements.                                                         *)

IsSelect == config.op \in {"select", "values"}
Limit == IF IsSelect /\ limit = 0 THEN DefaultLimit ELSE limit
Clamp ==
  CASE limit < 1 -> 1
    [] limit > MaxPageSize -> MaxPageSize
    [] OTHER -> limit

\* A where field the table does not have is left out.
Selected(x) == config.where = "group" => x.group = config.group
Matching ==
  {x \in rows : /\ Selected(x) /\ x.id \in filter
                /\ IsSelect => x.name \in config.search /\ x.id \notin config.exclude}
\* DISTINCT and GROUP BY leave one row of those that agree on the columns.
Collapse(S) ==
  CASE IsSelect /\ config.distinct -> {[x EXCEPT !.id = 0] : x \in S}
    [] config.op = "list" /\ config.groupBy -> {[x EXCEPT !.id = 0, !.group = CHOOSE g \in GroupIds : TRUE] : x \in S}
    [] OTHER -> S

\* orderBy falls back to the label for an unknown column.
OrderKey(x) == IF config.orderBy = "id" THEN x.id ELSE x.name
Precedes(x, y) ==
  LET inOrder == IF config.direction = "desc" THEN OrderKey(x) > OrderKey(y)
                                              ELSE OrderKey(x) < OrderKey(y) IN
  IF IsSelect /\ config.grouped /\ x.group # y.group THEN x.group < y.group ELSE inOrder
Orderings(S) ==
  {s \in SetToSeqs(S) : \A i, j \in DOMAIN s : i < j => ~Precedes(s[j], s[i])}
\* LIMIT is left out when it is 0; OFFSET likewise.
\* Faulty variant: one row more, as a keyset page fetches it.
SliceOneMore(s) ==
  SubSeq(s, offset + 1, IF Limit = 0 \/ offset + Limit >= Len(s) THEN Len(s) ELSE offset + Limit + 1)
Slice(s) == SubSeq(s, offset + 1, IF Limit = 0 \/ offset + Limit > Len(s) THEN Len(s) ELSE offset + Limit)

Statements(c) ==
  CASE c.op = "list" -> {"count", "page"}
    [] c.op = "select" /\ c.grouped -> {"page", "groups"}
    [] OTHER -> {"page"}

Init ==
  /\ config \in Configs
  /\ rows \in {r \in SUBSET Row(config) : \A x, y \in r : x.id = y.id => x = y}
  /\ groups \in {g \in SUBSET config.groups : \A x \in rows : x.group \in g}
  /\ order \in IF config.op = "keyset" THEN config.orders ELSE {<<>>}
  /\ filter = Ids /\ limit \in config.limits /\ offset = 0 /\ cursor = NoCursor
  /\ phase = "asking" /\ pending = Statements(config)
  /\ page = <<>> /\ total = 0 /\ listed = {} /\ seen = <<>>
  /\ writes = 0 /\ stable = Matching
  /\ disturbed = [request |-> FALSE, walk |-> FALSE, dropped |-> FALSE]

Runs(statement) ==
  /\ phase = "asking" /\ statement \in pending
  /\ pending' = pending \ {statement}
  /\ UNCHANGED <<rows, groups, request, seen, writes, disturbed, stable>>

\* findForSelect by search: the page and count(*) over () in one statement.
\* The window counts the rows before DISTINCT, and an empty page carries none.
\* The groups are read by a statement that follows.
WindowCount(p) == IF p = <<>> THEN 0 ELSE Cardinality(Matching)
SelectPage ==
  /\ config.op = "select" /\ Runs("page")
  /\ \E s \in Orderings(Collapse(Matching)) :
       /\ page' = Slice(s)
       /\ total' = WindowCount(page')
  /\ UNCHANGED <<phase, listed>>

\* findForSelect by value: neither where, nor search, order and page.
SelectValues ==
  /\ config.op = "values" /\ Runs("page")
  /\ page' \in SetToSeqs(Collapse({x \in rows : x.id \in config.values}))
  /\ UNCHANGED <<phase, total, listed>>

GroupsAreNext == pending = {"groups"}
SelectGroups ==
  /\ GroupsAreNext /\ Runs("groups")
  /\ listed' = groups
  /\ UNCHANGED <<phase, page, total>>

\* findAllAndCount: the two statements of Promise.all, in any order.
ListPage ==
  /\ config.op = "list" /\ Runs("page")
  /\ \E s \in Orderings(Collapse(Matching)) : page' = Slice(s)
  /\ UNCHANGED <<phase, total, listed>>

\* Faulty variant: the rows are counted, not their groups.
CountOfRows == Cardinality(Matching)
CountOf == Cardinality(Collapse(Matching))
ListCount ==
  /\ config.op = "list" /\ Runs("count")
  /\ total' = CountOf
  /\ UNCHANGED <<phase, page, listed>>

\* findKeyset: a row more than the page shows whether there is another.
After == IF cursor = NoCursor THEN Matching ELSE {x \in Matching : BuildAfter(order, cursor.v, x)}
InOrderOf(o, s) == \A i, j \in DOMAIN s : i < j => Before(o, s[i], s[j])
Fetched(s, n) == IF Len(s) > n THEN SubSeq(s, 1, n) ELSE s
KeysetPage ==
  /\ config.op = "keyset" /\ Runs("page")
  /\ IF cursor # NoCursor /\ ~Decodes(cursor, order)
     THEN phase' = "rejected" /\ UNCHANGED results
     ELSE /\ \E s \in {all \in SetToSeqs(After) : InOrderOf(order, all)} :
               LET found == Fetched(s, Clamp + 1) IN
               /\ page' = Fetched(found, Clamp)
               /\ total' = Len(found)
          /\ UNCHANGED <<phase, listed>>

HasMore ==
  \/ config.op = "keyset" /\ total > Clamp
  \/ config.op \in {"select", "list"} /\ Limit > 0 /\ offset + Limit < total

Respond ==
  /\ phase = "asking" /\ pending = {}
  /\ phase' = IF HasMore THEN "more" ELSE "end"
  /\ seen' = seen \o page
  /\ cursor' = IF config.op = "keyset" /\ page # <<>> THEN Encode(order, page[Len(page)]) ELSE cursor
  /\ UNCHANGED <<rows, groups, config, order, filter, limit, offset, pending, results, writes, disturbed, stable>>

\* The client asks for the next page as long as there is one.
AskNext ==
  /\ phase = "more"
  /\ phase' = "asking" /\ pending' = Statements(config)
  /\ offset' = IF config.op = "keyset" THEN 0 ELSE offset + Limit
  /\ limit' \in config.limits
  /\ page' = <<>> /\ total' = 0 /\ listed' = {}
  /\ disturbed' = [disturbed EXCEPT !.request = FALSE, !.dropped = FALSE]
  /\ UNCHANGED <<rows, groups, config, order, filter, cursor, seen, writes, stable>>

Ended == phase \in {"end", "rejected"}

-----------------------------------------------------------------------------
(* Writes of other requests, one statement each.  An id that is not there  *)
(* makes update and delete throw; they change nothing then.  The client    *)
(* may change the filter or the sort between two pages of a keyset walk.   *)

Change ==
  /\ ~Ended /\ writes < config.writes
  /\ writes' = writes + 1
  /\ disturbed' = [disturbed EXCEPT !.request = TRUE, !.walk = TRUE]
  /\ UNCHANGED <<config, limit, offset, cursor, phase, pending, results, seen>>

\* The foreign key: the group of a row is a group.
Store(new) ==
  /\ new # rows /\ \A x \in new : x.group \in groups
  /\ Change
  /\ rows' = new
  /\ stable' = stable \cap new
  /\ UNCHANGED <<groups, order, filter>>

Create(x) == (\A y \in rows : y.id # x.id) /\ Store(rows \cup {x})
Update(i, data) ==
  /\ \E y \in rows : y.id = i
  /\ Store({y \in rows : y.id # i} \cup {[y EXCEPT !.name = data.name, !.at = data.at] : y \in {z \in rows : z.id = i}})
UpdateMany(g, name) == Store({IF y.group = g THEN [y EXCEPT !.name = name] ELSE y : y \in rows})
Delete(i) == Store({y \in rows : y.id # i})
DeleteMany(g) == Store({y \in rows : y.group # g})
Writes ==
  \/ \E x \in Row(config) : Create(x)
  \/ \E i \in Ids, data \in [name : config.names, at : config.times] : Update(i, data)
  \/ \E g \in config.groups, name \in config.names : UpdateMany(g, name)
  \/ \E i \in Ids : Delete(i)
  \/ \E g \in config.groups : DeleteMany(g)

\* Writes to the group table: a group no row refers to goes, or comes back.
WriteGroups ==
  /\ ~Ended /\ writes < config.writes /\ config.grouped
  /\ \E g \in config.groups :
       \/ /\ g \in groups /\ \A x \in rows : x.group # g
          /\ groups' = groups \ {g}
          /\ disturbed' = [disturbed EXCEPT !.request = TRUE, !.walk = TRUE, !.dropped = TRUE]
       \/ /\ g \notin groups
          /\ groups' = groups \cup {g}
          /\ disturbed' = [disturbed EXCEPT !.request = TRUE, !.walk = TRUE]
  /\ writes' = writes + 1
  /\ UNCHANGED <<rows, request, phase, pending, results, seen, stable>>

\* The cursor is not bound to the filter.
ChangeFilter ==
  /\ config.op = "keyset" /\ phase = "more" /\ Change
  /\ filter' \in SUBSET Ids \ {filter}
  /\ stable' = {x \in stable : x.id \in filter'}
  /\ UNCHANGED <<rows, groups, order>>
ChangeSort ==
  /\ config.op = "keyset" /\ phase = "more" /\ Change
  /\ order' \in config.orders \ {order}
  /\ UNCHANGED <<rows, groups, filter, stable>>

Stop == Ended /\ UNCHANGED vars

Answering == SelectPage \/ SelectValues \/ SelectGroups \/ ListPage \/ ListCount \/ KeysetPage \/ Respond \/ AskNext
Next == Answering \/ Writes \/ WriteGroups \/ ChangeFilter \/ ChangeSort \/ Stop
Spec == Init /\ [][Next]_vars

-----------------------------------------------------------------------------
(* Properties.                                                             *)

Answered == phase \in {"more", "end"}

\* Page and total of a select answer are of one statement: whatever is
\* written meanwhile, the total covers the page, and a page that announces
\* more is full.
SelectConsistent ==
  Answered /\ config.op = "select" /\ ~config.distinct =>
    /\ page # <<>> => total >= offset + Len(page)
    /\ phase = "more" => Len(page) = Limit

PageLength(n) ==
  LET rest == IF n > offset THEN n - offset ELSE 0 IN
  IF Limit = 0 \/ rest < Limit THEN rest ELSE Limit

\* The two statements of findAllAndCount agree if nothing is written between
\* them: the count is that of the groups, or rows, the pages are cut from.
ListConsistent ==
  Answered /\ config.op = "list" /\ ~disturbed.request => Len(page) = PageLength(total)

\* The groups are read after the options, so every option finds its group in
\* the answer unless that group was deleted in between.
GroupsCoverOptions ==
  Answered /\ config.op = "select" /\ config.grouped /\ ~disturbed.dropped =>
    \A i \in DOMAIN page : page[i].group \in listed

\* The parts of one answer agree, whatever other requests write between its
\* statements: as far as one statement, or a pause of the writers, can make them, and
\* no page is longer than its limit.
AnswerAgrees ==
  /\ SelectConsistent /\ ListConsistent /\ GroupsCoverOptions
  /\ config.op \in {"select", "list"} /\ Limit > 0 => Len(page) <= Limit
  /\ config.op = "keyset" => Len(page) <= Clamp

\* A walk over an undisturbed table by an order without ties answers every
\* matching option, and each of them once.
TotalOrder ==
  config.op = "keyset" \/ \A x, y \in Collapse(Matching) : x # y => OrderKey(x) # OrderKey(y)
WalkExact ==
  phase = "end" /\ config.op # "values" /\ ~disturbed.walk /\ TotalOrder /\ (config.distinct => ~IsSelect) =>
    /\ ToSet(seen) = Collapse(Matching)
    /\ \A i, j \in DOMAIN seen : i # j => seen[i] # seen[j]

InOneOrder == cursor = NoCursor \/ cursor.s = KeysetSignature(order)

\* "After this row" (KeysetProcessor.buildAfter): whatever is written
\* between two pages, the rows of a keyset walk come in the order of the sort,
\* so none comes back that was delivered and not changed; a cursor of another sort
\* gets no page, which would mix the rows of two sorts.
InOrder ==
  config.op = "keyset" /\ InOneOrder => InOrderOf(order, seen)

\* A keyset walk that reached the end has delivered every row that was in the
\* list, unchanged, from its beginning to its end, and each of them once,
\* whatever other rows appeared, moved or went away.
StableSeenOnce ==
  config.op = "keyset" /\ phase = "end" /\ InOneOrder =>
    \A x \in stable : Cardinality({i \in DOMAIN seen : seen[i] = x}) = 1

-----------------------------------------------------------------------------
(* What the properties rest on (see Repository_proof).                     *)

Answers(c) == IF c.op = "keyset" THEN Row(c) ELSE Options
TypeOK ==
  /\ config \in Configs
  /\ rows \subseteq Row(config) /\ \A x, y \in rows : x.id = y.id => x = y
  /\ groups \subseteq config.groups /\ \A x \in rows : x.group \in groups
  /\ order \in IF config.op = "keyset" THEN config.orders ELSE {<<>>}
  /\ filter \subseteq Ids /\ limit \in config.limits /\ offset \in Nat
  /\ cursor = NoCursor \/ \E o \in config.orders, x \in Row(config) : cursor = Encode(o, x)
  /\ phase \in {"asking", "more", "end", "rejected"}
  /\ pending \subseteq Statements(config) /\ (phase # "asking" => pending = {})
  /\ page \in Seq(Answers(config)) /\ seen \in Seq(Answers(config))
  /\ total \in Nat /\ listed \subseteq GroupIds /\ writes \in Nat
  /\ disturbed \in [request : BOOLEAN, walk : BOOLEAN, dropped : BOOLEAN]
  /\ stable \subseteq rows

\* What each statement of a select or a list left behind it.
SelectInv == config.op = "select" =>
  /\ "page" \notin pending /\ ~config.distinct =>
       IF page = <<>> THEN total = 0 ELSE Len(page) = PageLength(total)
  /\ config.grouped /\ "page" \in pending => "groups" \in pending
  /\ config.grouped /\ ~disturbed.dropped => \A x \in ToSet(page) :
       x.group \in groups /\ (pending = {} => x.group \in listed)
ListInv == config.op = "list" /\ ~disturbed.request =>
  LET n == Cardinality(Collapse(Matching)) IN
  /\ "page" \notin pending => Len(page) = PageLength(n)
  /\ "count" \notin pending => total = n
PageInv ==
  /\ "page" \in pending => page = <<>>
  /\ config.op \in {"select", "list"} /\ Limit > 0 => Len(page) <= Limit
  /\ config.op = "keyset" => Len(page) <= Clamp
  /\ phase = "more" => HasMore

\* In an undisturbed walk by offset the i-th row answered is the one with
\* i - 1 rows before it.
Rank(S, x) == Cardinality({y \in S : Precedes(y, x)}) + 1
Ranked(S, s, k) == \A i \in DOMAIN s : s[i] \in S /\ Rank(S, s[i]) = k + i
OffsetInv ==
  config.op \in {"select", "list"} /\ ~disturbed.walk /\ TotalOrder /\ (config.distinct => ~IsSelect) =>
    LET S == Collapse(Matching)
        n == Cardinality(S) IN
    /\ Ranked(S, seen, 0)
    /\ phase = "asking" =>
         /\ Len(seen) = offset /\ (offset = 0 \/ offset < n)
         /\ "page" \notin pending => Ranked(S, page, offset) /\ Len(page) = PageLength(n)
         /\ (IF IsSelect THEN "page" ELSE "count") \notin pending => total = n
    /\ phase = "more" => Len(seen) = offset + Limit /\ offset + Limit < n
    /\ phase = "end" => Len(seen) = n

\* The cursor of a keyset walk is that of the last row answered, and a row of
\* the list that was not answered yet sorts behind it.
Behind(x) ==
  seen = <<>> \/ \E o \in config.orders : cursor = Encode(o, Last(seen)) /\ Before(o, Last(seen), x)
KeysetInv == config.op = "keyset" =>
  /\ stable \subseteq Matching
  /\ cursor = NoCursor <=> seen = <<>>
  /\ seen # <<>> => \E o \in config.orders : cursor = Encode(o, Last(seen)) /\ InOrderOf(o, seen)
  /\ phase \in {"asking", "more"} => \A x \in stable \ ToSet(seen) : Behind(x)
  /\ phase = "asking" /\ pending = {} =>
       /\ InOneOrder /\ InOrderOf(order, page)
       /\ \A x \in ToSet(page) : Behind(x)
       /\ \A x \in stable \ (ToSet(seen) \cup ToSet(page)) :
            total > Clamp /\ page # <<>> /\ Before(order, Last(page), x)
  /\ phase = "end" => stable \subseteq ToSet(seen)
  /\ ~disturbed.walk =>
       /\ InOneOrder /\ stable = Matching
       /\ ToSet(seen) \cup ToSet(page) \subseteq Matching
=============================================================================
