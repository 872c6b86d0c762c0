-------------------------- MODULE MCQueryExecution --------------------------
(***************************************************************************)
(* Queries on a table of two columns, and what they mean.                  *)
(*                                                                         *)
(* A query is described by a record, from which its text is made; Meaning  *)
(* says, from the record alone, which rows the query asks for.             *)
(***************************************************************************)
EXTENDS QueryExecution

CONSTANTS MaxRows    \* of a part

TheTable == <<LetterA + 9>>
A == <<LetterA>>
B == <<LetterA + 1>>
X == <<LetterA + 2>>
Columns == TheTable :> <<A, B>>

-----------------------------------------------------------------------------
\* The table

SomeRows == {<<Integer(1), Integer(2)>>, <<Integer(1), Null>>, <<Integer(2), Integer(1)>>}
SomeParts == {[rows |-> r, remote |-> b] : r \in SeqOf(SomeRows, MaxRows), b \in BOOLEAN}
\* a table in one part or in two; the second part is here, and is not the longer one
SomeTables ==
    {<<p>> : p \in SomeParts}
    \cup {pq \in SomeParts \X SomeParts : ~pq[2].remote /\ Len(pq[2].rows) <= Len(pq[1].rows)}

-----------------------------------------------------------------------------
\* Queries

\* SELECT items FROM t WHERE where GROUP BY group ORDER BY order DESC LIMIT limit OFFSET offset
Describe(items, where, group, order, desc, limit, offset) ==
    [items |-> items, where |-> where, group |-> group, order |-> order, desc |-> desc,
     limit |-> limit, offset |-> offset]

Call1(name, arg) == name \o <<LParen>> \o arg \o <<RParen>>
ItemText(item) ==
    CASE item = "a" -> A
      [] item = "b" -> B
      [] item = "a - b * 2" -> A \o <<Space, Minus, Space>> \o B \o <<Asterisk, 2>>
      [] item = "count(b)" -> Call1(NameCount, B)
      [] item = "count(1)" -> Call1(NameCount, <<1>>)
      [] item = "sum(b) AS x" -> Call1(NameSum, B) \o <<Space, Word("T_AS"), Space>> \o X
      [] item = "sum(b + a) + 1" -> Call1(NameSum, B \o <<Plus>> \o A) \o <<Plus, 1>>
      [] item = "x" -> X
      [] item = "*" -> <<Asterisk>>
      [] item = "truncate(a / 2)" -> Call1(NameOf("truncate"), A \o <<Slash, 2>>)
      [] item = "b % 2" -> B \o <<Percent, 2>>
      [] item = "sum(b) + a" -> Call1(NameSum, B) \o <<Plus>> \o A
      [] item = "startswith(a, '1')" ->
             Call1(NameOf("startswith"), A \o <<Comma, SingleQuote, 1, SingleQuote>>)
      [] item = "if(a > 1, b, a)" ->
             Call1(NameIf, A \o <<GreaterSign, 1, Comma>> \o B \o <<Comma>> \o A)
WhereText(where) ==
    CASE where = "b > 1" -> B \o <<GreaterSign, 1>>
      [] where = "a = 1 OR b = 1" ->
             A \o <<EqualSign, 1, Space, Word("T_OR"), Space>> \o B \o <<EqualSign, 1>>
      [] where = "sum(b) > 1" -> Call1(NameSum, B) \o <<GreaterSign, 1>>
      [] where = "a <= b AND NOT b = 9" ->
             A \o <<LessSign, EqualSign>> \o B \o <<Space, Word("T_AND"), Space, Word("T_NOT"), Space>>
             \o B \o <<EqualSign, 9>>
Words(types) == FlattenSeq([i \in DOMAIN types |-> <<Space, Word(types[i]), Space>>])
Listed(items) == FlattenSeq([i \in DOMAIN items |->
                    (IF i = 1 THEN <<>> ELSE <<Comma>>) \o ItemText(items[i])])
Text(q) ==
    <<Word("T_SELECT"), Space>> \o Listed(q.items) \o Words(<<"T_FROM">>) \o TheTable
    \o (IF q.where = "" THEN <<>> ELSE Words(<<"T_WHERE">>) \o WhereText(q.where))
    \o (IF q.group = <<>> THEN <<>> ELSE Words(<<"T_GROUP", "T_BY">>) \o Listed(q.group))
    \o (IF q.order = <<>> THEN <<>>
        ELSE Words(<<"T_ORDER", "T_BY">>) \o Listed(q.order)
             \o (IF q.desc THEN Words(<<"T_DESC">>) ELSE <<>>))
    \o (IF q.limit = -1 THEN <<>>
        ELSE Words(<<"T_LIMIT">>) \o IntText(q.limit) \o Words(<<"T_OFFSET">>) \o IntText(q.offset))
    \o <<Semicolon>>

Described0 ==
    {Describe(<<"a", "a - b * 2">>, "a = 1 OR b = 1", <<>>, <<>>, FALSE, 2, 1),
     Describe(<<"if(a > 1, b, a)">>, "b > 1", <<>>, <<"b", "a">>, TRUE, -1, 0),
     Describe(<<"b">>, "", <<>>, <<"a">>, FALSE, 1, 0),
     Describe(<<"sum(b) AS x", "a", "count(b)">>, "", <<"a">>, <<"x">>, TRUE, 1, 0),
     Describe(<<"count(1)">>, "b > 1", <<"a">>, <<"a">>, FALSE, -1, 0),
     Describe(<<"sum(b + a) + 1", "count(1)">>, "", <<>>, <<>>, FALSE, -1, 0),
     Describe(<<"*">>, "a <= b AND NOT b = 9", <<>>, <<>>, FALSE, 1, 0),
     Describe(<<"b % 2", "truncate(a / 2)", "startswith(a, '1')">>, "", <<>>, <<"b">>, FALSE, -1, 0),
     Describe(<<"a", "b">>, "", <<"b", "a">>, <<>>, FALSE, 1, 1)}

\* queries that the engine refuses: an aggregate in WHERE, and a column beside one that is no group's
Refused ==
    {Text(Describe(<<"a">>, "sum(b) > 1", <<>>, <<>>, FALSE, -1, 0)),
     Text(Describe(<<"sum(b) + a">>, "", <<"a">>, <<>>, FALSE, -1, 0))}
\* statements that read no rows
SelectSeven == <<Word("T_SELECT"), Space, 1, Plus, 2, Asterisk, 3, Semicolon>>
ShowTables == <<Word("T_SHOW"), Space, Word("T_TABLES"), Semicolon>>
DescribeTable == <<Word("T_DESCRIBE"), Space>> \o TheTable \o <<Semicolon>>
Rowless == {SelectSeven, ShowTables, DescribeTable}
SomeQueries == {Text(q) : q \in Described0} \cup Refused \cup Rowless

-----------------------------------------------------------------------------
\* What they mean

TheQuery == CHOOSE q \in Described0 : Text(q) = query
Add(x, y) == IF Null \in {x, y} THEN Null ELSE Integer(x.val + y.val)
Double(x) == IF x = Null THEN Null ELSE Integer(-2 * x.val)
\* the sum of the values that are not NULL; of no values it is NULL, or zero once sums were merged
\* (sumExprMerge() makes a float of whatever it merges into a fresh scratchpad)
NoSum == IF Len(parts) > 1 THEN Integer(0) ELSE Null
NotNull(values) == SelectSeq(values, LAMBDA v : v # Null)
Total(values) == IF NotNull(values) = <<>> THEN NoSum ELSE FoldLeft(Add, Integer(0), NotNull(values))

\* the value of an item for a group of rows, which is a single row without aggregation
ItemValue(item, group) ==
    LET col(i) == [n \in DOMAIN group |-> group[n][i]]
        row == group[1]
    IN  CASE item = "a" -> row[1]
          [] item = "b" -> row[2]
          [] item = "a - b * 2" -> Add(row[1], Double(row[2]))
          [] item = "if(a > 1, b, a)" -> IF row[1].val > 1 THEN row[2] ELSE row[1]
          [] item = "b % 2" -> IF row[2] = Null THEN Null ELSE Integer(row[2].val % 2)
          [] item = "truncate(a / 2)" -> Integer(row[1].val \div 2)
          [] item = "startswith(a, '1')" -> Bool(row[1].val = 1)
          [] item = "count(b)" -> Integer(Len(NotNull(col(2))))
          [] item = "count(1)" -> Integer(Len(group))
          [] item \in {"sum(b) AS x", "x"} -> Total(col(2))
          [] item = "sum(b + a) + 1" ->
                 Add(Total([n \in DOMAIN group |-> Add(group[n][1], group[n][2])]), Integer(1))
Accepted(where, row) ==
    CASE where = "" -> TRUE
      [] where = "b > 1" -> row[2] # Null /\ row[2].val > 1
      [] where = "a <= b AND NOT b = 9" -> row[2] # Null /\ row[1].val <= row[2].val
      [] where = "a = 1 OR b = 1" -> row[1] = Integer(1) \/ row[2] = Integer(1)
Aggregates == {"count(b)", "count(1)", "sum(b) AS x", "sum(b + a) + 1"}

\* the groups of rows: one for every key, or every row by itself
Groups(q) ==
    LET all == FlattenSeq([p \in DOMAIN parts |-> parts[p].rows])
        kept == SelectSeq(all, LAMBDA row : Accepted(q.where, row))
        key(row) == [i \in DOMAIN q.group |-> ItemValue(q.group[i], <<row>>)]
        keys == SetToSeq({key(kept[n]) : n \in DOMAIN kept})
    IN  IF q.group = <<>> /\ Aggregates \cap {q.items[i] : i \in DOMAIN q.items} = {}
        THEN [n \in DOMAIN kept |-> <<kept[n]>>]
        ELSE [k \in DOMAIN keys |-> SelectSeq(kept, LAMBDA row : key(row) = keys[k])]

\* NULL comes first
Rank(v) == IF v = Null THEN -1000 ELSE v.val
InOrder(q, gs) ==
    \A i, j \in DOMAIN gs : i < j =>
        LET x(n) == Rank(ItemValue(q.order[n], gs[i]))
            y(n) == Rank(ItemValue(q.order[n], gs[j]))
            \* DESC belongs to the last one of the list only
            less(n) == IF q.desc /\ n = Len(q.order) THEN y(n) > x(n) ELSE y(n) < x(n)
        IN  \A n \in DOMAIN q.order : less(n) => \E m \in 1 .. n - 1 : x(m) # y(m)

Window(q, gs) ==
    IF q.limit = -1 THEN gs
    ELSE SubSeq(gs, q.offset + 1, IF q.offset + q.limit > Len(gs) THEN Len(gs) ELSE q.offset + q.limit)

\* a value of the result is the one that is meant; a merged sum is a float
Agrees(got, meant) ==
    \/ got.type = meant.type /\ got.val = meant.val
    \/ Len(parts) > 1 /\ got.type = T_FLOAT /\ meant.type = T_INTEGER /\ got.val = FromInt(meant.val)
Width(q) == IF q.items = <<"*">> THEN 2 ELSE Len(q.items)
Meant(q, group, n) == IF q.items = <<"*">> THEN group[1][n] ELSE ItemValue(q.items[n], group)
Means(q, gs) ==
    /\ Len(result) = Len(gs)
    /\ \A i \in DOMAIN gs : /\ Len(result[i]) = Width(q)
                           /\ \A n \in DOMAIN result[i] : Agrees(result[i][n], Meant(q, gs[i], n))

\* The rows that the consumer gets are those that the query asks for: tokenizer, parser, planner,
\* compiler, virtual machine and operators together mean the query, whether the table lies in one
\* part or in two, here or on another server, and in whatever order the tasks of a GROUP BY end and
\* its hash map lists the groups.  A query that follows the rules raises no error in whatever operator
\* it ends up; one that does not ends without a row, however the rows are split into parts.
QueryAnswered ==
    /\ phase = "raised" => query \in Refused
    /\ query \in Refused => result = <<>>
    /\ phase = "done" /\ query \notin Refused =>
      CASE query = SelectSeven -> result = <<<<Integer(7)>>>>
        [] query = ShowTables -> result = <<<<String(TheTable)>>>>
        [] query = DescribeTable -> result = <<<<String(A)>>, <<String(B)>>>>
        [] OTHER ->
        LET gs == Groups(TheQuery)
            arranged(perm) == [i \in DOMAIN gs |-> gs[perm[i]]]
        IN  \E perm \in Perms(Len(gs)) :
               /\ InOrder(TheQuery, arranged(perm))
               /\ Means(TheQuery, Window(TheQuery, arranged(perm)))

\* Every step of a query leaves less to do, so that it ends: the operators that hold rows back
\* (GroupBy, the merge, OrderBy) pass them on, and a scan that is cut short does not start again.
WorkLeft ==
    FoldLeft(LAMBDA n, rs : n + Len(rs), 0, left) + Cardinality(unmerged)
    + CASE phase = "scan" -> 2 [] phase = "sort" -> 1 [] OTHER -> 0
QueryProgresses == [][WorkLeft' < WorkLeft]_vars

=============================================================================
