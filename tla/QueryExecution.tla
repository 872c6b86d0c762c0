-------------------------- MODULE QueryExecution ---------------------------
(***************************************************************************)
(* The execution of a query tree (csql/runtime: GroupBy, GroupByMerge,     *)
(* Union, OrderBy, LimitClause, SelectExpression; csql/CSTableScan over a  *)
(* table without repeated columns).                                        *)
(*                                                                         *)
(* The operators push rows to the one above through a callback that says   *)
(* whether it wants more.  A table lies in parts.  The parts of a GROUP BY *)
(* are accumulated by concurrent tasks, here or on another server (which   *)
(* gets the expressions as text and sends the groups back), and merged in  *)
(* the order in which the tasks end; those of any other query are scanned  *)
(* one after the other (UNION).  An exception ends the query.              *)
(***************************************************************************)
EXTENDS QueryPlan

CONSTANTS
    Queries,     \* texts
    Tables,      \* what the table that is queried may hold: sequences of parts,
                 \*   a part is [rows |-> sequence of rows, remote |-> BOOLEAN]
    TableName0   \* its name

VARIABLES
    query,      \* the text
    parts,      \* the table
    tree,       \* its query tree
    left,       \* per part: the rows not scanned yet
    compiled,   \* per part: the programs
    scan,       \* per part: the instances of the select list, and out_row
    groups,     \* per part: the groups by their unique keys
    merged,     \* the groups of the merge
    unmerged,   \* the parts that have not been merged
    counter,    \* of LimitClause
    rows,       \* of OrderBy
    result,     \* the rows the consumer got
    phase       \* "scan", "sort", "done" or "raised"
vars == <<query, parts, tree, compiled, left, scan, groups, merged, unmerged, counter, rows, result, phase>>

-----------------------------------------------------------------------------
\* The operators of the tree

RECURSIVE Find(_, _)
Find(t, node) == CASE t.node = node -> <<t>>
                   [] t.node \in {"limit", "order", "group"} -> Find(t.table, node)
                   [] OTHER -> <<>>
Has(node) == Find(tree, node) # <<>>
The(node) == Find(tree, node)[1]

\* a reference to a column of the table by its place; a column that the table lacks is NULL
RECURSIVE ResolveColumns(_, _)
ResolveColumns(e, names) ==
    LET at == {i \in DOMAIN names : names[i] = e.name}
    IN  CASE e.op = "column" /\ at # {} -> [e EXCEPT !.index = (CHOOSE i \in at : TRUE) - 1]
          [] e.op = "column" -> e
          [] OTHER -> [e EXCEPT !.args = [i \in DOMAIN @ |-> ResolveColumns(@[i], names)]]

\* the tree as part p executes it
TreeOf(p) == IF Has("group") /\ parts[p].remote THEN RemoteAggregate(The("group"))
             ELSE IF Has("group") THEN The("group") ELSE The("scan")
ScanOf(t) == IF t.node = "group" THEN t.table ELSE t
\* the programs of its expressions
Resolve(e) == Program(ResolveColumns(e, TableColumns[TableName0]))
Compile(t) ==
    LET s == ScanOf(t)
        grouped == t.node = "group"
    IN  [list |-> [i \in DOMAIN s.list |-> Resolve(s.list[i].expr)],
         where |-> [i \in DOMAIN s.where |-> Resolve(s.where[i])],
         flat |-> s.strategy = "NO_AGGREGATION",
         select |-> IF grouped THEN [i \in DOMAIN t.list |-> Program(t.list[i].expr)] ELSE <<>>,
         groups |-> IF grouped THEN [i \in DOMAIN t.groups |-> Program(t.groups[i])] ELSE <<>>]
\* those of the merge
MergePrograms == [i \in DOMAIN The("group").list |-> Program(The("group").list[i].expr)]
AllocInstances(programs) == [i \in DOMAIN programs |-> AllocInstance(programs[i])]
AnyRaised(values) == \E i \in DOMAIN values : Raised(values[i])

-----------------------------------------------------------------------------
\* LimitClause

Unlimited == [limit |-> -1, offset |-> 0]
Limit == IF Has("limit") THEN The("limit") ELSE Unlimited

\* the callback of LimitClause: the counter, whether the row is passed on, whether it wants more
LimitRow(n, limit) ==
    CASE limit.limit = -1 -> [counter |-> n, pass |-> TRUE, go |-> TRUE]
      [] n < limit.offset -> [counter |-> n + 1, pass |-> FALSE, go |-> TRUE]
      [] n + 1 > limit.offset + limit.limit -> [counter |-> n + 1, pass |-> FALSE, go |-> FALSE]
      [] OTHER -> [counter |-> n + 1, pass |-> TRUE, go |-> TRUE]

\* rows pushed until the callback wants no more
PushAll(seq, acc, limit) ==
    FoldLeft(LAMBDA st, row :
                IF ~st.go THEN st
                ELSE LET r == LimitRow(st.counter, limit)
                     IN  [counter |-> r.counter, go |-> r.go,
                          result |-> IF r.pass THEN Append(st.result, row) ELSE st.result],
             acc, seq)

\* what the operator above the scan, or above the groups, does with its rows
Emit(seq) ==
    IF Has("order") THEN /\ rows' = rows \o seq
                         /\ UNCHANGED <<counter, result>>
    ELSE LET st == PushAll(seq, [counter |-> counter, go |-> TRUE, result |-> result], Limit)
         IN  /\ counter' = st.counter /\ result' = st.result
             /\ UNCHANGED rows

-----------------------------------------------------------------------------
\* OrderBy

\* the comparison of two rows: the first sort column whose values are not equal decides
FirstDiffers(specs, x, y, equal) ==
    LET differ == {i \in DOMAIN specs : equal[i] # Bool(TRUE)}
        first == CHOOSE i \in differ : \A j \in differ : i <= j
        l == x[specs[first].column + 1]
        r == y[specs[first].column + 1]
    IN  IF differ = {} THEN Bool(FALSE)
        ELSE IF Raised(equal[first]) THEN Raise
        ELSE IF specs[first].descending THEN GtExpr(l, r) ELSE LtExpr(l, r)
SortLess(specs, x, y) ==
    FirstDiffers(specs, x, y,
                 [i \in DOMAIN specs |->
                     EqExpr(x[specs[i].column + 1], y[specs[i].column + 1], Bool(FALSE))])

Before(specs, x, y) == SortLess(specs, x, y) = Bool(TRUE)
CanSort(specs, seq) == \A i, j \in DOMAIN seq : ~Raised(SortLess(specs, seq[i], seq[j]))
Perms(n) == {f \in [1 .. n -> 1 .. n] : \A i, j \in 1 .. n : i # j => f[i] # f[j]}
\* std::sort is not stable; without a strict weak order it may leave the rows in any order
SomeOf(good, all) == IF good = {} THEN all ELSE good
Sorted(specs, seq) ==
    LET inOrder(perm) == \A i, j \in DOMAIN seq : i < j => ~Before(specs, seq[perm[j]], seq[perm[i]])
    IN  SomeOf({perm \in Perms(Len(seq)) : inOrder(perm)}, Perms(Len(seq)))

-----------------------------------------------------------------------------
\* GroupBy

\* nextRow(): the groups after one more row
UniqueKey(gkey) == IF AnyRaised(gkey) THEN Raise ELSE String(MakeUniqueKey(gkey))
GroupKey(p, row) ==
    UniqueKey(Eager([i \in DOMAIN compiled[p].groups |-> Evaluate(compiled[p].groups[i], row, Null)]))
AccumulateRow(p, row, gs, key) ==
    LET programs == compiled[p].select
        old == IF key \in DOMAIN gs THEN gs[key] ELSE AllocInstances(programs)
    IN  Eager([i \in DOMAIN programs |-> Accumulate(programs[i], old[i], row)])

\* encode() and decode() of the groups
EncodeGroup(programs, instances) ==
    FlattenSeq([i \in DOMAIN programs |-> SaveState(programs[i], instances[i])])
DecodeGroup(programs, is) ==
    FoldLeft(LAMBDA acc, program :
                LET loaded == LoadState(program, AllocInstance(program), acc[2])
                IN  <<Append(acc[1], loaded[1]), loaded[2]>>,
             <<<<>>, is>>, programs)[1]
Transferred(p, gs) ==
    IF ~parts[p].remote THEN gs
    ELSE [key \in DOMAIN gs |->
            DecodeGroup(MergePrograms,
                        EncodeGroup(compiled[p].select, gs[key]))]

\* mergeResult()
MergeGroups(programs, dst, src) ==
    [key \in DOMAIN dst \cup DOMAIN src |->
        IF key \notin DOMAIN src THEN dst[key]
        ELSE LET into == IF key \in DOMAIN dst THEN dst[key] ELSE AllocInstances(programs)
             IN  [i \in DOMAIN programs |-> Merge(programs[i], into[i], src[key][i])]]

\* getResult(): the rows of the groups in some order; out_row is one variable
GroupRow(programs, instances, out) ==
    Eager([i \in DOMAIN programs |-> Result(programs[i], instances[i], out[i])])
GroupRows(programs, gs, order) ==
    FoldLeft(LAMBDA acc, key :
                Append(acc, GroupRow(programs, gs[key],
                                     IF acc = <<>> THEN [i \in DOMAIN programs |-> Null]
                                     ELSE acc[Len(acc)])),
             <<>>, order)

-----------------------------------------------------------------------------
\* Actions

\* the names in the first column of the rows of SHOW TABLES, or of DESCRIBE
Described(t) == IF t.node = "show_tables" THEN SetToSeq(DOMAIN TableColumns)
                ELSE TableColumns[t.table_name]

\* the statements that read a table
Scans == tree.node \in {"limit", "order", "group", "scan"}

\* the instances and the output of the scan of a part, before its first row
FreshScan(p) ==
    [instances |-> AllocInstances(compiled[p].list), out |-> [i \in DOMAIN compiled[p].list |-> Null]]

BuildFirst(statements) == IF statements[1].type = "raise" THEN NoTree ELSE Build(statements[1])

Init ==
    /\ query \in Queries
    /\ parts \in Tables
    /\ tree = BuildFirst(Parse(query))
    /\ phase = IF TableExpressionBuilds(tree) THEN "scan" ELSE "raised"
    /\ left = [p \in DOMAIN parts |-> parts[p].rows]
    /\ compiled = [p \in DOMAIN parts |-> IF phase = "scan" /\ Scans THEN Compile(TreeOf(p)) ELSE <<>>]
    /\ scan = [p \in DOMAIN parts |-> IF phase = "scan" /\ Scans THEN FreshScan(p) ELSE <<>>]
    /\ groups = [p \in DOMAIN parts |-> [key \in {} |-> Null]]
    /\ merged = [key \in {} |-> Null]
    /\ unmerged = DOMAIN parts
    /\ counter = 0 /\ rows = <<>> /\ result = <<>>

RaiseError ==
    /\ phase' = "raised"
    /\ UNCHANGED <<left, scan, groups, merged, unmerged, counter, rows, result>>

\* SELECT without a table: one row, whatever the consumer answers
SelectExpressionExecute ==
    /\ phase = "scan" /\ tree.node = "select"
    /\ \E out \in {[i \in DOMAIN tree.list |-> Evaluate(Program(tree.list[i].expr), <<>>, Null)]} :
           IF AnyRaised(out) THEN RaiseError
           ELSE /\ result' = <<out>> /\ phase' = "done"
                /\ UNCHANGED <<left, scan, groups, merged, unmerged, counter, rows>>
    /\ UNCHANGED <<query, parts, tree, compiled>>

\* SHOW TABLES and DESCRIBE: a row for every table, or every column of one
DescribeExecute ==
    /\ phase = "scan" /\ tree.node \in {"show_tables", "describe"}
    /\ result' = [i \in DOMAIN Described(tree) |-> <<String(Described(tree)[i])>>]
    /\ phase' = "done"
    /\ UNCHANGED <<query, parts, tree, compiled, left, scan, groups, merged, unmerged, counter, rows>>

\* what the scan does with a row that the WHERE clause accepts: its new state
AccumulatedRow(p, row, acc) ==
    LET programs == compiled[p].list
        old == scan[p].out
    IN  IF AnyRaised(acc) THEN [instances |-> acc, out |-> acc]
        ELSE IF compiled[p].flat
        THEN [instances |-> acc,
              out |-> Eager([i \in DOMAIN programs |-> Evaluate(programs[i], row, old[i])])]
        ELSE [instances |-> Eager([i \in DOMAIN programs |-> Reset(programs[i], acc[i])]),
              out |-> Eager([i \in DOMAIN programs |-> Result(programs[i], acc[i], old[i])])]
ScannedRow(p, row) ==
    AccumulatedRow(p, row, Eager([i \in DOMAIN compiled[p].list |->
                                     Accumulate(compiled[p].list[i], scan[p].instances[i], row)]))

Accepts(p, row) ==
    IF compiled[p].where = <<>> THEN Bool(TRUE) ELSE ToBool(Evaluate(compiled[p].where[1], row, Null))

\* what becomes of a row: the WHERE clause rejects it, an expression raises, or the scan passes on a row
OutcomeOf(accepted, st) ==
    CASE Raised(accepted) -> [kind |-> "raised"]
      [] ~Raised(accepted) /\ ~accepted.val -> [kind |-> "rejected"]
      [] OTHER -> IF AnyRaised(st.out) THEN [kind |-> "raised"] ELSE [kind |-> "row", scan |-> st]
RowOutcome(p, row) == OutcomeOf(Accepts(p, row), ScannedRow(p, row))
\* and what GroupBy makes of that
GroupsAfter(p, r, key, new) ==
    IF AnyRaised(new) THEN [kind |-> "raised"]
    ELSE [kind |-> "row", scan |-> r.scan, groups |-> (key.val :> new) @@ groups[p]]
InGroup(p, r, key) ==
    IF Raised(key) THEN [kind |-> "raised"]
    ELSE GroupsAfter(p, r, key, AccumulateRow(p, r.scan.out, groups[p], key.val))
OfGroupBy(p, r) == IF r.kind # "row" THEN r ELSE InGroup(p, r, GroupKey(p, r.scan.out))
GroupOutcome(p, row) == OfGroupBy(p, RowOutcome(p, row))

\* the part that may be scanned: any one of a GROUP BY, the first that is not done of a UNION
Scannable(p) ==
    /\ phase = "scan" /\ Scans /\ p \in DOMAIN parts /\ left[p] # <<>>
    /\ Has("group") \/ \A q \in 1 .. p - 1 : left[q] = <<>>

RejectRow(p) ==
    /\ left' = [left EXCEPT ![p] = Tail(@)]
    /\ UNCHANGED <<scan, groups, merged, unmerged, counter, rows, result, phase>>

\* a row of a part for the GROUP BY
GroupNextRow(p) ==
    /\ Scannable(p) /\ Has("group")
    /\ \E r \in {GroupOutcome(p, Head(left[p]))} :
         \/ r.kind = "raised" /\ RaiseError
         \/ r.kind = "rejected" /\ RejectRow(p)
         \/ /\ r.kind = "row"
            /\ left' = [left EXCEPT ![p] = Tail(@)]
            /\ scan' = [scan EXCEPT ![p] = r.scan]
            /\ groups' = [groups EXCEPT ![p] = r.groups]
            /\ UNCHANGED <<merged, unmerged, counter, rows, result, phase>>
    /\ UNCHANGED <<query, parts, tree, compiled>>

\* A row of a part for the operators above the scan.  The part ends when they want no more; the
\* next part of a UNION begins all the same.
UnionNextRow(p) ==
    /\ Scannable(p) /\ ~Has("group")
    /\ \E r \in {RowOutcome(p, Head(left[p]))} :
         \/ r.kind = "raised" /\ RaiseError
         \/ r.kind = "rejected" /\ RejectRow(p)
         \/ /\ r.kind = "row"
            /\ left' = [left EXCEPT ![p] = IF Has("order") \/ LimitRow(counter, Limit).go THEN Tail(@)
                                          ELSE <<>>]
            /\ scan' = [scan EXCEPT ![p] = r.scan]
            /\ Emit(<<r.scan.out>>)
            /\ UNCHANGED <<groups, merged, unmerged, phase>>
    /\ UNCHANGED <<query, parts, tree, compiled>>

\* mutant: a part may be merged again
MergePartKeeps(p) ==
    /\ phase = "scan" /\ Has("group") /\ Len(parts) > 1
    /\ p \in unmerged /\ left[p] = <<>>
    /\ merged' = MergeGroups(MergePrograms, merged, Transferred(p, groups[p]))
    /\ UNCHANGED <<query, parts, tree, compiled, left, scan, groups, unmerged, counter, rows, result, phase>>
\* A task of GroupByMerge ends: its groups are merged.
MergePart(p) ==
    /\ phase = "scan" /\ Has("group") /\ Len(parts) > 1
    /\ p \in unmerged /\ left[p] = <<>>
    /\ merged' = MergeGroups(MergePrograms,
                             merged, Transferred(p, groups[p]))
    /\ unmerged' = unmerged \ {p}
    /\ UNCHANGED <<query, parts, tree, compiled, left, scan, groups, counter, rows, result, phase>>

\* All parts are merged, or there is only one: the groups are emitted in the order of the hash map.
EmitGroups ==
    /\ phase = "scan" /\ Has("group") /\ \A p \in DOMAIN parts : left[p] = <<>>
    /\ unmerged = {} \/ Len(parts) = 1
    /\ \E gs \in {IF Len(parts) = 1 THEN Transferred(1, groups[1]) ELSE merged} :
       \E order \in SetToSeqs(DOMAIN gs) : \E out \in {GroupRows(MergePrograms, gs, order)} :
          \/ (\E i \in DOMAIN out : AnyRaised(out[i])) /\ RaiseError
          \/ /\ \A i \in DOMAIN out : ~AnyRaised(out[i])
             /\ Emit(out)
             /\ phase' = IF Has("order") THEN "sort" ELSE "done"
             /\ UNCHANGED <<left, scan, groups, merged, unmerged>>
    /\ UNCHANGED <<query, parts, tree, compiled>>

\* the last part of a UNION is done
EndOfScan ==
    /\ phase = "scan" /\ ~Has("group") /\ Scans
    /\ \A p \in DOMAIN parts : left[p] = <<>>
    /\ phase' = IF Has("order") THEN "sort" ELSE "done"
    /\ UNCHANGED <<query, parts, tree, compiled, left, scan, groups, merged, unmerged, counter, rows, result>>

\* OrderBy sorts its rows and pushes their first columns
SortRows ==
    /\ phase = "sort"
    /\ LET specs == The("order").sort_specs
           cut(row) == SubSeq(row, 1, The("order").columns)
       IN  IF ~CanSort(specs, rows) THEN RaiseError
           ELSE \E perm \in Sorted(specs, rows) :
                   LET sorted == [i \in DOMAIN rows |-> cut(rows[perm[i]])]
                       st == PushAll(sorted, [counter |-> counter, go |-> TRUE, result |-> result], Limit)
                   IN  /\ counter' = st.counter /\ result' = st.result
                       /\ phase' = "done"
                       /\ UNCHANGED <<left, scan, groups, merged, unmerged, rows>>
    /\ UNCHANGED <<query, parts, tree, compiled>>

Finished == phase \in {"done", "raised"} /\ UNCHANGED vars

Next ==
    \/ SelectExpressionExecute \/ DescribeExecute
    \/ \E p \in DOMAIN parts : GroupNextRow(p) \/ UnionNextRow(p) \/ MergePart(p)
    \/ EmitGroups \/ EndOfScan \/ SortRows
    \/ Finished

Spec == Init /\ [][Next]_vars

=============================================================================
