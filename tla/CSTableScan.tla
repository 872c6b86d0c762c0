---------------------------- MODULE CSTableScan ----------------------------
(***************************************************************************)
(* A query scans a column table: CSTableScan::scan() reads the columns of  *)
(* the query in step, makes flat rows of nested records, and accumulates   *)
(* and emits them by one of four strategies.                               *)
(*                                                                         *)
(* An expression of the select list is the set of the columns it refers    *)
(* to, its value the values of these, and the state of an aggregate the    *)
(* sequence of what it has accumulated.  The WHERE clause is any predicate *)
(* on the columns it refers to; "verdicts" holds what it has said so far.  *)
(***************************************************************************)
EXTENDS CSTable, TLC

CONSTANT Queries    \* Queries[s]: queries [select, filter, where] on schema s

VARIABLES
    query,          \* the query, NULL before there is one
    strategy,       \* aggr_strategy_
    scan,           \* "idle", "run", "stopped" (by the consumer), "raised", "done"
    at,             \* the readers' next entry, per column
    in_row,         \* in_row, per column
    select_level,
    fetch_level,
    scanned,        \* num_records of scan()
    instances,      \* the states of the aggregates, per expression
    rows,           \* history: the rows that were emitted
    accepted,       \* history: what the WHERE clause said of each row
    verdicts        \* ... and of which values

loop == <<at, in_row, select_level, fetch_level, scanned, accepted, verdicts>>
scanVars == <<query, strategy, scan, instances, rows, loop>>
vars == <<table, materializer, scanVars>>

Strategies == {"NO_AGGREGATION", "WITHIN_RECORD_FLAT", "WITHIN_RECORD_DEEP", "AGGREGATE_ALL"}

\* The columns of the query, and the aggregates' results.
Scanned == UNION query.select \cup query.where
Evaluate(row) == [e \in query.select |-> [c \in e |-> row[c]]]
NoInstances == [e \in query.select |-> << >>]

\* findMaxRepetitionLevel()
RepLevel(e) == Max({Info(c).r_max : c \in e} \cup {0})

\* execute(), up to the loop.
Execute(q, s) ==
    /\ stage = "file"
    /\ scan = "idle"
    /\ query' = q
    /\ strategy' = s
    /\ scan' = "run"
    /\ at' = [c \in Scanned' |-> 1]
    /\ in_row' = [c \in Scanned' |-> NULL]
    /\ instances' = NoInstances'
    /\ UNCHANGED <<table, materializer, select_level, fetch_level, scanned,
                   rows, accepted, verdicts>>

-----------------------------------------------------------------------------
\* The columns that move on to their next entry for this row.
Fetched == {c \in Scanned : NextRepetitionLevel(c, at[c]) >= fetch_level}

FetchRow == [c \in Scanned |->
    IF c \notin Fetched THEN in_row[c]
    ELSE IF Levels(c)[at[c]].d < Info(c).d_max THEN NULL
    ELSE Value(c, at[c])]

\* The level at which the next row begins.
NextLevel(a) == Max({NextRepetitionLevel(c, a[c]) : c \in Scanned} \cup {0})

\* The WHERE clause says the same of the same values.
Verdict(row, ok) ==
    LET key == [c \in query.where |-> row[c]] IN
    /\ query.filter \/ ok
    /\ key \in DOMAIN verdicts => ok = verdicts[key]
    /\ verdicts' = (key :> ok) @@ verdicts

\* The aggregates take a row once for every value that begins with it, and
\* none takes NULL (countExprAcc, sumExprAcc).
Takes(e) == RepLevel(e) >= select_level
IsNull(e, row) == e # {} /\ \A c \in e : row[c] = NULL
Accumulated(row) == [e \in query.select |->
    IF Takes(e) /\ ~IsNull(e, row)
    THEN Append(instances[e], [c \in e |-> row[c]])
    ELSE instances[e]]

\* Mutant of SelectLevel: a rejected row counts as one that was taken.
SelectLevelForgets(ok, next) == next

\* The level from which the next accepted row counts as a new one.
SelectLevel(ok, next) ==
    IF ok THEN next ELSE Min({select_level, next})

\* Mutant of Cleared: off by one, a value stays when its level begins again.
ClearedOffByOne(c, level) == Info(c).r_max > level

Cleared(c, level) == Info(c).r_max >= level

\* An accepted row goes to the consumer fn(), which may end the scan.
Emit(row, next) ==
    LET acc == Accumulated(row) IN
    CASE strategy = "NO_AGGREGATION" ->
            /\ rows' = Append(rows, Evaluate(row))
            /\ scan' \in {"run", "stopped"}
            /\ UNCHANGED instances
      [] strategy = "WITHIN_RECORD_DEEP" \/ (strategy = "WITHIN_RECORD_FLAT" /\ next = 0) ->
            /\ rows' = Append(rows, acc)
            /\ instances' = NoInstances
            /\ scan' \in {"run", "stopped"}
      [] OTHER ->
            instances' = acc /\ UNCHANGED <<rows, scan>>

\* One round of the loop of scan().
ScanRow ==
    /\ scan = "run"
    /\ Scanned # {}
    /\ scanned < num_records
    /\ LET row == FetchRow
           next == NextLevel(at')
       IN /\ at' = [c \in Scanned |-> IF c \in Fetched THEN at[c] + 1 ELSE at[c]]
          /\ fetch_level' = next
          /\ scanned' = IF next = 0 THEN scanned + 1 ELSE scanned
          /\ \E ok \in BOOLEAN :
                /\ Verdict(row, ok)
                /\ accepted' = Append(accepted, ok)
                /\ select_level' = SelectLevel(ok, next)
                /\ IF ok THEN Emit(row, next) ELSE UNCHANGED <<rows, instances, scan>>
          /\ in_row' = [c \in Scanned |->
                           IF Cleared(c, select_level') THEN NULL ELSE row[c]]
    /\ UNCHANGED <<table, materializer, query, strategy>>

\* One round of the loop of scanWithoutColumns().  It evaluates the expressions
\* without their states, which an aggregate refuses.
ScanRecord ==
    /\ scan = "run"
    /\ Scanned = {}
    /\ scanned < num_records
    /\ scanned' = scanned + 1
    /\ \E ok \in BOOLEAN :
          /\ Verdict(in_row, ok)
          /\ accepted' = Append(accepted, ok)
          /\ CASE ~ok -> UNCHANGED <<rows, instances, scan>>
               [] ok /\ strategy = "AGGREGATE_ALL" ->
                     /\ instances' = [e \in query.select |-> Append(instances[e], << >>)]
                     /\ UNCHANGED <<rows, scan>>
               [] ok /\ strategy = "NO_AGGREGATION" ->
                     /\ rows' = Append(rows, Evaluate(in_row))
                     /\ scan' \in {"run", "stopped"}
                     /\ UNCHANGED instances
               [] OTHER ->
                     scan' = "raised" /\ UNCHANGED <<rows, instances>>
    /\ UNCHANGED <<table, materializer, query, strategy, at, in_row, select_level,
                   fetch_level>>

\* The end of either loop.
ScanEnd ==
    /\ scan = "run"
    /\ scanned >= num_records
    /\ scan' = "done"
    /\ rows' = IF strategy = "AGGREGATE_ALL" THEN Append(rows, instances) ELSE rows
    /\ UNCHANGED <<table, materializer, query, strategy, instances, loop>>

-----------------------------------------------------------------------------
Init ==
    /\ TableInit
    /\ query = NULL
    /\ strategy = NULL
    /\ scan = "idle"
    /\ at = << >>
    /\ in_row = << >>
    /\ select_level = 0
    /\ fetch_level = 0
    /\ scanned = 0
    /\ instances = << >>
    /\ rows = << >>
    /\ accepted = << >>
    /\ verdicts = << >>

Next ==
    \/ Build /\ UNCHANGED scanVars
    \/ scan = "idle" /\ Materialize /\ UNCHANGED scanVars
    \/ out = << >> /\ \E q \in Queries[schema], s \in Strategies : Execute(q, s)
    \/ ScanRow
    \/ ScanRecord
    \/ ScanEnd

Spec == Init /\ [][Next]_vars

-----------------------------------------------------------------------------
(***************************************************************************)
(* What the rows of a record are, by the structure of the record: the k-th *)
(* children of all repeated fields of one level stand in the same rows,    *)
(* a value is repeated over the rows of the level below it, and a field    *)
(* that has no k-th child is NULL in them.                                 *)
(***************************************************************************)
RepeatedLeaf(c) ==
    Info(c).r_max > Cardinality({i \in DOMAIN Info(c).parents : Info(c).parents[i].repeated})

\* The values of a column in an object, as lists in lists, NULL for no object.
RECURSIVE Nest(_, _, _)
Nest(object, parents, c) ==
    IF parents = << >>
    THEN IF RepeatedLeaf(c) THEN object[c]
         ELSE IF object[c] = << >> THEN NULL ELSE object[c][1]
    ELSE LET p == Head(parents)
             cld == object[p.id]
         IN IF p.repeated THEN [i \in DOMAIN cld |-> Nest(cld[i], Tail(parents), c)]
            ELSE IF cld = << >> THEN NULL ELSE Nest(cld[1], Tail(parents), c)

RECURSIVE Flat(_, _)
Flat(nested, depth) ==
    LET lists == {c \in DOMAIN depth : depth[c] > 0}
        Length(c) == IF nested[c] = NULL THEN 0 ELSE Len(nested[c])
        n == Max({Length(c) : c \in lists} \cup {1})
        Part(k) == [c \in DOMAIN depth |->
            IF c \notin lists THEN nested[c]
            ELSE IF k <= Length(c) THEN nested[c][k] ELSE NULL]
    IN IF lists = {} THEN <<nested>>
       ELSE FlattenSeq([k \in 1..n |->
                Flat(Part(k), [c \in DOMAIN depth |-> IF c \in lists THEN depth[c] - 1
                                                                    ELSE 0])])

RecordRows(record) ==
    Flat([c \in Scanned |-> Nest(record, Info(c).parents, c)],
         [c \in Scanned |-> Info(c).r_max])

TableRows == FlattenSeq([i \in DOMAIN written |-> RecordRows(written[i])])

\* The scan is over; the histories hold what it has done.
Over == scan \in {"done", "stopped", "raised"}

\* The rows that were accepted, by their numbers.
Numbers(n, Test(_)) == SelectSeq([j \in 1..n |-> j], Test)
AcceptedRows == Numbers(Len(accepted), LAMBDA j : accepted[j])

\* An earlier row with the same value of c was rejected.
Rejected(ref, c, j) == \E i \in 1..(j - 1) : ~accepted[i] /\ ref[i][c] = ref[j][c]

\* A scan without aggregates emits the rows of the table that the WHERE clause
\* accepts, all of them, in their order and with their values; a value may be
\* lost only where an earlier row that shares it was rejected
\* (CSTableScan::scan, the levels by which columns move on and are cleared).
RowsRight ==
    Over /\ strategy = "NO_AGGREGATION" =>
        LET ref == TableRows IN
        /\ Len(accepted) <= Len(ref)
        /\ scan = "done" => Len(accepted) = Len(ref)
        /\ Len(rows) = Len(AcceptedRows)
        /\ \A k \in DOMAIN rows : \A e \in query.select : \A c \in e :
              LET j == AcceptedRows[k] IN
              \/ rows[k][e][c] = ref[j][c]
              \/ rows[k][e][c] = NULL /\ Rejected(ref, c, j)

\* What the aggregate of an expression has taken so far, emitted or not.
Taken(e) ==
    IF strategy = "AGGREGATE_ALL" THEN instances[e]
    ELSE FlattenSeq([k \in DOMAIN rows |-> rows[k][e]]) \o instances[e]

\* An aggregate takes every value of its column at most once and in order,
\* however many rows repeat it; it takes no value of which all rows were
\* rejected, and misses none whose first row was accepted.  An aggregate
\* of a constant counts the records that have an accepted row
\* (CSTableScan::scan, select_level).
AccumulatedOnce ==
    Over /\ strategy # "NO_AGGREGATION" =>
        LET ref == TableRows
            n == Len(accepted)
            First(c) == Numbers(n, LAMBDA j : /\ ref[j][c] # NULL
                                              /\ \A i \in 1..(j - 1) : ref[i][c] # ref[j][c])
            Starts == {Len(FlattenSeq([i \in 1..r |-> RecordRows(written[i])])) :
                          r \in 0..Len(written)}
            Ends(s) == Min({x \in Starts : x > s})
        IN \A e \in query.select :
              /\ e = {} /\ scan # "raised" =>
                   Len(Taken(e)) = Cardinality({s \in Starts :
                       \E j \in (s + 1)..n : accepted[j] /\ j <= Ends(s)})
              /\ \A c \in Columns :
                   e = {c} =>
                     LET taken == [i \in DOMAIN Taken(e) |-> Taken(e)[i][c]]
                         values == [i \in DOMAIN First(c) |-> ref[First(c)[i]][c]]
                     IN /\ taken = SelectSeq(values, LAMBDA v : Contains(taken, v))
                        /\ \A j \in ToSet(First(c)) :
                              /\ accepted[j] => Contains(taken, ref[j][c])
                              /\ Contains(taken, ref[j][c]) =>
                                    \E i \in 1..n : accepted[i] /\ ref[i][c] = ref[j][c]

\* What Runtime_test.cc expects of a query with a WHERE clause on an inner
\* record (TestMultiLevelNestedCSTableAggrgateWithWhere): the rows it accepts
\* come with the values of the record around them.
AcceptedValuesTaken ==
    Over /\ strategy = "WITHIN_RECORD_DEEP" =>
        LET ref == TableRows IN
        \A j \in ToSet(AcceptedRows) : \A c \in Columns :
            {c} \in query.select /\ ref[j][c] # NULL =>
                Contains(Taken({c}), [x \in {c} |-> ref[j][c]])
=============================================================================
