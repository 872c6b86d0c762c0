----------------------------- MODULE QueryPlan ------------------------------
(***************************************************************************)
(* csql/runtime/queryplanbuilder.cc: the query tree of a statement, and    *)
(* what the nodes of the tree (csql/qtree) and TableExpressionBuilder do   *)
(* with it: the text of an expression as it is sent to another server, and *)
(* the checks before a scan.                                               *)
(*                                                                         *)
(* A tree is [node |-> ..., ...] with the tree it reads from in .table; an *)
(* exception is the tree with the node "raise".                            *)
(***************************************************************************)
EXTENDS VM

CONSTANTS
    TableColumns    \* the columns of every table: name -> sequence of names

NoTree == [node |-> "raise"]
IsSelect(ast) == ast.type \in {"T_SELECT", "T_SELECT_DEEP"}
Clauses(ast, type) == SelectSeq(ast.children, LAMBDA c : c.type = type)
HasClause(ast, type) == \E i \in DOMAIN ast.children : ast.children[i].type = type
WithoutClauses(ast, type) ==
    [ast EXCEPT !.children = SelectSeq(ast.children, LAMBDA c : c.type # type)]
WithSelectList(ast, list) == [ast EXCEPT !.children[1].children = list]

-----------------------------------------------------------------------------
\* Value expressions.  An expression that cannot be built is Literal(Raise).

CannotBuild == Literal(Raise)
RECURSIVE Builds(_)
Builds(e) == /\ e.op = "literal" => ~Raised(e.value)
             /\ \A i \in DOMAIN e.args : Builds(e.args[i])

OperatorNames ==
    ("T_EQ_EXPR" :> "eq") @@ ("T_NEQ_EXPR" :> "neq") @@ ("T_AND_EXPR" :> "logical_and")
    @@ ("T_OR_EXPR" :> "logical_or") @@ ("T_NEGATE_EXPR" :> "neg") @@ ("T_LT_EXPR" :> "lt")
    @@ ("T_LTE_EXPR" :> "lte") @@ ("T_GT_EXPR" :> "gt") @@ ("T_GTE_EXPR" :> "gte")
    @@ ("T_ADD_EXPR" :> "add") @@ ("T_SUB_EXPR" :> "sub") @@ ("T_MUL_EXPR" :> "mul")
    @@ ("T_DIV_EXPR" :> "div") @@ ("T_MOD_EXPR" :> "mod") @@ ("T_POW_EXPR" :> "pow")

BuildLiteral(token) ==
    CASE token[1] = "T_TRUE" -> Literal(Bool(TRUE))
      [] token[1] = "T_FALSE" -> Literal(Bool(FALSE))
      [] token[1] = "T_NUMERIC" -> Literal(TryNumericConversion(String(token[2])))
      [] token[1] = "T_STRING" -> Literal(String(token[2]))
      [] OTHER -> CannotBuild

\* a.b.c
RECURSIVE DottedName(_)
DottedName(ast) ==
    IF ast.token[1] # "T_IDENTIFIER" THEN <<>>
    ELSE ast.token[2] \o (IF Len(ast.children) # 1 \/ ast.children[1].token[1] # "T_IDENTIFIER" THEN <<>>
                          ELSE <<Period>> \o DottedName(ast.children[1]))
BuildColumnReference(ast) == ColumnRef(DottedName(ast), ast.id)

\* subquery_column(n): the name of the reference is the number
BuildColumnIndex(ast) ==
    IF Len(ast.children) = 1 /\ ast.children[1].token[1] = "T_NUMERIC"
    THEN ColumnRef(ast.children[1].token[2], stol(ast.children[1].token[2]).val)
    ELSE CannotBuild

WordVoid == 45
RECURSIVE BuildValueExpression(_)
BuildValueExpression(ast) ==
    LET args == Eager([i \in DOMAIN ast.children |-> BuildValueExpression(ast.children[i])])
    IN  CASE ast.type \in DOMAIN OperatorNames -> Call(NameOf(OperatorNames[ast.type]), args)
          [] ast.type = "T_LITERAL" -> BuildLiteral(ast.token)
          [] ast.type = "T_VOID" -> Literal(String(<<WordVoid>>))
          [] ast.type = "T_IF_EXPR" -> IF Len(args) = 3 THEN If(args) ELSE CannotBuild
          [] ast.type \in {"T_RESOLVED_COLUMN", "T_COLUMN_NAME"} -> BuildColumnReference(ast)
          [] ast.type = "T_COLUMN_INDEX" -> BuildColumnIndex(ast)
          [] ast.type = "T_TABLE_NAME" -> BuildColumnReference(ast.children[1])
          [] ast.type \in {"T_METHOD_CALL", "T_METHOD_CALL_WITHIN_RECORD"} -> Call(ast.token[2], args)
          [] OTHER -> CannotBuild

\* one element of the select list of a query tree: the expression and the name of the column
BuildSelectList(ast) ==
    [expr |-> IF ast.children = <<>> THEN CannotBuild ELSE BuildValueExpression(ast.children[1]),
     alias |-> IF Len(ast.children) > 1 /\ ast.children[2].type = "T_COLUMN_ALIAS"
               THEN ast.children[2].token[2] ELSE <<>>]
BuildSelectLists(list) == [i \in DOMAIN list |-> BuildSelectList(list[i])]
AllBuild(exprs) == \A i \in DOMAIN exprs : Builds(exprs[i]) /\ SymbolsFound(exprs[i])
Exprs(list) == [i \in DOMAIN list |-> list[i].expr]

\* ASTUtil::columnNameForExpression()
RECURSIVE ColumnNameForExpression(_)
ColumnNameForExpression(ast) ==
    LET args == [i \in DOMAIN ast.children |-> <<LParen>> \o ColumnNameForExpression(ast.children[i])]
        inner == FlattenSeq(args) \o <<RParen>>
    IN  CASE ast.type = "T_LITERAL" -> ast.token[2]
          [] ast.type \in {"T_COLUMN_NAME", "T_TABLE_NAME", "T_RESOLVED_COLUMN"} ->
                 ast.token[2] \o (IF ast.children = <<>> THEN <<>>
                                  ELSE <<Period>> \o ColumnNameForExpression(ast.children[1]))
          [] ast.type = "T_METHOD_CALL_WITHIN_RECORD" ->
                 ast.token[2] \o inner \o <<Word("T_WITHIN"), Word("T_RECORD")>>
          [] ast.type \in {"T_METHOD_CALL", "T_IF_EXPR"} -> ast.token[2] \o inner
          [] ast.type \in DOMAIN OperatorNames -> <<Plus>> \o NameOf(OperatorNames[ast.type]) \o inner
          [] OTHER -> <<Asterisk>>

-----------------------------------------------------------------------------
\* Aggregations

RECURSIVE HasAggregationExpression(_)
HasAggregationExpression(ast) ==
    \/ ast.type = "T_METHOD_CALL" /\ ast.token[2] \in AggregateFunctions
    \/ \E i \in DOMAIN ast.children : HasAggregationExpression(ast.children[i])

RECURSIVE HasAggregationWithinRecord(_)
HasAggregationWithinRecord(ast) ==
    \/ ast.type = "T_METHOD_CALL_WITHIN_RECORD"
    \/ \E i \in DOMAIN ast.children : HasAggregationWithinRecord(ast.children[i])

\* ASTNode::compare()
RECURSIVE SameTree(_, _)
SameTree(x, y) ==
    /\ x.type = y.type /\ x.token = y.token /\ Len(x.children) = Len(y.children)
    /\ \A i \in DOMAIN x.children : SameTree(x.children[i], y.children[i])

Resolved(index) == [Leaf("T_RESOLVED_COLUMN", NoToken) EXCEPT !.id = index]
Derived(ast) == Node("T_DERIVED_COLUMN", NoToken, <<ast>>)

\* What a column of a select list with aggregations becomes in the select list below: itself inside
\* an aggregation, and its last value in the record outside of one.
PushedColumn(ast, inAggregation) ==
    IF inAggregation THEN Derived(ast)
    ELSE Derived(Node("T_METHOD_CALL_WITHIN_RECORD", Token("T_IDENTIFIER", NameRepeatValue), <<ast>>))

\* buildInternalSelectList(): the tree with its columns replaced by indexes, and the select list
\* below, to which the columns are added that it does not have yet.
RECURSIVE BuildInternalSelectList(_, _, _)
BuildInternalSelectList(ast, target, inAggregation) ==
    LET pushed == PushedColumn(ast, inAggregation)
        known == {i \in DOMAIN target : SameTree(pushed, target[i])}
        inside == inAggregation \/ (ast.type = "T_METHOD_CALL" /\ ast.token[2] \in AggregateFunctions)
        children == FoldLeft(LAMBDA acc, child :
                                LET built == BuildInternalSelectList(child, acc[2], inside)
                                IN  <<Append(acc[1], built[1]), built[2]>>,
                             <<<<>>, target>>, ast.children)
    IN  CASE ast.type = "T_METHOD_CALL_WITHIN_RECORD" ->
                 <<Resolved(Len(target)), Append(target, Derived(ast))>>
          [] ast.type = "T_COLUMN_NAME" /\ known # {} ->
                 <<Resolved((CHOOSE i \in known : \A j \in known : i <= j) - 1), target>>
          [] ast.type = "T_COLUMN_NAME" /\ known = {} ->
                 <<Resolved(Len(target)), Append(target, pushed)>>
          [] OTHER -> <<[ast EXCEPT !.children = children[1]], children[2]>>

-----------------------------------------------------------------------------
\* The columns of the select list

\* SELECT * in the order of the table, whatever stood after it in the list before it
ExpandColumns(ast) ==
    LET list == ast.children[1].children
        from == ast.children[2]
        table == from.children[1].token
        column(name) ==
            Node("T_DERIVED_COLUMN", NoToken,
                 <<Node("T_TABLE_NAME", table, <<Leaf("T_COLUMN_NAME", Token("T_IDENTIFIER", name))>>),
                   Leaf("T_COLUMN_ALIAS", Token("T_IDENTIFIER", name))>>)
        all(i) == IF list[i].type # "T_ALL" THEN <<>>
                  ELSE [j \in DOMAIN TableColumns[table[2]] |-> column(TableColumns[table[2]][j])]
    IN  WithSelectList(ast, SelectSeq(list, LAMBDA c : c.type # "T_ALL")
                            \o FlattenSeq([i \in DOMAIN list |-> all(i)]))
\* whether it raises: a wildcard needs one table, and one that exists
ExpandRaises(ast) ==
    LET from == ast.children[2]
    IN  \/ from.type # "T_FROM"
        \/ /\ \E i \in DOMAIN ast.children[1].children : ast.children[1].children[i].type = "T_ALL"
           /\ Len(from.children) # 1 \/ from.children[1].token[2] \notin DOMAIN TableColumns

AssignExplicitColumnNames(ast) ==
    LET named(col) ==
            IF col.type = "T_DERIVED_COLUMN" /\ Len(col.children) = 1
            THEN [col EXCEPT !.children = Append(@, Leaf("T_COLUMN_ALIAS",
                     Token("T_IDENTIFIER", ColumnNameForExpression(col.children[1]))))]
            ELSE col
    IN  WithSelectList(ast, [i \in DOMAIN ast.children[1].children |-> named(ast.children[1].children[i])])

-----------------------------------------------------------------------------
\* The nodes of the tree

NumberOf(token) == stol(token[2]).val

\* The column of the select list that a sort spec names by its alias, or a new one.  The alias is
\* compared with the token of whatever expression the sort spec has.
SortColumn(list, col) ==
    LET byAlias == {n \in DOMAIN list : /\ Len(list[n].children) > 1
                                        /\ list[n].children[2].type = "T_COLUMN_ALIAS"
                                        /\ list[n].children[2].token[2] = col.token[2]}
    IN  IF byAlias = {} THEN <<Len(list), Append(list, Derived(col))>>
        ELSE <<(CHOOSE n \in byAlias : \A m \in byAlias : n <= m) - 1, list>>

\* An expression without a token cannot be compared: the process dies of a null pointer.
Nameable(specs) == \A i \in DOMAIN specs : specs[i].children[1].token # NoToken

\* the sort specs, and the select list of the child
SortSpecs(list, specs) ==
    FoldLeft(LAMBDA acc, spec :
                LET found == SortColumn(acc[2], spec.children[1])
                IN  <<Append(acc[1], [column |-> found[1], descending |-> spec.token[1] = "T_DESC"]),
                      found[2]>>,
             <<<<>>, list>>, specs)

\* a SELECT of one table; a third clause must be WHERE, and what follows it is not looked at
BuildSequentialScan(ast) ==
    LET list == BuildSelectLists(ast.children[1].children)
        hasWhere == Len(ast.children) > 2
        where == IF hasWhere THEN BuildValueExpression(ast.children[3].children[1]) ELSE Literal(Null)
        within == HasAggregationWithinRecord(ast.children[1])
    IN  IF \/ Len(ast.children[2].children) # 1
           \/ hasWhere /\ \/ ast.children[3].type # "T_WHERE"
                          \/ HasAggregationExpression(ast.children[3])
                          \/ ~AllBuild(<<where>>)
           \/ ~AllBuild(Exprs(list))
        THEN NoTree
        ELSE [node |-> "scan", table_name |-> ast.children[2].children[1].token[2], list |-> list,
              where |-> IF hasWhere THEN <<where>> ELSE <<>>,
              strategy |-> CASE ~within -> "NO_AGGREGATION"
                             [] within /\ ast.type = "T_SELECT_DEEP" -> "AGGREGATE_WITHIN_RECORD_DEEP"
                             [] OTHER -> "AGGREGATE_WITHIN_RECORD_FLAT"]

\* a SELECT without a table
BuildSelectExpression(ast) ==
    LET list == BuildSelectLists(ast.children[1].children)
    IN  IF \/ HasAggregationExpression(ast.children[1]) \/ HasAggregationWithinRecord(ast.children[1])
           \/ ~AllBuild(Exprs(list))
        THEN NoTree ELSE [node |-> "select", list |-> list]

\* the parts of a GROUP BY: its own lists, and the statement that it reads from
GroupByParts(ast) ==
    LET own == FoldLeft(LAMBDA acc, e : LET b == BuildInternalSelectList(e, acc[2], FALSE)
                                        IN  <<Append(acc[1], b[1]), b[2]>>,
                        <<<<>>, <<>>>>, ast.children[1].children)
        groups == FlattenSeq([i \in DOMAIN Clauses(ast, "T_GROUP_BY") |->
                                 Clauses(ast, "T_GROUP_BY")[i].children])
        both == FoldLeft(LAMBDA acc, e : LET b == BuildInternalSelectList(e, acc[2], FALSE)
                                         IN  <<Append(acc[1], b[1]), b[2]>>,
                         <<<<>>, own[2]>>, groups)
    IN  [list |-> BuildSelectLists(own[1]),
         groups |-> [i \in DOMAIN both[1] |-> BuildValueExpression(both[1][i])],
         legal |-> \A i \in DOMAIN groups : ~HasAggregationExpression(groups[i]),
         child |-> WithSelectList([WithoutClauses(ast, "T_GROUP_BY") EXCEPT !.type = "T_SELECT_DEEP"],
                                  both[2])]

OnTable(tree, F(_)) == IF tree.node = "raise" THEN NoTree ELSE F(tree)

RECURSIVE Build(_)
BuildGroupBy(parts) ==
    IF ~parts.legal \/ ~AllBuild(Exprs(parts.list)) \/ ~AllBuild(parts.groups) THEN NoTree
    ELSE OnTable(Build(parts.child), LAMBDA table :
            [node |-> "group", list |-> parts.list, groups |-> parts.groups, table |-> table])
BuildSelect(ast) ==
    LET limit == Clauses(ast, "T_LIMIT")[1]
        order == Clauses(ast, "T_ORDER_BY")[1]
        width == Len(ast.children[1].children)
        sort == SortSpecs(ast.children[1].children, order.children)
    IN  CASE HasClause(ast, "T_LIMIT") /\ Len(ast.children) >= 3 ->
                 OnTable(Build(WithoutClauses(ast, "T_LIMIT")), LAMBDA table :
                    [node |-> "limit", limit |-> NumberOf(limit.token), table |-> table,
                     offset |-> IF limit.children = <<>> THEN 0 ELSE NumberOf(limit.children[1].token)])
          [] HasClause(ast, "T_ORDER_BY") /\ ~Nameable(order.children) -> NoTree
          [] HasClause(ast, "T_ORDER_BY") ->
                 OnTable(Build(WithSelectList(WithoutClauses(ast, "T_ORDER_BY"), sort[2])), LAMBDA table :
                    [node |-> "order", sort_specs |-> sort[1], columns |-> width, table |-> table])
          [] \/ ast.type = "T_SELECT" /\ HasClause(ast, "T_GROUP_BY")
             \/ Len(ast.children) >= 2 /\ HasAggregationExpression(ast.children[1]) ->
                 BuildGroupBy(GroupByParts(ast))
          [] Len(ast.children) >= 2 -> BuildSequentialScan(ast)
          [] OTHER -> BuildSelectExpression(ast)

Build(ast) ==
    CASE IsSelect(ast) /\ Len(ast.children) >= 2 ->
             IF ExpandRaises(ast) THEN NoTree
             ELSE BuildSelect(AssignExplicitColumnNames(ExpandColumns(ast)))
      [] IsSelect(ast) -> BuildSelect(ast)
      [] ast.type = "T_SHOW_TABLES" -> [node |-> "show_tables"]
      [] ast.type = "T_DESCRIBE_TABLE" -> [node |-> "describe", table_name |-> ast.children[1].token[2]]
      [] OTHER -> NoTree

-----------------------------------------------------------------------------
\* The text of an expression

\* only the double quotes of a string are escaped, and the tokenizer leaves the backslashes in
Escaped(text) ==
    FlattenSeq([i \in DOMAIN text |-> IF text[i] = DoubleQuote THEN <<Backslash, DoubleQuote>>
                                      ELSE <<text[i]>>])
ValueToSQL(v) ==
    CASE v.type = T_STRING -> <<DoubleQuote>> \o Escaped(v.val) \o <<DoubleQuote>>
      [] v.type = T_TIMESTAMP -> <<DoubleQuote>> \o ToText(v) \o <<DoubleQuote>>
      [] OTHER -> ToText(v)

RECURSIVE ToSQL(_)
ArgumentsToSQL(args) ==
    FlattenSeq([i \in DOMAIN args |-> (IF i = 1 THEN <<>> ELSE <<Comma>>) \o ToSQL(args[i])])
ToSQL(e) ==
    CASE e.op = "literal" -> ValueToSQL(e.value)
      [] e.op = "column" /\ e.name = <<>> /\ e.index # NoID ->
             NameSubqueryColumn \o <<LParen>> \o IntText(e.index) \o <<RParen>>
      [] e.op = "column" -> e.name
      [] e.op = "call" -> e.symbol \o <<LParen>> \o ArgumentsToSQL(e.args) \o <<RParen>>
      [] e.op = "if" -> NameIf \o <<LParen>> \o ArgumentsToSQL(e.args) \o <<RParen>>

\* what another server makes of the text
Understood(p) == IF Failed(p) THEN CannotBuild ELSE BuildValueExpression(p.node)
Received(text) == Understood(ParseValueExpression(text))

\* RemoteAggregateNode::remoteAggregateParams() and Runtime::executeAggregate(): a GROUP BY over a scan
\* as another server gets it
RemoteAggregate(tree) ==
    LET send(list) == [i \in DOMAIN list |->
                          [expr |-> Received(ToSQL(list[i].expr)), alias |-> list[i].alias]]
        sendAll(exprs) == [i \in DOMAIN exprs |-> Received(ToSQL(exprs[i]))]
        scan == [tree.table EXCEPT !.list = send(@), !.where = sendAll(@)]
    IN  [tree EXCEPT !.list = send(@), !.groups = sendAll(@), !.table = scan]

-----------------------------------------------------------------------------
\* Scans

RECURSIVE ColumnsOf(_)
ColumnsOf(e) == (IF e.op = "column" THEN {e.name} ELSE {})
                \cup UNION {ColumnsOf(e.args[i]) : i \in DOMAIN e.args}

\* TableExpressionBuilder: a scan of a table that is missing, or of columns that it lacks, raises;
\* the columns of the WHERE clause are not looked at
RECURSIVE TableExpressionBuilds(_)
TableExpressionBuilds(tree) ==
    CASE tree.node = "scan" ->
             /\ tree.table_name \in DOMAIN TableColumns
             /\ \A i \in DOMAIN tree.list :
                   ColumnsOf(tree.list[i].expr)
                      \subseteq {TableColumns[tree.table_name][j] : j \in DOMAIN TableColumns[tree.table_name]}
      [] tree.node \in {"limit", "order", "group"} -> TableExpressionBuilds(tree.table)
      [] tree.node = "describe" -> tree.table_name \in DOMAIN TableColumns
      [] OTHER -> tree.node # "raise"

=============================================================================
