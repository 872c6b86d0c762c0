----------------------------- MODULE SQLParser ------------------------------
(***************************************************************************)
(* csql/parser/tokenize.cc: the text of a query to the list of its tokens. *)
(*                                                                         *)
(* A text is a sequence of characters, as in SValue; the characters of SQL *)
(* are added here.  A word that the tokenizer knows, or that names a       *)
(* function, is one character.  A token is a pair of its type and its      *)
(* text; the text is empty unless the type does not say it all.            *)
(***************************************************************************)
EXTENDS SValue

Space == -1
Newline == -2
Period == -3
Semicolon == -4
LParen == -5
RParen == -6
DoubleQuote == -7
SingleQuote == -8
Backtick == -9
Backslash == -10
EqualSign == -11
Plus == -12
Asterisk == -13
Bang == -14
Slash == -15
Circumflex == -16
Tilde == -17
Percent == -18
Ampersand == -19
Pipe == -20
LessSign == -21
GreaterSign == -22

Whitespace == {Space, Newline}
Quotes == {DoubleQuote, SingleQuote, Backtick}

\* one character that is a token by itself
Single == (Semicolon :> "T_SEMICOLON") @@ (Comma :> "T_COMMA") @@ (Period :> "T_DOT")
          @@ (LParen :> "T_LPAREN") @@ (RParen :> "T_RPAREN")
Operator == (EqualSign :> "T_EQUAL") @@ (Plus :> "T_PLUS") @@ (Minus :> "T_MINUS")
            @@ (Asterisk :> "T_ASTERISK") @@ (Bang :> "T_BANG") @@ (Slash :> "T_SLASH")
            @@ (Circumflex :> "T_CIRCUMFLEX") @@ (Tilde :> "T_TILDE")
            @@ (Percent :> "T_PERCENT") @@ (Ampersand :> "T_AMPERSAND")
            @@ (Pipe :> "T_PIPE") @@ (LessSign :> "T_LT") @@ (GreaterSign :> "T_GT")
\* ... unless "=" follows
WithEqual == (Bang :> "T_NEQUAL") @@ (LessSign :> "T_LTE") @@ (GreaterSign :> "T_GTE")

\* The keywords, in any case.  "<<" and ">>" are compared here too, but "<" and ">" never begin
\* an identifier; DIV is not compared at all.
Keywords ==
    <<"T_AS", "T_ASC", "T_DESC", "T_NOT", "T_SELECT", "T_FROM", "T_WHERE", "T_GROUP", "T_ORDER",
      "T_BY", "T_HAVING", "T_AND", "T_OR", "T_LIMIT", "T_OFFSET", "T_CREATE", "T_WITH", "T_BEGIN",
      "T_WITHIN", "T_RECORD", "T_MOD">>
\* those of the chart statements and the commands
ChartKeywords ==
    <<"T_DRAW", "T_TOP", "T_RIGHT", "T_BOTTOM", "T_LEFT", "T_IMPORT", "T_TABLE", "T_TABLES",
      "T_AXIS", "T_BARCHART", "T_LINECHART", "T_AREACHART", "T_POINTCHART", "T_HEATMAP",
      "T_HISTOGRAM", "T_ORIENTATION", "T_HORIZONTAL", "T_VERTICAL", "T_STACKED", "T_ON", "T_OFF",
      "T_SHOW", "T_DESCRIBE", "T_EXPLAIN", "T_XDOMAIN", "T_YDOMAIN", "T_ZDOMAIN",
      "T_LOGARITHMIC", "T_INVERT">>
LabelKeywords ==
    <<"T_TITLE", "T_SUBTITLE", "T_GRID", "T_LABELS", "T_TICKS", "T_INSIDE", "T_OUTSIDE", "T_ROTATE",
      "T_LEGEND", "T_OVER", "T_TIMEWINDOW">>
AllKeywords == Keywords \o ChartKeywords \o LabelKeywords
FirstWord == 200
IsKeyword(c) == c \in FirstWord + 1 .. FirstWord + Len(AllKeywords)
Word(type) == FirstWord + CHOOSE i \in DOMAIN AllKeywords : AllKeywords[i] = type

IsDelimiter(c) ==
    c \in Whitespace \cup Quotes \cup DOMAIN Single \cup DOMAIN Operator

Token(type, text) == <<type, text>>
KeywordOrIdentifier(text) ==
    CASE text = <<WordTrue>> -> Token("T_TRUE", <<>>)
      [] text = <<WordFalse>> -> Token("T_FALSE", <<>>)
      [] Len(text) = 1 /\ IsKeyword(text[1]) -> Token(AllKeywords[text[1] - FirstWord], <<>>)
      [] OTHER -> Token("T_IDENTIFIER", text)

\* how many characters at the beginning of s are in a class
Span(s, InClass(_)) ==
    CHOOSE n \in 0 .. Len(s) :
       /\ \A i \in 1 .. n : InClass(s[i])
       /\ n = Len(s) \/ ~InClass(s[n + 1])
From(s, n) == SubSeq(s, n, Len(s))

\* Where the text inside quotes ends.  The backslashes are counted up to the next character that
\* is neither one nor the quote: an escaped quote does not start the count again.
Backslashes(s, q, i) ==
    Cardinality({j \in 1 .. i - 1 :
                    /\ s[j] = Backslash
                    /\ \A k \in j .. i - 1 : s[k] \in {Backslash, q}})
QuotedLength(s, q) ==
    CHOOSE n \in 0 .. Len(s) :
       /\ n = Len(s) \/ (s[n + 1] = q /\ Backslashes(s, q, n + 1) % 2 = 0)
       /\ \A i \in 1 .. n : s[i] = q => Backslashes(s, q, i) % 2 = 1

\* The tokens at the beginning of s (none for blanks and comments), and how many characters they take.
NextToken(s) ==
    LET c == s[1]
        number == Span(s, LAMBDA d : IsDigit(d) \/ IsDot(d) \/ d = Period)
        name == Span(s, LAMBDA d : ~IsDelimiter(d))
        quoted == QuotedLength(Tail(s), c)
    IN  CASE c \in Whitespace -> <<<<>>, 1>>
          [] c \in DOMAIN Single -> <<<<Token(Single[c], <<>>)>>, 1>>
          [] IsDigit(c) -> <<<<Token("T_NUMERIC", SubSeq(s, 1, number))>>, number>>
          [] c \in Quotes ->
                 <<<<Token(IF c = Backtick THEN "T_IDENTIFIER" ELSE "T_STRING",
                           SubSeq(s, 2, quoted + 1))>>, quoted + 2>>
          [] c = Minus /\ Len(s) > 1 /\ s[2] = Minus ->
                 <<<<>>, Span(s, LAMBDA d : d # Newline)>>
          [] c \in DOMAIN WithEqual /\ Len(s) > 1 /\ s[2] = EqualSign ->
                 <<<<Token(WithEqual[c], <<>>)>>, 2>>
          [] c \in DOMAIN Operator -> <<<<Token(Operator[c], <<>>)>>, 1>>
          [] OTHER -> <<<<KeywordOrIdentifier(SubSeq(s, 1, name))>>, name>>

RECURSIVE TokenizeQuery(_)
TokenizeQuery(s) ==
    IF s = <<>> THEN <<>>
    ELSE LET next == NextToken(s)
         IN  next[1] \o TokenizeQuery(From(s, next[2] + 1))

-----------------------------------------------------------------------------
(***************************************************************************)
(* csql/parser/parser.cc: a recursive descent parser over the list of      *)
(* tokens.                                                                 *)
(*                                                                         *)
(* Every method of the parser is an operator on the tokens that are left.  *)
(* It yields the node it returns and the tokens left after it.  A node has *)
(* a type, a token, children and an id; Nil is the null pointer, and the   *)
(* type "raise" stands for an exception, which no operator catches.        *)
(***************************************************************************)

NoToken == <<"", <<>>>>
NoID == -1
Node(type, token, children) == [type |-> type, token |-> token, children |-> children, id |-> NoID]
Leaf(type, token) == Node(type, token, <<>>)
Nil == Leaf("nullptr", NoToken)
Got(node, ts) == [node |-> node, ts |-> ts]
ParseError == Got(Leaf("raise", NoToken), <<>>)
Failed(p) == p.node.type = "raise"

\* go on with the node and the tokens that are left, unless an exception was raised
Then(p, F(_, _)) == IF Failed(p) THEN p ELSE F(p.node, p.ts)

Cur(ts) == ts[1][1]
Lookahead(ts, n, type) == n < Len(ts) /\ ts[n + 1][1] = type
\* expectAndConsume(): what follows a token of one of the types
AfterToken(ts, types, F(_)) == IF Cur(ts) \in types THEN F(Tail(ts)) ELSE ParseError
SkipIf(ts, type) == IF Cur(ts) = type THEN Tail(ts) ELSE ts

-----------------------------------------------------------------------------
\* Value expressions

\* Which operators bind before precedence p, at which precedence their right operand is read, and
\* the nodes they make.
CompareOps == [ts |-> ("T_EQUAL" :> "T_EQ_EXPR") @@ ("T_NEQUAL" :> "T_NEQ_EXPR")
                      @@ ("T_LT" :> "T_LT_EXPR") @@ ("T_LTE" :> "T_LTE_EXPR")
                      @@ ("T_GT" :> "T_GT_EXPR") @@ ("T_GTE" :> "T_GTE_EXPR"),
               before |-> 6, rhs |-> 6]
AndOps == [ts |-> "T_AND" :> "T_AND_EXPR", before |-> 3, rhs |-> 3]
OrOps == [ts |-> "T_OR" :> "T_OR_EXPR", before |-> 1, rhs |-> 1]
AddOps == [ts |-> ("T_PLUS" :> "T_ADD_EXPR") @@ ("T_MINUS" :> "T_SUB_EXPR"),
           before |-> 10, rhs |-> 10]
MulOps == [ts |-> ("T_ASTERISK" :> "T_MUL_EXPR") @@ ("T_SLASH" :> "T_DIV_EXPR")
                  @@ ("T_DIV" :> "T_DIV_EXPR") @@ ("T_PERCENT" :> "T_MOD_EXPR")
                  @@ ("T_MOD" :> "T_MOD_EXPR"),
           before |-> 11, rhs |-> 11]
\* mutant: powers associate to the left
PowOpsLeft == [ts |-> "T_CIRCUMFLEX" :> "T_POW_EXPR", before |-> 12, rhs |-> 12]
PowOps == [ts |-> "T_CIRCUMFLEX" :> "T_POW_EXPR", before |-> 12, rhs |-> 11]
BinaryOps == {CompareOps, AndOps, OrOps, AddOps, MulOps, PowOps}

\* the operators that the current token may be, if it binds before precedence p
Binding(ts, p) == {ops \in BinaryOps : Cur(ts) \in DOMAIN ops.ts /\ p < ops.before}

\* names of the two functions that the parser knows
NameIf == <<301>>
NameSubqueryColumn == <<302>>
CallType(ts) == CASE ts[1][2] = NameIf -> "T_IF_EXPR"
                  [] ts[1][2] = NameSubqueryColumn -> "T_COLUMN_INDEX"
                  [] OTHER -> "T_METHOD_CALL"
\* WITHIN RECORD after a call of whatever function makes another node of it
WithinRecord(call, ts) ==
    IF Lookahead(ts, 0, "T_WITHIN") /\ Lookahead(ts, 1, "T_RECORD")
    THEN Got([call EXCEPT !.type = "T_METHOD_CALL_WITHIN_RECORD"], From(ts, 3))
    ELSE Got(call, ts)

RECURSIVE Expr(_, _), BinaryExpr(_, _), UnaryExpr(_), ColumnName(_), Arguments(_, _)

Expr(ts, precedence) ==
    Then(UnaryExpr(ts), LAMBDA lhs, rest :
        IF lhs = Nil THEN Got(Nil, rest) ELSE BinaryExpr(Got(lhs, rest), precedence))

\* as many binary operators as bind before the precedence
BinaryExpr(lhs, precedence) ==
    IF Binding(lhs.ts, precedence) = {} THEN lhs
    ELSE LET ops == CHOOSE o \in Binding(lhs.ts, precedence) : TRUE
         IN  Then(Expr(Tail(lhs.ts), ops.rhs), LAMBDA rhs, rest :
                IF rhs = Nil THEN ParseError
                ELSE BinaryExpr(Got(Node(ops.ts[Cur(lhs.ts)], NoToken, <<lhs.node, rhs>>), rest),
                                precedence))

UnaryExpr(ts) ==
    CASE Cur(ts) = "T_LPAREN" ->
             Then(Expr(Tail(ts), 0), LAMBDA e, rest :
                AfterToken(rest, {"T_RPAREN"}, LAMBDA after : Got(e, after)))
      [] Cur(ts) \in {"T_BANG", "T_MINUS", "T_NOT"} ->
             Then(Expr(Tail(ts), 0), LAMBDA e, rest :
                Got(Node("T_NEGATE_EXPR", NoToken, <<e>>), rest))
      [] Cur(ts) \in {"T_TRUE", "T_FALSE", "T_NUMERIC", "T_STRING"} ->
             Got(Leaf("T_LITERAL", ts[1]), Tail(ts))
      [] Cur(ts) = "T_IDENTIFIER" /\ Lookahead(ts, 1, "T_LPAREN") ->
             Then(Arguments(Node(CallType(ts), ts[1], <<>>), From(ts, 3)), WithinRecord)
      [] Cur(ts) = "T_IDENTIFIER" -> ColumnName(ts)
      [] OTHER -> Got(Nil, ts)

\* table_name.column_name: a chain of nodes
ColumnName(ts) ==
    IF ~Lookahead(ts, 1, "T_DOT") THEN Got(Leaf("T_COLUMN_NAME", ts[1]), Tail(ts))
    ELSE IF ~Lookahead(ts, 2, "T_IDENTIFIER") THEN ParseError
    ELSE Then(ColumnName(From(ts, 3)), LAMBDA name, rest :
            Got(Node("T_COLUMN_NAME", ts[1], <<name>>), rest))

\* The arguments of a call, up to the parenthesis; "*" is an argument of its own.
Arguments(call, ts) ==
    Then(IF Cur(ts) = "T_ASTERISK" THEN Got(Leaf("T_VOID", NoToken), Tail(ts)) ELSE Expr(ts, 0),
         LAMBDA arg, rest :
            LET more == [call EXCEPT !.children = Append(@, arg)]
            IN  IF Cur(rest) = "T_COMMA" THEN Arguments(more, Tail(rest))
                ELSE AfterToken(rest, {"T_RPAREN"}, LAMBDA after : Got(more, after)))

ValueExpr(ts) == Then(Expr(ts, 0), LAMBDA e, rest : IF e = Nil THEN ParseError ELSE Got(e, rest))

-----------------------------------------------------------------------------
\* SELECT

RECURSIVE TableNameFrom(_, _)
TableNameFrom(name, ts) ==
    IF ~Lookahead(ts, 0, "T_DOT") THEN Got(Leaf("T_TABLE_NAME", Token("T_IDENTIFIER", name)), ts)
    ELSE AfterToken(Tail(ts), {"T_IDENTIFIER"}, LAMBDA rest :
            TableNameFrom(name \o <<Period>> \o ts[2][2], rest))
TableName(ts) ==
    AfterToken(ts, {"T_IDENTIFIER", "T_STRING"}, LAMBDA rest : TableNameFrom(ts[1][2], rest))

SelectSublist(ts) ==
    IF Lookahead(ts, 0, "T_IDENTIFIER") /\ Lookahead(ts, 1, "T_DOT") /\ Lookahead(ts, 2, "T_ASTERISK")
    THEN Got(Leaf("T_ALL", ts[1]), From(ts, 4))
    ELSE Then(ValueExpr(ts), LAMBDA e, rest :
            LET alias == SkipIf(rest, "T_AS")
            IN  CASE Cur(alias) = "T_IDENTIFIER" ->
                         Got(Node("T_DERIVED_COLUMN", NoToken, <<e, Leaf("T_COLUMN_ALIAS", alias[1])>>),
                             Tail(alias))
                  [] Cur(rest) = "T_AS" -> ParseError
                  [] OTHER -> Got(Node("T_DERIVED_COLUMN", NoToken, <<e>>), rest))

SortSpec(ts) ==
    Then(Expr(ts, 0), LAMBDA e, rest :
        IF Cur(rest) \in {"T_ASC", "T_DESC"} THEN Got(Node("T_SORT_SPEC", rest[1], <<e>>), Tail(rest))
        ELSE Got(Node("T_SORT_SPEC", NoToken, <<e>>), rest))

\* a list of items of a kind with commas between them, as the children of a node
RECURSIVE CommaList(_, _, _)
CommaList(node, kind, ts) ==
    Then(CASE kind = "select" -> SelectSublist(ts)
           [] kind = "table" -> TableName(ts)
           [] kind = "sort" -> SortSpec(ts)
           [] kind = "expr" -> Expr(ts, 0),
         LAMBDA item, rest :
            LET more == [node EXCEPT !.children = Append(@, item)]
            IN  IF Cur(rest) = "T_COMMA" THEN CommaList(more, kind, Tail(rest)) ELSE Got(more, rest))

SelectList(ts) ==
    IF Cur(ts) = "T_ASTERISK"
    THEN Got(Node("T_SELECT_LIST", NoToken, <<Leaf("T_ALL", NoToken)>>), Tail(ts))
    ELSE CommaList(Leaf("T_SELECT_LIST", NoToken), "select", ts)

\* A SELECT has a FROM clause, unless a semicolon follows the select list.
FromClause(ts) ==
    IF Cur(ts) = "T_SEMICOLON" THEN Got(Nil, ts)
    ELSE AfterToken(ts, {"T_FROM"}, LAMBDA rest :
            CommaList(Leaf("T_FROM", NoToken), "table", rest))

WhereClause(ts) ==
    IF Cur(ts) # "T_WHERE" THEN Got(Nil, ts)
    ELSE Then(Expr(Tail(ts), 0), LAMBDA e, rest : Got(Node("T_WHERE", NoToken, <<e>>), rest))

GroupOverClause(ts) ==
    LET node(args, by) == Node("T_GROUP_OVER_TIMEWINDOW", NoToken, <<args[1], by>> \o Tail(args))
        GroupBy(args, rest) ==
            IF Cur(rest) # "T_BY" THEN Got(node(args, Leaf("T_GROUP_BY", NoToken)), rest)
            ELSE Then(CommaList(Leaf("T_GROUP_BY", NoToken), "expr", Tail(rest)),
                      LAMBDA by, after : Got(node(args, by), after))
        Close(args, rest) == AfterToken(rest, {"T_RPAREN"}, LAMBDA after : GroupBy(args, after))
    IN  AfterToken(ts, {"T_TIMEWINDOW"}, LAMBDA ts1 :
        AfterToken(ts1, {"T_LPAREN"}, LAMBDA ts2 :
        Then(ValueExpr(ts2), LAMBDA time, ts3 :
        AfterToken(ts3, {"T_COMMA"}, LAMBDA ts4 :
        Then(ValueExpr(ts4), LAMBDA window, ts5 :
            IF Cur(ts5) # "T_COMMA" THEN Close(<<time, window>>, ts5)
            ELSE Then(ValueExpr(Tail(ts5)), LAMBDA step, ts6 : Close(<<time, window, step>>, ts6)))))))

GroupByClause(ts) ==
    CASE Cur(ts) # "T_GROUP" -> Got(Nil, ts)
      [] Lookahead(ts, 1, "T_OVER") -> GroupOverClause(From(ts, 3))
      [] OTHER -> AfterToken(Tail(ts), {"T_BY"}, LAMBDA rest :
                     CommaList(Leaf("T_GROUP_BY", NoToken), "expr", rest))

HavingClause(ts) ==
    IF Cur(ts) # "T_HAVING" THEN Got(Nil, ts)
    ELSE Then(Expr(Tail(ts), 0), LAMBDA e, rest : Got(Node("T_HAVING", NoToken, <<e>>), rest))

OrderByClause(ts) ==
    IF Cur(ts) # "T_ORDER" THEN Got(Nil, ts)
    ELSE AfterToken(Tail(ts), {"T_BY"}, LAMBDA rest :
            CommaList(Leaf("T_ORDER_BY", NoToken), "sort", rest))

LimitClause(ts) ==
    IF Cur(ts) # "T_LIMIT" THEN Got(Nil, ts)
    ELSE AfterToken(Tail(ts), {"T_NUMERIC"}, LAMBDA rest :
            IF Cur(rest) # "T_OFFSET" THEN Got(Leaf("T_LIMIT", ts[2]), rest)
            ELSE AfterToken(Tail(rest), {"T_NUMERIC"}, LAMBDA after :
                    Got(Node("T_LIMIT", ts[2], <<Leaf("T_OFFSET", rest[2])>>), after)))

SelectStatement(ts) ==
    LET Clause(p, Parse(_)) ==
            Then(p, LAMBDA select, rest : Then(Parse(rest), LAMBDA clause, after :
                Got(IF clause = Nil THEN select ELSE [select EXCEPT !.children = Append(@, clause)],
                    after)))
        start == Got(Leaf("T_SELECT", NoToken), Tail(ts))
    IN  Then(Clause(Clause(Clause(Clause(Clause(Clause(Clause(start,
                SelectList), FromClause), WhereClause), GroupByClause), HavingClause),
                OrderByClause), LimitClause),
             LAMBDA select, rest : Got(select, SkipIf(rest, "T_SEMICOLON")))

-----------------------------------------------------------------------------
\* The other statements

EndOfStatement(node, ts) == Got(node, SkipIf(ts, "T_SEMICOLON"))

ImportStatement(ts) ==
    LET node(tables, e) == Node("T_IMPORT", NoToken, Append(tables, e))
        Source(tables, rest) ==
            AfterToken(rest, {"T_FROM"}, LAMBDA after :
                Then(ValueExpr(after), LAMBDA e, end : EndOfStatement(node(tables, e), end)))
    IN  AfterToken(Tail(ts), {"T_TABLE"}, LAMBDA ts1 :
        Then(TableName(ts1), LAMBDA table, ts2 :
            IF Cur(ts2) # "T_COMMA" THEN Source(<<table>>, ts2)
            ELSE Then(TableName(Tail(ts2)), LAMBDA second, ts3 : Source(<<table, second>>, ts3))))

ShowStatement(ts) ==
    AfterToken(Tail(ts), {"T_TABLES"}, LAMBDA rest :
        EndOfStatement(Leaf("T_SHOW_TABLES", NoToken), rest))

ExplainStatement(ts) ==
    IF Lookahead(ts, 1, "T_SELECT")
    THEN Then(SelectStatement(Tail(ts)), LAMBDA select, rest :
            EndOfStatement(Node("T_EXPLAIN_QUERY", NoToken, <<select>>), rest))
    ELSE Then(TableName(Tail(ts)), LAMBDA table, rest :
            EndOfStatement(Node("T_DESCRIBE_TABLE", NoToken, <<table>>), rest))

-----------------------------------------------------------------------------
\* DRAW

Property(token, children) == Node("T_PROPERTY", token, children)
Charts == {"T_AREACHART", "T_BARCHART", "T_HEATMAP", "T_HISTOGRAM", "T_POINTCHART", "T_LINECHART"}
Positions == {"T_TOP", "T_RIGHT", "T_BOTTOM", "T_LEFT"}

\* a property with an expression
Titled(ts) ==
    Then(ValueExpr(Tail(ts)), LAMBDA e, rest : Got(Property(ts[1], <<e>>), rest))

\* at most n properties that are the tokens of the types; those of a domain have a value
RECURSIVE Flags(_, _, _, _)
Flags(node, n, types, ts) ==
    CASE n = 0 -> Got(node, ts)
      [] Cur(ts) \in types ->
             LET value == IF node.type = "T_DOMAIN" THEN <<Leaf("T_PROPERTY_VALUE", NoToken)>> ELSE <<>>
             IN  Flags([node EXCEPT !.children = Append(@, Property(ts[1], value))], n - 1, types,
                       Tail(ts))
      [] Cur(ts) = "T_ROTATE" /\ node.type = "T_AXIS_LABELS" ->
             Then(Titled(ts), LAMBDA prop, rest :
                Flags([node EXCEPT !.children = Append(@, prop)], n - 1, types, rest))
      [] OTHER -> Got(node, ts)

RECURSIVE AxisProperties(_, _)
AxisProperties(axis, ts) ==
    LET add(prop, rest) == AxisProperties([axis EXCEPT !.children = Append(@, prop)], rest)
    IN  CASE Cur(ts) = "T_TITLE" -> Then(Titled(ts), add)
          [] Cur(ts) = "T_TICKS" ->
                 Then(Flags(Leaf("T_AXIS_LABELS", NoToken), 2, {"T_INSIDE", "T_OUTSIDE", "T_OFF"},
                            Tail(ts)), add)
          [] OTHER -> Got(axis, ts)
AxisClause(ts) ==
    AfterToken(Tail(ts), Positions, LAMBDA rest :
        AxisProperties(Node("T_AXIS", ts[1], <<Leaf("T_AXIS_POSITION", ts[2])>>), rest))

DomainClause(ts) ==
    LET Options(domain, rest) == Flags(domain, 2, {"T_INVERT", "T_LOGARITHMIC"}, rest)
    IN  Then(Expr(Tail(ts), 0), LAMBDA min, ts1 :
            IF min = Nil THEN Options(Leaf("T_DOMAIN", ts[1]), ts1)
            ELSE AfterToken(ts1, {"T_COMMA"}, LAMBDA ts2 :
                 Then(ValueExpr(ts2), LAMBDA max, ts3 :
                    Options(Node("T_DOMAIN", ts[1], <<Node("T_DOMAIN_SCALE", NoToken, <<min, max>>)>>),
                            ts3))))

\* three positions, in whatever order
LegendClause(ts) ==
    LET where == Positions \cup {"T_INSIDE", "T_OUTSIDE"}
        legend == Flags(Leaf("T_LEGEND", NoToken), 3, where, Tail(ts))
    IN  CASE Len(legend.node.children) # 3 -> ParseError
          [] Cur(legend.ts) # "T_TITLE" -> legend
          [] OTHER -> Then(Titled(legend.ts), LAMBDA prop, rest :
                         Got([legend.node EXCEPT !.children = Append(@, prop)], rest))

\* one clause of a DRAW statement
DrawClause(ts) ==
    CASE Cur(ts) = "T_AXIS" -> AxisClause(ts)
      [] Cur(ts) \in {"T_XDOMAIN", "T_YDOMAIN", "T_ZDOMAIN"} -> DomainClause(ts)
      [] Cur(ts) = "T_LEGEND" -> LegendClause(ts)
      [] Cur(ts) = "T_GRID" ->
             Flags(Leaf("T_GRID", NoToken), 2, {"T_HORIZONTAL", "T_VERTICAL"}, Tail(ts))
      [] Cur(ts) = "T_ORIENTATION" ->
             AfterToken(Tail(ts), {"T_HORIZONTAL", "T_VERTICAL"}, LAMBDA rest :
                Got(Property(ts[1], <<Leaf("T_PROPERTY_VALUE", ts[2])>>), rest))
      [] Cur(ts) \in {"T_STACKED", "T_LABELS"} ->
             Got(Property(ts[1], <<Leaf("T_PROPERTY_VALUE", NoToken)>>), Tail(ts))
      [] Cur(ts) \in {"T_TITLE", "T_SUBTITLE"} -> Titled(ts)
      [] OTHER -> ParseError

RECURSIVE DrawClauses(_, _)
DrawClauses(chart, ts) ==
    IF Cur(ts) = "T_SEMICOLON" THEN Got(chart, Tail(ts))
    ELSE Then(DrawClause(ts), LAMBDA clause, rest :
            DrawClauses([chart EXCEPT !.children = Append(@, clause)], rest))
DrawStatement(ts) ==
    AfterToken(Tail(ts), Charts, LAMBDA rest :
        DrawClauses(Leaf("T_DRAW", ts[2]), SkipIf(rest, "T_WITH")))

-----------------------------------------------------------------------------

Statement(ts) ==
    CASE Cur(ts) = "T_SELECT" -> SelectStatement(ts)
      [] Cur(ts) = "T_DRAW" -> DrawStatement(ts)
      [] Cur(ts) = "T_IMPORT" -> ImportStatement(ts)
      [] Cur(ts) = "T_SHOW" -> ShowStatement(ts)
      [] Cur(ts) \in {"T_DESCRIBE", "T_EXPLAIN"} -> ExplainStatement(ts)
      [] OTHER -> ParseError

WithEOF(tokens) == Append(tokens, Token("T_EOF", <<>>))

RECURSIVE FirstAndRest(_)
Statements(ts) == IF Cur(ts) = "T_EOF" THEN <<>> ELSE FirstAndRest(Statement(ts))
FirstAndRest(first) == IF Failed(first) THEN <<first.node>> ELSE <<first.node>> \o Statements(first.ts)

\* Parser::parse(): the statements of a query; the last one is an exception if one is raised
ParseTokens(tokens) == IF tokens = <<>> THEN <<ParseError.node>> ELSE Statements(WithEOF(tokens))
Parse(query) == ParseTokens(TokenizeQuery(query))

\* Parser::parseValueExpression(): whatever follows the expression is ignored
ParsedValue(tokens) == IF tokens = <<>> THEN ParseError ELSE ValueExpr(WithEOF(tokens))
ParseValueExpression(query) == ParsedValue(TokenizeQuery(query))
=============================================================================
