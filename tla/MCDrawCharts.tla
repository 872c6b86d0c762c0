---------------------------- MODULE MCDrawCharts ----------------------------
(***************************************************************************)
(* Syntax trees that grow; and charts of one or two DRAW statements, every *)
(* one with its clauses, over the results of one or two SELECT statements  *)
(* each.  A behaviour is one of either, and the other rests.               *)
(***************************************************************************)
EXTENDS DrawCharts

-----------------------------------------------------------------------------
(***************************************************************************)
(* Syntax trees grown step by step, written as text and read again.        *)
(*                                                                         *)
(* The text of an expression has as few parentheses as the precedences of  *)
(* its operators need.  A sign or NOT takes all that follows it for its    *)
(* operand (unaryExpr() reads it with precedence 0), so that it stands in  *)
(* parentheses wherever something follows.                                 *)
(***************************************************************************)

CONSTANTS
    MaxDepth,     \* of an expression
    MaxClauses    \* of a DRAW statement

VARIABLES
    tree,     \* an expression or a DRAW statement
    depth     \* how often it has grown
treeVars == <<tree, depth>>

-----------------------------------------------------------------------------
\* Spelling

Inverse0(table, type) == CHOOSE c \in DOMAIN table : table[c] = type
Spell(token) ==
    CASE token[1] = "T_STRING" -> <<SingleQuote>> \o token[2] \o <<SingleQuote>>
      [] token[1] \in {"T_IDENTIFIER", "T_NUMERIC"} -> token[2]
      [] token[1] = "T_TRUE" -> <<WordTrue>>
      [] \E c \in DOMAIN Single : Single[c] = token[1] -> <<Inverse0(Single, token[1])>>
      [] \E c \in DOMAIN Operator : Operator[c] = token[1] -> <<Inverse0(Operator, token[1])>>
      [] \E c \in DOMAIN WithEqual : WithEqual[c] = token[1] ->
             <<Inverse0(WithEqual, token[1]), EqualSign>>
      [] OTHER -> <<Word(token[1])>>
\* every token with a blank behind it
Spelled(tokens) == FlattenSeq([i \in DOMAIN tokens |-> Spell(tokens[i]) \o <<Space>>])

Tok(type) == Token(type, <<>>)
\* how tightly an operator binds; of two that bind alike the left one is first, but for powers
Levels == <<{"T_OR_EXPR"}, {"T_AND_EXPR"}, {"T_EQ_EXPR", "T_LTE_EXPR"}, {"T_ADD_EXPR", "T_SUB_EXPR"},
            {"T_MUL_EXPR", "T_MOD_EXPR"}, {"T_POW_EXPR"}>>
Symbols == ("T_OR_EXPR" :> "T_OR") @@ ("T_AND_EXPR" :> "T_AND") @@ ("T_EQ_EXPR" :> "T_EQUAL")
           @@ ("T_LTE_EXPR" :> "T_LTE") @@ ("T_ADD_EXPR" :> "T_PLUS") @@ ("T_SUB_EXPR" :> "T_MINUS")
           @@ ("T_MUL_EXPR" :> "T_ASTERISK") @@ ("T_MOD_EXPR" :> "T_PERCENT")
           @@ ("T_POW_EXPR" :> "T_CIRCUMFLEX")
Level(type) == CHOOSE n \in DOMAIN Levels : type \in Levels[n]
IsBinary(t) == t.type \in DOMAIN Symbols

\* whether the left or the right operand of an operator needs parentheses
LeftNeeds(op, t) ==
    \/ t.type = "T_NEGATE_EXPR"
    \/ IsBinary(t) /\ \/ Level(t.type) < Level(op)
                      \/ op = "T_POW_EXPR" /\ t.type = "T_POW_EXPR"
RightNeeds(op, t) ==
    IsBinary(t) /\ \/ Level(t.type) < Level(op)
                   \/ Level(t.type) = Level(op) /\ op # "T_POW_EXPR"
\* whether a tree ends with the operand of a sign, which would take what follows
RECURSIVE EndsOpen(_)
EndsOpen(t) == \/ t.type = "T_NEGATE_EXPR"
               \/ IsBinary(t) /\ EndsOpen(t.children[2])

RECURSIVE Tokens(_)
Parens(t, needed) == IF needed THEN <<Tok("T_LPAREN")>> \o Tokens(t) \o <<Tok("T_RPAREN")>> ELSE Tokens(t)
ArgTokens(args) == FlattenSeq([i \in DOMAIN args |->
                      (IF i = 1 THEN <<>> ELSE <<Tok("T_COMMA")>>) \o Tokens(args[i])])
Tokens(t) ==
    CASE IsBinary(t) ->
             Parens(t.children[1], LeftNeeds(t.type, t.children[1]) \/ EndsOpen(t.children[1]))
             \o <<Tok(Symbols[t.type])>> \o Parens(t.children[2], RightNeeds(t.type, t.children[2]))
      [] t.type = "T_NEGATE_EXPR" -> <<Tok("T_MINUS")>> \o Tokens(t.children[1])
      [] t.type = "T_VOID" -> <<Tok("T_ASTERISK")>>
      [] t.type = "T_COLUMN_NAME" /\ t.children # <<>> ->
             <<t.token, Tok("T_DOT")>> \o Tokens(t.children[1])
      [] t.type \in {"T_METHOD_CALL", "T_IF_EXPR"} ->
             <<t.token, Tok("T_LPAREN")>> \o ArgTokens(t.children) \o <<Tok("T_RPAREN")>>
      [] t.type = "T_METHOD_CALL_WITHIN_RECORD" ->
             <<t.token, Tok("T_LPAREN")>> \o ArgTokens(t.children)
             \o <<Tok("T_RPAREN"), Tok("T_WITHIN"), Tok("T_RECORD")>>
      [] OTHER -> <<t.token>>

-----------------------------------------------------------------------------
\* Expressions

Name(i) == Token("T_IDENTIFIER", <<LetterA + i>>)
ColA == Leaf("T_COLUMN_NAME", Name(0))
ColBC == Node("T_COLUMN_NAME", Name(1), <<Leaf("T_COLUMN_NAME", Name(2))>>)
Seven == Leaf("T_LITERAL", Token("T_NUMERIC", <<7>>))
Half == Leaf("T_LITERAL", Token("T_NUMERIC", <<0, Dot + 500000>>))
Text == Leaf("T_LITERAL", Token("T_STRING", <<LetterA, Space, LetterA>>))
Yes == Leaf("T_LITERAL", Tok("T_TRUE"))
Void == Leaf("T_VOID", NoToken)
CallOf(type, name, args) == Node(type, Token("T_IDENTIFIER", name), args)

Grown(t) ==
    {Node(op, NoToken, <<t, ColA>>) : op \in DOMAIN Symbols}
    \cup {Node(op, NoToken, <<Seven, t>>) : op \in DOMAIN Symbols}
    \cup {Node("T_SUB_EXPR", NoToken, <<t, t>>), Node("T_NEGATE_EXPR", NoToken, <<t>>),
          CallOf("T_METHOD_CALL", NameOf("add"), <<t, Half>>),
          CallOf("T_METHOD_CALL_WITHIN_RECORD", NameSum, <<t>>),
          CallOf("T_IF_EXPR", NameIf, <<Yes, t, Text>>)}
Seeds == {ColA, ColBC, Text, CallOf("T_METHOD_CALL", NameCount, <<Void>>)}

-----------------------------------------------------------------------------
\* DRAW statements

Prop(type, children) == Node("T_PROPERTY", Tok(type), children)
NoValue == <<Leaf("T_PROPERTY_VALUE", NoToken)>>
SomeClauses ==
    {Node("T_AXIS", Tok("T_AXIS"), <<Leaf("T_AXIS_POSITION", Tok("T_LEFT"))>>),
     Node("T_AXIS", Tok("T_AXIS"),
          <<Leaf("T_AXIS_POSITION", Tok("T_TOP")), Prop("T_TITLE", <<Text>>),
            Node("T_AXIS_LABELS", NoToken, <<Prop("T_INSIDE", <<>>), Prop("T_ROTATE", <<Seven>>)>>)>>),
     Leaf("T_DOMAIN", Tok("T_XDOMAIN")),
     Node("T_DOMAIN", Tok("T_YDOMAIN"),
          <<Node("T_DOMAIN_SCALE", NoToken, <<Node("T_NEGATE_EXPR", NoToken, <<Seven>>), Seven>>),
            Prop("T_INVERT", NoValue)>>),
     Node("T_GRID", NoToken, <<Prop("T_HORIZONTAL", <<>>)>>),
     Leaf("T_GRID", NoToken),
     Node("T_LEGEND", NoToken, <<Prop("T_BOTTOM", <<>>), Prop("T_LEFT", <<>>), Prop("T_INSIDE", <<>>)>>),
     Prop("T_TITLE", <<Text>>), Prop("T_STACKED", NoValue),
     Prop("T_ORIENTATION", <<Leaf("T_PROPERTY_VALUE", Tok("T_VERTICAL"))>>)}

RECURSIVE ClauseTokens(_)
Inner(t) == FlattenSeq([i \in DOMAIN t.children |-> ClauseTokens(t.children[i])])
ClauseTokens(t) ==
    CASE t.type \in {"T_AXIS", "T_DOMAIN", "T_PROPERTY"} -> <<t.token>> \o Inner(t)
      [] t.type = "T_AXIS_LABELS" -> <<Tok("T_TICKS")>> \o Inner(t)
      [] t.type \in {"T_GRID", "T_LEGEND"} -> <<Tok(t.type)>> \o Inner(t)
      [] t.type = "T_DOMAIN_SCALE" ->
             Tokens(t.children[1]) \o <<Tok("T_COMMA")>> \o Tokens(t.children[2])
      [] t.token = NoToken /\ t.type = "T_PROPERTY_VALUE" -> <<>>
      [] t.type \in {"T_AXIS_POSITION", "T_PROPERTY_VALUE"} -> <<t.token>>
      [] OTHER -> Tokens(t)
ChartTokens(t) == <<Tok("T_DRAW"), t.token, Tok("T_WITH")>> \o Inner(t) \o <<Tok("T_SEMICOLON")>>

-----------------------------------------------------------------------------

TreeInit == depth = 0 /\ tree \in Seeds \cup {Leaf("T_DRAW", Tok("T_BARCHART"))}
IsChart == tree.type = "T_DRAW"

\* a title after an axis or a legend is its title, and not the one of the chart
Takes(t, clause) ==
    /\ clause = Prop("T_TITLE", <<Text>>)
    /\ t.children # <<>> /\ Last(t.children).type \in {"T_AXIS", "T_LEGEND"}

GrowExpression ==
    /\ ~IsChart /\ depth < MaxDepth
    /\ tree' \in Grown(tree)
    /\ depth' = depth + 1
AddClause ==
    /\ IsChart /\ depth < MaxClauses
    /\ \E clause \in {c \in SomeClauses : ~Takes(tree, c)} : tree' = [tree EXCEPT !.children = Append(@, clause)]
    /\ depth' = depth + 1
Grow == GrowExpression \/ AddClause

-----------------------------------------------------------------------------
\* What is written is what is read.  The tokenizer and the precedences of the recursive descent give
\* back the tree of every expression, whatever operators, calls and literals are inside of which, and
\* leave no token over; no clause of a DRAW statement with optional parts takes tokens that belong to
\* the next one, and the statement after it begins where it ends.
ParsesBack ==
    IF IsChart THEN Parse(Spelled(ChartTokens(tree) \o <<Tok("T_SHOW"), Tok("T_TABLES")>>))
                    = <<tree, Leaf("T_SHOW_TABLES", NoToken)>>
    ELSE ParseValueExpression(Spelled(Tokens(tree))) = Got(tree, <<Tok("T_EOF")>>)

\* The calls and literals of an expression that another server cannot read: "mod" is a keyword there.
RECURSIVE Sendable(_)
Sendable(e) == /\ e.op = "call" => e.symbol # NameOf("mod")
               /\ \A i \in DOMAIN e.args : Sendable(e.args[i])
\* An expression that is sent to another server as text is the same expression there (its operators
\* are calls by then), so that the server aggregates what was asked for.
SentExpressionArrives ==
    ~IsChart => LET e == BuildValueExpression(tree)
                IN  Sendable(e) => Received(ToSQL(e)) = e

\* Both: the text of a tree, in a query or on its way to another server, is read as that tree
\* (Parser::parse, ValueExpressionNode::toSQL).
TextsReadBack == ParsesBack /\ SentExpressionArrives

-----------------------------------------------------------------------------
\* Charts

Num(n) == LET digits == Leaf("T_LITERAL", Token("T_NUMERIC", IntText(Abs(n))))
          IN  IF n < 0 THEN Node("T_NEGATE_EXPR", NoToken, <<digits>>) ELSE digits
LongText(n) == Leaf("T_LITERAL", Token("T_STRING", [i \in 1 .. n |-> LetterA]))

Axis(position, rest) == Node("T_AXIS", Tok("T_AXIS"), <<Leaf("T_AXIS_POSITION", Tok(position))>> \o rest)
TitleClause == <<Prop("T_TITLE", <<LongText(3)>>)>>
Rotated == <<Node("T_AXIS_LABELS", NoToken, <<Prop("T_INSIDE", <<>>), Prop("T_ROTATE", <<Num(7)>>)>>)>>
Ticked(e) == <<Node("T_AXIS_LABELS", NoToken, <<Prop("T_ROTATE", <<e>>)>>)>>
Domain(which, rest) == Node("T_DOMAIN", Tok(which), rest)
Within(a, b) == <<Node("T_DOMAIN_SCALE", NoToken, <<Num(a), Num(b)>>)>>
Placed(type, flags) == Node(type, NoToken, [i \in DOMAIN flags |-> Prop(flags[i], <<>>)])
Inverted == <<Prop("T_INVERT", NoValue)>>
Logarithmic == <<Prop("T_LOGARITHMIC", NoValue)>>
Horizontal == Prop("T_ORIENTATION", <<Leaf("T_PROPERTY_VALUE", Tok("T_HORIZONTAL"))>>)
StackedBars == Prop("T_STACKED", NoValue)
BothAxes == <<Axis("T_LEFT", <<>>), Axis("T_BOTTOM", TitleClause)>>
Legend(flags) == Placed("T_LEGEND", flags)
TitledLegend(flags) == [Legend(flags) EXCEPT !.children = @ \o TitleClause]

\* the clauses of a DRAW statement
ClauseLists ==
    {BothAxes,
     BothAxes \o <<Domain("T_YDOMAIN", Inverted), Domain("T_XDOMAIN", Inverted)>>,
     BothAxes \o <<Domain("T_YDOMAIN", Logarithmic)>>,
     BothAxes \o <<Domain("T_YDOMAIN", Within(-2, 6)), Domain("T_XDOMAIN", <<>>)>>,
     BothAxes \o <<Domain("T_XDOMAIN", Within(0, 4) \o Logarithmic)>>,
     BothAxes \o <<Domain("T_ZDOMAIN", Within(0, 9))>>,
     BothAxes \o <<Horizontal, Placed("T_GRID", <<"T_VERTICAL", "T_HORIZONTAL">>)>>,
     BothAxes \o <<StackedBars, Domain("T_YDOMAIN", Inverted)>>,
     <<Axis("T_TOP", TitleClause \o Rotated), Axis("T_TOP", <<>>), Axis("T_RIGHT", TitleClause), Horizontal, StackedBars,
       Prop("T_TITLE", <<LongText(2)>>), Prop("T_SUBTITLE", <<LongText(2)>>)>>,
     <<Axis("T_RIGHT", Ticked(LongText(1)))>>,
     <<Axis("T_LEFT", TitleClause), Legend(<<"T_TOP", "T_RIGHT", "T_INSIDE">>), Prop("T_SUBTITLE", <<LongText(2)>>)>>,
     <<Axis("T_LEFT", TitleClause), TitledLegend(<<"T_BOTTOM", "T_LEFT", "T_OUTSIDE">>), Axis("T_BOTTOM", <<>>)>>,
     <<TitledLegend(<<"T_TOP", "T_LEFT", "T_OUTSIDE">>), Prop("T_TITLE", <<LongText(2)>>)>>,
     <<Legend(<<"T_BOTTOM", "T_RIGHT", "T_INSIDE">>), Prop("T_TITLE", <<Num(3)>>), Placed("T_GRID", <<>>)>>}

A == String(<<CapitalA>>)
B == String(<<CapitalA + 1>>)
Long == String([i \in 1 .. 60 |-> CapitalA])
I(n) == Integer(n)
Selected(names, list) == [columns |-> names, rows |-> list]
SXY == <<"series", "x", "y">>

\* what SELECT statements return
SomeResults ==
    <<Selected(SXY, <<<<A, String(<<LetterA>>), I(3)>>, <<A, String(<<LetterA + 1>>), I(-2)>>,
                    <<B, String(<<LetterA>>), I(1)>>, <<B, String(<<LetterA>>), I(2)>>>>),
      Selected(<<"y", "series", "X">>, <<<<I(4), B, String(<<LetterA + 1>>)>>,
                                       <<I(-1), Long, String(<<LetterA + 2>>)>>>>),
      Selected(SXY, <<<<A, I(2), I(1)>>, <<B, I(1), Null>>, <<A, I(4), I(8)>>>>),
      Selected(<<"x", "y", "label">>, <<<<Timestamp(3), Float(Frac(1, 2)), A>>,
                                      <<Timestamp(5), Float(Frac(3, 2)), B>>,
                                      <<Timestamp(7), Float(Frac(0, 1)), A>>>>),
      Selected(<<"x", "y", "z">>, <<<<I(1), I(2), I(5)>>, <<I(3), I(0), I(4)>>>>),
      Selected(<<"x", "y", "z", "color">>, <<<<A, I(2), I(5), B>>, <<B, I(3), I(4), A>>>>),
      Selected(<<"x", "y", "z">>, <<<<A, I(5), I(2)>>>>),
      Selected(<<"x", "y", "pointsize">>, <<<<I(-3), I(-5), I(2)>>, <<I(-1), I(-2), I(7)>>>>),
      Selected(<<"x", "y">>, <<<<A, I(2)>>>>),
      Selected(<<"x", "y">>, <<>>),
      Selected(<<"x", "w">>, <<<<A, I(2)>>>>),
      Selected(<<"x", "y", "linewidth">>, <<<<I(1), I(1), A>>, <<I(2), I(1), A>>>>),
      Selected(<<"x", "y", "label">>, <<<<I(2), Null, A>>, <<I(2), Null, B>>>>),
      Selected(SXY, <<<<A, I(2), I(1)>>, <<A, B, I(1)>>>>)>>

\* the SELECT statements of a DRAW, by what they return
TableLists == {<<i>> : i \in DOMAIN SomeResults} \cup {<<1, 2>>, <<2, 1>>, <<3, 8>>, <<3, 9>>, <<10, 5>>, <<>>}
Select(i) == [Leaf("T_SELECT", NoToken) EXCEPT !.id = i]
Draw(kind, clauses) == Node("T_DRAW", Tok(kind), clauses)
OneChart(kind, clauses, tables) == <<Draw(kind, clauses)>> \o [i \in DOMAIN tables |-> Select(tables[i])]
Shared == {<<TitledLegend(<<"T_TOP", "T_LEFT", "T_OUTSIDE">>), Axis("T_LEFT", <<>>)>>,
           <<Axis("T_LEFT", TitleClause), Axis("T_BOTTOM", <<>>), Domain("T_YDOMAIN", Within(0, 8))>>,
           <<Legend(<<"T_TOP", "T_RIGHT", "T_INSIDE">>)>>, <<Legend(<<"T_BOTTOM", "T_LEFT", "T_OUTSIDE">>)>>}

SomePrograms ==
    {OneChart(kind, clauses, tables) : kind \in DOMAIN Kinds, clauses \in ClauseLists, tables \in TableLists}
    \cup {OneChart(k1, c1, t1) \o OneChart(k2, c2, t2) :
             k1 \in DOMAIN Kinds, k2 \in {"T_BARCHART", "T_LINECHART"}, c1 \in Shared, c2 \in Shared,
             t1 \in {<<1>>, <<3>>}, t2 \in {<<1, 2>>, <<5>>}}
    \cup {OneChart("T_BARCHART", <<>>, <<1>>) \o <<Leaf("T_SHOW_TABLES", NoToken)>>,
          OneChart("T_PIECHART", <<>>, <<1>>)}

NoTables == <<>>
-----------------------------------------------------------------------------
TreeRests == tree = ColA /\ depth = MaxDepth
ChartRests == Init /\ program = OneChart("T_PIECHART", <<>>, <<1>>)

MCInit == (Init /\ TreeRests) \/ (ChartRests /\ TreeInit)
Drawing == depth = MaxDepth /\ tree = ColA
MCNext == \/ Drawing /\ Next /\ UNCHANGED treeVars
          \/ ~Drawing /\ Grow /\ UNCHANGED vars
MCSpec == MCInit /\ [][MCNext]_<<vars, treeVars>>
=============================================================================
