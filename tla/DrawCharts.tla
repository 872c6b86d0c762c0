----------------------------- MODULE DrawCharts -----------------------------
(***************************************************************************)
(* csql/runtime/charts: the execution of a chart, that is of DRAW          *)
(* statements and the SELECT statements after each of them, into one       *)
(* canvas (CPlot).                                                         *)
(*                                                                         *)
(* A program is the sequence of its statements' syntax trees (SQLParser).  *)
(* What a SELECT returns is given by Results (QueryExecution is about      *)
(* that): its columns' names and its rows, which the chart builder is      *)
(* called back with one by one.                                            *)
(***************************************************************************)
EXTENDS CPlot, QueryPlan

CONSTANTS
    Programs,   \* the sequences of statements to execute
    Results     \* what the SELECT statement with an id returns: [columns, rows]

VARIABLES
    program,    \* the statements
    status,     \* what is done next, or how the execution has ended
    d,          \* the DRAW statement, its SELECT statement and the row that are next
    s,
    r,
    columns,    \* ChartBuilder: the indexes of the columns of the SELECT statement
    adapter,    \* ChartBuilder::adapter_, made for the first row
    canvas      \* the chart

vars == <<program, status, d, s, r, columns, adapter, canvas>>

-----------------------------------------------------------------------------
\* The plan

\* QueryPlanBuilder::build(): from the first DRAW on there is one chart; it takes every SELECT.
BuildStatements(statements) ==
    LET Add(nodes, stmt) ==
            LET open == nodes # <<>> /\ Last(nodes).node = "chart"
                draw == [ast |-> stmt, tables |-> <<>>]
                last == Len(nodes)
            IN  CASE nodes # <<>> /\ Last(nodes).node = "raise" -> nodes
                  [] stmt.type = "T_DRAW" /\ open -> [nodes EXCEPT ![last].draws = Append(@, draw)]
                  [] stmt.type = "T_DRAW" -> Append(nodes, [node |-> "chart", draws |-> <<draw>>])
                  [] IsSelect(stmt) /\ open ->
                         [nodes EXCEPT ![last].draws[Len(nodes[last].draws)].tables = Append(@, stmt)]
                  [] ~open /\ (IsSelect(stmt) \/ stmt.type \in {"T_SHOW_TABLES", "T_DESCRIBE_TABLE"}) ->
                         Append(nodes, [node |-> "table", ast |-> stmt])
                  [] OTHER -> Append(nodes, NoTree)
    IN  FoldLeft(Add, <<>>, statements)

Plan == BuildStatements(program)
Draws == Last(Plan).draws
Ast == Draws[d].ast
Sources(draw) == [i \in DOMAIN draw.tables |-> Results[draw.tables[i].id]]

\* the constructor of DrawStatement
BadSources(draw) ==
    \/ draw.tables = <<>>
    \/ \E i \in DOMAIN draw.tables : Len(Sources(draw)[i].columns) # Len(Sources(draw)[1].columns)

\* ChartStatement and its DrawStatements are made before any of them is executed.
BuildChart ==
    /\ status = "build"
    /\ status' = IF Last(Plan).node = "raise" \/ \E i \in DOMAIN Draws : BadSources(Draws[i])
                 THEN "raised" ELSE "select"
    /\ UNCHANGED <<program, d, s, r, columns, adapter, canvas>>

-----------------------------------------------------------------------------
\* ChartBuilder

NoColumn == 0
ColumnIndex(names, name) ==
    IF Contains(names, name) THEN SelectInSeq(names, LAMBDA n : n = name) ELSE NoColumn
EitherCase(names, lower, upper) ==
    IF ColumnIndex(names, lower) # NoColumn THEN ColumnIndex(names, lower) ELSE ColumnIndex(names, upper)
PropertyNames == <<"color", "label", "linestyle", "linewidth", "pointstyle", "pointsize">>
ChartColumns(names) ==
    [name |-> ColumnIndex(names, "series"), x |-> EitherCase(names, "x", "X"),
     y |-> EitherCase(names, "y", "Y"), z |-> EitherCase(names, "z", "Z"),
     props |-> [p \in ToSet(PropertyNames) |-> ColumnIndex(names, p)]]

BeginSelect ==
    /\ status = "select" /\ s <= Len(Draws[d].tables)
    /\ columns' = ChartColumns(Sources(Draws[d])[s].columns)
    /\ r' = 1
    /\ status' = "row"
    /\ UNCHANGED <<program, d, s, adapter, canvas>>

NoAdapter == [dims |-> 0]
\* the type of a dimension of the chart, by its value in the first row
DimensionType(v) == IF v.type = T_TIMESTAMP THEN T_TIMESTAMP ELSE IF TestFloat(v) THEN T_FLOAT ELSE T_STRING
MkSeriesAdapter(row, c) ==
    LET type(k) == IF c[k] = NoColumn THEN "" ELSE DimensionType(row[c[k]])
    IN  [dims |-> IF c.z = NoColumn THEN 2 ELSE 3, tx |-> type("x"), ty |-> type("y"), tz |-> type("z"),
         columns |-> c, series |-> <<>>]

GetAs(type, v) == CASE type = T_TIMESTAMP -> GetTimestamp(v)
                    [] type = T_FLOAT -> GetFloat(v)
                    [] type = T_STRING -> String(ToText(v))

\* applyProperties() sets them on the last point, whatever row has made it.
ApplyProperties(series, row, c) ==
    FoldLeft(LAMBDA acc, p : IF c.props[p] = NoColumn THEN acc
                             ELSE SetProperty(acc, p, Len(acc.data), ToText(row[c.props[p]])),
             series, PropertyNames)
\* a property that differs from the one of the series, and no point that could have it
PropertiesUndefined(series, row, c) ==
    /\ series.data = <<>>
    /\ \E p \in ToSet(PropertyNames) :
           /\ c.props[p] # NoColumn
           /\ HasProperty(series, p) /\ GetProperty(series, p) # ToText(row[c.props[p]])

\* the series of a row; it is new unless a row had its name
RowName(row, c) == IF c.name = NoColumn THEN Unnamed ELSE ToText(row[c.name])
SeriesOf(list, name) ==
    LET known == {i \in DOMAIN list : list[i].name = name}
    IN  IF known = {} THEN [list |-> Append(list, EmptySeries(name)), at |-> Len(list) + 1]
        ELSE [list |-> list, at |-> CHOOSE i \in known : TRUE]

\* SeriesAdapter2D::nextRow() and SeriesAdapter3D::nextRow(): a row without y has no point in two
\* dimensions.  Yields the series and how the call ends.
NextRow(a, row) ==
    LET c == a.columns
        found == SeriesOf(a.series, RowName(row, c))
        old == found.list[found.at]
        x == GetAs(a.tx, row[c.x])
        y == GetAs(a.ty, row[c.y])
        z == IF a.dims = 2 THEN Null ELSE GetAs(a.tz, row[c.z])
        skipped == a.dims = 2 /\ row[c.y].type = T_NULL
        new == IF skipped THEN old ELSE AddDatum(old, x, y, z)
    IN  CASE c.y = NoColumn \/ (a.dims = 3 /\ c.z = NoColumn) -> [status |-> "undefined"]
          [] ~skipped /\ (Raised(x) \/ Raised(y) \/ Raised(z)) -> [status |-> "raised"]
          [] PropertiesUndefined(new, row, c) -> [status |-> "undefined"]
          [] OTHER -> [status |-> "row",
                       series |-> [found.list EXCEPT ![found.at] = ApplyProperties(new, row, c)]]

\* The row callback of executeStatement().  The first row of the first SELECT makes the adapter, the
\* first row of another one only tells it the columns.
\* mutant: the columns of the first SELECT are kept
RowAdapterKeeps(row) == IF adapter = NoAdapter THEN MkSeriesAdapter(row, columns) ELSE adapter
RowAdapter(row) ==
    IF r > 1 THEN adapter
    ELSE IF adapter = NoAdapter THEN MkSeriesAdapter(row, columns)
    ELSE [adapter EXCEPT !.columns = columns]
Row ==
    /\ status = "row" /\ r <= Len(Sources(Draws[d])[s].rows)
    /\ LET row == Sources(Draws[d])[s].rows[r]
           unbuilt == columns.x = NoColumn \/ (adapter = NoAdapter /\ columns.y = NoColumn)
           a == RowAdapter(row)
       IN  \E next \in {IF unbuilt THEN [status |-> "raised"] ELSE NextRow(a, row)} :
           /\ status' = next.status
           /\ adapter' = IF next.status = "row" THEN [a EXCEPT !.series = next.series] ELSE adapter
    /\ r' = r + 1
    /\ UNCHANGED <<program, d, s, columns, canvas>>

EndSelect ==
    /\ status = "row" /\ r > Len(Sources(Draws[d])[s].rows)
    /\ s' = s + 1
    /\ status' = "select"
    /\ UNCHANGED <<program, d, r, columns, adapter, canvas>>

\* DrawStatementNode::chartType() and the types of series that the four builders know
Kinds == "T_AREACHART" :> "area" @@ "T_BARCHART" :> "bar" @@ "T_LINECHART" :> "line"
         @@ "T_POINTCHART" :> "point"
AreaFits(a) == a.ty = T_FLOAT /\ a.tz \in {"", T_FLOAT}
BarFits(a) == a.tx = T_STRING /\ a.ty = T_FLOAT /\ a.tz \in {"", T_FLOAT}
LineFits(a) == a.dims = 2
PointFits(a) == a.tz \in {"", T_FLOAT}
TypeFits(kind, a) ==
    CASE kind = "area" -> AreaFits(a) [] kind = "bar" -> BarFits(a) [] kind = "line" -> LineFits(a)
      [] kind = "point" -> PointFits(a)

\* DrawStatementNode::getProperty()
DrawProperties(type) ==
    SelectSeq(Ast.children, LAMBDA c : c.type = "T_PROPERTY" /\ c.token[1] = type)

\* addSeries() of the chart, for every series of the adapter, and the options of a bar chart
WithChart(acc, chart) ==
    [raised |-> FALSE, chart |-> chart, canvas |-> UpdateLegend(acc.canvas, chart)]
AddDrawn(acc, kind, drawn) ==
    IF acc.raised \/ SeriesRaises(kind, drawn) THEN [acc EXCEPT !.raised = TRUE]
    ELSE WithChart(acc, AddSeries(acc.chart, drawn))
Turned(chart, orientation) ==
    [chart EXCEPT !.vertical = orientation = <<>> \/ orientation[1].children[1].token[1] = "T_VERTICAL"]
WithOptions(built) ==
    IF built.chart.kind # "bar" THEN built
    ELSE [built EXCEPT !.chart = SetStacked(Turned(@, DrawProperties("T_ORIENTATION")),
                                            DrawProperties("T_STACKED") # <<>>)]
BuiltChart(kind) ==
    LET Add(acc, series) ==
            AddDrawn(acc, kind, IF adapter.dims = 2 /\ kind # "line" THEN Lifted(kind, series) ELSE series)
    IN  WithOptions(FoldLeft(Add, [raised |-> FALSE, canvas |-> canvas,
                                   chart |-> NewChart(kind, adapter.tx, adapter.ty)], adapter.series))
GetChart ==
    /\ status = "select" /\ s > Len(Draws[d].tables)
    /\ LET known == Ast.token[1] \in DOMAIN Kinds /\ adapter # NoAdapter
           kind == Kinds[Ast.token[1]]
           fits == known /\ TypeFits(kind, adapter)
       IN  IF ~fits THEN status' = "raised" /\ UNCHANGED canvas
           ELSE \E built \in {BuiltChart(kind)} :
                /\ status' = IF built.raised THEN "raised" ELSE "apply"
                /\ canvas' = [built.canvas EXCEPT !.charts = Append(@, built.chart)]
    /\ UNCHANGED <<program, d, s, r, columns, adapter>>

-----------------------------------------------------------------------------
\* The clauses of a DRAW statement.  Each yields the canvas, or NoCanvas for an exception.

NoCanvas == [raised |-> TRUE]
EvaluateStatic(ast) == Evaluate(Program(BuildValueExpression(ast)), <<>>, Null)
DrawClausesOf(type) == SelectSeq(Ast.children, LAMBDA c : c.type = type)
ForEach(c, clauses, F(_, _)) ==
    FoldLeft(LAMBDA acc, clause : IF acc = NoCanvas THEN acc ELSE F(acc, clause), c, clauses)
HasFlag(clause, type) ==
    \E i \in DOMAIN clause.children : clause.children[i].token[1] = type

\* DomainConfig::setMin() and setMax()
Limit(domain, v) ==
    CASE Raised(v) \/ IsDiscrete(domain) -> Raise
      [] domain.type = T_TIMESTAMP -> GetTimestamp(v)
      [] OTHER -> GetFloat(v)
Limits(domain, scale) ==
    Eager([i \in DOMAIN scale.children |-> Limit(domain, EvaluateStatic(scale.children[i]))])
WithDomain(c, which, domain) == [c EXCEPT !.charts[d][which] = domain]
WithLimits(c, which, domain, limits) ==
    IF \E i \in DOMAIN limits : Raised(limits[i]) THEN NoCanvas
    ELSE WithDomain(c, which, SetMax(SetMin(domain, Number(limits[1])), Number(limits[2])))
ApplyDomain(c, clause) ==
    LET chart == c.charts[d]
        which == CASE clause.token[1] = "T_XDOMAIN" -> "xd" [] clause.token[1] = "T_YDOMAIN" -> "yd"
                   [] OTHER -> IF chart.kind = "bar" THEN "yd" ELSE ""
        domain == chart[which]
        scale == SelectSeq(clause.children, LAMBDA k : k.type = "T_DOMAIN_SCALE")
        mirrored == IF HasFlag(clause, "T_INVERT") THEN [domain EXCEPT !.inverted = TRUE] ELSE domain
        logarithmic == HasFlag(clause, "T_LOGARITHMIC")
        logged == IF logarithmic THEN [mirrored EXCEPT !.logarithmic = TRUE] ELSE mirrored
    IN  CASE which = "" \/ (logarithmic /\ IsDiscrete(domain)) -> NoCanvas
          [] scale = <<>> -> WithDomain(c, which, logged)
          [] OTHER -> WithLimits(c, which, logged, Limits(domain, Last(scale)))

WithTitle(c, which, v) == IF Raised(v) THEN NoCanvas ELSE [c EXCEPT ![which] = ToText(v)]
TitleOf == "T_TITLE" :> "title" @@ "T_SUBTITLE" :> "subtitle"
ApplyTitle(c, clause) ==
    IF clause.token[1] \notin DOMAIN TitleOf THEN c
    ELSE WithTitle(c, TitleOf[clause.token[1]], EvaluateStatic(clause.children[1]))

\* The positions and the rotation of the labels are evaluated, and then not used.
TitleIn(titles) == IF titles = <<>> THEN String(<<>>) ELSE EvaluateStatic(Last(titles).children[1])
WithAxis(c, position, title) ==
    IF Raised(title) THEN NoCanvas
    ELSE [c EXCEPT !.axes = Append(@, [position |-> position, title |-> ToText(title), chart |-> d,
                                       domain |-> AxisDomain(c.charts[d], position)])]
ApplyAxis(c, clause) ==
    LET titles == SelectSeq(clause.children, LAMBDA k : k.type = "T_PROPERTY" /\ k.token[1] = "T_TITLE")
        labels == SelectSeq(clause.children, LAMBDA k : k.type = "T_AXIS_LABELS")
        rotations == SelectSeq(FlattenSeq([i \in DOMAIN labels |-> labels[i].children]),
                               LAMBDA k : k.token[1] = "T_ROTATE")
    IN  IF \E i \in DOMAIN rotations : Raised(GetFloat(EvaluateStatic(rotations[i].children[1])))
        THEN NoCanvas ELSE WithAxis(c, clause.children[1].token[1], TitleIn(titles))

\* only the first GRID
ApplyGrid(c) ==
    LET grids == DrawClausesOf("T_GRID")
        Grid(placement) == IF grids = <<>> \/ ~HasFlag(grids[1], placement) THEN <<>>
                           ELSE <<[placement |-> placement, chart |-> d,
                                   domain |-> GridDomain(c.charts[d], placement)]>>
    IN  IF c = NoCanvas THEN c
        ELSE [c EXCEPT !.grids = @ \o Grid("T_HORIZONTAL") \o Grid("T_VERTICAL")]

\* only the first LEGEND; the last one of two positions that exclude each other
WithLegend(c, legend, title) ==
    LET Flag(types, default) ==
            LET given == SelectSeq(legend.children, LAMBDA k : k.token[1] \in types)
            IN  IF given = <<>> THEN default ELSE Last(given).token[1]
        new == [vertical |-> Flag({"T_TOP", "T_BOTTOM"}, "T_BOTTOM"),
                horizontal |-> Flag({"T_LEFT", "T_RIGHT"}, "T_LEFT"),
                placement |-> Flag({"T_INSIDE", "T_OUTSIDE"}, "T_OUTSIDE"),
                title |-> ToText(title), entries |-> <<>>]
    IN  IF Raised(title) THEN NoCanvas
        ELSE UpdateLegend([c EXCEPT !.legends = Append(@, new)], c.charts[d])
ApplyLegend(c) ==
    LET legends == DrawClausesOf("T_LEGEND")
    IN  IF c = NoCanvas \/ legends = <<>> THEN c
        ELSE WithLegend(c, legends[1],
                        TitleIn(SelectSeq(legends[1].children, LAMBDA k : k.token[1] = "T_TITLE")))

\* the rest of DrawStatement::execute(), and then the next DRAW
Applied ==
    LET domains == ForEach(canvas, DrawClausesOf("T_DOMAIN"), ApplyDomain)
        titled == ForEach(domains, DrawClausesOf("T_PROPERTY"), ApplyTitle)
        axes == ForEach(titled, DrawClausesOf("T_AXIS"), ApplyAxis)
    IN  ApplyLegend(ApplyGrid(axes))
ApplyClauses ==
    /\ status = "apply"
    /\ \E c \in {Applied} :
        IF c = NoCanvas THEN status' = "raised" /\ UNCHANGED <<canvas, d>>
        ELSE /\ canvas' = c
             /\ d' = IF d < Len(Draws) THEN d + 1 ELSE d
             /\ status' = IF d < Len(Draws) THEN "select" ELSE "render"
    /\ s' = 1
    /\ adapter' = NoAdapter
    /\ UNCHANGED <<program, r, columns>>

\* the labels of an axis on a logarithmic domain of negative numbers
AxisRaises(c, axis) ==
    LET domain == c.charts[axis.chart][axis.domain]
    IN  ~IsDiscrete(domain) /\ domain.logarithmic /\ FracLess(domain.max, Zero)
\* Canvas::render(), at the end of ChartStatement::execute()
Render ==
    /\ status = "render"
    /\ status' = IF \/ \E i \in DOMAIN canvas.axes : AxisRaises(canvas, canvas.axes[i])
                    \/ \E i \in DOMAIN canvas.charts : RenderRaises(canvas.charts[i])
                 THEN "raised" ELSE "drawn"
    /\ UNCHANGED <<program, d, s, r, columns, adapter, canvas>>

Ended == status \in {"drawn", "raised", "undefined"}
Finished == Ended /\ UNCHANGED vars

Init ==
    /\ program \in Programs
    /\ status = "build"
    /\ d = 1 /\ s = 1 /\ r = 1
    /\ columns = ChartColumns(<<>>)
    /\ adapter = NoAdapter
    /\ canvas = EmptyCanvas

Next == BuildChart \/ BeginSelect \/ Row \/ EndSelect \/ GetChart \/ ApplyClauses \/ Render \/ Finished

Spec == Init /\ [][Next]_vars

-----------------------------------------------------------------------------
\* What a chart promises

\* the rows of the SELECT statements of a DRAW, each with its columns
RowsOf(k) ==
    FlattenSeq([i \in DOMAIN Draws[k].tables |->
        LET source == Sources(Draws[k])[i]
        IN  [j \in DOMAIN source.rows |-> [c |-> ChartColumns(source.columns), row |-> source.rows[j]]]])
NamesIn(rows) ==
    FoldLeft(LAMBDA names, w : LET name == RowName(w.row, w.c)
                               IN  IF Contains(names, name) THEN names ELSE Append(names, name),
             <<>>, rows)
HasY(w) == w.row[w.c.y].type # T_NULL
InSeries(rows, name) == SelectSeq(rows, LAMBDA w : RowName(w.row, w.c) = name /\ HasY(w))
XOf(chart, w) == GetAs(chart.xd.type, w.row[w.c.x])
\* what a row stands for: from its y to its z, from zero to its y, or its y alone
Bounds(w) ==
    LET y == GetFloat(w.row[w.c.y]).val
    IN  IF w.c.z # NoColumn THEN <<y, GetFloat(w.row[w.c.z]).val>>
        ELSE IF FracLess(Zero, y) THEN <<Zero, y>> ELSE <<y, Zero>>
Top(chart, w) == GetAs(chart.yd.type, w.row[w.c[IF chart.kind = "area" /\ w.c.z # NoColumn THEN "z" ELSE "y"]])
LabelOf(chart, w) == IF w.c.props["label"] # NoColumn THEN ToText(w.row[w.c.props["label"]])
                     ELSE ToText(XOf(chart, w)) \o ToText(GetAs(chart.yd.type, w.row[w.c.y]))

PointIs(chart, all, w, mark) ==
    /\ mark.value = <<XOf(chart, w), Top(chart, w)>>
    /\ (\A j \in DOMAIN all : HasY(all[j]) /\ all[j].c.z = NoColumn) =>
          /\ mark.label = LabelOf(chart, w)
          /\ (chart.kind = "point" /\ w.c.props["pointsize"] # NoColumn) =>
                mark.size = stod(ToText(w.row[w.c.props["pointsize"]])).val
PointsAre(chart, all, rows, marks) ==
    /\ chart.kind # "area" => Len(marks) = Len(rows)
    /\ \A i \in DOMAIN rows : PointIs(chart, all, rows[i], marks[i])
PointsRight(all, chart, names) ==
    \A n \in DOMAIN names : PointsAre(chart, all, InSeries(all, names[n]), PointsOf(chart, n))
BarIs(chart, bar, span) ==
    /\ ~chart.stacked => bar.along = span
    /\ chart.stacked /\ ~chart.yd.logarithmic => Rise(bar.along) = Rise(span)
BoundsOf(rows) == IF rows = <<>> THEN <<Zero, Zero>> ELSE Bounds(rows[1])
BarsAre(all, chart, names, categories, bars) ==
    /\ Len(bars) = Cardinality(categories) * Len(names)
    /\ \A x \in categories, n \in DOMAIN names :
        \E i \in DOMAIN bars :
            /\ bars[i].x = x /\ bars[i].series = n
            /\ BarIs(chart, bars[i],
                     Along(BuildDomain(chart.yd),
                           BoundsOf(SelectSeq(InSeries(all, names[n]), LAMBDA w : XOf(chart, w) = x))))
BarsRight(all, chart, names) ==
    BarsAre(all, chart, names, {XOf(chart, all[j]) : j \in {i \in DOMAIN all : HasY(all[i])}}, Bars(chart))
ShowsRows(all, chart, names) ==
    /\ Len(chart.series) = Len(names)
    /\ IF chart.kind = "bar" THEN BarsRight(all, chart, names) ELSE PointsRight(all, chart, names)

\* A chart shows what its SELECT statements have returned: a mark for every row with a y, of the
\* series the row names, with the row's values, label and size, whatever columns the SELECT of the
\* row has in which order; a bar for every category and series, which is the first row there, from one
\* end to the other (with INVERT the ends are in reverse, and what is drawn has a negative size).
\* (A row without y gives its label to the point before it: ApplyProperties.)
ChartShowsRows ==
    status = "drawn" =>
        \A k \in DOMAIN Draws : ShowsRows(RowsOf(k), canvas.charts[k], NamesIn(RowsOf(k)))

InUnit(x) == x[2] # 0 /\ AtMost(Zero, x) /\ AtMost(x, One)
Fitted(domain) ==
    IsDiscrete(domain) \/ (~domain.fixed /\ (domain.logarithmic => AtMost(One, domain.max)))
MarkInPlot(m) ==
    \A e \in 1 .. 2 : IF m.chart = "bar" THEN InUnit(m.along[e]) /\ InUnit(m.across[e]) ELSE InUnit(m.at[e])
AllInPlot(marks) == \A i \in DOMAIN marks : MarkInPlot(marks[i])
NoLowerBounds(all) == \A j \in DOMAIN all : all[j].c.z = NoColumn
\* "By default, the chart will fit the X, Y and if applicable Z domains to include all values": every
\* mark is in the area of the chart, stacks and points below zero too, unless a domain is given, is
\* logarithmic and below one, or the bars have a lower bound of their own.  The ends of a bar are in
\* the area; with INVERT they are in reverse, and the code draws from one with a negative size.
MarksInPlot ==
    status = "drawn" =>
        \A k \in DOMAIN canvas.charts :
            LET chart == canvas.charts[k]
            IN  (/\ Fitted(chart.xd) /\ Fitted(chart.yd)
                 /\ chart.kind = "bar" => NoLowerBounds(RowsOf(k))) =>
                AllInPlot(Marks(chart))

Ordered(span) == IF FracLess(span[2], span[1]) THEN <<span[2], span[1]>> ELSE span
Disjoint(a, b) == AtMost(Ordered(a)[2], Ordered(b)[1]) \/ AtMost(Ordered(b)[2], Ordered(a)[1])
ApartIn(chart, bars) ==
    \A i, j \in DOMAIN bars :
        IF chart.stacked /\ bars[i].x = bars[j].x
        THEN bars[j].series = bars[i].series + 1 => bars[j].along[1] = bars[i].along[2]
        ELSE i # j => Disjoint(bars[i].across, bars[j].across)
\* The bars of a category are next to each other, and of a stack the one of a series begins where the
\* one of the series before it ends; those of two categories are apart.  A bar is what is between its
\* ends, in whichever order INVERT has put them.
BarsApart ==
    \A k \in {c \in DOMAIN canvas.charts : canvas.charts[c].kind = "bar"} :
        ApartIn(canvas.charts[k], Bars(canvas.charts[k]))

\* the mark's coordinate and its value in the direction of an axis
CoordinateOf(chart, m, upright) ==
    IF chart.kind # "bar" THEN m.at[IF upright THEN 2 ELSE 1]
    ELSE IF upright = chart.vertical THEN m.along[2] ELSE m.across[1]
ValueOf(chart, m, upright) ==
    IF chart.kind # "bar" THEN m.value[IF upright THEN 2 ELSE 1]
    ELSE Float(Shown(chart, CHOOSE j \in ToSet(chart.join) : j.x = m.x).ys[m.series][2])
MarkLabelled(domain, labels, chart, m, upright, at) ==
    CASE IsDiscrete(domain) ->
             \E l \in DOMAIN labels :
                 IF chart.kind = "bar"
                 THEN /\ labels[l][2] = m.x
                      /\ ~Disjoint(<<at, FracAdd(at, Tiny)>>, ScaleRange(domain, labels[l][2]))
                 ELSE labels[l] = <<at, ValueOf(chart, m, upright)>>
      [] domain.logarithmic \/ domain.min = domain.max -> TRUE
      [] OTHER -> ValueAt(domain, at) = Number(ValueOf(chart, m, upright))
AxisAgrees(domain, labels, chart, marks, upright) ==
    \A i \in DOMAIN marks :
        MarkLabelled(domain, labels, chart, marks[i], upright, CoordinateOf(chart, marks[i], upright))
\* An axis tells the truth about the marks: the value that it has where a mark is, is the value of the
\* mark, also when the domain is padded, inverted or given, for every orientation.  An axis of one
\* value has it everywhere: axes are drawn before build() makes its domain wider.
AxesAgree ==
    status = "drawn" =>
        \A i \in DOMAIN canvas.axes :
            LET axis == canvas.axes[i]
                chart == canvas.charts[axis.chart]
            IN  AxisAgrees(chart[axis.domain], Labels(chart[axis.domain]), chart, Marks(chart),
                           axis.position \in {"T_LEFT", "T_RIGHT"})

\* What is marked is in the plot and where the axes say it is.
MarksWhereAxesSay == MarksInPlot /\ AxesAgree

Overlap(a, b) ==
    /\ a.left < b.right /\ b.left < a.right
    /\ a.top < b.bottom /\ b.top < a.bottom
Apart(list) == \A i, j \in DOMAIN list : i # j => ~Overlap(list[i], list[j])
OnCanvas(box) == 0 <= box.left /\ box.right <= Width /\ 0 <= box.top /\ box.bottom <= Height
LayoutApart(layout) ==
    LET boxes == Append(layout.around, layout.plot)
    IN  layout.plot.left < layout.plot.right /\ layout.plot.top + 80 < layout.plot.bottom =>
            /\ Apart(boxes)
            /\ Apart(layout.over)
            /\ \A i \in DOMAIN boxes : OnCanvas(boxes[i])
\* Nothing is drawn over anything else: the titles, the legends' lines, the axes with their titles and
\* labels, and the charts each have an area of their own on the canvas, however many legends and axes
\* there are on a side, as long as the canvas has room for all of them; legends inside of the charts
\* are apart from each other, and no bar hides another one.
NothingOverlaps ==
    status = "drawn" =>
        /\ BarsApart
        /\ LayoutApart(RenderLayout(canvas))

=============================================================================
