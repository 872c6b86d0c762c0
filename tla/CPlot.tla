------------------------------- MODULE CPlot -------------------------------
(***************************************************************************)
(* cplot, the library that draws charts: series and their properties, the  *)
(* domains that scale values to the interval [0, 1], the four chart types  *)
(* and the layout of the canvas.                                           *)
(*                                                                         *)
(* Values are SValues and doubles are fractions.  A mark (a bar, a point)  *)
(* has its scaled coordinates, with y growing upwards; the code maps them  *)
(* to pixels with one affine function, padding + scaled * inner size.      *)
(* Strings that are only drawn are left out, except the names, colours,    *)
(* sizes and labels that tell marks apart.  The logarithm is a step        *)
(* function that grows with log10; only quotients of logarithms are used.  *)
(***************************************************************************)
EXTENDS SValue

-----------------------------------------------------------------------------
\* Domains

Huge == FromInt(1000)       \* numeric_limits<double>::max()
Tiny == Frac(1, 1000)       \* numeric_limits<double>::min(), a positive number
kDefaultDomainPadding == Frac(1, 10)
kDefaultNumTicks == 8
Zero == FromInt(0)
One == FromInt(1)
Minus1(s) == FracAdd(One, FracNeg(s))
Diff(a, b) == FracAdd(a, FracNeg(b))
AtMost(a, b) == ~FracLess(b, a)
FracSum(s) == FoldLeft(FracAdd, Zero, s)

\* the number that a domain takes for a value
Number(v) == IF v.type = T_TIMESTAMP THEN FromInt(v.val) ELSE v.val

MkDomain(type, pad) ==
    IF type = T_STRING THEN [type |-> type, inverted |-> FALSE, categories |-> <<>>]
    ELSE [type |-> type, inverted |-> FALSE, logarithmic |-> FALSE, fixed |-> FALSE,
          min |-> Huge, max |-> IF type = T_TIMESTAMP THEN Zero ELSE Tiny, low |-> pad, high |-> pad]
IsDiscrete(d) == d.type = T_STRING

AddValue(d, v) ==
    IF IsDiscrete(d)
    THEN IF Contains(d.categories, v.val) THEN d ELSE [d EXCEPT !.categories = Append(@, v.val)]
    ELSE [d EXCEPT !.max = IF FracLess(@, Number(v)) THEN Number(v) ELSE @,
                   !.min = IF FracLess(Number(v), @) THEN Number(v) ELSE @]

\* a limit that the DRAW statement sets is not padded
SetMin(d, n) == [d EXCEPT !.min = n, !.low = Zero, !.fixed = TRUE]
SetMax(d, n) == [d EXCEPT !.max = n, !.high = Zero, !.fixed = TRUE]

\* a domain of one value is made two wide; charts are built when they are drawn, after the axes
BuildDomain(d) ==
    IF IsDiscrete(d) \/ d.min # d.max THEN d
    ELSE [d EXCEPT !.max = FracAdd(@, One), !.min = Diff(@, One)]

RangeWithPadding(d) ==
    LET range == Diff(d.max, d.min)
    IN  <<IF d.min = Zero THEN Zero ELSE Diff(d.min, FracMul(range, d.low)),
          FracAdd(d.max, FracMul(range, d.high))>>

\* three times the binary logarithm of the tenths of a number of at least one
LogSteps(n) == Cardinality({k \in 1 .. 30 : 2^k <= n * n * n})
Log10(x) == IF FracLess(x, One) THEN 0 ELSE LogSteps(Trunc(FracMul(x, FromInt(10)))) - LogSteps(10)
MaxLog(d) == Log10(FracAdd(d.max, FracMul(d.max, d.high)))
\* the logarithm of numbers below one is taken to be zero; no number has a negative minimum
LogRaises(d) == ~IsDiscrete(d) /\ d.logarithmic /\ FracLess(d.min, Zero)
LogRange(d) == IF FracLess(d.max, One) THEN 0 ELSE MaxLog(d)

\* the place of a category, counted from the end
Place(d, text) ==
    Len(d.categories) + 1 - CHOOSE i \in DOMAIN d.categories : d.categories[i] = text

Directed(d, s) == IF d.inverted THEN Minus1(s) ELSE s
ShareOf(range, n) == FracDiv(Diff(n, range[1]), Diff(range[2], range[1]))
Scale(d, v) ==
    Directed(d, IF IsDiscrete(d) THEN Frac(2 * Place(d, v.val) - 1, 2 * Len(d.categories))
                ELSE IF d.logarithmic THEN Frac(Log10(Number(v)), LogRange(d))
                ELSE ShareOf(RangeWithPadding(d), Number(v)))

CategoryRange(d, place) ==
    [e \in 1 .. 2 |-> Directed(d, Frac(place - 2 + e, Len(d.categories)))]
ScaleRange(d, v) ==
    IF IsDiscrete(d) THEN CategoryRange(d, Place(d, v.val)) ELSE [e \in 1 .. 2 |-> Scale(d, v)]

\* the value at a place of a linear domain
InRange(range, s) == FracAdd(range[1], FracMul(Diff(range[2], range[1]), s))
ValueAt(d, s) == InRange(RangeWithPadding(d), Directed(d, s))

Ticks(d) ==
    IF IsDiscrete(d)
    THEN <<Zero>> \o [i \in DOMAIN d.categories |-> ScaleRange(d, String(d.categories[i]))[2]]
    ELSE [n \in 1 .. kDefaultNumTicks |-> Frac(n - 1, kDefaultNumTicks - 1)]
TickLabels(d, ticks) == [i \in DOMAIN ticks |-> <<ticks[i], Float(ValueAt(d, ticks[i]))>>]
\* where the labels of an axis are, and what they say (those of a logarithmic one are left out)
Labels(d) ==
    IF IsDiscrete(d)
    THEN [i \in DOMAIN d.categories |->
              <<Scale(d, String(d.categories[i])), String(d.categories[i])>>]
    ELSE IF d.logarithmic THEN <<>> ELSE TickLabels(d, Ticks(d))

-----------------------------------------------------------------------------
\* Series

Unnamed == <<LetterA, LetterA>>
EmptySeries(name) == [name |-> name, props |-> <<>>, data |-> <<>>]
Point(x, y, z) == [x |-> x, y |-> y, z |-> z, over |-> <<>>]
AddDatum(series, x, y, z) == [series EXCEPT !.data = Append(@, Point(x, y, z))]

HasProperty(series, prop) == prop \in DOMAIN series.props
SetDefaultProperty(series, prop, val) ==
    IF HasProperty(series, prop) THEN series ELSE [series EXCEPT !.props = (prop :> <<val>>) @@ @]
GetProperty(series, prop) == series.props[prop][1]
GetPointProperty(series, prop, i) ==
    LET over == series.data[i].over
    IN  series.props[prop][IF prop \in DOMAIN over THEN over[prop] ELSE 1]

\* The first value is the one of the series; a point keeps the index of another one.
SetProperty(series, prop, i, val) ==
    LET s == SetDefaultProperty(series, prop, val)
    IN  IF GetProperty(s, prop) = val THEN s
        ELSE [s EXCEPT !.props[prop] = Append(@, val),
                       !.data[i].over = (prop :> Len(s.props[prop]) + 1) @@ @]

LabelFor(series, i) ==
    IF HasProperty(series, "label") THEN GetPointProperty(series, "label", i)
    ELSE ToText(series.data[i].x) \o ToText(series.data[i].y)

Colors == <<<<CapitalA, 1>>, <<CapitalA, 2>>, <<CapitalA, 3>>, <<CapitalA, 4>>, <<CapitalA, 5>>,
            <<CapitalA, 6>>>>
SetNextColor(series, index) == SetDefaultProperty(series, "color", Colors[(index % Len(Colors)) + 1])

\* SeriesJoin3D: the points of several series, joined by x; a series has one point at every x
Filled(joined, n) == [joined EXCEPT !.ys = @ \o [i \in 1 .. n - Len(@) |-> <<Zero, Zero>>]]
JoinPoint(join, point, label, n) ==
    LET found == {i \in DOMAIN join : join[i].x = point.x}
        known == IF found = {} THEN Append(join, [x |-> point.x, label |-> <<>>, ys |-> <<>>]) ELSE join
        at == IF found = {} THEN Len(known) ELSE CHOOSE i \in found : TRUE
        filled == Filled(known[at], n)
        labelled == IF filled.label = label THEN filled ELSE [filled EXCEPT !.label = @ \o label]
    IN  [known EXCEPT ![at] =
            IF Len(filled.ys) > n THEN labelled
            ELSE [labelled EXCEPT !.ys = Append(@, <<Number(point.y), Number(point.z)>>)]]
JoinSeries(join, series, n) ==
    LET points == FoldLeft(LAMBDA j, i : JoinPoint(j, series.data[i], LabelFor(series, i), n), join,
                           [i \in DOMAIN series.data |-> i])
    IN  Eager([i \in DOMAIN points |-> Filled(points[i], n + 1)])

-----------------------------------------------------------------------------
\* Charts

\* the canvas keeps the charts, and what they have added to it
EmptyCanvas == [title |-> <<>>, subtitle |-> <<>>, charts |-> <<>>, axes |-> <<>>, grids |-> <<>>,
                legends |-> <<>>]

NewChart(kind, tx, ty) ==
    [kind |-> kind,
     xd |-> MkDomain(tx, IF kind = "point" THEN kDefaultDomainPadding ELSE Zero),
     yd |-> MkDomain(ty, kDefaultDomainPadding),
     series |-> <<>>, join |-> <<>>, palette |-> 0, stacked |-> FALSE, vertical |-> TRUE]

\* BarChart2D, AreaChart2D and PointChart2D draw a series of three dimensions, which is "unnamed"
Lifted(kind, series) ==
    LET sized == SetDefaultProperty(series, "pointsize", <<4>>)
        zero == Float(Zero)
        Lift(s, i) ==
            LET p == series.data[i]
                positive == p.y.type = T_FLOAT /\ FracLess(Zero, p.y.val)
                datum == CASE kind = "point" ->
                                  AddDatum(s, p.x, p.y, stod(GetPointProperty(sized, "pointsize", i)))
                           [] kind = "bar" /\ ~positive -> AddDatum(s, p.x, p.y, zero)
                           [] OTHER -> AddDatum(s, p.x, zero, p.y)
            IN  SetProperty(datum, "label", i, LabelFor(series, i))
        copied == {"color"} \cup IF kind # "area" THEN {} ELSE
                  {"linestyle", "linewidth", "pointstyle", "pointsize"}
        lifted == FoldLeft(Lift, EmptySeries(Unnamed), [i \in DOMAIN series.data |-> i])
    IN  [lifted EXCEPT !.props = @ @@ [p \in copied \cap DOMAIN series.props |->
                                           <<GetProperty(series, p)>>]]

\* the values that a point adds to the y domain
Heights(kind, p) == IF kind \in {"area", "bar"} THEN <<p.y, p.z>> ELSE <<p.y>>
AddToDomains(chart, series) ==
    [chart EXCEPT !.xd = FoldLeft(LAMBDA d, p : AddValue(d, p.x), @, series.data),
                  !.yd = FoldLeft(LAMBDA d, p : FoldLeft(AddValue, d, Heights(chart.kind, p)), @,
                                  series.data)]

\* the height of a bar
Rise(y) == Diff(y[2], y[1])
\* BarChart3D::setStacked(): the height of a stack is a value of the y domain
StackHeight(joined) == FracSum([n \in DOMAIN joined.ys |-> Rise(joined.ys[n])])
SetStacked(chart, stacked) ==
    [chart EXCEPT !.stacked = stacked,
                  !.yd = IF stacked
                         THEN FoldLeft(LAMBDA d, j : AddValue(d, Float(StackHeight(j))), @, chart.join)
                         ELSE @]

\* the properties that addSeries() gives to a series without them
PointStyle == <<<<"pointstyle", <<5>>>>>>
LineStyle == <<<<"linestyle", <<6>>>>, <<"linewidth", <<2>>>>, <<"pointstyle", <<7>>>>, <<"pointsize", <<3>>>>>>
AreaStyle == <<<<"linestyle", <<7>>>>, <<"linewidth", <<1>>>>, <<"pointstyle", <<7>>>>, <<"pointsize", <<2>>>>>>
Style(kind, series) ==
    FoldLeft(LAMBDA s, p : SetDefaultProperty(s, p[1], p[2]), series,
             CASE kind = "bar" -> <<>> [] kind = "point" -> PointStyle [] kind = "line" -> LineStyle
               [] kind = "area" -> AreaStyle)

\* addSeries() of the four chart types.  The palette gives a colour to a series without one.
AddSeries(chart, series) ==
    LET plain == ~HasProperty(series, "color")
        styled == Style(chart.kind, IF plain THEN SetNextColor(series, chart.palette) ELSE series)
        grown == AddToDomains(chart, series)
        added == [grown EXCEPT !.series = Append(@, styled),
                               !.palette = IF plain THEN @ + 1 ELSE @,
                               !.join = IF chart.kind # "bar" THEN @
                                        ELSE JoinSeries(@, series, Len(chart.series))]
    IN  IF chart.kind = "bar" THEN SetStacked(added, chart.stacked) ELSE added
NoSize(series) ==
    \E p \in {"linewidth", "pointsize"} :
        HasProperty(series, p) /\ Raised(stod(GetProperty(series, p)))
\* a bar's lower bound is not above its upper bound; sizes are numbers
SeriesRaises(kind, series) ==
    \/ kind = "bar" /\ \E i \in DOMAIN series.data :
           FracLess(Number(series.data[i].z), Number(series.data[i].y))
    \/ kind = "area" /\ NoSize(series)
    \/ kind = "point" /\ \E i \in DOMAIN series.data : Raised(series.data[i].z)

\* mutant: whatever the orientation
AxisDomainUpright(chart, position) == IF position \in {"T_TOP", "T_BOTTOM"} THEN "xd" ELSE "yd"
\* which domain an axis or a grid of a chart belongs to
AxisDomain(chart, position) ==
    IF (position \in {"T_TOP", "T_BOTTOM"}) = chart.vertical THEN "xd" ELSE "yd"
GridDomain(chart, placement) ==
    IF (placement = "T_VERTICAL") = chart.vertical THEN "yd" ELSE "xd"

\* Drawable::updateLegend(): the last legend takes all series of the chart, whenever one is added
UpdateLegend(canvas, chart) ==
    IF canvas.legends = <<>> THEN canvas
    ELSE [canvas EXCEPT !.legends[Len(canvas.legends)].entries =
             @ \o [i \in DOMAIN chart.series |->
                       <<chart.series[i].name, GetProperty(chart.series[i], "color")>>]]

-----------------------------------------------------------------------------
\* Marks

kBarPadding == Frac(3, 10)
kBarPaddingInner == Frac(2, 10)

\* the part of a category's range that the bar of series n of k takes
SpanFrom(start, width) == <<start, FracAdd(start, width)>>
\* the part of a span that is left by a padding, half of it at either end
Padded(start, width, padding) ==
    SpanFrom(FracAdd(start, FracMul(width, FracDiv(padding, FromInt(2)))), FracMul(width, Minus1(padding)))
SlotIn(span, each, n) ==
    Padded(FracAdd(span[1], FracMul(each, FromInt(n - 1))), each, kBarPaddingInner)
SlotOf(span, n, k, stacked) ==
    IF stacked THEN span ELSE SlotIn(span, FracDiv(Diff(span[2], span[1]), FromInt(k)), n)
BarSlot(range, n, k, stacked) ==
    SlotOf(Padded(range[1], Diff(range[2], range[1]), kBarPadding), n, k, stacked)
\* a horizontal chart counts the slots of a category from its end
Mirrored(span) == <<Minus1(span[2]), Minus1(span[1])>>
HorizontalSlot(range, n, k, stacked) == Mirrored(BarSlot(Mirrored(range), n, k, stacked))

\* stackData(): every bar begins where the one of the series before it ends
Stacked(joined) ==
    [joined EXCEPT !.ys = Eager([n \in DOMAIN @ |->
        SpanFrom(FracSum([m \in 1 .. n - 1 |-> Rise(joined.ys[m])]), Rise(joined.ys[n]))])]

Across(chart, range, n) ==
    IF chart.vertical THEN BarSlot(range, n, Len(chart.series), chart.stacked)
    ELSE HorizontalSlot(range, n, Len(chart.series), chart.stacked)
Along(d, y) == [e \in 1 .. 2 |-> Scale(d, Float(y[e]))]
Bar(chart, joined, n) ==
    [chart |-> chart.kind, x |-> joined.x, series |-> n, label |-> joined.label,
     color |-> GetProperty(chart.series[n], "color"),
     across |-> Eager(Across(chart, ScaleRange(chart.xd, joined.x), n)),
     along |-> Eager(Along(BuildDomain(chart.yd), joined.ys[n]))]
Shown(chart, joined) == IF chart.stacked THEN Stacked(joined) ELSE joined
BarsAt(chart, joined) == [n \in DOMAIN chart.series |-> Bar(chart, joined, n)]
Bars(chart) ==
    Eager(FlattenSeq([i \in DOMAIN chart.join |-> BarsAt(chart, Shown(chart, chart.join[i]))]))

\* the outline of an area: its upper points, then its lower ones backwards, unless they are zero
AreaOutline(s) ==
    LET lower == [i \in DOMAIN s.data |-> <<i, s.data[i].y>>]
    IN  [i \in DOMAIN s.data |-> <<i, s.data[i].z>>]
        \o Reverse(SelectSeq(lower, LAMBDA p : p[2] # Float(Zero)))
\* a point of a point chart has a size of its own
PointSize(kind, s, i) == IF kind = "point" THEN s.data[i].z.val ELSE stod(GetProperty(s, "pointsize")).val
Mark(chart, n, s, i, y) ==
    [chart |-> chart.kind, series |-> n, label |-> LabelFor(s, i),
     color |-> GetProperty(s, "color"), value |-> <<s.data[i].x, y>>,
     size |-> PointSize(chart.kind, s, i),
     at |-> <<Scale(BuildDomain(chart.xd), s.data[i].x), Scale(BuildDomain(chart.yd), y)>>]
MarksAt(chart, n, drawn) ==
    Eager([j \in DOMAIN drawn |-> Mark(chart, n, chart.series[n], drawn[j][1], drawn[j][2])])
PointsOf(chart, n) ==
    LET s == chart.series[n]
    IN  MarksAt(chart, n, IF chart.kind = "area" THEN AreaOutline(s)
                          ELSE [i \in DOMAIN s.data |-> <<i, s.data[i].y>>])
Points(chart) == FlattenSeq([n \in DOMAIN chart.series |-> PointsOf(chart, n)])

Marks(chart) == IF chart.kind = "bar" THEN Bars(chart) ELSE Points(chart)
\* what render() raises
RenderRaises(chart) ==
    \/ chart.kind = "bar" /\ chart.join = <<>>
    \/ chart.kind = "line" /\ \E n \in DOMAIN chart.series : NoSize(chart.series[n])
    \/ /\ \E n \in DOMAIN chart.series : chart.series[n].data # <<>>
       /\ LogRaises(BuildDomain(chart.xd)) \/ LogRaises(BuildDomain(chart.yd))

-----------------------------------------------------------------------------
\* The layout of the canvas, in pixels

Width == 800
Height == 320
kAxisPadding == 0
kAxisLabelHeight == 25
kAxisLabelWidth == 50
kAxisTitleLength == 20
kTitleLineHeight == 20
kSubtitleLineHeight == 20
kCharWidth == 6
kLegendLineHeight == 20
kLegendLabelPadding == 20
kLegendInsideVertPadding == 10
kLegendOutsideVertPadding == 10
kLegendOutsideHorizPadding == 25

\* what is drawn, and the padding that is left for the rest
Viewport == [top |-> 0, right |-> 0, bottom |-> 0, left |-> 0]
Box(what, left, right, top, bottom) ==
    [what |-> what, left |-> left, right |-> right, top |-> top, bottom |-> bottom]
SideOf == "T_TOP" :> "top" @@ "T_RIGHT" :> "right" @@ "T_BOTTOM" :> "bottom" @@ "T_LEFT" :> "left"
Drawn(boxes, view) == [boxes |-> boxes, view |-> view]
InnerWidth(view) == Width - view.right - view.left
EstimateTextLength(text) == Len(text) * kCharWidth

RenderTitle(canvas, view) ==
    LET title == IF canvas.title = <<>> THEN 0 ELSE kTitleLineHeight
        subtitle == IF canvas.subtitle = <<>> THEN 0 ELSE kSubtitleLineHeight
        line(what, from, height) ==
            IF height = 0 THEN <<>> ELSE <<Box(what, 0, Width, view.top + from, view.top + from + height)>>
    IN  Drawn(line("title", 0, title) \o line("subtitle", title, subtitle),
              [view EXCEPT !.top = @ + title + subtitle])

\* The lines of a legend, from its first line away from the edge.  Its title is at the other end of
\* the first line.  A legend to the right has its entries from the right to the left.
LegendLines(legend, view, from, step) ==
    LET width == InnerWidth(view) - 2 * kLegendOutsideHorizPadding
        title == EstimateTextLength(legend.title)
        Entry(state, entry) ==
            LET len == EstimateTextLength(entry[1]) + kLegendLabelPadding
                wrap == state.x + len > state.boundary
                x == IF wrap THEN 0 ELSE state.x
                y == IF wrap THEN state.y + step ELSE state.y
            IN  [x |-> x + len, y |-> y, boundary |-> IF wrap THEN width ELSE state.boundary,
                 entries |-> Append(state.entries, [from |-> x, to |-> x + len, y |-> y])]
    IN  FoldLeft(Entry, [x |-> 0, y |-> from, boundary |-> width - title - kLegendLabelPadding,
                         entries |-> <<>>], legend.entries)
LegendBoxes(legend, view, lines, from, up) ==
    LET left == view.left + kLegendOutsideHorizPadding
        right == Width - view.right - kLegendOutsideHorizPadding
        top(y) == IF up THEN y - kLegendLineHeight ELSE y
        Line(what, a, b, y) ==
            IF (legend.horizontal = "T_LEFT") = (what = "entry")
            THEN Box(what, left + a, left + b, top(y), top(y) + kLegendLineHeight)
            ELSE Box(what, right - b, right - a, top(y), top(y) + kLegendLineHeight)
        title == Line("legend title", 0, EstimateTextLength(legend.title), from)
    IN  <<title>> \o [i \in DOMAIN lines.entries |->
                          Line("entry", lines.entries[i].from, lines.entries[i].to, lines.entries[i].y)]

\* renderLeftLegend() and renderRightLegend()
LegendDrawn(legend, view, outside, lines, from, up) ==
    Drawn(LegendBoxes(legend, view, lines, from, up),
          IF up THEN [view EXCEPT !.bottom = Height - lines.y + (IF outside THEN kLegendLineHeight ELSE 0)]
          ELSE [view EXCEPT !.top = lines.y + kLegendLineHeight])
RenderLegend(legend, view, outside) ==
    LET up == legend.vertical = "T_BOTTOM"
        from == IF up THEN Height - view.bottom - kLegendLineHeight \div 2 ELSE view.top
        step == IF up THEN -kLegendLineHeight ELSE kLegendLineHeight
    IN  LegendDrawn(legend, view, outside, LegendLines(legend, view, from, step), from, up)

After(sofar, drawn) == Drawn(sofar.boxes \o drawn.boxes, drawn.view)
OutsideLegend(sofar, legend) ==
    [After(sofar, RenderLegend(legend, sofar.view, TRUE)) EXCEPT
        !.view[SideOf[legend.vertical]] = @ + kLegendOutsideVertPadding]
RenderOutsideLegends(canvas, sofar) ==
    FoldLeft(OutsideLegend, sofar, SelectSeq(canvas.legends, LAMBDA l : l.placement = "T_OUTSIDE"))
\* the legends inside make room for each other, and none for the chart
InsideLegend(sofar, legend) ==
    After(sofar, RenderLegend(legend, [sofar.view EXCEPT !.top = @ + kLegendInsideVertPadding,
                                                         !.bottom = @ + kLegendInsideVertPadding], FALSE))
RenderInsideLegends(canvas, view) ==
    FoldLeft(InsideLegend, Drawn(<<>>, view),
             SelectSeq(canvas.legends, LAMBDA l : l.placement = "T_INSIDE")).boxes

LabelSize(side) == IF side \in {"top", "bottom"} THEN kAxisLabelHeight ELSE kAxisLabelWidth
\* mutant: the title of an axis takes no room
AxisSizeUntitled(axis) == kAxisPadding + LabelSize(SideOf[axis.position])
\* an axis of a chart always has labels
AxisSize(axis) ==
    kAxisPadding + LabelSize(SideOf[axis.position]) + IF axis.title = <<>> THEN 0 ELSE kAxisTitleLength
\* the padding after the axes: half a label at least, also where there is no axis
AxesView(canvas, view) ==
    LET Grow(v, axis) == [v EXCEPT ![SideOf[axis.position]] = @ + AxisSize(axis)]
        padded == FoldLeft(Grow, view, canvas.axes)
    IN  [side \in DOMAIN padded |->
            IF 2 * padded[side] < LabelSize(side) THEN padded[side] + LabelSize(side) \div 2
            ELSE padded[side]]
\* Every axis goes next to those before it on its side; it draws its title, its labels, its stroke.
SameSide(axes, i) == {j \in 1 .. i - 1 : axes[j].position = axes[i].position}
UsedBefore(axes, i, view) ==
    view[SideOf[axes[i].position]] + FoldSet(LAMBDA j, n : n + AxisSize(axes[j]), 0, SameSide(axes, i))
DrawnSize(axis) ==
    kAxisPadding + (IF axis.title = <<>> THEN 0 ELSE kAxisTitleLength) + LabelSize(SideOf[axis.position])
AxisBox(position, inner, near, far) ==
    LET right == Width - inner.right
        bottom == Height - inner.bottom
    IN  CASE position = "T_TOP" -> Box("axis", inner.left, right, near, far)
          [] position = "T_BOTTOM" -> Box("axis", inner.left, right, Height - far, Height - near)
          [] position = "T_LEFT" -> Box("axis", near, far, inner.top, bottom)
          [] OTHER -> Box("axis", Width - far, Width - near, inner.top, bottom)
RenderAxis(axis, inner, near) == AxisBox(axis.position, inner, near, near + DrawnSize(axis))
AxisBoxes(axes, view, inner) ==
    [i \in DOMAIN axes |-> RenderAxis(axes[i], inner, UsedBefore(axes, i, view))]
RenderAxes(canvas, sofar) ==
    LET inner == AxesView(canvas, sofar.view)
    IN  Drawn(sofar.boxes \o AxisBoxes(canvas.axes, sofar.view, inner), inner)

\* Canvas::render(): the boxes of everything around the charts, those of the legends over the
\* charts, and the area of the charts
RenderInside(canvas, drawn) ==
    [around |-> drawn.boxes,
     over |-> RenderInsideLegends(canvas, drawn.view),
     plot |-> Box("plot", drawn.view.left, Width - drawn.view.right, drawn.view.top,
                  Height - drawn.view.bottom)]
RenderLayout(canvas) ==
    RenderInside(canvas, RenderAxes(canvas, RenderOutsideLegends(canvas, RenderTitle(canvas, Viewport))))

=============================================================================
