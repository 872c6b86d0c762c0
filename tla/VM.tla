--------------------------------- MODULE VM ---------------------------------
(***************************************************************************)
(* csql/runtime: the table of functions, the compiler of value expressions *)
(* and the virtual machine that evaluates the programs, with the aggregate *)
(* functions (csql/expressions: aggregate, internal).                      *)
(*                                                                         *)
(* A value expression is a column reference, a literal, a call or an IF.   *)
(* An instruction has the same shape, and every aggregate call a place in  *)
(* the scratch memory of the instances of its program.                     *)
(***************************************************************************)
EXTENDS SQLParser

\* qtree nodes; the column of a reference without an index is NoID
ColumnRef(name, index) == [op |-> "column", name |-> name, index |-> index, args |-> <<>>]
Literal(value) == [op |-> "literal", value |-> value, args |-> <<>>]
Call(symbol, args) == [op |-> "call", symbol |-> symbol, args |-> args]
If(args) == [op |-> "if", args |-> args]

-----------------------------------------------------------------------------
\* Aggregate functions: their scratchpads

\* the names that defaults.cc registers them under
NameCount == <<311>>
NameSum == <<312>>
NameRepeatValue == <<313>>
AggregateFunctions == {NameCount, NameSum, NameRepeatValue}

countExprReset == [n |-> 0]
countExprAcc(pad, args) == IF args[1].type = T_NULL THEN pad ELSE [n |-> pad.n + 1]
countExprGet(pad) == Integer(pad.n)
countExprMerge(pad, other) == [n |-> pad.n + other.n]

\* The type is the one of the last value, and a fresh scratchpad has the type NULL.
sumExprReset == [type |-> T_NULL, val |-> FromInt(0)]
sumExprAcc(pad, args) ==
    CASE args[1].type = T_NULL -> pad
      [] args[1].type = T_INTEGER ->
             [type |-> T_INTEGER, val |-> FracAdd(pad.val, FromInt(args[1].val))]
      [] OTHER -> [type |-> T_FLOAT, val |-> FracAdd(pad.val, GetFloat(args[1]).val)]
sumExprGet(pad) ==
    CASE pad.type = T_INTEGER -> Integer(Trunc(pad.val))
      [] pad.type = T_FLOAT -> Float(pad.val)
      [] OTHER -> Null
\* mutant: only the type is merged
sumExprMergeForgets(pad, other) == [type |-> other.type, val |-> pad.val]
sumExprMerge(pad, other) ==
    [type |-> IF pad.type = T_INTEGER /\ other.type = T_INTEGER THEN T_INTEGER ELSE T_FLOAT,
     val |-> FracAdd(pad.val, other.val)]

\* its reset does nothing
repeatValueExprInit == [value |-> Null]
repeatValueExprAcc(pad, args) == [value |-> args[1]]
repeatValueExprMerge(pad, other) == other

\* whether accumulate raises: sum() takes one argument and converts it
AccRaises(symbol, args) ==
    \/ \E i \in DOMAIN args : Raised(args[i])
    \/ symbol = NameSum /\ \/ Len(args) # 1
                           \/ args[1].type \notin {T_NULL, T_INTEGER} /\ Raised(GetFloat(args[1]))

AggInit(symbol) == CASE symbol = NameCount -> countExprReset
                     [] symbol = NameSum -> sumExprReset
                     [] symbol = NameRepeatValue -> repeatValueExprInit
AggReset(symbol, pad) == IF symbol = NameRepeatValue THEN pad ELSE AggInit(symbol)
AggAcc(symbol, pad, args) == CASE symbol = NameCount -> countExprAcc(pad, args)
                               [] symbol = NameSum -> sumExprAcc(pad, args)
                               [] symbol = NameRepeatValue -> repeatValueExprAcc(pad, args)
AggGet(symbol, pad) == CASE symbol = NameCount -> countExprGet(pad)
                         [] symbol = NameSum -> sumExprGet(pad)
                         [] symbol = NameRepeatValue -> pad.value
AggMerge(symbol, pad, other) == CASE symbol = NameCount -> countExprMerge(pad, other)
                                  [] symbol = NameSum -> sumExprMerge(pad, other)
                                  [] symbol = NameRepeatValue -> repeatValueExprMerge(pad, other)

\* what is written for a scratchpad, and the scratchpad read from a stream and the rest of it
AggSave(symbol, pad) == CASE symbol = NameCount -> <<pad.n>>
                          [] symbol = NameSum -> <<pad.type, pad.val>>
                          [] symbol = NameRepeatValue -> Encode(pad.value)
AggLoad(symbol, is) ==
    CASE symbol = NameCount -> <<[n |-> is[1]], Tail(is)>>
      [] symbol = NameSum -> <<[type |-> is[1], val |-> is[2]], From(is, 3)>>
      [] symbol = NameRepeatValue -> <<[value |-> Decode(is)[1]], Decode(is)[2]>>

-----------------------------------------------------------------------------
\* Pure functions, by the names that defaults.cc registers them under

Functions ==
    <<"eq", "neq", "logical_and", "logical_or", "neg", "lt", "lte", "gt", "gte", "add", "sub", "mul",
      "div", "pow", "round", "truncate", "startswith", "endswith", "uppercase", "lowercase",
      "from_timestamp", "mod">>
\* the name of mod is also a keyword
NameOf(fn) == IF fn = "mod" THEN <<Word("T_MOD")>>
              ELSE <<320 + CHOOSE i \in DOMAIN Functions : Functions[i] = fn>>
IsFunction(symbol) == \E i \in DOMAIN Functions : NameOf(Functions[i]) = symbol
FunctionOf(symbol) == Functions[CHOOSE i \in DOMAIN Functions : NameOf(Functions[i]) = symbol]

\* a call with the variable that gets the result, which eq() may leave as it is
CallPure(fn, args, out) ==
    LET Two(F(_, _)) == IF Len(args) = 2 THEN F(args[1], args[2]) ELSE Raise
        One(F(_)) == IF Len(args) = 1 THEN F(args[1]) ELSE Raise
    IN  CASE fn = "eq" -> IF Len(args) = 2 THEN EqExpr(args[1], args[2], out) ELSE Raise
          [] fn = "neq" -> Two(NeqExpr)
          [] fn = "logical_and" -> Two(AndExpr)
          [] fn = "logical_or" -> Two(OrExpr)
          [] fn = "neg" -> One(NegExpr)
          [] fn = "lt" -> Two(LtExpr)
          [] fn = "lte" -> Two(LteExpr)
          [] fn = "gt" -> Two(GtExpr)
          [] fn = "gte" -> Two(GteExpr)
          [] fn = "add" -> Two(AddExpr)
          [] fn = "sub" -> Two(SubExpr)
          [] fn = "mul" -> Two(MulExpr)
          [] fn = "div" -> Two(DivExpr)
          [] fn = "mod" -> Two(ModExpr)
          [] fn = "pow" -> Two(PowExpr)
          [] fn = "round" -> RoundExpr(args)
          [] fn = "uppercase" -> One(UpperCaseExpr)
          [] fn = "lowercase" -> One(LowerCaseExpr)
          [] fn = "truncate" -> One(TruncateExpr)
          [] fn = "startswith" -> Two(StartsWithExpr)
          [] fn = "endswith" -> Two(EndsWithExpr)
          [] fn = "from_timestamp" -> One(FromTimestamp)

\* SymbolTable::lookup() of every function in an expression
RECURSIVE SymbolsFound(_)
SymbolsFound(e) ==
    /\ e.op = "call" => e.symbol \in AggregateFunctions \/ IsFunction(e.symbol)
    /\ \A i \in DOMAIN e.args : SymbolsFound(e.args[i])

-----------------------------------------------------------------------------
\* The compiler.  size is the scratch memory that the expressions before this one take.

RECURSIVE CompileValueExpression(_, _)
CompileArguments(args, size) ==
    FoldLeft(LAMBDA acc, e :
                LET c == CompileValueExpression(e, acc.size)
                IN  [child |-> Append(acc.child, c.ins), size |-> c.size],
             [child |-> <<>>, size |-> size], args)
CompileValueExpression(e, size) ==
    LET isAggregate == e.op = "call" /\ e.symbol \in AggregateFunctions
        children == CompileArguments(e.args, IF isAggregate THEN size + 1 ELSE size)
        result(ins) == [ins |-> ins, size |-> children.size]
    IN  CASE e.op = "literal" ->
                 result([type |-> "X_LITERAL", arg0 |-> e.value, child |-> <<>>])
          [] e.op = "column" /\ e.index = NoID ->
                 result([type |-> "X_LITERAL", arg0 |-> Null, child |-> <<>>])
          [] e.op = "column" ->
                 result([type |-> "X_INPUT", arg0 |-> e.index, child |-> <<>>])
          [] e.op = "if" -> result([type |-> "X_IF", child |-> children.child])
          [] isAggregate ->
                 result([type |-> "X_CALL_AGGREGATE", symbol |-> e.symbol, arg0 |-> size,
                         child |-> children.child])
          [] OTHER ->
                 result([type |-> "X_CALL_PURE", fn |-> FunctionOf(e.symbol), child |-> children.child])

\* the aggregate calls of an instruction, in the order of the traversals of the VM
RECURSIVE AggregatesIn(_)
AggregatesIn(ins) ==
    (IF ins.type = "X_CALL_AGGREGATE" THEN <<ins>> ELSE <<>>)
    \o FlattenSeq([i \in DOMAIN ins.child |-> AggregatesIn(ins.child[i])])

Program(e) ==
    LET c == CompileValueExpression(e, 0)
    IN  [entry |-> c.ins, dynamic_storage_size |-> c.size, aggregates |-> AggregatesIn(c.ins)]
HasAggregate(program) == program.aggregates # <<>>

-----------------------------------------------------------------------------
\* The machine.  The scratch of an instance is the scratchpads of its aggregates, or one value.

AllocInstance(program) ==
    IF ~HasAggregate(program) THEN Null
    ELSE [type |-> "scratch",
          val |-> [slot \in 0 .. program.dynamic_storage_size - 1 |->
                      LET at == CHOOSE i \in DOMAIN program.aggregates :
                                   program.aggregates[i].arg0 = slot
                      IN  AggInit(program.aggregates[at].symbol)]]

\* every aggregate's scratchpad replaced
ForEachAggregate(program, scratch, F(_, _)) ==
    FoldLeft(LAMBDA s, ins : [s EXCEPT !.val[ins.arg0] = F(ins, @)], scratch, program.aggregates)

\* Without an instance (of a program without aggregates) the scratch is not looked at.
RECURSIVE EvaluateIns(_, _, _, _)
EvaluateIns(scratch, ins, row, out) ==
    CASE ins.type = "X_IF" ->
             LET cond == ToBool(EvaluateIns(scratch, ins.child[1], row, Null))
             IN  IF Raised(cond) THEN Raise
                 ELSE EvaluateIns(scratch, ins.child[IF cond.val THEN 2 ELSE 3], row, out)
      [] ins.type = "X_CALL_PURE" ->
             LET stack == Eager([i \in DOMAIN ins.child |-> EvaluateIns(scratch, ins.child[i], row, Null)])
             IN  CASE stack = <<>> -> out
                   [] \E i \in DOMAIN stack : Raised(stack[i]) -> Raise
                   [] OTHER -> CallPure(ins.fn, stack, out)
      [] ins.type = "X_CALL_AGGREGATE" -> AggGet(ins.symbol, scratch.val[ins.arg0])
      [] ins.type = "X_LITERAL" -> ins.arg0
      [] ins.type = "X_INPUT" -> IF ins.arg0 >= Len(row) THEN Raise ELSE row[ins.arg0 + 1]

\* VM::evaluate() of a program that must have no aggregates
Evaluate(program, row, out) ==
    IF HasAggregate(program) THEN Raise ELSE EvaluateIns(Null, program.entry, row, out)

\* An aggregate call accumulates its arguments; the aggregates among them only yield what they hold.
RECURSIVE AccumulateIns(_, _, _)
AccumulateIns(scratch, ins, row) ==
    IF ins.type # "X_CALL_AGGREGATE"
    THEN FoldLeft(LAMBDA s, child : IF Raised(s) THEN s ELSE AccumulateIns(s, child, row),
                  scratch, ins.child)
    ELSE LET args == Eager([i \in DOMAIN ins.child |-> EvaluateIns(scratch, ins.child[i], row, Null)])
         IN  IF AccRaises(ins.symbol, args) THEN Raise
             ELSE [scratch EXCEPT !.val[ins.arg0] = AggAcc(ins.symbol, @, args)]

Accumulate(program, instance, row) ==
    IF HasAggregate(program) THEN AccumulateIns(instance, program.entry, row)
    ELSE EvaluateIns(Null, program.entry, row, instance)

Result(program, instance, out) ==
    IF HasAggregate(program) THEN EvaluateIns(instance, program.entry, <<>>, out) ELSE instance

Reset(program, instance) ==
    IF ~HasAggregate(program) THEN Null
    ELSE ForEachAggregate(program, instance, LAMBDA ins, pad : AggReset(ins.symbol, pad))

Merge(program, dst, src) ==
    IF ~HasAggregate(program) THEN src
    ELSE ForEachAggregate(program, dst,
                          LAMBDA ins, pad : AggMerge(ins.symbol, pad, src.val[ins.arg0]))

SaveState(program, instance) ==
    IF ~HasAggregate(program) THEN Encode(instance)
    ELSE FlattenSeq([i \in DOMAIN program.aggregates |->
            AggSave(program.aggregates[i].symbol, instance.val[program.aggregates[i].arg0])])
\* the instance read from a stream, and the rest of the stream
LoadState(program, instance, is) ==
    IF ~HasAggregate(program) THEN Decode(is)
    ELSE FoldLeft(LAMBDA acc, ins :
                     LET loaded == AggLoad(ins.symbol, acc[2])
                     IN  <<[acc[1] EXCEPT !.val[ins.arg0] = loaded[1]], loaded[2]>>,
                  <<instance, is>>, program.aggregates)

=============================================================================
