-------------------------------- MODULE JSON --------------------------------
(***************************************************************************)
(* stx::json: the reader and the writer of JSON texts, the flat sequence   *)
(* of tokens that stands for a document (JSONObject; a token that opens a  *)
(* container knows how many tokens the container has), the conversions     *)
(* between that and typed values, the lookups, and JSONDocument, which     *)
(* keeps a document as the list of its leaves with their JSON pointers.    *)
(* A typed value is [kind, v]; a type is [kind] with the element type of a *)
(* vector and the properties of a class.  Whatever raises yields Raised.   *)
(***************************************************************************)
EXTENDS Bytes, TLC

Backslash == 92
Tilde == 126
BraceOpen == 123
BraceClose == 125
BracketOpen == 91
BracketClose == 93
TrueText == <<LowerT, 114, 117, 101>>
FalseText == <<102, 97, 108, 115, 101>>
NullText == <<LowerN, 117, 108, 108>>

Raised == [kind |-> "raised"]
IsRaised(x) == x.kind = "raised"

Token(type, data) == [type |-> type, data |-> data, size |-> 1]
Mark(type) == Token(type, <<>>)
-----------------------------------------------------------------------------
(* JSONInputStream.  A reader's state is the position of cur_; 0 ends.     *)
CharAt(text, p) == IF p > Len(text) THEN NUL ELSE text[p]

Skipped == {Colon, Comma, SP, LF, CR}
NumberChars == (Zero..Nine) \cup {Minus, Plus, Dot, 101, 69}

FirstNotOf(text, from, cs) ==
  LET at == {i \in from..Len(text) : text[i] \notin cs}
  IN IF at = {} THEN Len(text) + 1 ELSE CHOOSE i \in at : \A j \in at : i <= j

(* Does the character escape the one behind it? *)
Unquoted(c, escaped) == c = Backslash /\ ~escaped

(* readString(): a backslash is dropped, what follows it is kept as it is. *)
RECURSIVE ReadString(_, _, _, _)
ReadString(text, p, escaped, dst) ==
  LET c == CharAt(text, p)
  IN CASE c = NUL -> [token |-> Mark("raised"), pos |-> p]
       [] Unquoted(c, escaped) -> ReadString(text, p + 1, TRUE, dst)
       [] c = Quote /\ ~escaped -> [token |-> Token("str", dst), pos |-> p + 1]
       [] OTHER -> ReadString(text, p + 1, FALSE, Append(dst, c))

(* readNumber(): blanks are skipped even inside a number. *)
ReadNumber(text, p) ==
  LET q == FirstNotOf(text, p, NumberChars \cup {SP})
  IN [token |-> Token("num", SelectSeq(Slice(text, p, q), LAMBDA c : c # SP)), pos |-> q]

ExpectString(text, p, type, expect) ==
  LET q == p + Len(expect)
  IN IF q <= Len(text) + 1 /\ Slice(text, p, q) = expect
     THEN [token |-> Mark(type), pos |-> q]
     ELSE [token |-> Mark("raised"), pos |-> p]

(* readNextToken(): colons and commas are only separators. *)
ReadNextToken(text, from) ==
  LET p == FirstNotOf(text, from, Skipped)
      c == CharAt(text, p)
      Sign(type) == [token |-> Mark(type), pos |-> p + 1]
  IN CASE c = BraceOpen -> Sign("{")
       [] c = BraceClose -> Sign("}")
       [] c = BracketOpen -> Sign("[")
       [] c = BracketClose -> Sign("]")
       [] c = Minus \/ IsDigit(c) -> ReadNumber(text, p)
       [] c = Quote -> ReadString(text, p + 1, FALSE, <<>>)
       [] c = TrueText[1] -> ExpectString(text, p, "true", TrueText)
       [] c = FalseText[1] -> ExpectString(text, p, "false", FalseText)
       [] c = NullText[1] -> ExpectString(text, p, "null", NullText)
       [] c = NUL -> [token |-> Mark("end"), pos |-> p]
       [] OTHER -> [token |-> Mark("raised"), pos |-> p]

RECURSIVE ReadTokens(_, _)
ReadTokens(text, p) ==
  LET r == ReadNextToken(text, p)
  IN IF r.token.type \in {"end", "raised"} THEN <<r.token>>
     ELSE <<r.token>> \o ReadTokens(text, r.pos)

(* The size of the container whose last token has just been appended. *)
ContainerSize(obj, open) == Len(obj) - open + 1

(* One token in parseJSON(): it does not compare the kinds of brackets. *)
ParseToken(st, t) ==
  LET obj == Append(st.obj, t)
  IN CASE st.raised -> st
       [] t.type = "raised" -> [st EXCEPT !.raised = TRUE]
       [] t.type = "end" -> [st EXCEPT !.raised = st.stack # <<>>]
       [] t.type \in {"{", "["} -> [st EXCEPT !.obj = obj, !.stack = Append(@, Len(obj))]
       [] t.type \in {"}", "]"} /\ st.stack = <<>> -> [st EXCEPT !.raised = TRUE]
       [] t.type \in {"}", "]"} ->
            LET open == Last(st.stack)
            IN [st EXCEPT !.obj = [obj EXCEPT ![open].size = ContainerSize(obj, open)],
                          !.stack = Front(@)]
       [] OTHER -> [st EXCEPT !.obj = obj]

(* parseJSON(): a JSONObject, as a value of its own *)
ParseJSON(text) ==
  LET st == FoldLeft(ParseToken, [obj |-> <<>>, stack |-> <<>>, raised |-> FALSE],
                     ReadTokens(text, 1))
  IN IF st.raised THEN Raised ELSE [kind |-> "json", v |-> st.obj]
-----------------------------------------------------------------------------
(* JSONOutputStream *)
EscapeChar(c) ==
  CASE c = Quote -> <<Backslash, Quote>>
    [] c = Backslash -> <<Backslash, Backslash>>
    [] c = LF -> <<Backslash, LowerN>>
    [] c = TAB -> <<Backslash, LowerT>>
    [] OTHER -> <<c>>
EscapeString(text) == FlattenSeq([i \in 1..Len(text) |-> EscapeChar(text[i])])

AddString(text) == <<Quote>> \o EscapeString(text) \o <<Quote>>
AddObjectEntry(key) == AddString(key) \o <<Colon, SP>>

(* What a scalar token is written as; a number is written as a string. *)
WriteScalar(t) ==
  CASE t.type = "true" -> TrueText
    [] t.type = "false" -> FalseText
    [] t.type = "null" -> NullText
    [] OTHER -> AddString(t.data)

(* The separator before a token inside the container at the top of stack_: *)
(* tokens at odd positions of an object are its keys.                      *)
Separator(stack) ==
  IF stack = <<>> \/ Last(stack).count = 0 THEN <<>>
  ELSE IF Last(stack).type = "{" /\ Last(stack).count % 2 = 1 THEN <<Colon>>
  ELSE <<Comma>>

CountOne(stack) ==
  IF stack = <<>> THEN stack ELSE [stack EXCEPT ![Len(stack)].count = @ + 1]

(* emplace_back() *)
EmplaceBack(out, t) ==
  LET open == [type |-> t.type, count |-> 0]
      text == out.text \o Separator(out.stack)
  IN CASE t.type \in {"]", "}"} ->
            [text |-> Append(out.text, IF t.type = "]" THEN BracketClose ELSE BraceClose),
             stack |-> CountOne(IF out.stack = <<>> THEN <<>> ELSE Front(out.stack))]
       [] t.type \in {"[", "{"} ->
            [text |-> Append(text, IF t.type = "[" THEN BracketOpen ELSE BraceOpen),
             stack |-> Append(out.stack, open)]
       [] OTHER -> [text |-> text \o WriteScalar(t), stack |-> CountOne(out.stack)]

(* write(): the text of a JSONObject *)
WriteJSON(tokens) == FoldLeft(EmplaceBack, [text |-> <<>>, stack |-> <<>>], tokens).text
-----------------------------------------------------------------------------
(* Lookups in the tokens of the container at position b; Len(obj) + 1 is   *)
(* end(), 0 that they raise.                                               *)
RECURSIVE LookupFrom(_, _, _, _)
LookupFrom(obj, b, oend, key) ==
  CASE b > Len(obj) -> Len(obj) + 1
    [] obj[b].type = "str" /\ obj[b].data = key -> b + 1
    [] b + 1 = oend -> Len(obj) + 1
    [] OTHER -> LookupFrom(obj, b + 1 + obj[b + 1].size, oend, key)

ObjectLookup(obj, b, key) ==
  LET end == Len(obj) + 1
      oend == b + obj[b].size
  IN CASE b = end -> end
       [] obj[b].type # "{" -> 0
       [] oend > end -> end
       [] OTHER -> LookupFrom(obj, b + 1, oend, key)

(* The positions of the elements of the array at b, as both arrayLength()  *)
(* and arrayLookup() step through it *)
RECURSIVE ElementsFrom(_, _, _)
ElementsFrom(obj, b, aend) ==
  IF b >= aend THEN <<>> ELSE <<b>> \o ElementsFrom(obj, b + obj[b].size, aend)

ArrayLength(obj, b) ==
  IF obj[b].type # "[" THEN -1 ELSE Len(ElementsFrom(obj, b + 1, b + obj[b].size - 1))

ArrayLookup(obj, b, index) ==
  LET at == ElementsFrom(obj, b + 1, b + obj[b].size - 1)
  IN IF obj[b].type # "[" \/ index >= Len(at) THEN 0 ELSE at[index + 1]

None == [kind |-> "none"]
ObjectGetString(obj, b, key) ==
  LET i == ObjectLookup(obj, b, key)
  IN CASE i = 0 -> Raised
       [] i <= Len(obj) /\ obj[i].type = "str" -> [kind |-> "string", v |-> obj[i].data]
       [] OTHER -> None

ObjectGetUInt64(obj, b, key) ==
  LET i == ObjectLookup(obj, b, key)
  IN CASE i = 0 -> Raised
       [] i <= Len(obj) /\ obj[i].type \in {"str", "num"} ->
            IF LeadingDigits(obj[i].data) = <<>> THEN Raised
            ELSE [kind |-> "uint", v |-> Number(LeadingDigits(obj[i].data))]
       [] OTHER -> None

ObjectGetBool(obj, b, key) ==
  LET i == ObjectLookup(obj, b, key)
      Is(type, texts) == obj[i].type = type \/ (obj[i].type = "str" /\ obj[i].data \in texts)
  IN CASE i = 0 -> Raised
       [] i <= Len(obj) /\ Is("true", {TrueText, <<84, 82, 85, 69>>}) ->
            [kind |-> "bool", v |-> TRUE]
       [] i <= Len(obj) /\ Is("false", {FalseText, <<70, 65, 76, 83, 69>>}) ->
            [kind |-> "bool", v |-> FALSE]
       [] OTHER -> None

-----------------------------------------------------------------------------
(* fromJSON() *)
FromJSONString(t) ==
  CASE t.type \in {"str", "num"} -> [kind |-> "string", v |-> t.data]
    [] t.type = "true" -> [kind |-> "string", v |-> TrueText]
    [] t.type = "false" -> [kind |-> "string", v |-> FalseText]
    [] t.type = "null" -> [kind |-> "string", v |-> NullText]
    [] OTHER -> Raised

(* std::stoi() of a token's data; what follows the digits is ignored *)
FromJSONInt(t) ==
  LET neg == t.data # <<>> /\ t.data[1] = Minus
      digits == LeadingDigits(IF neg THEN Tail(t.data) ELSE t.data)
  IN IF t.type \notin {"str", "num"} \/ digits = <<>> THEN Raised
     ELSE [kind |-> "int", v |-> IF neg THEN -Number(digits) ELSE Number(digits)]

(* The three unsigned types, for texts that std::stoul() need not wrap *)
FromJSONUnsigned(t) ==
  IF t.type \notin {"str", "num"} \/ LeadingDigits(t.data) = <<>> THEN Raised
  ELSE [kind |-> "uint", v |-> Number(LeadingDigits(t.data))]

FromJSONBool(t) ==
  IF t.type \in {"true", "false"} THEN [kind |-> "bool", v |-> (t.type = "true")] ELSE Raised

FromJSONTime(t) ==
  LET n == FromJSONUnsigned(t) IN IF IsRaised(n) THEN Raised ELSE [kind |-> "time", v |-> n.v]

FromJSONObject(obj, b) ==
  IF b + obj[b].size > Len(obj) + 1 THEN Raised
  ELSE [kind |-> "json", v |-> Slice(obj, b, b + obj[b].size)]

(* A HashMap<String, String>: the values must be strings or null. *)
RECURSIVE MapFrom(_, _, _)
MapFrom(obj, b, map) ==
  CASE obj[b].type = "}" -> [kind |-> "map", v |-> map]
    [] obj[b].type # "str" \/ obj[b + 1].type \notin {"str", "null"} -> Raised
    [] OTHER -> MapFrom(obj, b + 2, (obj[b].data :> obj[b + 1].data) @@ map)
FromJSONMap(obj, b) == IF obj[b].type # "{" THEN Raised ELSE MapFrom(obj, b + 1, <<>>)

RECURSIVE FromJSON(_, _, _), ElementsUpTo(_, _), FromJSONVector(_, _, _), GetProperty(_, _, _), FromJSONClass(_, _, _)
(* The vector's elements end at the first token that closes an array. *)
ElementsUpTo(obj, b) ==
  IF b > Len(obj) \/ obj[b].type = "]" THEN <<>> ELSE <<b>> \o ElementsUpTo(obj, b + obj[b].size)

FromJSONVector(obj, b, of) ==
  LET at == ElementsUpTo(obj, b + 1)
      vals == [i \in 1..Len(at) |-> FromJSON(obj, at[i], of)]
  IN IF obj[b].type # "[" \/ \E i \in DOMAIN vals : IsRaised(vals[i]) THEN Raised
     ELSE [kind |-> "vector", v |-> vals]

(* getProperty() and getOptionalProperty() of JSONInputProxy *)
GetProperty(obj, b, p) ==
  LET i == ObjectLookup(obj, b, p.name)
  IN CASE i = 0 -> Raised
       [] i > Len(obj) -> IF p.optional THEN None ELSE Raised
       [] OTHER -> FromJSON(obj, i, p.type)

FromJSONClass(obj, b, props) ==
  LET vals == [i \in 1..Len(props) |-> GetProperty(obj, b, props[i])]
  IN IF \E i \in DOMAIN vals : IsRaised(vals[i]) THEN Raised
     ELSE [kind |-> "class", v |-> [i \in 1..Len(props) |-> [name |-> props[i].name,
                                                             val |-> vals[i]]]]

FromJSON(obj, b, type) ==
  CASE b > Len(obj) -> Raised
    [] type.kind = "string" -> FromJSONString(obj[b])
    [] type.kind = "int" -> FromJSONInt(obj[b])
    [] type.kind = "uint" -> FromJSONUnsigned(obj[b])
    [] type.kind = "bool" -> FromJSONBool(obj[b])
    [] type.kind = "time" -> FromJSONTime(obj[b])
    [] type.kind = "json" -> FromJSONObject(obj, b)
    [] type.kind = "map" -> FromJSONMap(obj, b)
    [] type.kind = "vector" -> FromJSONVector(obj, b, type.of)
    [] OTHER -> FromJSONClass(obj, b, type.props)
-----------------------------------------------------------------------------
(* toJSON(): the tokens of a value; they keep the size 1, which only       *)
(* parseJSON() corrects.                                                   *)
ToJSONScalar(x) ==
  CASE x.kind = "string" -> <<Token("str", x.v)>>
    [] x.kind = "bool" -> <<Mark(IF x.v THEN "true" ELSE "false")>>
    [] OTHER -> <<Token("num", Decimal(x.v))>>

(* Vectors, sets, tuples and pairs *)
ToJSONArray(elems) == <<Mark("[")>> \o FlattenSeq(elems) \o <<Mark("]")>>

RECURSIVE ToJSON(_), ToJSONClass(_)
(* putProperty() of JSONOutputProxy, for every property that is there *)
ToJSONClass(props) ==
  LET Put(p) == IF p.val.kind = "none" THEN <<>>
                ELSE <<Token("str", p.name)>> \o ToJSON(p.val)
  IN <<Mark("{")>> \o FlattenSeq([i \in 1..Len(props) |-> Put(props[i])]) \o <<Mark("}")>>

ToJSONMap(map) ==
  LET keys == SetToSeq(DOMAIN map)
  IN <<Mark("{")>>
       \o FlattenSeq([i \in 1..Len(keys) |-> <<Token("str", keys[i]), Token("str", map[keys[i]])>>])
       \o <<Mark("}")>>

ToJSON(x) ==
  CASE x.kind = "vector" -> ToJSONArray([i \in 1..Len(x.v) |-> ToJSON(x.v[i])])
    [] x.kind = "class" -> ToJSONClass(x.v)
    [] x.kind = "map" -> ToJSONMap(x.v)
    [] x.kind = "json" -> x.v
    [] OTHER -> ToJSONScalar(x)

ToJSONString(x) == WriteJSON(ToJSON(x))
-----------------------------------------------------------------------------
(* JSONPointer *)
EscapeComponent(text) ==
  FlattenSeq([i \in 1..Len(text) |->
                CASE text[i] = Tilde -> <<Tilde, Zero>>
                  [] text[i] = Slash -> <<Tilde, Zero + 1>>
                  [] OTHER -> <<text[i]>>])
Push(path, text) == path \o <<Slash>> \o EscapeComponent(text)
LastSlash(path) == CHOOSE i \in 0..Len(path) :
                     /\ i > 0 => path[i] = Slash
                     /\ \A j \in (i + 1)..Len(path) : path[j] # Slash
Pop(path) == SubSeq(path, 1, LastSlash(path) - 1)

(* FlatJSONReader, over the tokens from i on: the leaves with their paths. *)
(* readArray() leaves the index that it pushed last in the path.           *)
ScalarText(t) ==
  CASE t.type = "true" -> TrueText
    [] t.type = "false" -> FalseText
    [] t.type = "null" -> NullText
    [] OTHER -> t.data
ScalarTypes == {"str", "num", "true", "false", "null"}

RECURSIVE ReadFlatObject(_, _), ReadFlatArray(_, _, _)
(* The value at st.i, which the path in st already names *)
ReadValue(st, toks, inObject) ==
  LET t == toks[st.i]
      next == [st EXCEPT !.i = @ + 1]
  IN CASE t.type = "{" -> ReadFlatObject(next, toks)
       [] t.type = "[" -> ReadFlatArray(next, toks, 0)
       [] t.type \in ScalarTypes ->
            [next EXCEPT !.leaves = Append(@, <<st.path, IF inObject THEN t.data
                                                         ELSE ScalarText(t)>>)]
       [] OTHER -> [st EXCEPT !.raised = TRUE]

ReadFlatObject(st, toks) ==
  LET t == toks[st.i]
      val == ReadValue([st EXCEPT !.i = @ + 1, !.path = Push(@, ScalarText(t))], toks, TRUE)
  IN CASE st.raised -> st
       [] t.type = "}" -> [st EXCEPT !.i = @ + 1]
       [] t.type \notin ScalarTypes -> [st EXCEPT !.raised = TRUE]
       [] val.raised -> val
       [] OTHER -> ReadFlatObject([val EXCEPT !.path = Pop(@)], toks)

ReadFlatArray(st, toks, index) ==
  LET t == toks[st.i]
      pushed == [st EXCEPT !.path = Push(@, Decimal(index))]
      val == ReadValue(pushed, toks, FALSE)
  IN CASE st.raised -> st
       [] t.type = "]" -> [pushed EXCEPT !.i = @ + 1]
       [] val.raised -> val
       [] OTHER -> ReadFlatArray([val EXCEPT !.path = Pop(@)], toks, index + 1)

ReadFlat(text) ==
  LET toks == ReadTokens(text, 1)
      st == [i |-> 1, path |-> <<>>, leaves |-> <<>>, raised |-> FALSE]
  IN IF toks[1].type \in {"{", "["} THEN ReadValue(st, toks, FALSE)
     ELSE [st EXCEPT !.raised = TRUE]

(* JSONDocument: getMaybe(), getMaybeAs() of the unsigned types, forEach() *)
MkJSONDocument(text) == ReadFlat(text).leaves
GetMaybe(doc, path) ==
  LET at == {i \in DOMAIN doc : doc[i][1] = path}
  IN IF at = {} THEN None
     ELSE [kind |-> "string", v |-> doc[CHOOSE i \in at : \A j \in at : i <= j][2]]
Get(doc, path) == LET x == GetMaybe(doc, path) IN IF x.kind = "none" THEN Raised ELSE x

StripTrailingSlashes(path) ==
  SubSeq(path, 1, CHOOSE n \in 0..Len(path) :
                    /\ n > 0 => path[n] # Slash
                    /\ \A i \in (n + 1)..Len(path) : path[i] = Slash)
ForEach(doc, path) ==
  LET prefix == Append(StripTrailingSlashes(path), Slash)
  IN {SubSeq(p, 1, FirstOf(p, Len(prefix) + 1, {Slash}) - 1) :
        p \in {doc[i][1] : i \in {j \in DOMAIN doc : IsPrefix(prefix, doc[j][1])}}}

-----------------------------------------------------------------------------
(***************************************************************************)
(* JSON-RPC over HTTP: an RPC encodes its method and its arguments         *)
(* (JSONRPCCodec), the server's adapter reads the request, finds the       *)
(* method, unpacks its arguments by position or by name (MethodCall) and   *)
(* writes the result or an error, and the RPC decodes what comes back.     *)
(* HTTP itself is an exchange of bodies here; HTTPMessages and HTTPClient  *)
(* model it.                                                               *)
(***************************************************************************)

CONSTANTS
  Methods,   \* name -> [args: the names and types of the arguments,
             \*          does: "returns", "raises" or "breaks", what: the
             \*          argument that it returns]
  RPCPath,   \* path_ of the adapter
  Calls      \* a sequence of calls, [method, params, http, uri, type]; type is the
             \*   result type that the caller expects

VARIABLES
  rpc,      \* the call
  step,     \* "idle", "serve", "decode", "done"
  body,     \* the body of the HTTP message under way, and its status
  outcome   \* what the RPC became: [kind |-> "error"] or its result

rpcVars == <<rpc, step, body, outcome>>

KeyVersion == <<400>>
KeyMethod == <<401>>
KeyID == <<402>>
KeyParams == <<403>>
KeyError == <<404>>
KeyMessage == <<405>>
KeyResult == <<406>>
KeyCode == <<407>>
Version2 == <<50, Dot, Zero>>
AnError == <<408, Quote, LF>>   \* the text of some error

(* encodeRPCRequest() *)
EncodeRPCRequest(call) ==
  LET Strings(s) == [i \in 1..Len(s) |-> Token("str", s[i])]
  IN WriteJSON(<<Mark("{")>>
       \o Strings(<<KeyVersion, Version2, KeyMethod, call.method, KeyID, <<Zero>>, KeyParams>>)
       \o ToJSON(call.params) \o <<Mark("}")>>)

(* JSONRPCRequest::JSONRPCRequest() *)
MkJSONRPCRequest(obj) ==
  LET Field(key) == ObjectLookup(obj, 1, key)
      TextOf(key) == FromJSON(obj, Field(key), [kind |-> "string"])
  IN IF obj = <<>> \/ obj[1].type # "{" \/ Field(KeyVersion) > Len(obj) THEN Raised
     ELSE IF TextOf(KeyVersion) # [kind |-> "string", v |-> Version2] THEN Raised
     ELSE IF IsRaised(TextOf(KeyMethod)) \/ Field(KeyParams) > Len(obj) THEN Raised
     ELSE IF Field(KeyID) <= Len(obj) /\ IsRaised(TextOf(KeyID)) THEN Raised
     ELSE [kind |-> "request", obj |-> obj, params |-> Field(KeyParams),
           method |-> TextOf(KeyMethod).v,
           id |-> IF Field(KeyID) > Len(obj) THEN <<>> ELSE TextOf(KeyID).v]

(* Mutant of GetArg: positions are counted from one. *)
GetArgFromOne(req, index, arg) ==
  LET obj == req.obj
      i == IF obj[req.params].type = "{" THEN ObjectLookup(obj, req.params, arg.name)
           ELSE ArrayLookup(obj, req.params, index + 1)
  IN IF obj[req.params].type \notin {"{", "["} \/ i = 0 \/ i > Len(obj) THEN Raised
     ELSE FromJSON(obj, i, arg.type)

(* getArg(): by name from an object, by position from an array *)
GetArg(req, index, arg) ==
  LET obj == req.obj
      i == IF obj[req.params].type = "{" THEN ObjectLookup(obj, req.params, arg.name)
           ELSE ArrayLookup(obj, req.params, index)
  IN IF obj[req.params].type \notin {"{", "["} \/ i = 0 \/ i > Len(obj) THEN Raised
     ELSE FromJSON(obj, i, arg.type)

(* MethodCall::call() and RPCCall::getArgs() *)
CallMethod(m, req) ==
  LET args == [i \in 1..Len(m.args) |-> GetArg(req, i - 1, m.args[i])]
  IN IF \E i \in DOMAIN args : IsRaised(args[i]) THEN Raised
     ELSE CASE m.does = "returns" -> args[m.what]
            [] m.does = "raises" -> Raised
            [] OTHER -> [kind |-> "broken"]

(* JSONRPCResponse *)
WrittenID(id) == IF id # <<>> THEN AddString(id) ELSE NullText
RespondError(id) ==
  <<BraceOpen>> \o AddObjectEntry(KeyVersion) \o AddString(Version2) \o <<Comma>>
    \o AddObjectEntry(KeyError) \o <<BraceOpen>>
    \o AddObjectEntry(KeyCode) \o Decimal(-32603) \o <<Comma>>
    \o AddObjectEntry(KeyMessage) \o AddString(AnError) \o <<BraceClose, Comma>>
    \o AddObjectEntry(KeyID) \o WrittenID(id) \o <<BraceClose>>
RespondSuccess(id, result) ==
  <<BraceOpen>> \o AddObjectEntry(KeyVersion) \o AddString(Version2) \o <<Comma>>
    \o AddObjectEntry(KeyID) \o WrittenID(id) \o <<Comma>>
    \o AddObjectEntry(KeyResult) \o ToJSONString(result) \o <<BraceClose>>

(* JSONRPC::dispatch() of the methods that registerService() has added *)
DispatchRPC(req) ==
  LET result == CallMethod(Methods[req.method], req)
  IN IF req.method \notin DOMAIN Methods \/ IsRaised(result)
     THEN [code |-> 200, text |-> RespondError(req.id)]
     ELSE IF result.kind = "broken" THEN [code |-> 500, text |-> <<>>]
     ELSE [code |-> 200, text |-> RespondSuccess(req.id, result)]

(* JSONRPCHTTPAdapter::handleHTTPRequest().  An exception that is not of   *)
(* stx escapes it and becomes a status 500.                                *)
HandleRPC(call, text) ==
  LET parsed == ParseJSON(text)
      req == IF IsRaised(parsed) THEN Raised ELSE MkJSONRPCRequest(parsed.v)
  IN CASE ~IsPrefix(StripTrailingSlashes(RPCPath), call.uri) -> [code |-> 404, text |-> <<>>]
       [] call.http # "POST" \/ IsRaised(req) -> [code |-> 200, text |-> RespondError(<<>>)]
       [] OTHER -> DispatchRPC(req)

(* decodeRPCResponse(), and AnyRPC::ready() that makes an error of what it *)
(* raises; a status other than 2xx is an error already.                    *)
DecodeRPCResponse(res, type) ==
  LET parsed == ParseJSON(res.text)
      result == FromJSON(parsed.v, ObjectLookup(parsed.v, 1, KeyResult), type)
  IN IF \/ res.code \notin 200..299
        \/ IsRaised(parsed)
        \/ ObjectLookup(parsed.v, 1, KeyError) <= Len(parsed.v)
        \/ IsRaised(result)
     THEN [kind |-> "error"] ELSE result
-----------------------------------------------------------------------------
RPCInit ==
  /\ \E i \in 1..Len(Calls) : rpc = Calls[i]
  /\ step = "serve"
  /\ body = [code |-> 0, text |-> EncodeRPCRequest(rpc)]
  /\ outcome = None

Serve ==
  /\ step = "serve"
  /\ body' = HandleRPC(rpc, body.text)
  /\ step' = "decode"
  /\ UNCHANGED <<rpc, outcome>>

Decode ==
  /\ step = "decode"
  /\ outcome' = DecodeRPCResponse(body, rpc.type)
  /\ step' = "done"
  /\ UNCHANGED <<rpc, body>>

RPCNext == Serve \/ Decode
-----------------------------------------------------------------------------
(* What a value is at the other side: the reader drops the backslash of    *)
(* the escapes that the writer makes of line feeds and tabs.               *)
OtherSide(text) ==
  [i \in 1..Len(text) |-> CASE text[i] = LF -> LowerN [] text[i] = TAB -> LowerT
                            [] OTHER -> text[i]]
RECURSIVE Transported(_)
Transported(x) ==
  CASE x.kind = "string" -> [x EXCEPT !.v = OtherSide(@)]
    [] x.kind = "vector" -> [x EXCEPT !.v = [i \in 1..Len(@) |-> Transported(@[i])]]
    [] x.kind = "class" -> [x EXCEPT !.v = [i \in 1..Len(@) |->
                              [@[i] EXCEPT !.val = Transported(@)]]]
    [] x.kind = "map" -> [x EXCEPT !.v = [k \in DOMAIN @ |-> OtherSide(@[k])]]
    [] OTHER -> x

(* The argument that the call passes for the i-th parameter of its method *)
Passed(call, i) ==
  IF call.params.kind = "vector" THEN call.params.v[i]
  ELSE LET name == Methods[call.method].args[i].name
       IN call.params.v[CHOOSE j \in 1..Len(call.params.v) : call.params.v[j].name = name].val

(* Is the value one of the type? *)
RECURSIVE Fits(_, _)
Fits(x, type) ==
  /\ x.kind = type.kind
  /\ x.kind = "vector" => \A i \in 1..Len(x.v) : Fits(x.v[i], type.of)
  /\ x.kind = "class" => \A i \in 1..Len(x.v) :
        IF x.v[i].val.kind = "none" THEN type.props[i].optional
        ELSE Fits(x.v[i].val, type.props[i].type)

(* The method is there, takes these arguments and returns what is expected *)
GoodCall(call) ==
  LET m == Methods[call.method]
  IN /\ call.http = "POST" /\ IsPrefix(RPCPath, call.uri)
     /\ call.method \in DOMAIN Methods /\ m.does = "returns"
     /\ Len(call.params.v) >= Len(m.args)
     /\ \A i \in 1..Len(m.args) : Fits(Passed(call, i), m.args[i].type)
     /\ call.type = m.args[m.what].type

(* A call with the arguments that its method takes returns the value that  *)
(* the method returned, through both JSON texts; every other call, and     *)
(* every call of a method that fails, ends in an error and never in a      *)
(* value (JSONRPCCodec, JSONRPCHTTPAdapter::handleHTTPRequest).            *)
RPCReturns ==
  step = "done" =>
    IF GoodCall(rpc) THEN outcome = Transported(Passed(rpc, Methods[rpc.method].what))
    ELSE outcome = [kind |-> "error"]
=============================================================================
