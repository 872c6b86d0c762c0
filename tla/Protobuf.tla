------------------------------ MODULE Protobuf ------------------------------
(***************************************************************************)
(* stx::msg: message schemas and messages, the wire format of both         *)
(* (MessageEncoder, MessageDecoder, MessageSchema::encode) over            *)
(* BinaryMessageWriter and BinaryMessageReader, their JSON forms, and      *)
(* DynamicMessage, which takes the values of fields as text.               *)
(* A message is [id, type, v]: v is the sequence of the children of an     *)
(* object, a text, or a number; a double is its eight bytes.               *)
(***************************************************************************)
EXTENDS JSON, Conversions

FieldTypes == <<"OBJECT", "BOOLEAN", "UINT32", "STRING", "UINT64", "DOUBLE", "DATETIME">>
TypeCode(type) == (CHOOSE i \in 1..Len(FieldTypes) : FieldTypes[i] = type) - 1
Encodings == <<"NONE", "BITPACK", "LEB128">>
EncodingCode(hint) == (CHOOSE i \in 1..Len(Encodings) : Encodings[i] = hint) - 1

(* BinaryMessageWriter::appendVarUInt() and appendLenencString() *)
RECURSIVE AppendVarUInt(_)
AppendVarUInt(n) == IF n < 128 THEN <<n>> ELSE <<128 + (n % 128)>> \o AppendVarUInt(n \div 128)
AppendLenencString(text) == AppendVarUInt(Len(text)) \o text

(* BinaryMessageReader: [v, pos] of what is read at p, pos = 0 if the read *)
(* exceeds the buffer and raises.                                          *)
ReadBytes(buf, p, n) ==
  IF p = 0 \/ p + n > Len(buf) + 1 THEN [v |-> <<>>, pos |-> 0]
  ELSE [v |-> Slice(buf, p, p + n), pos |-> p + n]
ReadUInt8(buf, p) ==
  LET r == ReadBytes(buf, p, 1) IN [v |-> IF r.pos = 0 THEN 0 ELSE r.v[1], pos |-> r.pos]
RECURSIVE ReadVarUInt(_, _)
ReadVarUInt(buf, p) ==
  LET b == ReadUInt8(buf, p)
      rest == ReadVarUInt(buf, b.pos)
  IN IF b.pos = 0 \/ b.v < 128 THEN b ELSE [v |-> b.v - 128 + 128 * rest.v, pos |-> rest.pos]
ReadLenencString(buf, p) ==
  LET len == ReadVarUInt(buf, p) IN ReadBytes(buf, len.pos, len.v)
-----------------------------------------------------------------------------
(* MessageSchema *)
NoSchema == [name |-> <<>>, fields |-> <<>>]
Field(id, name, type, size, repeated, optional, encoding) ==
  [id |-> id, name |-> name, type |-> type, size |-> size, repeated |-> repeated,
   optional |-> optional, encoding |-> encoding, schema |-> NoSchema]
MkObjectField(id, name, repeated, optional, schema) ==
  [Field(id, name, "OBJECT", 0, repeated, optional, "NONE") EXCEPT !.schema = schema]

(* The first field with the id, for hasField(), fieldType(), fieldName()   *)
(* and fieldSchema(): the maps keep the first entry that was emplaced.     *)
HasField(schema, id) == \E i \in 1..Len(schema.fields) : schema.fields[i].id = id
FieldOf(schema, id) ==
  schema.fields[CHOOSE i \in 1..Len(schema.fields) :
                  /\ schema.fields[i].id = id
                  /\ \A j \in 1..(i - 1) : schema.fields[j].id # id]
HasFieldNamed(schema, name) == \E i \in 1..Len(schema.fields) : schema.fields[i].name = name
FieldId(schema, name) ==
  schema.fields[CHOOSE i \in 1..Len(schema.fields) :
                  /\ schema.fields[i].name = name
                  /\ \A j \in 1..(i - 1) : schema.fields[j].name # name].id

(* encode() *)
RECURSIVE EncodeSchema(_)
EncodeSchema(schema) ==
  LET One(f) == AppendVarUInt(f.id) \o AppendLenencString(f.name) \o <<TypeCode(f.type)>>
                  \o AppendVarUInt(f.size) \o <<IF f.repeated THEN 1 ELSE 0>>
                  \o <<IF f.optional THEN 1 ELSE 0>> \o <<EncodingCode(f.encoding)>>
                  \o (IF f.type = "OBJECT" THEN EncodeSchema(f.schema) ELSE <<>>)
  IN <<1>> \o AppendLenencString(schema.name) \o AppendVarUInt(Len(schema.fields))
       \o FlattenSeq([i \in 1..Len(schema.fields) |-> One(schema.fields[i])])

(* decode(): [schema, pos], pos = 0 if it raises *)
RECURSIVE DecodeSchema(_, _), DecodeFields(_, _, _)
DecodeFields(buf, st, n) ==
  LET id == ReadVarUInt(buf, st.pos)
      name == ReadLenencString(buf, id.pos)
      type == ReadUInt8(buf, name.pos)
      size == ReadVarUInt(buf, type.pos)
      repeated == ReadUInt8(buf, size.pos)
      optional == ReadUInt8(buf, repeated.pos)
      encoding == ReadUInt8(buf, optional.pos)
      flat == Field(id.v, name.v, FieldTypes[type.v + 1], size.v, repeated.v > 0,
                    optional.v > 0, Encodings[encoding.v + 1])
      sub == DecodeSchema(buf, encoding.pos)
      field == IF flat.type = "OBJECT" THEN [flat EXCEPT !.schema = sub.schema] ELSE flat
      pos == IF flat.type = "OBJECT" THEN sub.pos ELSE encoding.pos
  IN IF n = 0 \/ st.pos = 0 THEN st
     ELSE IF encoding.pos = 0 THEN [st EXCEPT !.pos = 0]
     ELSE DecodeFields(buf, [schema |-> [st.schema EXCEPT !.fields = Append(@, field)],
                             pos |-> pos], n - 1)
DecodeSchema(buf, p) ==
  LET name == ReadLenencString(buf, ReadUInt8(buf, p).pos)
      n == ReadVarUInt(buf, name.pos)
  IN DecodeFields(buf, [schema |-> [name |-> name.v, fields |-> <<>>], pos |-> n.pos], n.v)

(* The keys of the JSON form *)
KName == <<420>>
KColumns == <<421>>
KId == <<422>>
KType == <<423>>
KTypeSize == <<424>>
KOptional == <<425>>
KRepeated == <<426>>
KEncodingHint == <<427>>
KSchema == <<428>>
TypeText(type) == <<440 + TypeCode(type)>>   \* fieldTypeToString()
TypeFromText(text) == FieldTypes[text[1] - 440 + 1]

JoinComma(texts) ==
  FlattenSeq([i \in 1..Len(texts) |-> IF i = 1 THEN texts[i] ELSE <<Comma>> \o texts[i]])
Entry(key, text) == AddObjectEntry(key) \o text
BoolText(b) == IF b THEN TrueText ELSE FalseText

(* toJSON(): the encoding is never told. *)
RECURSIVE SchemaToJSON(_)
SchemaToJSON(schema) ==
  LET One(f) ==
        <<BraceOpen>>
          \o JoinComma(<<Entry(KId, Decimal(f.id)), Entry(KName, AddString(f.name)),
                         Entry(KType, AddString(TypeText(f.type))),
                         Entry(KTypeSize, Decimal(f.size)),
                         Entry(KOptional, BoolText(f.optional)),
                         Entry(KRepeated, BoolText(f.repeated)),
                         Entry(KEncodingHint, AddString(<<429>>))>>
                       \o (IF f.type # "OBJECT" THEN <<>>
                           ELSE <<Entry(KSchema, SchemaToJSON(f.schema))>>))
          \o <<BraceClose>>
      columns == JoinComma([i \in 1..Len(schema.fields) |-> One(schema.fields[i])])
  IN <<BraceOpen>>
       \o JoinComma(<<Entry(KName, AddString(schema.name)),
                      Entry(KColumns, <<BracketOpen>> \o columns \o <<BracketClose>>)>>)
       \o <<BraceClose>>

(* fromJSON(): the schema of an object field is not read. *)
SchemaFromJSON(obj) ==
  LET cols == ObjectLookup(obj, 1, KColumns)
      FieldAt(b) ==
        LET id == ObjectGetUInt64(obj, b, KId)
            name == ObjectGetString(obj, b, KName)
            type == ObjectGetString(obj, b, KType)
            size == ObjectGetUInt64(obj, b, KTypeSize)
            optional == ObjectGetBool(obj, b, KOptional)
            repeated == ObjectGetBool(obj, b, KRepeated)
        IN IF \E x \in {id.kind, name.kind, type.kind, size.kind, optional.kind, repeated.kind} :
                x \in {"none", "raised"}
           THEN Raised
           ELSE [kind |-> "field",
                 v |-> Field(id.v, name.v, TypeFromText(type.v), size.v, repeated.v,
                             optional.v, "NONE")]
      fields == [i \in 1..ArrayLength(obj, cols) |-> FieldAt(ArrayLookup(obj, cols, i - 1))]
  IN IF cols > Len(obj) \/ \E i \in DOMAIN fields : IsRaised(fields[i]) THEN Raised
     ELSE [kind |-> "schema",
           v |-> [name |-> ObjectGetString(obj, 1, KName).v,
                  fields |-> [i \in DOMAIN fields |-> fields[i].v]]]

(* columns(): the leaves, with the names of the objects they are in *)
RECURSIVE Columns(_)
Columns(schema) ==
  LET Of(f) == IF f.type # "OBJECT" THEN << <<f.name, f>> >>
               ELSE LET cld == Columns(f.schema)
                    IN [i \in 1..Len(cld) |-> <<f.name \o <<Dot>> \o cld[i][1], cld[i][2]>>]
  IN FlattenSeq([i \in 1..Len(schema.fields) |-> Of(schema.fields[i])])

(* fromProtobuf(): an enum is an integer with the largest of its values *)
SetMax(values) == IF values = {} THEN 0 ELSE CHOOSE m \in values : \A x \in values : x <= m
RECURSIVE FromProtobuf(_)
FromProtobuf(dsc) ==
  LET Plain(f, type, size) ==
        Field(f.number, f.name, type, size, f.repeated, f.optional, f.encoding)
      One(f) ==
        CASE f.type = "bool" -> Plain(f, "BOOLEAN", 0)
          [] f.type = "string" -> Plain(f, "STRING", f.maxval)
          [] f.type = "uint32" -> Plain(f, "UINT32", f.maxval)
          [] f.type = "uint64" -> Plain(f, "UINT64", f.maxval)
          [] f.type = "double" -> Plain(f, "DOUBLE", 0)
          [] f.type = "enum" ->
               [Plain(f, "UINT32", SetMax(f.values)) EXCEPT
                  !.encoding = IF SetMax(f.values) < 250 THEN "BITPACK" ELSE "LEB128"]
          [] f.type = "message" ->
               MkObjectField(f.number, f.name, f.repeated, f.optional, FromProtobuf(f.message))
  IN [name |-> dsc.name, fields |-> [i \in 1..Len(dsc.fields) |-> One(dsc.fields[i])]]
-----------------------------------------------------------------------------
(* MessageObject and MessageEncoder *)
Msg(id, type, v) == [id |-> id, type |-> type, v |-> v]

(* asUInt32(), asUInt64(), asBool() and the others convert some types into *)
(* each other; for the rest they raise.                                    *)
Converts(type, to) ==
  \/ type = to
  \/ to = "UINT32" /\ type = "UINT64"
  \/ to \in {"UINT64", "DATETIME"} /\ type \in {"UINT32", "UINT64", "DATETIME"}
  \/ to = "BOOLEAN" /\ type = "UINT32"
WireType(type) ==
  CASE type \in {"OBJECT", "STRING"} -> 2
    [] type = "DOUBLE" -> 1
    [] OTHER -> 0

Key(id, wire) == AppendVarUInt(8 * id + wire)

(* encodeObject(): [kind, v], the bytes of one field *)
EncodedBytes(parts) ==
  IF \E i \in DOMAIN parts : IsRaised(parts[i]) THEN Raised
  ELSE [kind |-> "bytes", v |-> FlattenSeq([i \in DOMAIN parts |-> parts[i].v])]
RECURSIVE EncodeMessage(_, _)
EncodeMessage(msg, schema) ==
  LET One(m) ==
        LET f == FieldOf(schema, m.id)
            key == Key(m.id, WireType(f.type))
            cld == EncodeMessage(m, f.schema)
        IN IF ~HasField(schema, m.id) \/ ~Converts(m.type, f.type) THEN Raised
           ELSE CASE f.type = "OBJECT" ->
                       IF IsRaised(cld) THEN Raised
                       ELSE [kind |-> "bytes", v |-> key \o AppendLenencString(cld.v)]
                  [] f.type = "STRING" -> [kind |-> "bytes", v |-> key \o AppendLenencString(m.v)]
                  [] f.type = "DOUBLE" -> [kind |-> "bytes", v |-> key \o m.v]
                  [] f.type = "BOOLEAN" ->
                       [kind |-> "bytes", v |-> Append(key, IF m.v > 0 THEN 1 ELSE 0)]
                  [] OTHER -> [kind |-> "bytes", v |-> key \o AppendVarUInt(m.v)]
  IN EncodedBytes([i \in 1..Len(msg.v) |-> One(msg.v[i])])

(* Mutant of SkipUnknown: of a text only the length is skipped. *)
SkipUnknownShort(buf, p, wire) ==
  CASE wire \in {0, 2} -> ReadVarUInt(buf, p).pos
    [] wire = 5 -> ReadBytes(buf, p, 4).pos
    [] wire = 1 -> ReadBytes(buf, p, 8).pos
    [] OTHER -> 0

(* The position behind a field that the schema does not have *)
SkipUnknown(buf, p, wire) ==
  CASE wire = 0 -> ReadVarUInt(buf, p).pos
    [] wire = 2 -> ReadLenencString(buf, p).pos
    [] wire = 5 -> ReadBytes(buf, p, 4).pos
    [] wire = 1 -> ReadBytes(buf, p, 8).pos
    [] OTHER -> 0

RECURSIVE DecodeMessage(_, _), DecodeFrom(_, _, _, _), DecodeField(_, _, _)
(* One known field at p, [v: the child, pos] *)
DecodeField(buf, p, f) ==
  LET text == ReadLenencString(buf, p)
      num == ReadVarUInt(buf, p)
      eight == ReadBytes(buf, p, 8)
      sub == DecodeMessage(text.v, f.schema)
  IN CASE f.type = "OBJECT" ->
            [v |-> Msg(f.id, "OBJECT", IF IsRaised(sub) THEN <<>> ELSE sub.v),
             pos |-> IF IsRaised(sub) THEN 0 ELSE text.pos]
       [] f.type = "STRING" -> [v |-> Msg(f.id, "STRING", text.v), pos |-> text.pos]
       [] f.type = "DOUBLE" -> [v |-> Msg(f.id, "DOUBLE", eight.v), pos |-> eight.pos]
       [] f.type = "BOOLEAN" ->
            [v |-> Msg(f.id, "BOOLEAN", IF num.v = 1 THEN 1 ELSE 0), pos |-> num.pos]
       [] OTHER -> [v |-> Msg(f.id, f.type, num.v), pos |-> num.pos]

(* decode(): [kind, v], the children of the message in the buffer *)
DecodeFrom(buf, p, schema, children) ==
  LET key == ReadVarUInt(buf, p)
      id == key.v \div 8
      known == HasField(schema, id)
      child == DecodeField(buf, key.pos, FieldOf(schema, id))
      next == IF known THEN child.pos ELSE SkipUnknown(buf, key.pos, key.v % 8)
  IN CASE p = 0 -> Raised
       [] p > Len(buf) -> [kind |-> "children", v |-> children]
       [] OTHER -> DecodeFrom(buf, next, schema,
                              IF known /\ next # 0 THEN Append(children, child.v) ELSE children)
DecodeMessage(buf, schema) == DecodeFrom(buf, 1, schema, <<>>)

(* JSONEncoder::encode(): of a repeated field only the first value is      *)
(* written; the double 0.0 and the abnormal ones are written as null.      *)
ZeroDouble == [i \in 1..8 |-> 0]
DoubleText == <<Zero + 5, Dot, Zero + 5>>   \* the text of any other double
RECURSIVE MessageToJSON(_, _)
MessageToJSON(msg, schema) ==
  LET Value(m, f) ==
        CASE f.type = "OBJECT" -> MessageToJSON(m, f.schema)
          [] f.type = "BOOLEAN" -> BoolText(m.v > 0)
          [] f.type = "STRING" -> AddString(m.v)
          [] f.type = "DOUBLE" -> IF m.v = ZeroDouble THEN NullText ELSE DoubleText
          [] OTHER -> Decimal(m.v)
      One(f) ==
        LET of == SelectSeq(msg.v, LAMBDA m : m.id = f.id)
            text == IF f.repeated THEN <<BracketOpen>> \o Value(of[1], f) \o <<BracketClose>>
                    ELSE JoinComma([i \in 1..Len(of) |-> Value(of[i], f)])
        IN IF of = <<>> THEN <<>> ELSE <<Entry(f.name, text)>>
      entries == FlattenSeq([i \in 1..Len(schema.fields) |-> One(schema.fields[i])])
  IN <<BraceOpen>> \o JoinComma(entries) \o <<BraceClose>>
-----------------------------------------------------------------------------
(* DynamicMessage *)
(* The eight bytes of std::stod() of a whole number, as far as they matter *)
DoubleBytes(n) ==
  [i \in 1..8 |-> CASE i = 1 -> n % 256 [] i = 8 /\ n # 0 -> 64 [] OTHER -> 0]

(* unixMicros(), for the first half hour of the epoch *)
UnixMicros(t) == 1000 * t.ms + t.us

(* addField(): the children with the new one, which is left out if the     *)
(* text is not one of the field's type.                                    *)
AddTextField(msg, schema, name, text, now) ==
  LET f == FieldOf(schema, FieldId(schema, name))
      Child(type, v) == [msg EXCEPT !.v = Append(@, Msg(f.id, type, v))]
  IN CASE ~HasFieldNamed(schema, name) -> msg
       [] f.type = "BOOLEAN" /\ ParseBoolean(text) # "none" ->
            Child("BOOLEAN", IF ParseBoolean(text) = "true" THEN 1 ELSE 0)
       [] f.type \in {"UINT32", "UINT64"} /\ LeadingDigits(text) # <<>> ->
            Child(f.type, Number(LeadingDigits(text)))
       [] f.type = "DOUBLE" /\ LeadingDigits(text) # <<>> ->
            Child("DOUBLE", DoubleBytes(Number(LeadingDigits(text))))
       [] f.type = "STRING" -> Child("STRING", text)
       [] f.type = "DATETIME" /\ ParseTime(text, now) # NoTime ->
            Child("DATETIME", UnixMicros(ParseTime(text, now)))
       [] OTHER -> msg

(* addUInt32Field(), addUInt64Field(), addDateTimeField(), addBoolField(),  *)
(* addStringField() and addObject(): the type must be the field's own.     *)
AddTypedField(msg, schema, name, type, v) ==
  LET f == FieldOf(schema, FieldId(schema, name))
  IN IF ~HasFieldNamed(schema, name) THEN msg
     ELSE IF f.type # type THEN msg
     ELSE [msg EXCEPT !.v = Append(@, Msg(f.id, type, v))]

-----------------------------------------------------------------------------
(***************************************************************************)
(* A record on its way: a DynamicMessage is filled field by field, its     *)
(* schema and its bytes are sent, and a reader, who may know an older or a *)
(* newer version of the schema, decodes it, writes it as JSON and looks    *)
(* fields up in the JSON document.                                         *)
(***************************************************************************)

CONSTANTS
  RecordCases,   \* sequence of [writer: schema, reader: schema, fields: the fields to add]
  Now            \* the current time, for texts that name a time relative to it

VARIABLES
  at,            \* "fill", "schema", "encode", "decode", "json", "done"
  todo,          \* the fields that are still to be added, [name, type, v];
                 \*   type "TEXT": by its text
  case,          \* the record case
  msg,           \* data_ of the writer's message
  wire,          \* what has been sent
  schema,        \* the schema that the reader got
  got,           \* the children that the reader decoded
  text           \* their JSON text

recordVars == <<at, todo, case, msg, wire, schema, got, text>>

RecordInit ==
  /\ case \in 1..Len(RecordCases)
  /\ todo = RecordCases[case].fields
  /\ at = "fill"
  /\ msg = Msg(0, "OBJECT", <<>>)
  /\ wire = <<>> /\ got = <<>> /\ text = <<>> /\ schema = NoSchema

(* addField(), addUInt32Field() and the others; addObject() is handed a    *)
(* function that fills the child.                                          *)
AddTo(m, s, f) ==
  IF f.type = "TEXT" THEN AddTextField(m, s, f.name, f.v, Now)
  ELSE AddTypedField(m, s, f.name, f.type, f.v)
RECURSIVE Filled(_, _, _)
Filled(m, s, fields) ==
  IF fields = <<>> THEN m
  ELSE LET f == fields[1]
           sub == FieldOf(s, FieldId(s, f.name)).schema
           v == IF f.type = "OBJECT" /\ HasFieldNamed(s, f.name)
                THEN Filled(Msg(0, "OBJECT", <<>>), sub, f.v).v ELSE f.v
       IN Filled(AddTo(m, s, [f EXCEPT !.v = v]), s, Tail(fields))

Fill ==
  /\ at = "fill"
  /\ IF todo = <<>> THEN at' = "schema" /\ UNCHANGED <<msg, todo>>
     ELSE /\ msg' = Filled(msg, RecordCases[case].writer, <<todo[1]>>)
          /\ todo' = Tail(todo)
          /\ UNCHANGED at
  /\ UNCHANGED <<case, wire, schema, got, text>>

(* The reader's schema crosses the wire, too. *)
SendSchema ==
  /\ at = "schema"
  /\ schema' = DecodeSchema(EncodeSchema(RecordCases[case].reader), 1).schema
  /\ at' = "encode"
  /\ UNCHANGED <<todo, case, msg, wire, got, text>>

EncodeRecord ==
  /\ at = "encode"
  /\ wire' = EncodeMessage(msg, RecordCases[case].writer).v
  /\ at' = "decode"
  /\ UNCHANGED <<todo, case, msg, schema, got, text>>

DecodeRecord ==
  /\ at = "decode"
  /\ \E r \in {DecodeMessage(wire, schema)} :
       /\ got' = IF IsRaised(r) THEN <<>> ELSE r.v
       /\ at' = IF IsRaised(r) THEN "raised" ELSE "json"
  /\ UNCHANGED <<todo, case, msg, wire, schema, text>>

ToJSONText ==
  /\ at = "json"
  /\ text' = MessageToJSON(Msg(0, "OBJECT", got), schema)
  /\ at' = "done"
  /\ UNCHANGED <<todo, case, msg, wire, schema, got>>

RecordNext == Fill \/ SendSchema \/ EncodeRecord \/ DecodeRecord \/ ToJSONText
-----------------------------------------------------------------------------
(* What a reader with the schema s can know of the children of a message *)
RECURSIVE Known(_, _)
Known(children, s) ==
  LET mine == SelectSeq(children, LAMBDA m : HasField(s, m.id))
  IN [i \in 1..Len(mine) |->
        LET f == FieldOf(s, mine[i].id)
        IN [mine[i] EXCEPT !.type = f.type,
                           !.v = IF f.type = "OBJECT" THEN Known(@, f.schema) ELSE @]]

(* A message that is decoded with another version of its schema has all    *)
(* the fields that this version knows, in their order and with their       *)
(* values, and none of the others, at every depth (MessageDecoder::decode  *)
(* skips what it does not know).                                           *)
MessagesComeBack ==
  /\ at # "raised"
  /\ at \in {"json", "done"} =>
       /\ schema = RecordCases[case].reader
       /\ got = Known(msg.v, RecordCases[case].reader)

(* The text of a scalar in a JSON document *)
LeafText(m) ==
  IF m.type = "STRING" THEN [i \in 1..Len(m.v) |->
       CASE m.v[i] = LF -> LowerN [] m.v[i] = TAB -> LowerT [] OTHER -> m.v[i]]
  ELSE Decimal(m.v)

RECURSIVE HasArray(_), Single(_, _), Leaves(_, _, _)
HasArray(s) ==
  \E i \in DOMAIN s.fields :
    s.fields[i].repeated \/ (s.fields[i].type = "OBJECT" /\ HasArray(s.fields[i].schema))

(* No field has two values that is not repeated. *)
Single(children, s) ==
  /\ \A i, j \in DOMAIN children :
       children[i].id = children[j].id => i = j \/ FieldOf(s, children[i].id).repeated
  /\ \A i \in DOMAIN children :
       children[i].type = "OBJECT" => Single(children[i].v, FieldOf(s, children[i].id).schema)

(* The leaves up to the first array, behind which the paths are wrong, as  *)
(* [path, text]; a boolean is read as "".                                  *)
Leaves(children, s, path) ==
  LET Stops(f) == f.repeated \/ (f.type = "OBJECT" /\ HasArray(f.schema))
      single == {i \in DOMAIN s.fields : ~s.fields[i].repeated
                                         /\ \A j \in 1..(i - 1) : ~Stops(s.fields[j])}
      Of(f) == SelectSeq(children, LAMBDA m : m.id = f.id)
  IN UNION {LET f == s.fields[i] IN
              IF Of(f) = <<>> \/ f.type \in {"BOOLEAN", "DOUBLE"} THEN {}
              ELSE IF f.type = "OBJECT" THEN Leaves(Of(f)[1].v, f.schema, Push(path, f.name))
              ELSE {[path |-> Push(path, f.name), text |-> LeafText(Of(f)[1])]}
            : i \in single}

(* The JSON text of a decoded message whose fields do not have surplus     *)
(* values is one that the readers of JSON take without raising, and        *)
(* JSONDocument::get() finds in it every number and every string that      *)
(* stands before the first array, under its path.                          *)
DocumentLeaves ==
  at = "done" /\ Single(got, schema) =>
    /\ ~IsRaised(ParseJSON(text))
    /\ \A leaf \in Leaves(got, schema, <<>>) :
         Get(MkJSONDocument(text), leaf.path) = [kind |-> "string", v |-> leaf.text]

(* A schema without objects and without hints on encodings survives its    *)
(* JSON form (MessageSchema::toJSON, MessageSchema::fromJSON).             *)
SchemasComeBack ==
  LET s == RecordCases[case].writer
      obj == ParseJSON(SchemaToJSON(s))
  IN at = "schema" =>
       /\ ~IsRaised(obj)
       /\ (\A i \in DOMAIN s.fields : s.fields[i].type # "OBJECT" /\ s.fields[i].encoding = "NONE")
            => SchemaFromJSON(obj.v) = [kind |-> "schema", v |-> s]

(* A record survives its encodings: a reader whose schema lacks fields of  *)
(* the writer's gets the others from the protobuf form, and stx::json      *)
(* reads in the JSON forms of messages and schemas what was in them,       *)
(* strings with quotes, backslashes and slashes included.                  *)
RecordsTravel == MessagesComeBack /\ DocumentLeaves /\ SchemasComeBack
=============================================================================
