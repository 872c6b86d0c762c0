------------------------------ MODULE CSTable ------------------------------
(***************************************************************************)
(* Column tables: CSTableBuilder takes nested records apart into columns   *)
(* of (repetition level, definition level) pairs and a stream of values    *)
(* per column, and RecordMaterializer puts the records together again,     *)
(* column by column.                                                       *)
(*                                                                         *)
(* A record is an object: a function that gives the children of every      *)
(* field id in their order (the child list of msg::MessageObject looked    *)
(* up by id).  The child of a leaf field is a value.  A schema is a        *)
(* sequence of fields [id, repeated, optional, fields], and a field        *)
(* without subfields is a leaf, which is a column named by its id.         *)
(***************************************************************************)
EXTENDS Integers, FiniteSets, SequencesExt

CONSTANTS
    Schemas,        \* the schemas, by name
    Messages,       \* Messages[s][n]: what may be the n-th record of s
    MaxRecords,     \* bound on the records of a table
    MaxEntries,     \* bound on the entries of all its columns
    NULL            \* no value

VARIABLES
    schema,         \* name of the schema, never changes
    columns,        \* CSTableBuilder::columns_, by column name
    num_records,    \* num_records_
    stage,          \* "build", "raised" (an exception), "file" (after write())
    written,        \* history: the records that were added
    pos,            \* the materializer's next entry, per column
    out             \* history: what nextRecord() gave, NULL for skipRecord()

table == <<schema, columns, num_records, stage, written>>
materializer == <<pos, out>>

IsLeaf(f) == f.fields = << >>
MayBeMissing(f) == f.optional \/ f.repeated
Deeper(level, yes) == IF yes THEN level + 1 ELSE level

-----------------------------------------------------------------------------
\* createColumns(): the columns of a field, with their maximal levels and,
\* for the materializer, the objects on the way to them.
RECURSIVE CreateColumns(_, _, _, _)
CreateColumns(r_max, d_max, parents, f) ==
    LET r == Deeper(r_max, f.repeated)
        d == Deeper(d_max, MayBeMissing(f))
    IN IF IsLeaf(f)
       THEN {[name |-> f.id, r_max |-> r, d_max |-> d, parents |-> parents]}
       ELSE UNION {CreateColumns(r, d,
                       Append(parents, [id |-> f.id, repeated |-> f.repeated, dmax |-> d]),
                       f.fields[i]) : i \in DOMAIN f.fields}

ColumnsOf == [s \in DOMAIN Schemas |->
    UNION {CreateColumns(0, 0, << >>, Schemas[s][i]) : i \in DOMAIN Schemas[s]}]

ColumnTable == [s \in DOMAIN Schemas |->
    [c \in {x.name : x \in ColumnsOf[s]} |-> CHOOSE x \in ColumnsOf[s] : x.name = c]]

Columns == DOMAIN ColumnTable[schema]
Info(c) == ColumnTable[schema][c]

RECURSIVE FieldIds(_)
FieldIds(fields) ==
    UNION {{fields[i].id} \cup FieldIds(fields[i].fields) : i \in DOMAIN fields}

EmptyObject == [s \in DOMAIN Schemas |-> [id \in FieldIds(Schemas[s]) |-> << >>]]

-----------------------------------------------------------------------------
(***************************************************************************)
(* CSTableBuilder.  Adding a record is a sequence of writes to columns,    *)
(* which an exception ends early: what was written before it stays.        *)
(***************************************************************************)
AddDatum(c, r, d, v) == <<[col |-> c, r |-> r, d |-> d, val |-> v]>>
AddNull(c, r, d) == AddDatum(c, r, d, NULL)
Raise == AddNull(NULL, 0, 0)

\* The repetition level of the i-th child of a field: the first one keeps
\* the level of its parent.
ChildLevel(i, r, rmax) == IF i = 1 THEN r ELSE rmax

\* A missing field is NULL in all columns below it, with its parent's levels.
RECURSIVE WriteNull(_, _, _)
WriteNull(r, d, f) ==
    IF IsLeaf(f)
    THEN AddNull(f.id, r, d)
    ELSE FlattenSeq([i \in DOMAIN f.fields |-> WriteNull(r, d, f.fields[i])])

RECURSIVE AddRecordField(_, _, _, _, _)
AddRecordField(r, rmax, d, msg, f) ==
    LET rm == Deeper(rmax, f.repeated)
        next_d == Deeper(d, MayBeMissing(f))
        children == msg[f.id]
        Child(i) ==
            LET next_r == ChildLevel(i, r, rm) IN
            IF IsLeaf(f)
            THEN AddDatum(f.id, next_r, next_d, children[i])
            ELSE FlattenSeq([j \in DOMAIN f.fields |->
                     AddRecordField(next_r, rm, next_d, children[i], f.fields[j])])
    IN IF children # << >> THEN FlattenSeq([i \in DOMAIN children |-> Child(i)])
       ELSE IF MayBeMissing(f) THEN WriteNull(r, d, f)
       ELSE Raise

\* The writes of addRecord(): the fields in the order of the schema.
RecordWrites(msg) ==
    FlattenSeq([i \in DOMAIN Schemas[schema] |->
        AddRecordField(0, 0, 0, msg, Schemas[schema][i])])

\* The writes of one row of addRecordsFromCSV(), in the order of its header;
\* a column that the header lacks is written as one whose cell is empty.
CSVWrites(cells, order) ==
    FlattenSeq([i \in DOMAIN order |->
        LET c == order[i] IN
        IF cells[c] # NULL THEN AddDatum(c, 0, Info(c).d_max, cells[c])
        ELSE IF Info(c).d_max = 0 THEN Raise
        ELSE AddNull(c, 0, 0)])

Raises(ws) == \E i \in DOMAIN ws : ws[i].col = NULL
Done(ws) == SubSeq(ws, 1, SelectInSeq(ws \o Raise, LAMBDA w : w.col = NULL) - 1)

\* ColumnWriter::addDatum() and addNull(): both levels always, the value only
\* where there is one.
Apply(ws) == [c \in Columns |->
    LET mine == SelectSeq(ws, LAMBDA w : w.col = c)
        data == SelectSeq(mine, LAMBDA w : w.val # NULL)
    IN [levels |-> columns[c].levels
            \o [i \in DOMAIN mine |-> [r |-> mine[i].r, d |-> mine[i].d]],
        data |-> columns[c].data \o [i \in DOMAIN data |-> data[i].val]]]

NumEntries(cols) == MapThenSumSet(LAMBDA c : Len(cols[c].levels), Columns)

Add(ws, record) ==
    /\ stage = "build"
    /\ num_records < MaxRecords
    /\ columns' = Apply(Done(ws))
    /\ NumEntries(columns') <= MaxEntries
    /\ IF Raises(ws)
       THEN stage' = "raised" /\ UNCHANGED <<num_records, written>>
       ELSE /\ num_records' = num_records + 1
            /\ written' = Append(written, record)
            /\ stage' = stage
    /\ UNCHANGED <<schema, materializer>>

AddRecord(msg) == Add(RecordWrites(msg), msg)

\* The record that a CSV row stands for: one value where a cell has one, and
\* the objects that are required or lead to a value.
RECURSIVE CellsBelow(_)
CellsBelow(f) ==
    IF IsLeaf(f) THEN {f.id} ELSE UNION {CellsBelow(f.fields[i]) : i \in DOMAIN f.fields}

RECURSIVE CSVObject(_, _)
CSVObject(cells, fields) ==
    LET Field(id) == {i \in DOMAIN fields : fields[i].id = id} IN
    [id \in DOMAIN EmptyObject[schema] |->
        IF Field(id) = {} THEN << >>
        ELSE LET f == fields[CHOOSE i \in Field(id) : TRUE] IN
             IF /\ \A c \in CellsBelow(f) : cells[c] = NULL
                /\ IsLeaf(f) \/ MayBeMissing(f)
             THEN << >>
             ELSE IF IsLeaf(f) THEN <<cells[id]>> ELSE <<CSVObject(cells, f.fields)>>]

AddRecordFromCSV(cells, order) ==
    Add(CSVWrites(cells, order), CSVObject(cells, Schemas[schema]))

\* write(): from here on the columns are a file that readers open.
Write ==
    /\ stage = "build"
    /\ stage' = "file"
    /\ UNCHANGED <<schema, columns, num_records, written, materializer>>

-----------------------------------------------------------------------------
(***************************************************************************)
(* ColumnReader.  The levels are read in step, and the next value of the   *)
(* column's stream only where the definition level is the maximal one.     *)
(***************************************************************************)
Levels(c) == columns[c].levels
Defined(c, e) == Levels(c)[e].d = Info(c).d_max
Value(c, e) == columns[c].data[Cardinality({i \in 1..e : Defined(c, i)})]

\* The repetition level of the next entry; after the last one the decoder
\* finds its padding, or the end, and says 0.
NextRepetitionLevel(c, e) == IF e <= Len(Levels(c)) THEN Levels(c)[e].r ELSE 0

-----------------------------------------------------------------------------
(***************************************************************************)
(* RecordMaterializer.                                                     *)
(***************************************************************************)
\* The last entry of the record that begins at e.
RecordEnd(c, e) ==
    Min({i \in e..Len(Levels(c)) : i = Len(Levels(c)) \/ Levels(c)[i + 1].r = 0})

\* Mutant of NextIndexes: the counters of the levels below go on.
NextIndexesNoReset(indexes, r) ==
    [x \in DOMAIN indexes |-> IF x = r THEN indexes[x] + 1 ELSE indexes[x]]

\* The counters of loadColumn() that say which child of each repeated parent
\* the entry is for.
NextIndexes(indexes, r) ==
    [x \in DOMAIN indexes |-> IF x < r THEN indexes[x]
                              ELSE IF x = r THEN indexes[x] + 1 ELSE 0]

\* insertNull() leaves a parent alone that is not there.
Absent(parent, d) == parent.dmax > d

\* insertValue(), and insertNull() if v = NULL: walk down the parents, make
\* the children that are not there yet, and add the value to the last one.
RECURSIVE Insert(_, _, _, _, _, _)
Insert(object, parents, indexes, c, d, v) ==
    IF parents = << >>
    THEN IF v = NULL THEN object ELSE [object EXCEPT ![c] = Append(@, v)]
    ELSE LET p == Head(parents) IN
         IF Absent(p, d) THEN object
         ELSE LET target == IF p.repeated THEN indexes[1] + 1 ELSE 1
                  rest == IF p.repeated THEN Tail(indexes) ELSE indexes
                  old == object[p.id]
                  cld == [i \in 1..Max({Len(old), target}) |->
                             IF i <= Len(old) THEN old[i] ELSE EmptyObject[schema]]
              IN [object EXCEPT ![p.id] =
                     [cld EXCEPT ![target] = Insert(@, Tail(parents), rest, c, d, v)]]

LoadColumn(record, c) ==
    LET Step(st, e) ==
            LET lv == Levels(c)[e]
                indexes == NextIndexes(st.indexes, lv.r)
            IN [indexes |-> indexes,
                record |-> Insert(st.record, Info(c).parents, indexes, c, lv.d,
                                  IF Defined(c, e) THEN Value(c, e) ELSE NULL)]
        entries == [i \in 1..(RecordEnd(c, pos[c]) - pos[c] + 1) |-> pos[c] + i - 1]
    IN FoldLeft(Step, [indexes |-> [x \in 1..Info(c).r_max |-> 0], record |-> record],
                entries).record

\* Readers call either operation numRecords() times at most.
ReadRecord ==
    /\ stage = "file"
    /\ Len(out) < num_records
    /\ pos' = [c \in Columns |-> RecordEnd(c, pos[c]) + 1]
    /\ UNCHANGED table

\* columns_ is a hash map: its columns come in any order.
NextRecord(order) ==
    /\ ReadRecord
    /\ out' = Append(out, FoldLeft(LoadColumn, EmptyObject[schema], order))

SkipRecord ==
    /\ ReadRecord
    /\ out' = Append(out, NULL)

-----------------------------------------------------------------------------
TableInit ==
    /\ schema \in DOMAIN Schemas
    /\ columns = [c \in Columns |-> [levels |-> << >>, data |-> << >>]]
    /\ num_records = 0
    /\ stage = "build"
    /\ written = << >>
    /\ pos = [c \in Columns |-> 1]
    /\ out = << >>

Build ==
    \/ /\ num_records < MaxRecords
       /\ \E msg \in Messages[schema][num_records + 1] : AddRecord(msg)
    \/ \E cells \in [Columns -> {NULL, <<num_records + 1>>}] :
          \E order \in SetToSeqs(Columns) : AddRecordFromCSV(cells, order)
    \/ Write

Materialize ==
    \/ \E order \in SetToSeqs(Columns) : NextRecord(order)
    \/ SkipRecord

-----------------------------------------------------------------------------
\* A record comes back from its columns as it was added: every value under
\* its parents, in its order, with the objects that hold nothing and without
\* ones that were not there, whether the records before it were read or
\* skipped, and in whatever order the materializer takes the columns
\* (CSTableBuilder::addRecord, RecordMaterializer::nextRecord).
RecordsComeBack ==
    \A i \in DOMAIN out : out[i] \in {NULL, written[i]}
=============================================================================
