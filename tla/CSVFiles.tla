------------------------------ MODULE CSVFiles ------------------------------
(***************************************************************************)
(* A CSV file and its two readers: CSVTableRef, which a query scans, any   *)
(* number of times, and the from-csv command of cstable, which reads the   *)
(* file twice, to find out the types of the columns and to write them.     *)
(* The file has been written by somebody who quotes a cell when it has a   *)
(* separator in it.                                                        *)
(***************************************************************************)
EXTENDS Conversions

CONSTANTS
  CSVCases,      \* sequence of [rows, bom, params, user: "scan" or "import"]
  MaxScans,      \* how often a table is scanned
  CSVNow         \* the current time

VARIABLES
  csv,           \* the case
  file,          \* what is in the file
  pos,           \* the position of the input stream, counted from 1
  stage,         \* "open", "ready", "scan", "detect", "write", "done", "raised", "loops"
  headers,       \* headers_ of the table, columns of the import: the first row
  num_cols,      \* num_cols_, -1 until it is known
  scans,         \* history: the rows of every scan
  types,         \* column_types of the import, by the name of the column
  columns        \* column_writers, by name: [type, levels, data]

csvVars == <<csv, file, pos, stage, headers, num_cols, scans, types, columns>>

BOM == <<239, 187, 191>>
Separators(case) == [col |-> IF case.user = "import" THEN TAB ELSE case.params.col_sep,
                     row |-> IF case.user = "import" THEN LF ELSE case.params.row_sep,
                     quote |-> IF case.user = "import" THEN Quote ELSE case.params.quote_char]

(* The author of the file *)
CellText(cell, seps) ==
  IF \E i \in 1..Len(cell) : cell[i] \in {seps.col, seps.row}
  THEN <<seps.quote>> \o cell \o <<seps.quote>> ELSE cell
RowText(row, seps) ==
  FlattenSeq([i \in 1..Len(row) |->
                (IF i = 1 THEN <<>> ELSE <<seps.col>>) \o CellText(row[i], seps)])
FileText(case) ==
  (IF case.bom THEN BOM ELSE <<>>)
    \o FlattenSeq([i \in 1..Len(case.rows) |->
                     Append(RowText(case.rows[i], Separators(case)), Separators(case).row)])
-----------------------------------------------------------------------------
(* readByteOrderMark(): the position behind it *)
AfterByteOrderMark(text) ==
  IF IsPrefix(BOM, text) THEN 4 ELSE IF IsPrefix(<<255, 254>>, text) THEN 3 ELSE 1

(* One byte in readNextRow(): a quote character turns quoting on and off   *)
(* and is dropped, wherever it stands.                                     *)
RowByte(st, c, seps) ==
  CASE st.end -> st
    [] ~st.quoted /\ c = seps.col ->
         [st EXCEPT !.pos = @ + 1, !.row = Append(@, <<>>)]
    [] ~st.quoted /\ c = seps.row -> [st EXCEPT !.pos = @ + 1, !.end = TRUE]
    [] c = seps.quote -> [st EXCEPT !.pos = @ + 1, !.quoted = ~@]
    [] OTHER -> [st EXCEPT !.pos = @ + 1, !.row[Len(st.row)] = Append(@, c)]

(* readNextRow(): [row, pos, ok]; ok is false at the end of the file, even *)
(* if it has come behind a last row without a separator.                   *)
ReadNextRow(text, p, seps) ==
  LET start == [row |-> << <<>> >>, pos |-> p, quoted |-> FALSE, end |-> FALSE]
      st == FoldLeft(LAMBDA s, c : RowByte(s, c, seps), start, SubSeq(text, p, Len(text)))
  IN [row |-> st.row, pos |-> st.pos, ok |-> st.end]

ReadRow == ReadNextRow(file, pos, Separators(csv))
-----------------------------------------------------------------------------
CSVInit ==
  /\ \E i \in 1..Len(CSVCases) : csv = CSVCases[i]
  /\ file = FileText(csv)
  /\ pos = AfterByteOrderMark(file)
  /\ stage = "open"
  /\ headers = <<>> /\ num_cols = -1 /\ scans = <<>> /\ types = <<>> /\ columns = <<>>

(* CSVBackend::openTables() and the constructor of CSVTableRef *)
OpenTable ==
  /\ stage = "open" /\ csv.user = "scan"
  /\ \E r \in {ReadRow} :
       IF ~csv.params.headers THEN stage' = "ready" /\ UNCHANGED <<pos, headers, num_cols>>
       ELSE IF ~r.ok THEN stage' = "raised" /\ UNCHANGED <<pos, headers, num_cols>>
       ELSE /\ stage' = "ready"
            /\ pos' = r.pos
            /\ headers' = r.row
            /\ num_cols' = Len(r.row)
  /\ UNCHANGED <<csv, file, scans, types, columns>>

(* Mutant of Rewound: the row with the headers is not skipped. *)
RewoundToHeaders == 1

(* rewind(): the first byte of the file, or the row behind the headers *)
Rewound == IF headers = <<>> THEN 1 ELSE ReadNextRow(file, 1, Separators(csv)).pos

(* executeScan() begins; a table that has been read before is rewound. *)
StartScan ==
  /\ stage = "ready" /\ Len(scans) < MaxScans
  /\ pos' = IF scans = <<>> THEN pos ELSE Rewound
  /\ scans' = Append(scans, <<>>)
  /\ stage' = "scan"
  /\ UNCHANGED <<csv, file, headers, num_cols, types, columns>>

(* One round of executeScan(): all rows have to have the same width. *)
ScanRow ==
  /\ stage = "scan"
  /\ \E r \in {ReadRow} :
       /\ pos' = r.pos
       /\ IF ~r.ok THEN stage' = "ready" /\ UNCHANGED <<num_cols, scans>>
          ELSE IF num_cols \notin {-1, Len(r.row)}
          THEN stage' = "raised" /\ UNCHANGED <<num_cols, scans>>
          ELSE /\ num_cols' = Len(r.row)
               /\ scans' = [scans EXCEPT ![Len(scans)] = Append(@, r.row)]
               /\ UNCHANGED stage
  /\ UNCHANGED <<csv, file, headers, types, columns>>
-----------------------------------------------------------------------------
(* cmd_from_csv() *)
ReadColumns ==
  /\ stage = "open" /\ csv.user = "import"
  /\ \E r \in {ReadRow} :
       /\ pos' = r.pos
       /\ headers' = r.row
       /\ types' = [h \in ToSet(r.row) |-> UNKNOWN]
  /\ stage' = "detect"
  /\ UNCHANGED <<csv, file, num_cols, scans, columns>>

(* How many cells of a row belong to a column; a name that stands twice in *)
(* the first row is one column with the cells of both.                     *)
Width(row) == IF Len(row) < Len(headers) THEN Len(row) ELSE Len(headers)

(* The type of every column after one more row *)
TypesAfter(row) ==
  FoldLeft(LAMBDA ts, i :
             [ts EXCEPT ![headers[i]] = DetectDataTypeSeries(DetectDataType(row[i], CSVNow), @)],
           types, [i \in 1..Width(row) |-> i])

DetectRow ==
  /\ stage = "detect"
  /\ \E r \in {ReadRow} :
       /\ r.ok
       /\ pos' = r.pos
       /\ \E ts \in {TypesAfter(r.row)} :
            /\ types' = ts
            /\ stage' = IF \E h \in DOMAIN ts : ts[h] = Type("LOOPS") THEN "loops" ELSE "detect"
  /\ UNCHANGED <<csv, file, headers, num_cols, scans, columns>>

DefinitionLevel(type, kind) == IF kind = "STRING" \/ type.nullable THEN 1 ELSE 0

(* The writer of a column, [type, dmax]; None for a column without values  *)
WriterOf(type) ==
  LET kind == CASE type.base = "UNSIGNED_INTEGER" -> "UINT64"
                [] type.base \in {"SIGNED_INTEGER", "FLOAT"} -> "DOUBLE"
                [] type.base = "BOOLEAN" -> "BOOLEAN"
                [] type.base = "NULL_OR_EMPTY" -> "NONE"
                [] OTHER -> "STRING"
  IN [type |-> kind, dmax |-> DefinitionLevel(type, kind),
      levels |-> <<>>, data |-> <<>>]

(* All rows have been read: the writers are made and the file is rewound;  *)
(* its first row is skipped.                                               *)
MakeWriters ==
  /\ stage = "detect"
  /\ ~ReadRow.ok
  /\ IF \E h \in DOMAIN types : types[h] \in {UNKNOWN, BINARY}
     THEN stage' = "raised" /\ UNCHANGED <<pos, columns>>
     ELSE /\ columns' = [h \in DOMAIN types |-> WriterOf(types[h])]
          /\ pos' = ReadNextRow(file, 1, Separators(csv)).pos
          /\ stage' = "write"
  /\ UNCHANGED <<csv, file, headers, num_cols, scans, types>>

(* std::stoull() and std::stod() raise *)
Refused(col, text) ==
  /\ col.type \in {"UINT64", "DOUBLE"}
  /\ ~IsNullOrEmpty(text)
  /\ SelectSeq(text, IsDigit) = <<>>

(* addDatum() of a value and addNull() *)
AddCell(col, text) ==
  CASE col.type = "NONE" -> col
    [] IsNullOrEmpty(text) -> [col EXCEPT !.levels = Append(@, 0)]
    [] OTHER ->
         [col EXCEPT !.levels = Append(@, col.dmax),
                     !.data = Append(@, CASE col.type = "STRING" -> text
                                          [] col.type = "BOOLEAN" -> <<ParseBoolean(text)>>
                                          [] OTHER -> <<text # <<>> /\ text[1] = Minus,
                                                        Number(SelectSeq(text, IsDigit))>>)]

WriteRow ==
  /\ stage = "write"
  /\ \E r \in {ReadRow} :
       /\ pos' = r.pos
       /\ IF ~r.ok THEN stage' = "done" /\ UNCHANGED columns
          ELSE IF \E i \in 1..Width(r.row) : Refused(columns[headers[i]], r.row[i])
          THEN stage' = "raised" /\ UNCHANGED columns
          ELSE /\ columns' =
                    FoldLeft(LAMBDA cols, i : [cols EXCEPT ![headers[i]] = AddCell(@, r.row[i])],
                             columns, [i \in 1..Width(r.row) |-> i])
               /\ UNCHANGED stage
  /\ UNCHANGED <<csv, file, headers, num_cols, scans, types>>

CSVNext == OpenTable \/ StartScan \/ ScanRow \/ ReadColumns \/ DetectRow \/ MakeWriters \/ WriteRow
-----------------------------------------------------------------------------
(* What the author meant *)
Rectangular(case) == \A i \in 1..Len(case.rows) : Len(case.rows[i]) = Len(case.rows[1])
Body(case, skip) == IF skip THEN Tail(case.rows) ELSE case.rows

(* Every scan of a table sees the rows of the file in their order, the     *)
(* first one as well as those after a rewind (CSVTableRef::executeScan);   *)
(* only a byte order mark comes back as part of the first cell when there  *)
(* are no headers.  Only a file without a first row or with rows of        *)
(* different widths is refused.                                            *)
ScansAgree ==
  csv.user = "scan" =>
    LET rows == Body(csv, csv.params.headers)
    IN /\ Rectangular(csv) /\ csv.rows # <<>> => stage # "raised"
       /\ \A n \in 1..Len(scans) :
            \/ IsPrefix(scans[n], rows)
            \/ csv.bom /\ ~csv.params.headers /\ n > 1
       /\ stage = "ready" /\ scans # <<>> => Len(Last(scans)) = Len(rows)

(* The types of the cells below the name *)
Detected(case, name) ==
  UNION {{DetectDataType(case.rows[n][i], CSVNow) :
            i \in {j \in 1..Width(case.rows[n]) : headers[j] = name}} : n \in 2..Len(case.rows)}

(* The type that fits a set of types, without regard to their order *)
CommonType(ts) ==
  LET vals == ts \ {NULL_OR_EMPTY}
      bases == {t.base : t \in vals}
      numbers == {NumberTypes[i] : i \in 1..3}
      top == NumberTypes[CHOOSE r \in 1..3 : NumberTypes[r] \in bases
                                            /\ \A q \in (r + 1)..3 : NumberTypes[q] \notin bases]
      base == IF bases \subseteq numbers THEN top ELSE CHOOSE b \in bases : TRUE
  IN CASE ts = {} -> UNKNOWN
       [] BINARY \in ts -> BINARY
       [] vals = {} -> NULL_OR_EMPTY
       [] ~(bases \subseteq numbers) /\ (Cardinality(bases) > 1 \/ TEXT \in ts) -> TEXT
       [] OTHER -> [base |-> base, nullable |-> NULL_OR_EMPTY \in ts]

(* The type that the import finds for a column depends on the values in it *)
(* and never on their order (Human::detectDataTypeSeries).                 *)
TypesOrderFree ==
  csv.user = "import" /\ stage \in {"write", "done"} =>
    \A h \in DOMAIN types : types[h] = CommonType(Detected(csv, h))

(* What the import should store of a cell *)
Stored(col, i) ==
  LET n == Cardinality({j \in 1..i : col.levels[j] = col.dmax})
  IN IF col.levels[i] = col.dmax THEN <<col.data[n]>> ELSE <<>>
Meant(col, text) ==
  IF IsNullOrEmpty(text) THEN <<>>
  ELSE << CASE col.type = "STRING" -> text
            [] col.type = "BOOLEAN" -> <<IF text \in YesTexts THEN "true" ELSE "false">>
            [] OTHER -> <<text[1] = Minus, Number(SelectSeq(text, IsDigit))>> >>

(* A file that is rectangular, has every column name once and no cell that *)
(* is empty or a bare minus is imported completely: a reader of the        *)
(* columns gets the value of every cell in the row where it stood,         *)
(* although values were told apart from missing ones and types were found  *)
(* in a first reading (cmd_from_csv), whatever the order of the rows.      *)
ImportComesBack ==
  LET good == /\ Rectangular(csv)
              /\ Len(csv.rows) > 1
              /\ \A i, j \in 1..Len(headers) : headers[i] = headers[j] => i = j
              /\ \A n \in 2..Len(csv.rows), i \in 1..Len(csv.rows[1]) : csv.rows[n][i] \notin {<<>>, <<Minus>>}
              /\ \A h \in DOMAIN types : Detected(csv, h) \cap {BINARY, Type("LOOPS")} = {}
  IN /\ TypesOrderFree
     /\ csv.user = "import" /\ stage \in {"raised", "loops", "done"} /\ good =>
       /\ stage \notin {"raised", "loops"}
       /\ stage = "done" =>
            \A i \in 1..Len(headers) :
              LET col == columns[headers[i]]
              IN col.type # "NONE" =>
                   /\ Len(col.levels) = Len(csv.rows) - 1
                   /\ \A n \in 2..Len(csv.rows) :
                        Stored(col, n - 1) = Meant(col, csv.rows[n][i])
=============================================================================
