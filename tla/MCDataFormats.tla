--------------------------- MODULE MCDataFormats ---------------------------
(***************************************************************************)
(* The data formats and the messages of stx, and the files that it keeps   *)
(* data in, each with its own small machine; one of them runs at a time    *)
(* and the others stand still.                                             *)
(***************************************************************************)
EXTENDS Protobuf, CSVFiles, PageManager, FileStreams, PersistentHashSet, Statsd

CONSTANTS MaxTokenSize, Files, BasePath, CookiePath, FailPath
VARIABLES httpSent, want, httpStage, httpWire, srv, cli, answer, cut
httpVars == <<httpSent, want, httpStage, httpWire, srv, cli, answer, cut>>
H == INSTANCE HTTPMessages WITH sent <- httpSent, stage <- httpStage, wire <- httpWire

VARIABLE store                             \* the store that is in use, or "none"
storeVars == <<store, slotVars, pageVars, streamVars, statsVars>>

(* Two of the three ids meet at the same slot, the last one of the first table and of the grown one *)
MCSlotHash == [id \in Ids |-> IF id = 1 THEN 1 ELSE 5]

(* Integers of one and two bytes; strings that are empty, end in a chunk and *)
(* are longer than one                                                       *)
StreamValues ==
  {[string |-> FALSE, val |-> v, bytes |-> <<>>] : v \in {0, 300}} \cup
  {[string |-> TRUE, val |-> 0, bytes |-> b] : b \in {<<>>, <<7>>, <<200, 8, 9>>, <<1, 2, 3, 4, 5, 6, 7>>}}

(* Two counters by their increments and one by its value; a packet of      *)
(* another program with labels, and one that ends inside a key             *)
ExportedStats ==
  <<[path |-> 501, mode |-> "delta"], [path |-> 502, mode |-> "value"], [path |-> 503, mode |-> "delta"]>>
ForeignPackets ==
  LET label(name, val) == << <<name>>, <<val>> >>
  IN {[text |-> <<601, LabelBegin, 602, LabelSplit, 603, LabelEnd, LabelBegin, 604, LabelSplit, 605, LabelEnd,
                  ValueBegin, 7, Return, Newline, 501, ValueBegin, 2>>,
       meant |-> <<[path |-> <<601>>, labels |-> <<label(602, 603), label(604, 605)>>, number |-> 7],
                   [path |-> <<501>>, labels |-> <<>>, number |-> 2]>>],
      [text |-> <<601, ValueBegin, 3, Newline, 602>>, meant |-> <<>>]}

-----------------------------------------------------------------------------
(* JSON-RPC calls: for every type and value, methods that return their     *)
(* first or second argument, raise or break, called by position, by name,  *)
(* with too few arguments, in vain and in the wrong way.                   *)
Str(t) == [kind |-> "string", v |-> t]
I(n) == [kind |-> "int", v |-> n]
TString == [kind |-> "string"]
TInt == [kind |-> "int"]
Ls(n) == LowerA + n
Texts == <<<<>>, <<Quote, Backslash>>, <<Backslash, LowerN, Ls(2)>>, <<LF, TAB, BraceOpen>>, <<Comma, SP, BracketClose>> >>
Point == [kind |-> "class", props |-> <<[name |-> <<Ls(0)>>, type |-> TInt, optional |-> FALSE],
                                        [name |-> <<Ls(1)>>, type |-> [kind |-> "vector", of |-> TString], optional |-> TRUE]>>]
Pt(n, s) == [kind |-> "class", v |-> <<[name |-> <<Ls(0)>>, val |-> I(n)], [name |-> <<Ls(1)>>, val |-> s]>>]
Vec(s) == [kind |-> "vector", v |-> s]
Each(type, vals) == [i \in 1..Len(vals) |-> <<type, vals[i]>>]
PairSeq ==
  Each(TString, [i \in 1..Len(Texts) |-> Str(Texts[i])])
  \o Each(TInt, <<I(0), I(-7), I(120)>>)
  \o Each([kind |-> "bool"], <<[kind |-> "bool", v |-> TRUE], [kind |-> "bool", v |-> FALSE]>>)
  \o Each([kind |-> "time"], <<[kind |-> "time", v |-> 77]>>)
  \o Each([kind |-> "uint"], <<[kind |-> "uint", v |-> 10]>>)
  \o Each([kind |-> "map"], <<[kind |-> "map", v |-> <<>>],
        [kind |-> "map", v |-> (<<Ls(0)>> :> <<Quote>>) @@ (<<Quote>> :> <<LF>>)]>>)
  \o Each(Point, <<Pt(3, None), Pt(-1, Vec(<<>>)), Pt(5, Vec(<<Str(<<Quote>>), Str(<<BracketClose>>)>>))>>)
  \o Each([kind |-> "vector", of |-> Point], <<Vec(<<>>), Vec(<<Pt(3, None), Pt(1, Vec(<<Str(<<>>)>>))>>)>>)
  \o Each([kind |-> "vector", of |-> [kind |-> "vector", of |-> TInt]],
          <<Vec(<<Vec(<<>>), Vec(<<I(1), I(2)>>), Vec(<<I(3)>>)>>)>>)
Arg(n, type) == [name |-> <<Ls(n)>>, type |-> type]
Name(i, k) == <<500 + 10 * i + k>>
MCMethods ==
  [n \in {Name(i, k) : i \in DOMAIN PairSeq, k \in 0..3} |->
     LET i == (n[1] - 500) \div 10
         k == n[1] % 10
         first == Arg(4, PairSeq[i][1])
         second == Arg(5, TString)
     IN [args |-> IF k = 1 THEN <<second, first>> ELSE <<first, second>>,
         does |-> CASE k = 2 -> "raises" [] k = 3 -> "breaks" [] OTHER -> "returns",
         what |-> IF k = 1 THEN 2 ELSE 1]]
MCPath == <<Slash, 450, Slash>>
Call(i, k, params) == [method |-> Name(i, k), params |-> params, http |-> "POST", uri |-> <<Slash, 450, Slash>>, type |-> PairSeq[i][1]]
Txt == Str(<<Quote, Comma>>)
Named(x, y) == [kind |-> "class", v |-> <<[name |-> <<Ls(5)>>, val |-> y], [name |-> <<Ls(4)>>, val |-> x]>>]
CallsOf(i) ==
  LET x == PairSeq[i][2]
      c == Call(i, 0, Vec(<<x, Txt>>))
  IN <<c, Call(i, 1, Vec(<<Txt, x>>)), Call(i, 0, Named(x, Txt)), Call(i, 1, Named(x, Txt)),
       Call(i, 2, Vec(<<x, Txt>>)), Call(i, 3, Vec(<<x, Txt>>)), Call(i, 5, Vec(<<x, Txt>>)),
       [c EXCEPT !.http = "GET"], [c EXCEPT !.uri = <<Slash>>], Call(i, 0, Vec(<<x>>)),
       Call(i, 0, Vec(<<>>))>>
MCCalls == FlattenSeq([i \in 1..Len(PairSeq) |-> CallsOf(i)])
-----------------------------------------------------------------------------
(* Records: readers that know all fields, fewer, others, and those of      *)
(* objects inside.                                                         *)
F(id, type, repeated) == Field(id, <<Ls(id % 20)>>, type, 0, repeated, ~repeated, "NONE")
Small == [name |-> <<Ls(0)>>, fields |-> <<F(1, "UINT32", FALSE), F(2, "STRING", FALSE)>>]
Wide == [name |-> <<Ls(0), Quote>>,
         fields |-> <<F(1, "UINT32", FALSE), F(2, "STRING", FALSE), F(3, "DOUBLE", FALSE),
                      F(300, "DATETIME", FALSE), F(4, "BOOLEAN", FALSE), F(5, "UINT64", TRUE)>>]
Nested(sub) ==
  [name |-> <<Ls(1)>>,
   fields |-> <<F(2, "STRING", FALSE), MkObjectField(7, <<Slash, Ls(7)>>, FALSE, TRUE, sub),
                MkObjectField(8, <<Ls(8)>>, TRUE, TRUE, sub), F(1, "UINT64", FALSE)>>]
Hinted == FromProtobuf(
  [name |-> <<Ls(2)>>,
   fields |-> <<[number |-> 1, name |-> <<Ls(1)>>, type |-> "enum", values |-> {0, 7, 300},
                 repeated |-> FALSE, optional |-> TRUE, encoding |-> "NONE"],
                [number |-> 2, name |-> <<Ls(2)>>, type |-> "string", maxval |-> 200,
                 repeated |-> FALSE, optional |-> FALSE, encoding |-> "NONE"],
                [number |-> 9, name |-> <<Ls(9)>>, type |-> "message", repeated |-> TRUE,
                 optional |-> FALSE,
                 message |-> [name |-> <<Ls(3)>>,
                              fields |-> <<[number |-> 4, name |-> <<Ls(4)>>, type |-> "bool",
                                            repeated |-> FALSE, optional |-> TRUE,
                                            encoding |-> "BITPACK"]>>]]>>])
Put(id, type, v) == [name |-> <<Ls(id % 20)>>, type |-> type, v |-> v]
PutObject(id, name, v) == [name |-> name, type |-> "OBJECT", v |-> v]
EpochTime(zone) == <<49, 57, 55, 48, Minus, 48, 49, Minus, 48, 49, 84, 48, 50, Colon, 48, 48, Colon,
                     48, 49, Dot, 53>> \o zone
WideFields ==
  <<Put(1, "TEXT", <<51, 48, 48>>), Put(2, "TEXT", <<Quote, LF, Slash>>), Put(2, "STRING", <<>>),
    Put(3, "TEXT", <<49>>), Put(3, "DOUBLE", ZeroDouble),
    Put(300, "TEXT", EpochTime(<<Plus, 48, 50, Colon, 48, 48>>)), Put(300, "DATETIME", 2000000),
    Put(4, "TEXT", TrueText), Put(4, "TEXT", <<Ls(3)>>), Put(4, "BOOLEAN", 1),
    Put(5, "UINT64", 127), Put(5, "TEXT", <<49, 50, 56>>), Put(1, "UINT32", 16384),
    Put(1, "STRING", <<Ls(3)>>), Put(11, "UINT32", 3)>>
OnceFields == SelectSeq(WideFields, LAMBDA f : f.type \in {"TEXT", "UINT64"})
NestedFields ==
  <<PutObject(7, <<Slash, Ls(7)>>, <<Put(1, "UINT32", 5), Put(2, "TEXT", <<Tilde>>)>>),
    Put(2, "TEXT", <<Backslash>>), PutObject(8, <<Ls(8)>>, <<>>), Put(1, "UINT64", 129),
    PutObject(8, <<Ls(8)>>, OnceFields)>>
MCRecordCases ==
  LET Each2(w, fields, rs) == [i \in 1..Len(rs) |-> [writer |-> w, reader |-> rs[i], fields |-> fields]]
      Hides(s) == [s EXCEPT !.fields = <<>>]
  IN Each2(Small, WideFields, <<Small, Wide, Hides(Small)>>)
     \o Each2(Wide, WideFields, <<Wide, Small, Hides(Wide)>>)
     \o Each2(Wide, OnceFields, <<Wide, Small>>)
     \o Each2(Nested(Wide), NestedFields, <<Nested(Wide), Nested(Small), Nested(Hides(Small)), Wide>>)
     \o Each2(Nested(Small), NestedFields, <<Nested(Wide), Nested(Small)>>)
     \o Each2(Hinted, WideFields, <<Hinted, Small>>)
MCNow == UnixTime(16000, 5000, 7)
-----------------------------------------------------------------------------
(* The calendar, around the leap days and the turns of centuries *)
MCFirstDays ==
  {[year |-> 1970, month |-> 1, day |-> 1, count |-> 0],
   [year |-> 1999, month |-> 12, day |-> 20, count |-> 10945],
   [year |-> 2100, month |-> 2, day |-> 1, count |-> 47513]}
MCClocks ==
  {[text |-> <<84, 49, 56, Colon, 50, 51, Colon, 49, 48, Dot, 53, Minus, 48, 49, Colon, 48, 48>>,
    ms |-> 69790500],
   [text |-> <<116, 48, 48, Colon, 48, 48, Colon, 48, 48, Plus, 49, 50, Colon, 51, 48>>,
    ms |-> -45000000],
   [text |-> <<84, 50, 51, Colon, 53, 57, Colon, 53, 57, Dot, 57, 57, 57, 122>>, ms |-> 86399999]}
-----------------------------------------------------------------------------
(* CSV files *)
MCParams(with) == [headers |-> with, col_sep |-> Comma, row_sep |-> LF, quote_char |-> Apostrophe]
Cells == <<<<51>>, <<Minus, 52>>, NullText, TrueText, <<89, 69, 83>>, <<Ls(0)>>, <<>>,
           <<50, 48, 48, 48, Minus, 49, 49>>, <<TAB, LF>>, <<200, 200>>, <<200>> >>
HeaderRow == <<<<Ls(0)>>, <<Ls(1)>>>>
ImportCase(a, b, c) ==
  [rows |-> <<HeaderRow, <<Cells[a], Cells[b]>>, <<Cells[b], Cells[c]>>, <<Cells[c], Cells[a]>> >>,
   bom |-> a > b, user |-> "import", params |-> MCParams(TRUE)]
ImportCases ==
  FlattenSeq([a \in 1..11 |-> FlattenSeq([b \in 1..11 |-> [c \in 1..6 |-> ImportCase(a, b, c)]])])
OddCases ==
  <<[ImportCase(1, 1, 1) EXCEPT !.rows[2] = <<Cells[1]>>],
    [ImportCase(1, 2, 1) EXCEPT !.rows[2] = <<Cells[1], Cells[2], Cells[3]>>],
    [ImportCase(1, 2, 1) EXCEPT !.rows[2] = << <<Minus>>, <<Minus>> >>],
    [ImportCase(1, 2, 1) EXCEPT !.rows[2] = << <<130>>, <<Ls(1)>> >>],
    [ImportCase(1, 2, 1) EXCEPT !.rows[1] = <<HeaderRow[1], HeaderRow[1]>>],
    [ImportCase(1, 2, 1) EXCEPT !.rows = <<HeaderRow>>]>>
ScanRows ==
  <<<<>>, <<HeaderRow>>, <<HeaderRow, << <<Comma>>, <<Quote, LF>> >> >>,
    <<HeaderRow, << <<>>, <<>> >>, << <<Ls(2)>>, <<Ls(3)>> >> >>, << << <<Ls(4)>> >>, HeaderRow>> >>
ScanCases ==
  FlattenSeq([i \in 1..Len(ScanRows) |->
    <<[rows |-> ScanRows[i], bom |-> FALSE, user |-> "scan", params |-> MCParams(TRUE)],
      [rows |-> ScanRows[i], bom |-> FALSE, user |-> "scan", params |-> MCParams(FALSE)],
      [rows |-> ScanRows[i], bom |-> TRUE, user |-> "scan", params |-> MCParams(TRUE)],
      [rows |-> ScanRows[i], bom |-> TRUE, user |-> "scan", params |-> MCParams(FALSE)]>>])
MCCSVCases == ImportCases \o OddCases \o ScanCases
-----------------------------------------------------------------------------
Points == {0, 1, 127, 128, 2047, 2048, 65535, 65536, 1114111, 2097151}
MCCodePoints == {<<>>} \cup {<<p, q>> : p, q \in Points}
MCBinaries ==
  LET bytes == {0, 3, 15, 64, 170, 255}
  IN {<<a, b>> : a, b \in bytes} \cup {<<a, b, c>> : a, b, c \in bytes}
     \cup {<<a, b, 1, 254, a>> : a, b \in bytes} \cup {<<a, b, 7, b, a, 9>> : a, b \in bytes}
-----------------------------------------------------------------------------
(* Exchanges over HTTP: files, cookies, errors *)
File1 == <<Ls(0), Plus>>
File2 == <<Percent, Zero, Amp>>
File3 == <<SP, Equals, 200>>
Names == {File1, File2, File3}
MCFiles == (File1 :> <<7, LF>>) @@ (File2 :> <<LF, CR, LF, 5>>) @@ (File3 :> <<>>)
MCBasePath == <<Slash, Ls(1)>>
MCCookiePath == <<Slash, Ls(2)>>
MCFailPath == <<Slash, Ls(3)>>

(* The requests, and what their author expects *)
Host == [H!EmptyURI EXCEPT !.scheme = <<Ls(7)>>, !.host = <<Ls(7), Dot>>, !.port = 80]
FileURI(path, name) ==
  [Host EXCEPT !.path = MCBasePath \o path,
               !.query = H!BuildQueryString(<< <<<<Ls(1)>>, <<Amp>>>>, <<H!FileParam, name>> >>)]
Exchange(m, code, data) == [sent |-> m, want |-> [code |-> code, body |-> data]]

FileExchanges ==
  UNION {{Exchange(H!MkGet(FileURI(H!GetPath, f), <<>>), 200, MCFiles[f]),
          Exchange(H!MkGet(FileURI(H!SizePath, f), <<>>), 200, Decimal(Len(MCFiles[f])))} : f \in Names}
  \cup {Exchange(H!MkGet(FileURI(H!GetPath, <<Ls(9)>>), <<>>), 500, <<>>),
        Exchange(H!MkGet(FileURI(<<Slash>>, File1), <<>>), 404, <<>>),
        Exchange(H!MkGet([Host EXCEPT !.path = MCBasePath], <<>>), 400, <<>>)}

CookieRequest(v) ==
  H!MkPost([Host EXCEPT !.path = MCCookiePath], <<LF, 5, LF>>,
         << <<H!CookieHeader, H!MkCookie(<<Ls(4)>>, <<Semicolon>>) \o <<Semicolon, SP>>
                              \o H!MkCookie(H!FileParam, v)>> >>)
CookieExchanges == {Exchange(CookieRequest(v), 200, v) : v \in Names}

Plain(path) == H!MkPost([Host EXCEPT !.path = path], <<1>>, <<>>)
OtherExchanges ==
  UNION {{Exchange(m, 500, <<>>), Exchange([m EXCEPT !.version = H!HTTP10], 500, <<>>)} :
            m \in {Plain(MCFailPath)}}
  \cup {Exchange(m, 404, <<>>) :
          m \in {Plain(<<Slash>>), [Plain(<<Slash>>) EXCEPT !.version = H!HTTP10],
                 H!SetHeader([Plain(<<Slash>>) EXCEPT !.version = H!HTTP10], H!Connection, <<H!KeepAlive>>)}}
  \cup {Exchange([H!MkGet(FileURI(H!GetPath, File1), <<>>) EXCEPT !.method = H!HEAD], 200, <<>>)}

(* A URI with all its parts comes back from its text *)
ASSUME URIsComeBack ==
  \A u \in [scheme : {<<Ls(7)>>}, userinfo : {<<>>, <<Ls(1), Colon>>},
            host : {<<Ls(7), Dot>>}, port : {0, 80},
            path : {<<>>, <<Slash, Colon, At>>}, query : {<<>>, <<Equals, Slash>>},
            fragment : {<<>>, <<QuestionMark>>}] :
    H!ParseURIString(H!URIToString(u)) = u
-----------------------------------------------------------------------------
RPCIdle == rpc = None /\ step = "idle" /\ body = <<>> /\ outcome = None
RecordIdle ==
  /\ at = "idle" /\ todo = <<>> /\ case = 0 /\ msg = None /\ wire = <<>> /\ schema = NoSchema
  /\ got = <<>> /\ text = <<>>
CalendarIdle ==
  today = [year |-> 1970, month |-> 1, day |-> 1] /\ count = 0 /\ left = 0
CSVIdle ==
  /\ csv = [user |-> "nobody"] /\ file = <<>> /\ pos = 1 /\ stage = "idle" /\ headers = <<>>
  /\ num_cols = -1 /\ scans = <<>> /\ types = <<>> /\ columns = <<>>
CodecIdle ==
  /\ form = "none" /\ phase = "idle" /\ plain = <<>> /\ taken = 0 /\ coded = <<>>
  /\ cur = 0 /\ back = <<>>

HTTPIdle ==
  /\ httpSent = None /\ want = None /\ httpStage = "idle" /\ httpWire = <<>> /\ srv = None
  /\ cli = None /\ answer = None /\ cut = FALSE

FormatsIdle == RPCIdle /\ RecordIdle /\ CalendarIdle /\ CSVIdle /\ CodecIdle

(* A file of pages that nobody uses *)
PagesIdle ==
  /\ block_size = 1 /\ end_pos = 0 /\ freelist = <<>> /\ used_bytes = 0 /\ file_size = 0
  /\ current_mapping = NoMapping /\ disk = 0 /\ pages = {} /\ getting = <<>>
  /\ shrinking = <<>> /\ refs = {} /\ raced = FALSE

StoresIdle == store = "none" /\ SlotsInit /\ PagesIdle /\ StreamInit /\ StatsInit

StoresInit ==
  /\ SlotsInit /\ StreamInit /\ StatsInit
  /\ \/ store \in {"set", "stream", "stats"} /\ PagesIdle
     \/ store = "pages" /\ PagesInit

MCInit ==
  \/ StoresInit /\ HTTPIdle /\ FormatsIdle
  \/ StoresIdle /\ H!Init(FileExchanges \cup CookieExchanges \cup OtherExchanges) /\ FormatsIdle
  \/ /\ StoresIdle /\ HTTPIdle
     /\ \/ RPCInit /\ RecordIdle /\ CalendarIdle /\ CSVIdle /\ CodecIdle
        \/ RPCIdle /\ RecordInit /\ CalendarIdle /\ CSVIdle /\ CodecIdle
        \/ RPCIdle /\ RecordIdle /\ CalendarInit /\ CSVIdle /\ CodecIdle
        \/ RPCIdle /\ RecordIdle /\ CalendarIdle /\ CSVInit /\ CodecIdle
        \/ RPCIdle /\ RecordIdle /\ CalendarIdle /\ CSVIdle /\ CodecInit

FormatsNext ==
  \/ RPCNext /\ UNCHANGED <<recordVars, calendarVars, csvVars, codecVars>>
  \/ RecordNext /\ UNCHANGED <<rpcVars, calendarVars, csvVars, codecVars>>
  \/ NextDay /\ UNCHANGED <<rpcVars, recordVars, csvVars, codecVars>>
  \/ CSVNext /\ UNCHANGED <<rpcVars, recordVars, calendarVars, codecVars>>
  \/ CodecNext /\ UNCHANGED <<rpcVars, recordVars, calendarVars, csvVars>>
formatVars == <<rpcVars, recordVars, calendarVars, csvVars, codecVars>>

StoresNext ==
  /\ \/ store = "set" /\ SlotsNext /\ UNCHANGED <<pageVars, streamVars, statsVars>>
     \/ store = "pages" /\ PagesNext /\ UNCHANGED <<slotVars, streamVars, statsVars>>
     \/ store = "stream" /\ StreamNext /\ UNCHANGED <<slotVars, pageVars, statsVars>>
     \/ store = "stats" /\ StatsNext /\ UNCHANGED <<slotVars, pageVars, streamVars>>
  /\ UNCHANGED store

MCNext ==
  \/ FormatsNext /\ UNCHANGED <<httpVars, storeVars>>
  \/ H!Next /\ UNCHANGED <<formatVars, storeVars>>
  \/ StoresNext /\ UNCHANGED <<formatVars, httpVars>>

MCSpec == MCInit /\ [][MCNext]_<<formatVars, httpVars, storeVars>>
-----------------------------------------------------------------------------
(* An HTTP message that arrives is the one that was sent, however the      *)
(* portions fall (HTTPParser::parse, HTTPGenerator::generate), and the     *)
(* file or the cookie that a client has named is what it gets, whatever    *)
(* characters are in the name (URI::urlEncode, parseQueryString,           *)
(* Cookies::parseCookieHeader, HTTPRouter).  When the connection breaks    *)
(* off, what has been read is a beginning of what was sent; the reader is  *)
(* told so if and only if it has read the length of a body that is not all *)
(* there.  Inside the headers, or in a body without a length, the          *)
(* beginning passes for a whole message (HTTPParser::eof).                 *)
ExchangesRight == httpStage # "idle" => H!MessagesArrive /\ H!AnsweredAsAsked

(* A CSV file shows the same rows on every scan (CSVTableRef), and its     *)
(* import into a cstable keeps every cell (cmd_from_csv).                  *)
CSVFilesRight == csv.user # "nobody" => ScansAgree /\ ImportComesBack

(* Dates become the instant that the calendar says, in every notation      *)
(* (Human::parseTime), and UTF-8 and Base64 decode to what was encoded.    *)
ConversionsRight == store = "none" => DatesRight /\ CodecsInverse
=============================================================================
