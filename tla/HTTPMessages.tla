---------------------------- MODULE HTTPMessages ----------------------------
(***************************************************************************)
(* The messages of stx::http from end to end: a request is built, written  *)
(* (HTTPGenerator), read by the server in portions of any size             *)
(* (HTTPParser), routed (HTTPRouter) to a service, whose response takes    *)
(* the same way back.  The services are the file servlet, which finds its  *)
(* file in the query string of the URI, a service that returns a cookie of *)
(* the request, and one that raises.                                       *)
(***************************************************************************)
EXTENDS Bytes

-----------------------------------------------------------------------------
(***************************************************************************)
(* stx::http::HTTPParser, of requests and of responses.  parse() gets the  *)
(* message in portions of any size: a token that is not yet complete waits *)
(* in buf_, and the size of a token is limited only while it is not        *)
(* complete.  The callbacks of the parser store what it reads, as          *)
(* HTTPRequest::parse(), HTTPResponse::parse(), HTTPResponseFuture and     *)
(* HTTPServerConnection all do.                                            *)
(***************************************************************************)

CONSTANT MaxTokenSize   \* kMaxMethodSize and its like: one limit for all

MethodNames == 300..307        \* CONNECT DELETE GET HEAD OPTIONS POST PUT TRACE
HEAD == 303
POST == 305
ContentLength == 310           \* "content-length"
Connection == 311              \* "connection"
Close == 312                   \* "close"
KeepAlive == 313               \* "keep-alive"
HTTP10 == <<320, Dot, Zero>>   \* "HTTP/1.0"
HTTP11 == <<320, Dot, Zero + 1>>

UntilClosed == -1              \* body_bytes_expected_ of a body without a length

NewParser(mode) ==
  [mode |-> mode, state |-> IF mode = "request" THEN "method" ELSE "resversion",
   buf |-> <<>>, read |-> 0, expected |-> 0, expectBody |-> TRUE,
   raised |-> FALSE,
   method |-> 302, uri |-> <<>>, version |-> <<>>,
   code |-> 404, name |-> <<>>, headers |-> <<>>, body |-> <<>>]

IgnoreBody(p) == [p EXCEPT !.expectBody = FALSE]
Raised(p) == [p EXCEPT !.raised = TRUE]

(* What ends the token of a state *)
Delimiter(state) == IF state \in {"method", "uri", "resversion", "code"} THEN SP ELSE LF

(* BufferUtil::stripTrailingBytes(&buf_, '\r') *)
StripCR(t) ==
  SubSeq(t, 1, CHOOSE n \in 0..Len(t) :
                 (\A i \in (n + 1)..Len(t) : t[i] = CR) /\ (n > 0 => t[n] # CR))

ParseMethod(p, t) ==
  IF Len(t) = 1 /\ t[1] \in MethodNames
    THEN [p EXCEPT !.state = "uri", !.method = t[1], !.buf = <<>>]
    ELSE Raised(p)

ParseURI(p, t) == [p EXCEPT !.state = "reqversion", !.uri = t, !.buf = <<>>]

ParseRequestVersion(p, t) ==
  [p EXCEPT !.state = "header", !.version = StripCR(t), !.buf = <<>>]

(* strncasecmp() over the length of the token: a prefix of HTTP/1.0 will do *)
ParseResponseVersion(p, t) ==
  [p EXCEPT !.state = "code", !.version = t, !.buf = <<>>,
            !.expected = IF IsPrefix(t, HTTP10) THEN UntilClosed ELSE @]

ParseResponseStatusCode(p, t) ==
  IF LeadingDigits(t) = <<>> THEN Raised(p)
  ELSE [p EXCEPT !.state = "name", !.code = Number(LeadingDigits(t)), !.buf = <<>>]

ParseResponseStatusName(p, t) ==
  [p EXCEPT !.state = "header", !.name = StripCR(t), !.buf = <<>>]

(* The key is compared without regard to case and stored in lower case     *)
(* (HTTPMessage::addHeader).                                               *)
ProcessHeader(p, key, val) ==
  LET k == ToLower(key)
      isLength == p.expectBody /\ k = <<ContentLength>>
      isClose == p.mode = "response" /\ p.expectBody /\ k = <<Connection>>
                   /\ ToLower(val) = <<Close>>
      q == [p EXCEPT !.headers = Append(@, <<k, val>>), !.buf = <<>>, !.state = "header"]
  IN CASE isLength /\ LeadingDigits(val) = <<>> -> Raised(p)
       [] isLength -> [q EXCEPT !.expected = Number(LeadingDigits(val))]
       [] isClose -> [q EXCEPT !.expected = UntilClosed]
       [] OTHER -> q

(* "\r\n" alone ends the headers: without a body the message is complete *)
HeadersComplete(p) ==
  [p EXCEPT !.state = IF p.expected = 0 THEN "done" ELSE "body", !.buf = <<>>]

ParseHeader(p, t) ==
  LET line == StripCR(t)
      colon == FirstOf(line, 1, {Colon})
      val == SubSeq(line, colon + 1, Len(line))
      word == CHOOSE i \in 1..(Len(val) + 1) :
                /\ \A j \in 1..(i - 1) : val[j] = SP
                /\ i <= Len(val) => val[i] # SP
  IN IF line = <<>> THEN HeadersComplete(p)
     ELSE IF colon > Len(line) THEN Raised(p)
     ELSE ProcessHeader(p, Slice(line, 1, colon), SubSeq(val, word, Len(val)))

(* Whatever is left of the portion belongs to the body *)
ReadBody(p, data) ==
  [p EXCEPT !.read = @ + Len(data), !.body = @ \o data,
            !.state = IF p.read + Len(data) = p.expected THEN "done" ELSE @]

Token(p, t) ==
  CASE p.state = "method" -> ParseMethod(p, t)
    [] p.state = "uri" -> ParseURI(p, t)
    [] p.state = "reqversion" -> ParseRequestVersion(p, t)
    [] p.state = "resversion" -> ParseResponseVersion(p, t)
    [] p.state = "code" -> ParseResponseStatusCode(p, t)
    [] p.state = "name" -> ParseResponseStatusName(p, t)
    [] p.state = "header" -> ParseHeader(p, t)

(* A plausible bug: a token that goes on in the next portion starts anew *)
UnfinishedForgets(p, data) ==
  IF Len(data) > MaxTokenSize THEN Raised(p) ELSE [p EXCEPT !.buf = data]

(* readUntil() did not find the delimiter: the token goes on in the next   *)
(* portion, unless it is too large already.                                *)
Unfinished(p, data) ==
  IF Len(p.buf \o data) > MaxTokenSize THEN Raised(p) ELSE [p EXCEPT !.buf = @ \o data]

RECURSIVE Parse(_, _)
Parse(p, data) ==
  LET end == FirstOf(data, 1, {Delimiter(p.state)})
  IN CASE p.raised \/ data = <<>> -> p
       [] p.state = "done" /\ p.mode = "request" -> Raised(p)
       [] p.state \in {"done", "body"} -> ReadBody(p, data)
       [] end > Len(data) -> Unfinished(p, data)
       [] OTHER -> Parse(Token(p, p.buf \o Slice(data, 1, end)),
                         SubSeq(data, end + 1, Len(data)))

(* The end of the stream completes the message, unless bytes of its body   *)
(* are missing.  In the middle of the headers none are.                    *)
EndOfFile(p) ==
  IF p.state # "done" /\ p.expected # UntilClosed /\ p.read < p.expected
    THEN Raised(p)
    ELSE [p EXCEPT !.state = "done"]

-----------------------------------------------------------------------------
(***************************************************************************)
(* stx::URI: the parts of a URI, their encoding, and query strings.  Every *)
(* parser of this module walks one pair of pointers over the text.         *)
(***************************************************************************)

Unreserved(c) ==
  \/ IsDigit(c) \/ c \in {Minus, 95, Dot, 126}
  \/ c \in UpperA..(UpperA + 25) \/ c \in LowerA..(LowerA + 25)

EncodeByte(c) ==
  IF Unreserved(c) THEN <<c>> ELSE <<Percent, HexDigit(c \div 16), HexDigit(c % 16)>>

UrlEncode(text) == FlattenSeq([i \in 1..Len(text) |-> EncodeByte(text[i])])

(* A decoding that raised *)
Undecodable == <<-1>>

(* A '%' that no two hexadecimal digits follow stands for itself; one with *)
(* less than two characters behind it is refused.                          *)
RECURSIVE UrlDecode(_)
UrlDecode(text) ==
  LET rest(n) == UrlDecode(SubSeq(text, n + 1, Len(text)))
      then(c, n) == IF rest(n) = Undecodable THEN Undecodable ELSE <<c>> \o rest(n)
  IN CASE text = <<>> -> <<>>
       [] text[1] = Percent /\ Len(text) < 3 -> Undecodable
       [] text[1] = Percent /\ IsHexDigit(text[2]) /\ IsHexDigit(text[3]) ->
            then(16 * HexValue(text[2]) + HexValue(text[3]), 3)
       [] text[1] = Plus -> then(SP, 1)
       [] OTHER -> then(text[1], 1)

EmptyURI ==
  [scheme |-> <<>>, userinfo |-> <<>>, host |-> <<>>, port |-> 0,
   path |-> <<>>, query |-> <<>>, fragment |-> <<>>]

HostAndPort(u) == IF u.port > 0 THEN u.host \o <<Colon>> \o Decimal(u.port) ELSE u.host
PathAndQuery(u) == IF u.query # <<>> THEN u.path \o <<QuestionMark>> \o u.query ELSE u.path

URIToString(u) ==
  u.scheme \o <<Colon>>
  \o (IF u.host = <<>> THEN <<>>
      ELSE <<Slash, Slash>>
           \o (IF u.userinfo = <<>> THEN <<>> ELSE Append(u.userinfo, At))
           \o HostAndPort(u))
  \o PathAndQuery(u)
  \o (IF u.fragment = <<>> THEN <<>> ELSE <<Hash>> \o u.fragment)

(* The scheme ends at the first ':' that no '/' precedes *)
SchemeEnd(text) == FirstOf(text, 1, {Slash, Colon})
HasScheme(text) == SchemeEnd(text) <= Len(text) /\ text[SchemeEnd(text)] = Colon

(* The authority a: userinfo '@' host ':' port *)
ParseAuthority(u, a) ==
  LET at == FirstOf(a, 1, {At})
      h == IF at <= Len(a) THEN SubSeq(a, at + 1, Len(a)) ELSE a
      colon == FirstOf(h, 1, {Colon})
      digits == LeadingDigits(SubSeq(h, colon + 1, Len(h)))
  IN [u EXCEPT !.userinfo = IF at <= Len(a) THEN Slice(a, 1, at) ELSE @,
               !.host = Slice(h, 1, colon),
               !.port = IF colon < Len(h) /\ digits # <<>> THEN Number(digits) ELSE @]

(* text[i..] starts with "//" and something follows *)
HasAuthority(text, i) ==
  i < Len(text) - 1 /\ text[i] = Slash /\ text[i + 1] = Slash

(* What follows the authority, from position i on *)
ParsePathQueryFragment(u, text, i) ==
  LET pathEnd == FirstOf(text, i, {QuestionMark, Hash})
      asks == pathEnd <= Len(text) /\ text[pathEnd] = QuestionMark
      queryEnd == IF asks THEN FirstOf(text, pathEnd + 1, {Hash}) ELSE pathEnd
  IN [u EXCEPT !.path = Slice(text, i, pathEnd),
               !.query = IF asks THEN Slice(text, pathEnd + 1, queryEnd) ELSE @,
               !.fragment = IF queryEnd < Len(text)
                              THEN SubSeq(text, queryEnd + 1, Len(text)) ELSE @]

ParseURIString(text) ==
  LET i == IF HasScheme(text) THEN SchemeEnd(text) + 1 ELSE 1
      u == IF HasScheme(text)
             THEN [EmptyURI EXCEPT !.scheme = Slice(text, 1, SchemeEnd(text))] ELSE EmptyURI
      end == FirstOf(text, i + 2, {Slash, QuestionMark, Hash})
  IN IF HasAuthority(text, i)
       THEN ParsePathQueryFragment(
              IF end > i + 2 THEN ParseAuthority(u, Slice(text, i + 2, end)) ELSE u, text, end)
       ELSE ParsePathQueryFragment(u, text, i)

(* "key=value&..."; a parameter without '=', or without a key, ends the list *)
RECURSIVE ParseQueryString(_)
ParseQueryString(q) ==
  LET eq == FirstOf(q, 1, {Equals, Amp})
      end == FirstOf(q, eq + 1, {Equals, Amp})
  IN IF eq > Len(q) \/ eq = 1 \/ q[eq] # Equals THEN <<>>
     ELSE << <<UrlDecode(Slice(q, 1, eq)), UrlDecode(Slice(q, eq + 1, end))>> >>
          \o ParseQueryString(SubSeq(q, end + 1, Len(q)))

BuildQueryString(params) ==
  FlattenSeq([i \in 1..Len(params) |->
     (IF i > 1 THEN <<Amp>> ELSE <<>>)
       \o UrlEncode(params[i][1]) \o <<Equals>> \o UrlEncode(params[i][2])])

(* getParam(): the first parameter of that name *)
GetParam(params, key) ==
  LET is == SelectSeq(params, LAMBDA p : p[1] = key)
  IN IF is = <<>> THEN <<>> ELSE is[1][2]

-----------------------------------------------------------------------------
(* The messages and the services *)
CONSTANTS
  Files,      \* name of a file -> its content
  BasePath,   \* base_path_ of the file servlet
  CookiePath, \* the prefix under which the cookie service is routed
  FailPath    \* the prefix under which the failing service is routed

CookieHeader == 314   \* "cookie"
HostHeader == 315     \* "host"
SetCookieHeader == 316
OK == <<330>>
ServerError == <<331>>
NotFound == <<332>>
BadRequest == <<333>>
FileParam == <<LowerA + 5>>      \* "file", for short
GetPath == <<Slash, LowerA + 6>> \* "/get"
SizePath == <<Slash, LowerA + 18>> \* "/size"

VARIABLES
  sent,     \* the request that the client makes
  want,     \* [code, body]: the answer that it means to ask for
  stage,    \* "request", "dispatch", "response", "done"
  wire,     \* what has been written and not yet been read
  srv,      \* the parser of the server
  cli,      \* the parser of the client
  answer,   \* the response of the service
  cut       \* the connection broke down while a message was under way

vars == <<sent, want, stage, wire, srv, cli, answer, cut>>

-----------------------------------------------------------------------------
(* HTTPMessage: the keys of the headers are in lower case *)

GetHeader(m, key) == GetParam(m.headers, <<key>>)
HasHeader(m, key) == \E i \in 1..Len(m.headers) : m.headers[i][1] = <<key>>
AddHeader(m, key, val) == [m EXCEPT !.headers = Append(@, <<<<key>>, val>>)]
SetHeader(m, key, val) ==
  IF ~HasHeader(m, key) THEN AddHeader(m, key, val)
  ELSE LET i == CHOOSE i \in 1..Len(m.headers) :
                  /\ m.headers[i][1] = <<key>>
                  /\ \A j \in 1..(i - 1) : m.headers[j][1] # <<key>>
       IN [m EXCEPT !.headers[i][2] = val]

NewRequest(method, uri) ==
  [method |-> method, uri |-> uri, version |-> HTTP11, headers |-> <<>>, body |-> <<>>]
MkGet(uri, headers) ==
  FoldLeft(LAMBDA m, h : SetHeader(m, h[1], h[2]),
           AddHeader(NewRequest(302, PathAndQuery(uri)), HostHeader, HostAndPort(uri)), headers)
MkPost(uri, data, headers) ==
  [MkGet(uri, headers) EXCEPT !.method = POST, !.body = data]

(* HTTPRequest::keepalive() *)
Keepalive(m) ==
  CASE GetHeader(m, Connection) = <<KeepAlive>> -> TRUE
    [] GetHeader(m, Connection) = <<Close>> -> FALSE
    [] OTHER -> m.version = HTTP11

NewResponse == [version |-> <<>>, code |-> 404, name |-> NotFound, headers |-> <<>>, body |-> <<>>]
SetStatus(m, code, name) == [m EXCEPT !.code = code, !.name = name]
PopulateFromRequest(req) ==
  LET m == [NewResponse EXCEPT !.version = req.version]
  IN IF req.version # HTTP10 THEN m
     ELSE AddHeader(m, Connection, IF Keepalive(req) THEN <<KeepAlive>> ELSE <<Close>>)

-----------------------------------------------------------------------------
(* HTTPGenerator *)

Line(parts) == FlattenSeq(parts) \o <<CR, LF>>
HeaderLines(m) ==
  FlattenSeq([i \in 1..Len(m.headers) |-> Line(<<m.headers[i][1], <<Colon, SP>>, m.headers[i][2]>>)])

GenerateRequest(m) ==
  Line(<<<<m.method, SP>>, m.uri, <<SP>>, m.version>>) \o HeaderLines(m)
  \o (IF m.body # <<>> /\ ~HasHeader(m, ContentLength)
        THEN Line(<<<<WordCase + ContentLength, Colon, SP>>, Decimal(Len(m.body))>>) ELSE <<>>)
  \o <<CR, LF>> \o m.body

GenerateResponse(m) ==
  Line(<<m.version, <<SP>>, Decimal(m.code), <<SP>>, m.name>>) \o HeaderLines(m)
  \o <<CR, LF>> \o m.body

-----------------------------------------------------------------------------
(* Cookies: "key=value; key=value", each part URL encoded *)

MkCookie(key, value) == UrlEncode(key) \o <<Equals>> \o UrlEncode(value)

RECURSIVE ParseCookieHeader(_)
ParseCookieHeader(text) ==
  LET start == CHOOSE i \in 1..(Len(text) + 1) :
                 (\A j \in 1..(i - 1) : text[j] = SP) /\ (i <= Len(text) => text[i] # SP)
      split == FirstOf(text, 1, {Equals})
      end == FirstOf(text, split + 1, {Semicolon})
  IN IF text = <<>> THEN <<>>
     ELSE << <<UrlDecode(Slice(text, start, split)), UrlDecode(Slice(text, split + 1, end))>> >>
          \o ParseCookieHeader(SubSeq(text, end + 1, Len(text)))

-----------------------------------------------------------------------------
(* The services.  One that raises is answered for by HTTPServiceHandler,   *)
(* and what has no route by NoSuchRouteHandler; neither announces the      *)
(* length of its body.                                                     *)

WithLength(m) ==
  IF m.body = <<>> THEN m ELSE SetHeader(m, ContentLength, Decimal(Len(m.body)))

(* A file that cannot be opened raises *)
FileServlet(req, m) ==
  LET uri == ParseURIString(req.uri)
      params == ParseQueryString(uri.query)
      file == GetParam(params, FileParam)
      named == \E i \in 1..Len(params) : params[i][1] = FileParam
      reply(body) == WithLength([SetStatus(m, 200, OK) EXCEPT !.body = body])
      raised == [SetStatus(m, 500, ServerError) EXCEPT !.body = ServerError]
  IN CASE ~named -> WithLength([SetStatus(m, 400, BadRequest) EXCEPT !.body = BadRequest])
       [] uri.path \in {BasePath \o GetPath, BasePath \o SizePath} /\ file \notin DOMAIN Files ->
            raised
       [] uri.path = BasePath \o GetPath -> reply(Files[file])
       [] uri.path = BasePath \o SizePath -> reply(Decimal(Len(Files[file])))
       [] OTHER -> WithLength([SetStatus(m, 404, NotFound) EXCEPT !.body = NotFound])

CookieService(req, m) ==
  LET cookies == ParseCookieHeader(GetHeader(req, CookieHeader))
      value == GetParam(cookies, FileParam)
  IN WithLength(SetHeader([SetStatus(m, 200, OK) EXCEPT !.body = value],
                          SetCookieHeader, MkCookie(FileParam, value)))

Routes ==
  << <<BasePath, "files">>, <<CookiePath, "cookies">>, <<FailPath, "fails">> >>

(* getHandler(): the first route whose prefix the URI has *)
GetHandler(req) ==
  LET fits == SelectSeq(Routes, LAMBDA r : IsPrefix(r[1], req.uri))
  IN IF fits = <<>> THEN "none" ELSE fits[1][2]

HandleRequest(req) ==
  LET m == PopulateFromRequest(req)
      handler == GetHandler(req)
  IN CASE handler = "files" -> FileServlet(req, m)
       [] handler = "cookies" -> CookieService(req, m)
       [] handler = "fails" -> [SetStatus(m, 500, ServerError) EXCEPT !.body = ServerError]
       [] OTHER -> [SetStatus(m, 404, NotFound) EXCEPT !.body = NotFound]

-----------------------------------------------------------------------------
Init(exchanges) ==
  /\ \E e \in exchanges : sent = e.sent /\ want = e.want
  /\ stage = "request"
  /\ wire = GenerateRequest(sent)
  /\ srv = NewParser("request")
  /\ cli = IF sent.method = HEAD THEN IgnoreBody(NewParser("response")) ELSE NewParser("response")
  /\ answer = NewResponse
  /\ cut = FALSE

After(p) == IF p.raised THEN "done" ELSE IF p.state = "done" THEN "dispatch" ELSE "request"

(* The server reads a portion *)
ServerRead ==
  /\ stage = "request" /\ wire # <<>>
  /\ \E n \in 1..Len(wire) :
       /\ srv' = Parse(srv, SubSeq(wire, 1, n))
       /\ wire' = SubSeq(wire, n + 1, Len(wire))
  /\ stage' = After(srv')
  /\ UNCHANGED <<sent, want, cli, answer, cut>>

Dispatch ==
  /\ stage = "dispatch"
  /\ answer' = HandleRequest(srv)
  /\ wire' = GenerateResponse(answer')
  /\ stage' = "response"
  /\ UNCHANGED <<sent, want, srv, cli, cut>>

(* The client reads a portion; the end of the message is the end of the    *)
(* exchange, whatever is still under way.                                  *)
ClientRead ==
  /\ stage = "response" /\ wire # <<>>
  /\ \E n \in 1..Len(wire) :
       /\ cli' = Parse(cli, SubSeq(wire, 1, n))
       /\ wire' = SubSeq(wire, n + 1, Len(wire))
  /\ stage' = IF cli'.raised \/ cli'.state = "done" THEN "done" ELSE "response"
  /\ UNCHANGED <<sent, want, srv, answer, cut>>

(* The server has closed its end, after its last byte *)
ClientEOF ==
  /\ stage = "response" /\ wire = <<>>
  /\ cli' = EndOfFile(cli)
  /\ stage' = "done"
  /\ UNCHANGED <<sent, want, wire, srv, answer, cut>>

(* The sender breaks down: what it has not sent is lost *)
Cut ==
  /\ stage \in {"request", "response"} /\ wire # <<>>
  /\ cut' = TRUE /\ wire' = <<>> /\ stage' = "done"
  /\ IF stage = "request" THEN srv' = EndOfFile(srv) /\ UNCHANGED cli
                          ELSE cli' = EndOfFile(cli) /\ UNCHANGED srv
  /\ UNCHANGED <<sent, want, answer>>

Next == ServerRead \/ Dispatch \/ ClientRead \/ ClientEOF \/ Cut

-----------------------------------------------------------------------------
(* Its own headers, and the length that the generator adds *)
RequestHeaders ==
  sent.headers \o (IF sent.body # <<>> /\ ~HasHeader(sent, ContentLength)
                     THEN << <<<<ContentLength>>, Decimal(Len(sent.body))>> >> ELSE <<>>)

(* However the portions fall, the server gets the request that was sent:   *)
(* its headers and its body, and not before the last byte of it was there, *)
(* nor does it wait for more (HTTPParser::parse, HTTPGenerator::generate). *)
RequestArrives ==
  /\ stage = "request" => wire # <<>>
  /\ stage \in {"dispatch", "response"} =>
       /\ wire = <<>> \/ stage = "response"
       /\ srv.method = sent.method /\ srv.uri = sent.uri /\ srv.version = sent.version
       /\ srv.body = sent.body
       /\ srv.headers = RequestHeaders

(* However the portions fall, when the connection does not break off the   *)
(* client sees the status that the service set, and its whole body if its  *)
(* length was announced or the connection closes behind it: a service's    *)
(* answer always is, an error of the server itself only under HTTP/1.0.    *)
ResponseArrives ==
  stage = "done" /\ ~cut /\ ~srv.raised =>
    /\ ~cli.raised /\ cli.code = answer.code
    /\ (HasHeader(answer, ContentLength) \/ HasHeader(answer, Connection)) /\ sent.method # HEAD
         => cli.body = answer.body
    /\ HasHeader(answer, ContentLength) => wire = <<>> \/ sent.method = HEAD

(* The parser has read the length of a body that is to come *)
LengthRead(p) == p.expectBody /\ \E i \in 1..Len(p.headers) : p.headers[i][1] = <<ContentLength>>

(* Of a message that breaks off the parser has a beginning, and it refuses *)
(* that exactly if it has read the length of a body that is not all there. *)
BeginningOf(p, headers, data) ==
  /\ IsPrefix(p.headers, headers) /\ IsPrefix(p.body, data)
  /\ p.raised <=> LengthRead(p) /\ p.body # data

(* When the connection breaks off, a body that is shorter than the length  *)
(* that has been read is refused.  Every other beginning is taken for a    *)
(* whole message: HTTPParser::eof() completes one that breaks off inside   *)
(* its headers, or inside a body without a length.  What it has is then    *)
(* still from the message that was sent; a response without its status     *)
(* line has the status 404 of a new HTTPResponse.                          *)
CutMessagesRight ==
  cut =>
    /\ BeginningOf(srv, RequestHeaders, sent.body)
    /\ BeginningOf(cli, answer.headers, answer.body)
    /\ cli.code \in {answer.code, NewResponse.code}

(* A message that arrives is the one that was sent, however the portions   *)
(* fall; of one that breaks off, a beginning of it is all that there is,   *)
(* and only a body shorter than the length read before it is noticed.      *)
MessagesArrive == RequestArrives /\ ResponseArrives /\ CutMessagesRight

(* The file or the cookie that the client named is what it gets, whatever   *)
(* characters are in the name: they survive the encoding in the URI or in  *)
(* the header and its decoding (URI::urlEncode, parseQueryString,          *)
(* Cookies::parseCookieHeader), the routing and both messages, unless the  *)
(* connection breaks off.                                                  *)
AnsweredAsAsked ==
  stage = "done" /\ ~cut =>
    /\ cli.code = want.code
    /\ want.code = 200 /\ sent.method # HEAD => cli.body = want.body
=============================================================================
