----------------------------- MODULE HTTPClient -----------------------------
(***************************************************************************)
(* The clients of stx: HTTPRPCClient, whose calls go through an            *)
(* HTTPConnectionPool on the event loop of another thread (mode "pool"),   *)
(* and HTTPClient, which runs an event loop of its own under a mutex       *)
(* (mode "sync").  A call makes a TCPConnection, an HTTPClientConnection   *)
(* on it and an HTTPResponseFuture, which fulfils the promise of the call. *)
(* In pool mode the loop also serves a connection of a server, which a     *)
(* thread registers and cancels while the loop runs.                       *)
(*                                                                         *)
(* keepalive_ is only ever set to false, so that parkConnection() never    *)
(* finds an idle connection and leaseConnection() never a parked one.      *)
(***************************************************************************)
EXTENDS EventLoop, SequencesExt

CONSTANTS
  Calls,         \* the calls, each of a thread of its own
  Responses,     \* what a server may answer (see below)
  Usual,         \* the one of them that all calls but one get
  RequestSize,   \* the portions in which a request can be written
  MaxWouldBlock  \* reads that find nothing although select() said otherwise

(* A response: its status code, the bytes of its body, how their number is *)
(* announced (Content-Length, the end of the connection or not at all),    *)
(* and how many units the server sends before it closes.  The first two    *)
(* units are the headers, each other one a byte of the body; HTTPMessages  *)
(* says how the headers are read.                                          *)
Heads == 2
UntilClosed == -1
Whole(r) == r.sent = Heads + r.body
Delimited(r) ==
  r.sent >= Heads /\ (r.expected > 0 \/ (r.expected = UntilClosed /\ Whole(r)))

ASSUME CallsAssumption ==
  /\ Calls # {} /\ Calls \cap {"user", "free"} = {}
  /\ RequestSize \in Nat /\ MaxWouldBlock \in Nat
ASSUME ResponsesAssumption ==
  /\ Responses \cup {Usual} \subseteq [code : Nat, body : Nat, expected : Int, sent : Nat]
  /\ \A r \in Responses \cup {Usual} :
       r.expected \in {0, r.body, UntilClosed} /\ r.sent <= Heads + r.body

UserFD == CHOOSE fd \in Fds : \A g \in Fds : fd <= g   \* of the server's connection

VARIABLES
  mode,      \* "pool" or "sync"
  call,      \* [Calls -> the state of the call]
  ev, round, \* the event loop
  threadid,  \* threadid_ of the loop in sync mode: the call that ran it last
  mutex,     \* mutex_ of HTTPClient: the call that holds it, or "free"
  owner,     \* [Fds -> the call whose socket it is, "user" or "free"]
  user,      \* where the thread of the server's connection is
  crashed    \* a freed object was used, and the memory was not intact

vars == <<mode, call, ev, round, threadid, mutex, owner, user, crashed>>

NoFD == -1
NewCall(r) ==
  [pc |-> "start",
   response |-> r, pos |-> 0,         \* what the server sends, and what of it is read
   conn |-> "none",                   \* "busy", "closed", "freed"
   fd |-> NoFD, unsent |-> RequestSize, parser |-> "header", body |-> 0, blocked |-> 0,
   handler |-> "none",                \* the HTTPResponseFuture: "live", "deleted"
   promise |-> "pending",             \* "success", "failure"
   onSuccess |-> FALSE, onFailure |-> FALSE,  \* the callbacks are set
   status |-> "none",                 \* of the RPC, or of the answer to the caller
   readies |-> 0,                     \* how often the RPC became ready
   connections |-> 0, requests |-> 0] \* its part in stats_

FirstCall == CHOOSE c \in Calls : TRUE

(* The server's connection is there beside one call; otherwise all calls   *)
(* are made.                                                               *)
Init ==
  /\ mode \in {"pool", "sync"}
  /\ user \in IF mode = "pool" THEN {"register", "done"} ELSE {"done"}
  /\ \E r \in Responses :
       call = [c \in Calls |->
                 IF c = FirstCall THEN NewCall(r)
                 ELSE [NewCall(Usual) EXCEPT !.pc = IF user = "done" THEN "start" ELSE "done"]]
  /\ ev = EmptyLoop /\ round = Polling
  /\ threadid \in IF mode = "sync" THEN Calls ELSE {FirstCall}
  /\ mutex = "free"
  /\ owner = [fd \in Fds |-> IF fd = UserFD THEN "user" ELSE "free"]
  /\ crashed = FALSE

-----------------------------------------------------------------------------
(* AnyRPC and HTTPRPCClient: what the promise's callbacks do               *)

RPCReady(k, status) == [k EXCEPT !.status = status, !.readies = @ + 1]

(* Only a response with a 2xx status is decoded; an empty one cannot be *)
Answered(k) ==
  RPCReady(k, IF k.response.code \in 200..299 /\ k.body > 0 THEN "ok" ELSE "error")

PromiseSuccess(k) ==
  LET f == [k EXCEPT !.promise = "success"] IN IF k.onSuccess THEN Answered(f) ELSE f
PromiseFailure(k) ==
  LET f == [k EXCEPT !.promise = "failure"] IN IF k.onFailure THEN RPCReady(f, "error") ELSE f

(* HTTPResponseFuture: it deletes itself, and with it, in sync mode, the   *)
(* connection that it stores.                                              *)
DeleteThis(k) ==
  [k EXCEPT !.handler = "deleted", !.conn = IF mode = "sync" /\ @ # "none" THEN "freed" ELSE @]
OnError(k) == DeleteThis(PromiseFailure(k))
OnResponseComplete(k) == DeleteThis(PromiseSuccess(k))

-----------------------------------------------------------------------------
(* HTTPClientConnection and the pool                                       *)

(* parkConnection(), which the pool runs when on_ready_ wakes up *)
ParkConnection(k) ==
  IF mode = "pool" THEN [k EXCEPT !.conn = "freed", !.connections = @ - 1] ELSE k

(* close(): the descriptor is free for the next socket() *)
CloseEffect(c, e) ==
  /\ ev' = CancelFD(e, call[c].fd)
  /\ owner' = [owner EXCEPT ![call[c].fd] = "free"]

(* The constructor and executeRequest(), up to awaitWrite() *)
ExecuteRequest(k) ==
  [k EXCEPT !.conn = "busy", !.handler = "live",
            !.connections = IF mode = "pool" THEN @ + 1 ELSE @,
            !.requests = IF mode = "pool" THEN @ + 1 ELSE @]
Finished(k) == [k EXCEPT !.conn = "closed", !.requests = IF mode = "pool" THEN @ - 1 ELSE @]

-----------------------------------------------------------------------------
(* The threads of the calls                                                *)

Goto(c, l) == call' = [call EXCEPT ![c].pc = l]

(* HTTPRPCClient::call() up to the end of leaseConnection(): socket() or   *)
(* connect() fails at once, or the descriptor is handed to the loop.       *)
CallFails(c) ==
  /\ mode = "pool" /\ call[c].pc = "start"
  /\ call' = [call EXCEPT ![c] = [PromiseFailure(@) EXCEPT !.pc = "onsuccess"]]
  /\ UNCHANGED <<mode, ev, round, threadid, mutex, owner, user, crashed>>

Free == {fd \in Fds : owner[fd] = "free"}
LowestFree == CHOOSE fd \in Free : \A g \in Free : fd <= g

ConnectAsync(c) ==
  /\ mode = "pool" /\ call[c].pc = "start" /\ Free # {}
  /\ owner' = [owner EXCEPT ![LowestFree] = c]
  /\ call' = [call EXCEPT ![c].fd = LowestFree, ![c].pc = "wakeup"]
  /\ ev' = AppendToRunQ(ev, <<"writable", "connected", c, LowestFree>>)
  /\ UNCHANGED <<mode, round, threadid, mutex, user, crashed>>

(* A plausible bug: the loop is not woken up *)
WakeupNobody(c) ==
  /\ call[c].pc = "wakeup"
  /\ Goto(c, "onsuccess")
  /\ UNCHANGED <<mode, ev, round, threadid, mutex, owner, user, crashed>>

Wakeup(c) ==
  /\ call[c].pc = "wakeup"
  /\ ev' = WakeupPipe(ev)
  /\ Goto(c, "onsuccess")
  /\ UNCHANGED <<mode, round, threadid, mutex, owner, user, crashed>>

(* The callbacks are set while the loop may be fulfilling the promise *)
HookSuccess(c) ==
  /\ call[c].pc = "onsuccess"
  /\ LET k == [call[c] EXCEPT !.pc = "onfailure"]
     IN call' = [call EXCEPT ![c] =
          CASE k.promise = "pending" -> [k EXCEPT !.onSuccess = TRUE]
            [] k.promise = "success" -> Answered(k)
            [] OTHER -> k]
  /\ UNCHANGED <<mode, ev, round, threadid, mutex, owner, user, crashed>>

HookFailure(c) ==
  /\ call[c].pc = "onfailure"
  /\ LET k == [call[c] EXCEPT !.pc = "wait"]
     IN call' = [call EXCEPT ![c] =
          CASE k.promise = "pending" -> [k EXCEPT !.onFailure = TRUE]
            [] k.promise = "failure" -> RPCReady(k, "error")
            [] OTHER -> k]
  /\ UNCHANGED <<mode, ev, round, threadid, mutex, owner, user, crashed>>

(* AnyRPC::wait() *)
WaitRPC(c) ==
  /\ mode = "pool" /\ call[c].pc = "wait" /\ call[c].readies > 0
  /\ Goto(c, "done")
  /\ UNCHANGED <<mode, ev, round, threadid, mutex, owner, user, crashed>>

(* HTTPClient::executeRequest() up to runOnce(): connect() fails, or the   *)
(* connection is registered, through the queue if another thread ran the   *)
(* loop last.                                                              *)
SyncFails(c) ==
  /\ mode = "sync" /\ call[c].pc = "start" /\ mutex = "free"
  /\ mutex' = c
  /\ call' = [call EXCEPT ![c] = [OnError([@ EXCEPT !.handler = "live"]) EXCEPT !.pc = "get"]]
  /\ UNCHANGED <<mode, ev, round, threadid, owner, user, crashed>>

SyncConnects(c) ==
  /\ mode = "sync" /\ call[c].pc = "start" /\ mutex = "free" /\ Free # {}
  /\ mutex' = c
  /\ owner' = [owner EXCEPT ![LowestFree] = c]
  /\ call' = [call EXCEPT ![c] = [ExecuteRequest(@) EXCEPT !.fd = LowestFree, !.pc = "runonce"]]
  /\ ev' = IF threadid = c
             THEN RunOnWritable(ev, <<"write", c>>, LowestFree)
             ELSE WakeupPipe(AppendToRunQ(ev, <<"writable", "write", c, LowestFree>>))
  /\ threadid' = c
  /\ UNCHANGED <<mode, round, user, crashed>>

RunOnceReturns(c) ==
  /\ mode = "sync" /\ call[c].pc = "runonce" /\ round.phase = "select" /\ NothingToDo(ev)
  /\ Goto(c, "get")
  /\ UNCHANGED <<mode, ev, round, threadid, mutex, owner, user, crashed>>

(* waitAndGet(), and the end of the mutex' scope *)
WaitAndGet(c) ==
  /\ call[c].pc = "get" /\ call[c].promise # "pending"
  /\ call' = [call EXCEPT ![c].pc = "done",
                          ![c].status = IF @ = "none" /\ call[c].promise = "success"
                                          THEN "ok" ELSE "error"]
  /\ mutex' = "free"
  /\ UNCHANGED <<mode, ev, round, threadid, owner, user, crashed>>

-----------------------------------------------------------------------------
(* The thread of the server's connection: runOnReadable() and cancelFD()   *)
(* from a thread that is not the loop's                                    *)

UserRegister ==
  /\ user = "register"
  /\ ev' = WakeupPipe(AppendToRunQ(ev, <<"readable", "user", "user", UserFD>>))
  /\ user' = "cancel"
  /\ UNCHANGED <<mode, call, round, threadid, mutex, owner, crashed>>

UserCancel ==
  /\ user = "cancel"
  /\ ev' = WakeupPipe(AppendToRunQ(ev, <<"cancel", "user", "user", UserFD>>))
  /\ user' = "cancelling"
  /\ UNCHANGED <<mode, call, round, threadid, mutex, owner, crashed>>

(* cancelFD() has returned, and the descriptor is closed *)
UserClose ==
  /\ user = "cancelled"
  /\ owner' = [owner EXCEPT ![UserFD] = "free"]
  /\ user' = "done"
  /\ UNCHANGED <<mode, call, ev, round, threadid, mutex, crashed>>

-----------------------------------------------------------------------------
(* The loop, in pool mode of a thread of its own (run()), in sync mode of  *)
(* the caller (runOnce())                                                  *)

LoopRuns == mode = "pool" \/ \E c \in Calls : call[c].pc = "runonce"

Poll ==
  /\ LoopRuns /\ round.phase = "select" /\ ~(mode = "sync" /\ NothingToDo(ev))
  /\ \E r \in SUBSET ev.read, w \in SUBSET ev.write :
       /\ ev.pipe \/ r \cup w # {}
       /\ round' = Select(ev, r, w)
  /\ UNCHANGED <<mode, call, ev, threadid, mutex, owner, user, crashed>>

OnRunQWakeup ==
  /\ round.phase = "drain"
  /\ ev' = DrainPipe(ev)
  /\ round' = [round EXCEPT !.phase = "splice"]
  /\ UNCHANGED <<mode, call, threadid, mutex, owner, user, crashed>>

TakeTasks ==
  /\ round.phase = "splice"
  /\ round' = Passing(Splice(ev, round))
  /\ ev' = [ev EXCEPT !.runq = <<>>]
  /\ UNCHANGED <<mode, call, threadid, mutex, owner, user, crashed>>

(* A task registers a descriptor or cancels one *)
RunTask ==
  /\ round.phase = "tasks"
  /\ LET t == Head(round.tasks)
         cb == <<t[2], t[3]>>
     IN /\ ev' = CASE t[1] = "writable" -> RunOnWritable(ev, cb, t[4])
                   [] t[1] = "readable" -> RunOnReadable(ev, cb, t[4])
                   [] OTHER -> CancelFD(ev, t[4])
        /\ user' = IF t[1] = "cancel" THEN "cancelled" ELSE user
  /\ round' = Passing([round EXCEPT !.tasks = Tail(@)])
  /\ UNCHANGED <<mode, call, threadid, mutex, owner, crashed>>

(* The next ready descriptor has the callback `kind` of call c *)
Callback(kind, c) ==
  /\ round.phase = "fds"
  /\ ev.callbacks[NextFD(round)] = <<kind, c>>
  /\ round' = Passing(Passed(round))

(* The server's connection does not go on waiting; or it was cancelled in  *)
(* this round, and nothing is called.                                      *)
OtherCallback ==
  /\ round.phase = "fds"
  /\ ev.callbacks[NextFD(round)] \in {NoCallback, <<"user", "user">>}
  /\ round' = Passing(Passed(round))
  /\ ev' = Fired(ev, round)
  /\ UNCHANGED <<mode, call, threadid, mutex, owner, user, crashed>>

(* connectAsync() is through: the pool makes the connection *)
Connected(c) ==
  /\ Callback("connected", c)
  /\ call' = [call EXCEPT ![c] = ExecuteRequest(@)]
  /\ ev' = RunOnWritable(Fired(ev, round), <<"write", c>>, call[c].fd)
  /\ UNCHANGED <<mode, threadid, mutex, owner, user, crashed>>

(* error(): on_ready_ wakes the pool up, which deletes the connection, and *)
(* then the connection's cur_handler_ is used.                             *)
Error(c) ==
  \/ /\ call' = [call EXCEPT ![c] = OnError(ParkConnection(Finished(@)))]
     /\ UNCHANGED crashed
  \/ /\ mode = "pool"
     /\ call' = [call EXCEPT ![c] = ParkConnection(Finished(@))]
     /\ crashed' = TRUE

Write(c) ==
  /\ Callback("write", c)
  /\ \E n \in 1..call[c].unsent :
       /\ call' = [call EXCEPT ![c].unsent = @ - n]
       /\ ev' = IF n < call[c].unsent
                  THEN RunOnWritable(Fired(ev, round), <<"write", c>>, call[c].fd)
                  ELSE RunOnReadable(Fired(ev, round), <<"read", c>>, call[c].fd)
  /\ UNCHANGED <<mode, threadid, mutex, owner, user, crashed>>

WriteFails(c) ==
  /\ Callback("write", c)
  /\ CloseEffect(c, Fired(ev, round))
  /\ Error(c)
  /\ UNCHANGED <<mode, threadid, mutex, user>>

(* HTTPParser::parse() of the next n units: the message is complete with   *)
(* its headers if no body is announced, even if some of it has come.       *)
Parsed(k, n) ==
  LET read == k.pos + n - Heads
      q == [k EXCEPT !.pos = @ + n]
      complete == \/ read = k.response.expected
                  \/ k.parser = "header" /\ k.response.expected = 0
  IN IF read < 0 THEN q
     ELSE [q EXCEPT !.body = read, !.parser = IF complete THEN "done" ELSE "body"]

(* A plausible bug: the end of the connection is the end of the message *)
AtEOFAccepted(k) == [k EXCEPT !.parser = "done"]

(* HTTPParser::eof() *)
AtEOF(k) ==
  [k EXCEPT !.parser =
     IF k.parser = "body" /\ k.response.expected # UntilClosed THEN "raised" ELSE "done"]

(* read(): what there is goes to the parser; nothing more comes after the  *)
(* server has closed.                                                      *)
Received(c) ==
  IF call[c].pos = call[c].response.sent THEN {AtEOF(call[c])}
  ELSE {Parsed(call[c], n) : n \in 1..(call[c].response.sent - call[c].pos)}

ReadMore(c) ==
  /\ Callback("read", c)
  /\ \E k \in Received(c) :
       /\ k.parser \in {"header", "body"}
       /\ call' = [call EXCEPT ![c] = k]
  /\ ev' = RunOnReadable(Fired(ev, round), <<"read", c>>, call[c].fd)
  /\ UNCHANGED <<mode, threadid, mutex, owner, user, crashed>>

ReadWouldBlock(c) ==
  /\ Callback("read", c)
  /\ mode = "pool" /\ call[c].blocked < MaxWouldBlock
  /\ call' = [call EXCEPT ![c].blocked = @ + 1]
  /\ ev' = RunOnReadable(Fired(ev, round), <<"read", c>>, call[c].fd)
  /\ UNCHANGED <<mode, threadid, mutex, owner, user, crashed>>

(* The response is complete: close(), and on_ready_ wakes up the pool and  *)
(* then the handler.                                                       *)
ReadDone(c) ==
  /\ Callback("read", c)
  /\ \E k \in Received(c) :
       /\ k.parser = "done"
       /\ call' = [call EXCEPT ![c] = OnResponseComplete(ParkConnection(Finished(k)))]
  /\ CloseEffect(c, Fired(ev, round))
  /\ UNCHANGED <<mode, threadid, mutex, user, crashed>>

(* read() or the parser fails *)
ReadFails(c) ==
  /\ Callback("read", c)
  /\ CloseEffect(c, Fired(ev, round))
  /\ Error(c)
  /\ UNCHANGED <<mode, threadid, mutex, user>>

-----------------------------------------------------------------------------
LoopStep ==
  \/ Poll \/ OnRunQWakeup \/ TakeTasks \/ RunTask \/ OtherCallback
  \/ \E c \in Calls : Connected(c) \/ Write(c) \/ WriteFails(c) \/ ReadMore(c)
                        \/ ReadWouldBlock(c) \/ ReadDone(c) \/ ReadFails(c)

CallStep(c) ==
  \/ CallFails(c) \/ ConnectAsync(c) \/ Wakeup(c) \/ HookSuccess(c) \/ HookFailure(c)
  \/ WaitRPC(c) \/ SyncFails(c) \/ SyncConnects(c) \/ RunOnceReturns(c) \/ WaitAndGet(c)

UserStep == UserRegister \/ UserCancel \/ UserClose

AllDone == \A c \in Calls : call[c].pc = "done"

(* When all have returned, the loop waits for ever in select() *)
Next == ~crashed /\ (LoopStep \/ UserStep \/ \E c \in Calls : CallStep(c))

(* Every thread runs on.  A descriptor that is ready stays so, and select()  *)
(* reports it in the end: a server answers, and closes its connection.       *)
Fairness ==
  /\ WF_vars(~crashed /\ LoopStep) /\ WF_vars(~crashed /\ UserStep)
  /\ \A c \in Calls : WF_vars(~crashed /\ CallStep(c))

Spec == Init /\ [][Next]_vars /\ Fairness

-----------------------------------------------------------------------------
(* A call that succeeds returns the whole body that the server meant to    *)
(* send, whatever the portions in which it came, provided that the message *)
(* says where it ends; and an RPC becomes ready once, although the promise *)
(* may be fulfilled before, between or after the two callbacks are set     *)
(* (HTTPClientConnection::read, HTTPRPCClient::call, AnyRPC::ready).       *)
AnswersWhole ==
  \A c \in Calls :
    /\ call[c].readies <= 1
    /\ call[c].pc = "done" /\ call[c].status = "ok" /\ Delimited(call[c].response) =>
         Whole(call[c].response) /\ call[c].body = call[c].response.body

(* A callback that is registered for a descriptor belongs to the socket    *)
(* that has the descriptor now, also after it was closed and given to      *)
(* another call, and so does every task under way; a free descriptor is    *)
(* not registered (HTTPClientConnection::close, EventLoop::cancelFD).  Nor *)
(* does the count by which runOnce() decides to return miss one or count   *)
(* one twice.                                                              *)
CallbacksOwned ==
  /\ \A fd \in Fds :
       /\ ev.callbacks[fd] # NoCallback => owner[fd] = ev.callbacks[fd][2]
       /\ owner[fd] = "free" => fd \notin ev.read \cup ev.write
  /\ \A t \in Range(ev.runq) \cup Range(round.tasks) : owner[t[4]] = t[3]
  /\ mode = "sync" /\ round.phase = "select" =>
       ev.num = Cardinality(ev.read) + Cardinality(ev.write)

(* When all calls have returned, connections, handlers and descriptors are *)
(* gone and the statistics are back at zero, whatever failed on the way    *)
(* (HTTPConnectionPool::parkConnection, HTTPResponseFuture::onError,       *)
(* HTTPClientConnection::error).                                           *)
NothingLeaks ==
  AllDone /\ ~crashed =>
    \A c \in Calls :
      /\ call[c].conn \in {"none", "freed"} /\ call[c].handler \in {"none", "deleted"}
      /\ call[c].connections = 0 /\ call[c].requests = 0
      /\ \A fd \in Fds : owner[fd] # c

(* A call settles: with the whole answer, once, and with nothing left over *)
(* (HTTPClientConnection, HTTPConnectionPool, HTTPRPCClient).              *)
CallsSettle == AnswersWhole /\ NothingLeaks

(* Every call returns, with a result or with an error, whatever fails,     *)
(* unless the freed connection that error() uses brings the process down   *)
(* (EventLoop::appendToRunQ and wakeup, HTTPClient::executeRequest).       *)
CallsReturn == <>(crashed \/ AllDone)
-----------------------------------------------------------------------------
(* Answers for the run: whole ones and broken ones, of each way to announce a length *)
Response(code, body, expected, sent) ==
  [code |-> code, body |-> body, expected |-> expected, sent |-> sent]

MCUsual == Response(200, 1, 1, 3)
MCResponses ==
  { Response(200, 2, 2, 4),            \* Content-Length
    Response(200, 2, 2, 3),            \* ... and the server breaks down in the body
    Response(200, 2, UntilClosed, 4),  \* Connection: close
    Response(200, 2, UntilClosed, 3),  \* ... and the server breaks down in the body
    Response(200, 2, 0, 4),            \* neither
    Response(200, 2, 2, 1),            \* the server breaks down in the headers
    Response(500, 1, 1, 3) }
=============================================================================
