------------------------ MODULE HTTPServerConnection ------------------------
(***************************************************************************)
(* One request on an stx::http::HTTPServerConnection: the event loop that  *)
(* reads the request and writes the response, the thread of the service    *)
(* that answers it, and the HTTPResponseStream between the two.            *)
(*                                                                         *)
(* The request is a header (piece 0) and `pieces` pieces of body; the      *)
(* response is a header (unit 0) and the units of the body chunks, which   *)
(* the service numbers as it writes them.  The mutexes of connection and   *)
(* stream are held across steps only by a service thread inside            *)
(* finishResponse(), which waits there for the loop to execute cancelFD(). *)
(*                                                                         *)
(* Services answer in one of three ways: "simple" ones (HTTPService) get   *)
(* the whole body and return a response; "push" ones write chunks from     *)
(* their own thread; "pull" ones write from the callback that they set     *)
(* with onBodyWritten().  Keep-alive is switched off in the code, so a     *)
(* connection serves one request.                                          *)
(***************************************************************************)
EXTENDS Integers, Sequences

CONSTANTS
    Services,    \* the kinds of service: "simple", "push", "pull"
    MaxPieces,   \* bound on the pieces of the request's body
    MaxUnits,    \* bound on the units of the response's body
    MaxBuf,      \* kMaxWriteBufferSize, in units
    MayFail,     \* read() and write() of the socket may fail
    MayThrow     \* the service may throw

ASSUME ServerAssumption ==
    /\ Services \subseteq {"simple", "push", "pull"}
    /\ MaxPieces \in Nat /\ MaxUnits \in Nat /\ MaxBuf \in Nat \ {0}
    /\ MayFail \in BOOLEAN /\ MayThrow \in BOOLEAN

VARIABLES
    service, pieces,  \* rigid: the service asked, the pieces of the request's body
    \* the connection, reading
    parser,     \* state of parser_: "header", "body" or "done"
    received,   \* pieces parsed
    body_buf,   \* body_buf_
    chunkfn,    \* readRequestBody() has installed its callback
    runq,       \* body callbacks posted to the loop
    body,       \* pieces that the body callback has been given
    lasts,      \* how many times it was told of the last chunk
    \* the connection, writing
    closed, refs, write_buf,
    armed,      \* what the loop waits for: a subset of {"read", "write"}
    wire,       \* units written to the socket
    \* the response stream
    running, headers, finished,  \* callback_running_, headers_written_, response_finished_
    buf, srefs,
    \* the threads
    loop, lchunk,   \* the loop: where it is, the chunk it is about to write
    hpc, hchunk,    \* the same for the service's thread
    caught,         \* the service has thrown
    written,        \* units that the service has written
    \* history
    ioError, raised, lateThrow, uaf

asked    == <<service, pieces>>
request  == <<asked, parser, received, body_buf, chunkfn, runq, body, lasts>>
conn     == <<closed, refs, write_buf, armed, wire>>
stream   == <<running, headers, finished, buf, srefs>>
threads  == <<loop, lchunk, hpc, hchunk, caught, written>>
history  == <<ioError, raised, lateThrow, uaf>>
vars     == <<request, conn, stream, threads, history>>

\* Types.  The reference counts of connection and stream stay within the
\* references that the code hands out.
TypeOK ==
    /\ service \in Services /\ pieces \in 0..MaxPieces
    /\ parser \in {"header", "body", "done"}
    /\ received \in 0..(pieces + 1) /\ lasts \in Nat
    /\ armed \in {{}, {"read"}, {"write"}}  \* one callback per descriptor
    /\ refs \in 0..3 /\ srefs \in 0..2
    /\ {chunkfn, closed, running, headers, finished, caught, ioError, raised,
        lateThrow, uaf} \subseteq BOOLEAN
    /\ loop \in {"poll", "callback", "onwritten", "write body", "dead"}
    /\ hpc \in {"none", "ready", "begin", "reading", "wait body", "start", "open",
                "wait reader", "test reader", "write body", "cancel", "finished",
                "catch", "done", "escaped"}
    /\ written \in 0..MaxUnits

Init ==
    /\ service \in Services /\ pieces \in 0..MaxPieces
    /\ parser = "header" /\ received = 0 /\ body_buf = << >> /\ chunkfn = FALSE
    /\ runq = << >> /\ body = << >> /\ lasts = 0
    /\ closed = FALSE /\ refs = 1 /\ write_buf = << >> /\ armed = {"read"} /\ wire = << >>
    /\ running = FALSE /\ headers = FALSE /\ finished = FALSE /\ buf = << >> /\ srefs = 0
    /\ loop = "poll" /\ lchunk = << >> /\ hpc = "none" /\ hchunk = << >>
    /\ caught = FALSE /\ written = 0
    /\ ioError = FALSE /\ raised = FALSE /\ lateThrow = FALSE /\ uaf = FALSE

\* The consecutive numbers from a to b.
Numbers(a, b) == [i \in 1..(IF b < a THEN 0 ELSE b - a + 1) |-> a + i - 1]

\* Nobody sits in cancelFD() with the mutexes.
Unlocked == hpc # "cancel"

-----------------------------------------------------------------------------
(* The event loop.                                                         *)

\* read_body_chunk_fn(): post the buffered and the new data to the loop.
Post(data, last) ==
    IF last \/ data # << >>
    THEN runq' = Append(runq, [data |-> data, last |-> last]) /\ body_buf' = << >>
    ELSE UNCHANGED <<runq, body_buf>>

\* read() of n pieces: parse; dispatchRequest() when the headers are complete,
\* with the body to come; then the body chunk; then wait for more.
LoopRead(n) ==
    LET dispatch == received = 0
        simple == dispatch /\ service = "simple"
        data == Numbers(IF dispatch THEN 1 ELSE received, received + n - 1)
    IN
    /\ ~uaf /\ Unlocked /\ loop = "poll" /\ "read" \in armed
    /\ received + n <= pieces + 1
    /\ received' = received + n
    /\ parser' = IF received + n = pieces + 1 THEN "done" ELSE "body"
    /\ refs' = IF dispatch THEN refs + 1 ELSE refs
    /\ hpc' = IF dispatch /\ service # "simple" THEN "ready" ELSE hpc
    /\ chunkfn' = (chunkfn \/ simple)
    /\ \/ /\ chunkfn' /\ (data # << >> \/ pieces = 0)
          /\ Post(body_buf \o data, parser' = "done")
       \/ /\ chunkfn' /\ data = << >> /\ pieces # 0
          /\ UNCHANGED <<runq, body_buf>>
       \/ /\ ~chunkfn'
          /\ body_buf' = body_buf \o data
          /\ UNCHANGED runq
    /\ armed' = IF parser' = "done" THEN armed \ {"read"} ELSE armed
    /\ UNCHANGED <<asked, body, lasts, closed, write_buf, wire, stream, loop, lchunk, hchunk,
                   caught, written, history>>

\* read() fails, or the peer has closed: close() and its decRef().
LoopReadFails ==
    /\ ~uaf /\ Unlocked /\ loop = "poll" /\ "read" \in armed /\ MayFail
    /\ closed' = TRUE /\ armed' = {} /\ refs' = refs - 1
    /\ ioError' = TRUE
    /\ UNCHANGED <<request, write_buf, wire, stream, threads, raised, lateThrow, uaf>>

\* A posted body callback.  That of a streaming service uses the request
\* stream, which the service's thread owns.
LoopBodyCallback ==
    /\ ~uaf /\ loop = "poll" /\ runq # << >>
    /\ runq' = Tail(runq)
    /\ body' = body \o Head(runq).data
    /\ lasts' = IF Head(runq).last THEN lasts + 1 ELSE lasts
    /\ hpc' = IF service = "simple" /\ Head(runq).last THEN "ready" ELSE hpc
    /\ uaf' = (service # "simple" /\ hpc \in {"done", "escaped"})
    /\ UNCHANGED <<asked, parser, received, body_buf, chunkfn, conn, stream, loop, lchunk,
                   hchunk, caught, written, ioError, raised, lateThrow>>

\* Mutant of LoopWrite: the buffer is not cleared when all of it is written.
LoopWriteKeepsBuffer(n) ==
    /\ ~uaf /\ Unlocked /\ loop = "poll" /\ "write" \in armed /\ n <= Len(write_buf)
    /\ wire' = wire \o SubSeq(write_buf, 1, n)
    /\ \/ /\ n < Len(write_buf)
          /\ write_buf' = SubSeq(write_buf, n + 1, Len(write_buf))
          /\ UNCHANGED <<armed, loop>>
       \/ /\ n = Len(write_buf)
          /\ armed' = armed \ {"write"} /\ loop' = "callback"
          /\ UNCHANGED write_buf
    /\ UNCHANGED <<request, closed, refs, stream, lchunk, hpc, hchunk, caught, written,
                   history>>

\* Mutant of LoopWrite: the completion callback is not called.
LoopWriteNoCallback(n) ==
    /\ ~uaf /\ Unlocked /\ loop = "poll" /\ "write" \in armed /\ n <= Len(write_buf)
    /\ wire' = wire \o SubSeq(write_buf, 1, n)
    /\ write_buf' = SubSeq(write_buf, n + 1, Len(write_buf))
    /\ armed' = IF n = Len(write_buf) THEN armed \ {"write"} ELSE armed
    /\ UNCHANGED <<request, closed, refs, stream, loop, lchunk, hpc, hchunk, caught,
                   written, history>>

\* write() gets n units out; when that is all, the completion callback is next.
LoopWrite(n) ==
    /\ ~uaf /\ Unlocked /\ loop = "poll" /\ "write" \in armed /\ n <= Len(write_buf)
    /\ wire' = wire \o SubSeq(write_buf, 1, n)
    /\ write_buf' = SubSeq(write_buf, n + 1, Len(write_buf))
    /\ \/ n < Len(write_buf) /\ UNCHANGED <<armed, loop>>
       \/ n = Len(write_buf) /\ armed' = armed \ {"write"} /\ loop' = "callback"
    /\ UNCHANGED <<request, closed, refs, stream, lchunk, hpc, hchunk, caught, written,
                   history>>

\* write() fails: close().  The completion callback is never called.
LoopWriteFails ==
    /\ ~uaf /\ Unlocked /\ loop = "poll" /\ "write" \in armed /\ MayFail
    /\ closed' = TRUE /\ armed' = {} /\ refs' = refs - 1
    /\ ioError' = TRUE
    /\ UNCHANGED <<request, write_buf, wire, stream, threads, raised, lateThrow, uaf>>

\* Mutant of StreamUnref: the end of the stream keeps the connection.
StreamUnrefLeaks(n, r) == srefs' = srefs - n /\ refs' = r

\* decRef() of the stream n times; its end drops the reference to the connection.
StreamUnref(n, r) ==
    /\ srefs' = srefs - n
    /\ refs' = IF srefs = n THEN r - 1 ELSE r

\* The part of the buffer that onStateChanged() takes.
TakeSize(b) == IF Len(b) > MaxBuf THEN MaxBuf ELSE Len(b)

\* onStateChanged() in the loop, with callback_running_ down, buffer b and
\* response_finished_ f: write the next chunk, or finish and close, or tell
\* the service that everything is written.
LoopStateChanged(b, f) ==
    \/ /\ b # << >>
       /\ lchunk' = SubSeq(b, 1, TakeSize(b))
       /\ buf' = SubSeq(b, TakeSize(b) + 1, Len(b))
       /\ hpc' = IF hpc = "wait reader" THEN "test reader" ELSE hpc
       /\ running' = TRUE
       /\ loop' = "write body"
       /\ UNCHANGED <<closed, refs, armed, srefs, raised>>
    \/ /\ b = << >> /\ f
       /\ IF closed
          THEN loop' = "dead" /\ raised' = TRUE /\ refs' = refs - 1
                  /\ UNCHANGED <<closed, armed, srefs>>
          ELSE /\ closed' = TRUE /\ armed' = {}
               /\ StreamUnref(1, refs - 2)
               /\ loop' = "poll"
               /\ UNCHANGED raised
       /\ running' = FALSE /\ buf' = b
       /\ UNCHANGED <<lchunk, hpc>>
    \/ /\ b = << >> /\ ~f
       /\ running' = FALSE /\ buf' = b
       /\ loop' = IF service = "pull" THEN "onwritten" ELSE "poll"
       /\ UNCHANGED <<closed, refs, armed, srefs, lchunk, hpc, raised>>

OnCallbackCompleted ==
    /\ ~uaf /\ Unlocked /\ loop = "callback"
    /\ LoopStateChanged(buf, finished)
    /\ UNCHANGED <<request, write_buf, wire, headers, finished, hchunk, caught, written,
                   ioError, lateThrow, uaf>>

\* on_body_written_() of a pull service writes a chunk or finishes.
OnBodyWritten ==
    /\ ~uaf /\ Unlocked /\ loop = "onwritten"
    /\ \/ /\ written < MaxUnits
          /\ written' = written + 1
          /\ LoopStateChanged(<<written + 1>>, FALSE)
          /\ UNCHANGED finished
       \/ /\ finished' = TRUE
          /\ LoopStateChanged(<< >>, TRUE)
          /\ UNCHANGED written
    /\ UNCHANGED <<request, write_buf, wire, headers, hchunk, caught, ioError, lateThrow,
                   uaf>>

\* The connection's part of writing: refused before the request is read or
\* after close(), else the data is buffered and the loop waits to write.
Refused == parser # "done" \/ closed

Buffered(data) ==
    /\ write_buf' = write_buf \o data
    /\ armed' = armed \cup {"write"}

LoopWritesBody ==
    /\ ~uaf /\ Unlocked /\ loop = "write body"
    /\ IF Refused
       THEN loop' = "dead" /\ raised' = TRUE /\ UNCHANGED <<write_buf, armed>>
       ELSE loop' = "poll" /\ Buffered(lchunk) /\ UNCHANGED raised
    /\ lchunk' = << >>
    /\ UNCHANGED <<request, closed, refs, wire, stream, hpc, hchunk, caught, written,
                   ioError, lateThrow, uaf>>

-----------------------------------------------------------------------------
(* The thread of the service.                                              *)

\* The runnable of HTTPServiceHandler::dispatchRequest() creates the stream,
\* which refers to the connection, and passes a second reference on.
Begin ==
    /\ ~uaf /\ hpc = "ready"
    /\ srefs' = 2 /\ refs' = refs + 1
    /\ hpc' = "begin"
    /\ UNCHANGED <<request, closed, write_buf, armed, wire, running, headers, finished,
                   buf, loop, lchunk, hchunk, caught, written, history>>

\* HTTPRequestStream::readBody(), called by the service and never by the catch
\* clause behind it: readRequestBody() installs its callback ...
ReadBody ==
    /\ ~uaf /\ hpc = "begin" /\ ~caught /\ service # "simple" /\ ~chunkfn
    /\ chunkfn' = TRUE
    /\ hpc' = "reading"
    /\ UNCHANGED <<asked, parser, received, body_buf, runq, body, lasts, conn, stream, loop,
                   lchunk, hchunk, caught, written, history>>

\* ... and calls it, in a second critical section, for what came before.
ReadBodyFlush ==
    /\ ~uaf /\ hpc = "reading"
    /\ Post(body_buf, parser = "done")
    /\ hpc' = "wait body"
    /\ UNCHANGED <<asked, parser, received, chunkfn, body, lasts, conn, stream, loop, lchunk,
                   hchunk, caught, written, history>>

\* waitForFirstWakeup() returns.
BodyRead ==
    /\ ~uaf /\ hpc = "wait body" /\ lasts > 0
    /\ hpc' = "begin"
    /\ UNCHANGED <<request, conn, stream, loop, lchunk, hchunk, caught, written, history>>

\* Where the service's thread goes on after a call of the stream.
AfterCall(f) ==
    CASE ~f -> "open"
      [] f /\ ~caught -> "finished"
      [] f /\ caught -> "done"

\* startResponse(), up to its unlock.
StartResponse ==
    /\ ~uaf /\ hpc = "begin"
    /\ headers' = TRUE /\ running' = TRUE
    /\ hpc' = "start"
    /\ UNCHANGED <<request, conn, finished, buf, srefs, loop, lchunk, hchunk, caught,
                   written, history>>

\* The exception of a refused call: to the service, which passes it on, or
\* out of the catch clause of dispatchRequest().
RaiseTo == IF caught THEN "escaped" ELSE "catch"

\* conn_->writeResponse().  writeResponse() of the stream finishes next; a pull
\* service has set its callback before and returns.
WriteHeaders ==
    /\ ~uaf /\ hpc = "start"
    /\ IF Refused
       THEN hpc' = RaiseTo /\ raised' = TRUE /\ UNCHANGED <<write_buf, armed>>
       ELSE /\ hpc' = IF service = "pull" /\ ~caught THEN "finished" ELSE "open"
            /\ Buffered(<<0>>)
            /\ UNCHANGED raised
    /\ UNCHANGED <<request, closed, refs, wire, stream, loop, lchunk, hchunk, caught,
                   written, ioError, lateThrow, uaf>>

\* Mutant of StateChanged: callback_running_ is not tested when finishing.
StateChangedEager(b, f) ==
    \/ /\ running /\ ~(f /\ b = << >>)
       /\ buf' = b /\ hpc' = AfterCall(f)
       /\ UNCHANGED <<running, hchunk, closed, refs>>
    \/ /\ ~running /\ b # << >>
       /\ hchunk' = SubSeq(b, 1, TakeSize(b))
       /\ buf' = SubSeq(b, TakeSize(b) + 1, Len(b))
       /\ running' = TRUE
       /\ hpc' = "write body"
       /\ UNCHANGED <<closed, refs>>
    \/ /\ b = << >> /\ f
       /\ hpc' = IF closed THEN RaiseTo ELSE "cancel"
       /\ closed' = TRUE /\ refs' = refs - 1
       /\ UNCHANGED <<running, buf, hchunk>>

\* onStateChanged() in the service's thread with buffer b and finished f.
StateChanged(b, f) ==
    \/ /\ running
       /\ buf' = b /\ hpc' = AfterCall(f)
       /\ UNCHANGED <<running, hchunk, closed, refs>>
    \/ /\ ~running /\ b # << >>
       /\ hchunk' = SubSeq(b, 1, TakeSize(b))
       /\ buf' = SubSeq(b, TakeSize(b) + 1, Len(b))
       /\ running' = TRUE
       /\ hpc' = "write body"
       /\ UNCHANGED <<closed, refs>>
    \/ /\ ~running /\ b = << >> /\ f
       /\ hpc' = IF closed THEN RaiseTo ELSE "cancel"
       /\ closed' = TRUE /\ refs' = refs - 1
       /\ UNCHANGED <<running, buf, hchunk>>

\* writeBodyChunk() of one or two units.
WriteBodyChunk(n) ==
    /\ ~uaf /\ hpc = "open" /\ service = "push" /\ ~caught /\ written + n <= MaxUnits
    /\ written' = written + n
    /\ StateChanged(buf \o Numbers(written + 1, written + n), FALSE)
    /\ UNCHANGED <<request, write_buf, armed, wire, headers, finished, srefs, loop,
                   lchunk, caught, history>>

\* conn_->writeResponseBody()
ServiceWritesBody ==
    /\ ~uaf /\ hpc = "write body"
    /\ IF Refused
       THEN hpc' = RaiseTo /\ raised' = TRUE /\ UNCHANGED <<write_buf, armed>>
       ELSE hpc' = AfterCall(finished) /\ Buffered(hchunk) /\ UNCHANGED raised
    /\ hchunk' = << >>
    /\ UNCHANGED <<request, closed, refs, wire, stream, loop, lchunk, caught, written,
                   ioError, lateThrow, uaf>>

\* waitForReader() of a push service.
WaitForReader ==
    /\ ~uaf /\ hpc \in {"open", "test reader"} /\ service = "push" /\ ~caught
    /\ Len(buf) > MaxBuf
    /\ hpc' = "wait reader"
    /\ UNCHANGED <<request, conn, stream, loop, lchunk, hchunk, caught, written, history>>

ReaderCaughtUp ==
    /\ ~uaf /\ hpc = "test reader" /\ Len(buf) <= MaxBuf
    /\ hpc' = "open"
    /\ UNCHANGED <<request, conn, stream, loop, lchunk, hchunk, caught, written, history>>

\* finishResponse(), up to conn_->finishResponse() and the cancelFD() of close(),
\* where the thread waits for the loop, with both mutexes.
FinishResponse ==
    /\ ~uaf /\ hpc = "open"
    /\ finished' = TRUE
    /\ IF finished
       THEN hpc' = AfterCall(TRUE) /\ UNCHANGED <<running, buf, hchunk, closed, refs>>
       ELSE StateChanged(buf, TRUE)
    /\ UNCHANGED <<request, write_buf, armed, wire, headers, srefs, loop, lchunk,
                   caught, written, history>>

\* The loop executes cancelFD(); the thread closes the socket and drops the
\* reference of close() and the stream's own one.
CancelFD ==
    /\ ~uaf /\ hpc = "cancel" /\ loop = "poll"
    /\ armed' = {}
    /\ StreamUnref(1, refs - 1)
    /\ hpc' = AfterCall(TRUE)
    /\ UNCHANGED <<request, closed, write_buf, wire, running, headers, finished, buf, loop,
                   lchunk, hchunk, caught, written, history>>

\* The service throws, possibly when it has finished the response.
ServiceThrows ==
    /\ ~uaf /\ MayThrow /\ ~caught /\ hpc \in {"begin", "open", "finished"}
    /\ hpc' = "catch"
    /\ lateThrow' = (hpc = "finished")
    /\ UNCHANGED <<request, conn, stream, loop, lchunk, hchunk, caught, written, ioError,
                   raised, uaf>>

\* The catch clause: the service's reference is gone; finish what was started,
\* or answer with an error.
Catch ==
    /\ ~uaf /\ hpc = "catch"
    /\ caught' = TRUE
    /\ StreamUnref(1, refs)
    /\ uaf' = (srefs = 1)
    /\ hpc' = IF headers THEN "open" ELSE "begin"
    /\ UNCHANGED <<request, closed, write_buf, armed, wire, running, headers, finished,
                   buf, loop, lchunk, hchunk, written, ioError, raised, lateThrow>>

\* The service returns and drops its reference.
ServiceReturns ==
    /\ ~uaf /\ hpc = "finished"
    /\ StreamUnref(1, refs)
    /\ hpc' = "done"
    /\ UNCHANGED <<request, closed, write_buf, armed, wire, running, headers, finished,
                   buf, loop, lchunk, hchunk, caught, written, history>>

\* What the service's thread has to do next; writing more chunks is its choice.
ServiceStep ==
    \/ Begin \/ ReadBodyFlush \/ BodyRead \/ StartResponse \/ WriteHeaders
    \/ ServiceWritesBody \/ ReaderCaughtUp \/ FinishResponse \/ CancelFD \/ Catch
    \/ ServiceReturns

Next ==
    \/ \E n \in 1..(MaxPieces + 1) : LoopRead(n)
    \/ \E n \in 1..(MaxUnits + 1) : LoopWrite(n)
    \/ LoopReadFails \/ LoopWriteFails
    \/ LoopBodyCallback \/ OnCallbackCompleted \/ OnBodyWritten \/ LoopWritesBody
    \/ Begin \/ ReadBody \/ ReadBodyFlush \/ BodyRead \/ StartResponse \/ WriteHeaders
    \/ \E n \in 1..2 : WriteBodyChunk(n)
    \/ ServiceWritesBody \/ WaitForReader \/ ReaderCaughtUp \/ FinishResponse
    \/ CancelFD \/ ServiceThrows \/ Catch \/ ServiceReturns

Spec == Init /\ [][Next]_vars

\* The peer sends its request and reads the response, the loop runs, and the
\* service goes on and finishes.  Neither failures nor throws are fair.
Fairness ==
    /\ WF_vars(\E n \in 1..(MaxPieces + 1) : LoopRead(n))
    /\ WF_vars(\E n \in 1..(MaxUnits + 1) : LoopWrite(n))
    /\ WF_vars(LoopBodyCallback)
    /\ WF_vars(OnCallbackCompleted \/ OnBodyWritten \/ LoopWritesBody)
    /\ WF_vars(ServiceStep)

FairSpec == Spec /\ Fairness
-----------------------------------------------------------------------------
Count(b) == IF b THEN 1 ELSE 0

\* Nothing of the request's body is lost, duplicated or reordered on its way
\* through body_buf_ and the posted callbacks, whenever the service starts to
\* read it: the body callback has been given the pieces up to cut[0], the i-th
\* posted one holds those from there to cut[i], and body_buf_ the rest.
BodyInOrder ==
    LET last == IF received = 0 THEN 0 ELSE received - 1 IN
    \E cut \in [0..Len(runq) -> 0..last] :
        /\ body = Numbers(1, cut[0])
        /\ \A i \in 1..Len(runq) :
               cut[i - 1] <= cut[i] /\ runq[i].data = Numbers(cut[i - 1] + 1, cut[i])
        /\ body_buf = Numbers(cut[Len(runq)] + 1, last)

\* Nothing of the response is lost, duplicated or reordered on its way through
\* the stream's and the connection's buffers, although the loop and the
\* service's thread both move it on.
ResponseInOrder ==
    ~raised /\ hpc # "start" /\ headers =>
        wire \o write_buf \o lchunk \o hchunk \o buf = Numbers(0, written)

\* The server closes a healthy connection only behind the last byte.
ClosedAfterLastByte == closed /\ ~ioError => wire = Numbers(0, written)

\* Every byte of the request and of the response passes once and in order,
\* through body_buf_, the posted callbacks and the buffers of stream and
\* connection, although the loop and the service's thread both move them on
\* and whichever of the two closes the connection.
BytesInOrder == BodyInOrder /\ ResponseInOrder /\ ClosedAfterLastByte

\* The thread of a pull service that has thrown finishes the response while the
\* loop may still be in the service's callback: two threads use the stream.
TwoWriters == service = "pull" /\ caught

\* A thread that waits in cancelFD() for the loop, with the mutexes of stream
\* and connection, does not keep the loop from getting there: the loop is not
\* in a callback that needs one of the mutexes.  The one exception is a pull
\* service that throws behind its callback.
NoLockCycle == hpc = "cancel" => loop = "poll" \/ TwoWriters

\* The reference count of the connection: one until it is closed, one from the
\* dispatch of the request to finishResponse(), one for the stream.
RefsExact ==
    refs = Count(~closed \/ hpc = "cancel")
             + Count(received > 0 /\ ~(finished /\ closed /\ ~ioError))
             + Count(srefs > 0)

\* Freed objects are used only if the service throws after it has finished the
\* response, or if the last piece of the body comes between the two critical
\* sections of readRequestBody(), which tells the service of it twice.
NoUseAfterFree == uaf => lateThrow \/ lasts > 1

\* The references to connection and stream are exact in every order in which
\* the loop and the service's thread drop them, and nothing is used after the
\* last one is gone, but for the two cases above.
LifetimesRight == RefsExact /\ NoUseAfterFree

\* Without I/O errors and refused calls every response is written and the
\* connection freed, unless the two writers of a pull service lock each other out.
ResponseCompletes ==
    (hpc = "ready") ~> (refs = 0 \/ ioError \/ raised \/ uaf \/ TwoWriters)

\* The comment of HTTPServerConnection::start(): "The HTTP connection will free
\* itself once it is closed."
FreesItself == closed ~> (refs = 0 \/ uaf)
=============================================================================
