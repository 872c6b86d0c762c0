------------------------ MODULE HTTPConnectionProofs ------------------------
(***************************************************************************)
(* Proofs about HTTPServerConnection, for requests and responses of any    *)
(* length and any size of the write buffer.                                *)
(***************************************************************************)
EXTENDS HTTPServerConnection, SequenceTheorems, TLAPS

\* The service has not started its response.
Early == {"none", "ready", "begin", "reading", "wait body"}

\* The service's thread has left the runnable.
Gone == {"done", "escaped"}

Places == {"none", "ready", "begin", "reading", "wait body", "start", "open", "wait reader",
           "test reader", "write body", "cancel", "finished", "catch", "done", "escaped"}

\* A body callback that is posted to the loop.
Posted == [data : Seq(Int), last : BOOLEAN]

NumberType ==
    /\ pieces \in Nat /\ received \in Nat /\ lasts \in Nat /\ written \in Nat
    /\ refs \in Int /\ srefs \in Int

SequenceType ==
    /\ body \in Seq(Int) /\ body_buf \in Seq(Int)
    /\ runq \in Seq(Posted)
    /\ write_buf \in Seq(Int) /\ wire \in Seq(Int) /\ buf \in Seq(Int)
    /\ lchunk \in Seq(Int) /\ hchunk \in Seq(Int)

FlagType ==
    /\ chunkfn \in BOOLEAN /\ closed \in BOOLEAN /\ running \in BOOLEAN /\ headers \in BOOLEAN
    /\ finished \in BOOLEAN /\ caught \in BOOLEAN /\ ioError \in BOOLEAN
    /\ raised \in BOOLEAN /\ lateThrow \in BOOLEAN /\ uaf \in BOOLEAN

PlaceType ==
    /\ service \in {"simple", "push", "pull"}
    /\ parser \in {"header", "body", "done"} /\ armed \subseteq {"read", "write"}
    /\ loop \in {"poll", "callback", "onwritten", "write body", "dead"}
    /\ hpc \in Places

ConnType == NumberType /\ SequenceType /\ FlagType /\ PlaceType

\* The request: when it is complete, and how often its end is announced.
RequestOK ==
    /\ received <= pieces + 1 /\ (parser = "done" <=> received = pieces + 1)
    /\ "read" \in armed => parser # "done"
    /\ received = 0 => hpc = "none" /\ ~chunkfn
    /\ hpc = "none" => received = 0 \/ (service = "simple" /\ lasts = 0)
    /\ service = "simple" /\ hpc # "none" => lasts > 0
    /\ hpc \in {"reading", "wait body"} => chunkfn /\ service # "simple"
    /\ ~chunkfn => runq = << >>
    /\ chunkfn /\ service # "simple" /\ hpc \notin {"reading", "wait body"} => lasts > 0
    /\ lasts > 0 => parser = "done" /\ \A i \in 1..Len(runq) : runq[i].last
    /\ \A i \in 1..Len(runq) : runq[i].last => parser = "done"
    /\ \A i, k \in 1..Len(runq) : i < k /\ runq[i].last => runq[k].last
    /\ service = "simple" => \A i \in 1..Len(runq) : runq[i].last => i = Len(runq) /\ lasts = 0

\* callback_running_: the response is being written in one place at a time.
TokenOK ==
    /\ running => headers
    /\ ~headers => hpc \in Early \cup {"catch"}
    /\ hpc \in Early => ~headers
    /\ hpc \in {"start", "write body"} => running /\ loop = "poll" /\ "write" \notin armed
    /\ loop \in {"callback", "write body"} => running /\ "write" \notin armed
    /\ "write" \in armed => running /\ loop = "poll"
    /\ loop = "onwritten" => ~running /\ headers /\ service = "pull"
    /\ loop # "dead"
    /\ service = "pull" /\ hpc \in {"open", "wait reader", "test reader", "write body", "cancel"} => caught

\* Who may close the connection, and when.
CloseOK ==
    /\ ioError => closed /\ loop = "poll" /\ hpc # "cancel" /\ (headers => running)
    /\ closed /\ hpc # "cancel" => armed = {} /\ loop = "poll"
    /\ closed /\ ~ioError => finished /\ ~running
    /\ finished => running \/ closed
    /\ hpc = "cancel" => closed /\ ~running
    /\ finished => headers
    /\ hpc \in {"open", "wait reader", "test reader"} /\ ~caught => ~finished
    /\ hpc \in {"start", "write body"} => ~finished
    /\ hpc = "write body" => service = "push" /\ ~caught
    /\ raised => running /\ loop = "poll" /\ "write" \notin armed /\ hpc \notin {"start", "write body"}
    /\ headers /\ ~raised /\ hpc # "start" => parser = "done"
    /\ hpc = "cancel" => loop = "poll" \/ TwoWriters
    /\ caught => hpc \notin {"none", "ready", "reading", "wait body", "finished", "catch"}

\* The references.
SrefsExact ==
    srefs = Count(hpc \notin Gone \cup {"none", "ready"} /\ ~caught)
              + Count(hpc \notin {"none", "ready"} /\ ~(closed /\ ~ioError /\ hpc # "cancel"))

\* A service that throws before it has finished leaves the stream to the thread.
ThrowOK ==
    /\ hpc = "catch" /\ ~lateThrow =>
         ~finished /\ (service = "pull" => loop = "poll" /\ "write" \notin armed)
    /\ NoUseAfterFree

RefsOK == RefsExact /\ SrefsExact

\* Where the units of the response are.
DataOK ==
    /\ ~running => buf = << >>
    /\ loop # "write body" => lchunk = << >>
    /\ hpc # "write body" => hchunk = << >>
    /\ "write" \notin armed /\ ~ioError => write_buf = << >>
    /\ ~headers \/ hpc = "start" => wire = << >> /\ write_buf = << >> /\ buf = << >> /\ written = 0
    /\ ResponseInOrder
    /\ ClosedAfterLastByte

ConnInv == ConnType /\ RequestOK /\ TokenOK /\ CloseOK /\ ThrowOK /\ RefsOK /\ DataOK

USE DEF request, asked, conn, stream, threads, history

-----------------------------------------------------------------------------
(* Facts about numbers and sequences.                                      *)

\* Numbers() gives sequences of integers.
LEMMA NumbersType == \A a, b \in Int : Numbers(a, b) \in Seq(Int)
    BY DEF Numbers

\* Numbers() from a number to a smaller one are none.
LEMMA NumbersNone == \A a, b \in Int : b < a => Numbers(a, b) = << >>
    BY DEF Numbers

\* Numbers() from a number to itself.
LEMMA NumbersOne == \A w \in Nat : Numbers(w, w) = <<w>>
    BY DEF Numbers

\* When a sequence is the concatenation of two others.
LEMMA ConcatIs ==
    ASSUME NEW s \in Seq(Int), NEW t \in Seq(Int), NEW u \in Seq(Int),
           Len(u) = Len(s) + Len(t),
           \A i \in 1..Len(s) : u[i] = s[i],
           \A i \in 1..Len(t) : u[Len(s) + i] = t[i]
    PROVE  s \o t = u
<1> DEFINE c == s \o t
<1>1. /\ c \in Seq(Int) /\ Len(c) = Len(u)
      /\ \A i \in 1..Len(u) : c[i] = IF i <= Len(s) THEN s[i] ELSE t[i - Len(s)]
    BY ConcatProperties
<1>2. Len(s) \in Nat /\ Len(t) \in Nat
    BY LenProperties
<1> HIDE DEF c
<1>3. ASSUME NEW i \in 1..Len(u)
      PROVE  c[i] = u[i]
  <2>1. CASE i <= Len(s)
    <3>1. i \in 1..Len(s)
        BY <2>1, <1>2
    <3> QED
        BY <3>1, <2>1, <1>1
  <2>2. CASE ~(i <= Len(s))
    <3>1. i - Len(s) \in 1..Len(t) /\ Len(s) + (i - Len(s)) = i
        BY <2>2, <1>2
    <3> QED
        BY <3>1, <2>2, <1>1
  <2> QED
      BY <2>1, <2>2
<1>4. c = u
    BY <1>1, <1>3, SeqEqual
<1> QED
    BY <1>4 DEF c

\* Two adjacent runs of numbers are one.
LEMMA NumbersConcat ==
    ASSUME NEW a \in Int, NEW b \in Int, NEW c \in Int, a <= b + 1, b <= c
    PROVE  Numbers(a, b) \o Numbers(b + 1, c) = Numbers(a, c)
<1> DEFINE k == b - a + 1  m == c - b
           s == Numbers(a, b)  t == Numbers(b + 1, c)  u == Numbers(a, c)
<1>1. k \in Nat /\ m \in Nat /\ c - a + 1 = k + m
    OBVIOUS
<1>2. s \in Seq(Int) /\ Len(s) = k /\ \A i \in 1..k : s[i] = a + i - 1
    BY DEF Numbers
<1>3. t \in Seq(Int) /\ Len(t) = m /\ \A i \in 1..m : t[i] = b + i
    BY DEF Numbers
<1>4. u \in Seq(Int) /\ Len(u) = k + m /\ \A i \in 1..(k + m) : u[i] = a + i - 1
    BY <1>1 DEF Numbers
<1>5. \A i \in 1..k : i \in 1..(k + m)
    BY <1>1
<1>6. \A i \in 1..m : k + i \in 1..(k + m) /\ a + (k + i) - 1 = b + i
    BY <1>1
<1> HIDE DEF k, m, s, t, u
<1>7. \A i \in 1..k : u[i] = s[i]
    BY <1>2, <1>4, <1>5
<1>8. \A i \in 1..m : u[k + i] = t[i]
    BY <1>3, <1>4, <1>6
<1>9. s \o t = u
    BY <1>2, <1>3, <1>4, <1>7, <1>8, ConcatIs
<1> QED
    BY <1>9 DEF s, t, u

\* The same for what the service has written and the next chunk.
LEMMA NumbersGrow ==
    ASSUME NEW w \in Nat, NEW n \in Nat
    PROVE  Numbers(0, w) \o Numbers(w + 1, w + n) = Numbers(0, w + n)
    BY NumbersConcat

\* A sequence is what it starts with and the rest.
LEMMA Split ==
    ASSUME NEW s \in Seq(Int), NEW n \in 0..Len(s)
    PROVE  /\ SubSeq(s, 1, n) \in Seq(Int) /\ SubSeq(s, n + 1, Len(s)) \in Seq(Int)
           /\ SubSeq(s, 1, n) \o SubSeq(s, n + 1, Len(s)) = s
           /\ n = Len(s) => SubSeq(s, n + 1, Len(s)) = << >>
<1>1. Len(s) \in Nat /\ \A i \in 1..Len(s) : s[i] \in Int
    BY ElementOfSeq
<1>2. SubSeq(s, 1, n) \in Seq(Int) /\ SubSeq(s, n + 1, Len(s)) \in Seq(Int)
    BY <1>1, SubSeqProperties
<1>3. SubSeq(s, 1, n) \o SubSeq(s, n + 1, Len(s)) = SubSeq(s, 1, Len(s))
  <2>1. 1 \in 1..Len(s) + 1 /\ n \in 1 - 1..Len(s) /\ Len(s) \in n..Len(s)
      BY <1>1
  <2> QED
      BY <2>1, ConcatAdjacentSubSeq
<1>4. SubSeq(s, 1, Len(s)) = s
    BY SubSeqFull
<1>5. n = Len(s) => SubSeq(s, n + 1, Len(s)) = << >>
    BY <1>1, SubSeqEmpty
<1> QED
    BY <1>2, <1>3, <1>4, <1>5

\* onStateChanged() takes at least one unit from a buffer that has one, and never
\* more than there are.
LEMMA TakeSizeRange ==
    ASSUME NEW b \in Seq(Int)
    PROVE  TakeSize(b) \in 0..Len(b) /\ (b # << >> => TakeSize(b) > 0)
    BY ServerAssumption, EmptySeq, LenProperties DEF TakeSize

\* The empty sequence is neutral.
LEMMA NoneAdded == \A s \in Seq(Int) : s \o << >> = s /\ << >> \o s = s
    BY ConcatEmptySeq

\* Concatenation is associative.
LEMMA Associative == \A s, t, u \in Seq(Int) : (s \o t) \o u = s \o (t \o u)
    BY SMTT(30), ConcatAssociative

\* The type of a concatenation.
LEMMA ConcatType == \A s, t \in Seq(Int) : s \o t \in Seq(Int)
    BY ConcatProperties

\* A body callback that is posted goes behind the others.
LEMMA Appended ==
    ASSUME NEW q \in Seq(Posted), NEW e \in Posted
    PROVE  /\ Append(q, e) \in Seq(Posted) /\ Append(q, e) # << >>
           /\ Len(q) \in Nat /\ Len(Append(q, e)) = Len(q) + 1
           /\ \A i \in 1..Len(q) : Append(q, e)[i] = q[i]
           /\ Append(q, e)[Len(q) + 1] = e
    BY AppendProperties, LenProperties

-----------------------------------------------------------------------------
(* The loop keeps the invariant.                                            *)

\* The header or more of the body arrives: the request is dispatched once, and no
\* callback but the last says that the body is complete.
LEMMA LoopReadInv ==
    ASSUME ConnInv, NEW n \in 1..(MaxPieces + 1), LoopRead(n)
    PROVE  ConnInv'
<1>1. ConnType /\ RequestOK /\ TokenOK /\ CloseOK /\ ThrowOK /\ RefsOK /\ DataOK
    BY DEF ConnInv
<1>a. /\ loop = "poll" /\ "read" \in armed /\ hpc # "cancel"
      /\ hpc' = (IF received = 0 /\ service # "simple" THEN "ready" ELSE hpc)
      /\ chunkfn' = (chunkfn \/ (received = 0 /\ service = "simple"))
      /\ armed' = (IF parser' = "done" THEN armed \ {"read"} ELSE armed)
      /\ UNCHANGED <<asked, body, lasts, closed, write_buf, wire, stream, loop, lchunk, hchunk,
                     caught, written, history>>
    BY DEF LoopRead, Unlocked
<1>b. /\ received' = received + n /\ received' <= pieces + 1
      /\ parser' = (IF received' = pieces + 1 THEN "done" ELSE "body")
      /\ refs' = (IF received = 0 THEN refs + 1 ELSE refs)
    BY DEF LoopRead
<1>c. /\ parser # "done" /\ ~closed /\ ~ioError /\ lasts = 0
      /\ \A i \in 1..Len(runq) : ~runq[i].last
  <2>1. parser # "done" /\ ~closed /\ ~ioError
      BY <1>1, <1>a DEF RequestOK, CloseOK
  <2>2. ~(lasts > 0)
      BY <2>1, <1>1 DEF RequestOK
  <2>3. lasts = 0
      BY <2>2, <1>1 DEF ConnType, NumberType
  <2>4. \A i \in 1..Len(runq) : ~runq[i].last
      BY <2>1, <1>1 DEF RequestOK
  <2> QED
      BY <2>1, <2>3, <2>4
<1>d. received \in Nat /\ received' \in Nat /\ received' # 0 /\ n \in Nat
    BY <1>1, <1>b, ServerAssumption DEF ConnType, NumberType
<1> DEFINE data == Numbers(IF received = 0 THEN 1 ELSE received, received + n - 1)
           e == [data |-> body_buf \o data, last |-> parser' = "done"]
<1>e. /\ body_buf \o data \in Seq(Int) /\ e \in Posted /\ e.last = (parser' = "done")
      /\ runq \in Seq(Posted) /\ body_buf \in Seq(Int)
  <2>1. /\ (IF received = 0 THEN 1 ELSE received) \in Int /\ received + n - 1 \in Int
        /\ body_buf \in Seq(Int) /\ runq \in Seq(Posted)
      BY <1>1, <1>d DEF ConnType, SequenceType
  <2>2. data \in Seq(Int)
      BY <2>1, NumbersType
  <2>3. body_buf \o data \in Seq(Int)
      BY <2>1, <2>2, ConcatType
  <2> QED
      BY <2>1, <2>3 DEF Posted
<1>f. \/ chunkfn' /\ runq' = Append(runq, e) /\ body_buf' = << >>
      \/ runq' = runq /\ body_buf' \in {body_buf, body_buf \o data}
  <2>1. \/ chunkfn' /\ Post(body_buf \o data, parser' = "done")
        \/ UNCHANGED <<runq, body_buf>>
        \/ body_buf' = body_buf \o data /\ UNCHANGED runq
      BY DEF LoopRead
  <2> QED
      BY <2>1 DEF Post
<1> HIDE DEF e, data
<1>g. Append(runq, e) \in Seq(Posted) /\ << >> \in Seq(Int)
    BY <1>e, Appended
<1>h. /\ \A i \in 1..Len(runq') : runq'[i].last => i = Len(runq') /\ parser' = "done"
      /\ ~chunkfn' => runq' = << >>
  <2>1. CASE runq' = runq
      BY <2>1, <1>1, <1>a, <1>c DEF RequestOK
  <2>2. CASE chunkfn' /\ runq' = Append(runq, e)
    <3>1. /\ Len(runq) \in Nat /\ Len(runq') = Len(runq) + 1
          /\ \A i \in 1..Len(runq) : runq'[i] = runq[i]
          /\ runq'[Len(runq) + 1].last = (parser' = "done")
        BY <2>2, <1>e, Appended
    <3>2. ASSUME NEW i \in 1..Len(runq'), runq'[i].last
          PROVE  i = Len(runq') /\ parser' = "done"
      <4>1. i \in 1..Len(runq) \/ i = Len(runq) + 1
          BY <3>1
      <4> QED
          BY <4>1, <3>1, <3>2, <1>c
    <3> QED
        BY <2>2, <3>2
  <2> QED
      BY <2>1, <2>2, <1>f
<1>i. RequestOK'
  <2>1. /\ received' <= pieces' + 1 /\ (parser' = "done" <=> received' = pieces' + 1)
        /\ "read" \in armed' => parser' # "done"
      BY <1>a, <1>b
  <2>2. /\ hpc' = "none" => service' = "simple" /\ lasts' = 0
        /\ service' = "simple" => hpc' = "none"
        /\ hpc' \in {"reading", "wait body"} => chunkfn' /\ service' # "simple"
        /\ ~(chunkfn' /\ service' # "simple" /\ hpc' \notin {"reading", "wait body"})
    <3>1. /\ hpc = "none" => received = 0 \/ service = "simple"
          /\ service = "simple" => hpc = "none"
          /\ hpc \in {"reading", "wait body"} => chunkfn /\ service # "simple"
          /\ ~(chunkfn /\ service # "simple" /\ hpc \notin {"reading", "wait body"})
          /\ received = 0 => hpc = "none" /\ ~chunkfn
        BY <1>1, <1>c DEF RequestOK
    <3> QED
        BY <3>1, <1>a, <1>c
  <2>3. \A i \in 1..Len(runq') : runq'[i].last => parser' = "done"
      BY <1>h
  <2>4. ASSUME NEW i \in 1..Len(runq'), NEW k \in 1..Len(runq'), i < k, runq'[i].last
        PROVE  runq'[k].last
    <3>1. i = Len(runq') /\ Len(runq') \in Nat
        BY <2>4, <1>h, <1>e, <1>f, <1>g, LenProperties
    <3> QED
        BY <3>1, <2>4
  <2>5. lasts' = 0 /\ ~(lasts' > 0)
      BY <1>a, <1>c
  <2>6. /\ received' = 0 => hpc' = "none" /\ ~chunkfn'
        /\ hpc' = "none" => received' = 0 \/ (service' = "simple" /\ lasts' = 0)
        /\ service' = "simple" /\ hpc' # "none" => lasts' > 0
      BY <2>2, <1>d
  <2>7. \A i \in 1..Len(runq') : runq'[i].last => i = Len(runq') /\ lasts' = 0
      BY <2>5, <1>h
  <2> QED
      BY <2>1, <2>2, <2>3, <2>4, <2>5, <2>6, <2>7, <1>h DEF RequestOK
<1>j. /\ hpc' # hpc => hpc = "none" /\ hpc' = "ready"
      /\ armed' \subseteq armed /\ ("write" \in armed' <=> "write" \in armed)
      /\ received = 0 => hpc = "none"
      /\ UNCHANGED <<asked, body, lasts, closed, write_buf, wire, stream, loop, lchunk, hchunk,
                     caught, written, history>>
    BY <1>1, <1>a DEF RequestOK
<1>2. NumberType'
    BY <1>1, <1>a, <1>b, <1>d DEF ConnType, NumberType
<1>3. SequenceType'
    BY <1>1, <1>a, <1>e, <1>f, <1>g DEF ConnType, SequenceType
<1>4. FlagType'
    BY <1>1, <1>a DEF ConnType, FlagType
<1>5. PlaceType'
    BY <1>1, <1>a, <1>b DEF ConnType, PlaceType, Places
<1>6. RequestOK'
    BY <1>i
<1>7. TokenOK'
    BY <1>1, <1>j DEF TokenOK, Early
<1>8. CloseOK'
    BY <1>1, <1>j, <1>c DEF CloseOK, TwoWriters
<1>9. ThrowOK'
    BY <1>1, <1>j DEF ThrowOK, NoUseAfterFree
<1>10. RefsOK'
  <2>1. refs = 1 + Count(received > 0) + Count(srefs > 0)
      BY <1>1, <1>c DEF RefsOK, RefsExact, Count
  <2>2. received = 0 \/ received > 0
      BY <1>d
  <2>3. Count(received > 0) = (IF received = 0 THEN 0 ELSE 1) /\ Count(srefs > 0) \in Int
      BY <2>2 DEF Count
  <2>4. refs' = 2 + Count(srefs > 0)
      BY <2>1, <2>3, <1>b
  <2>5. Count(~closed \/ hpc = "cancel")' = 1
      BY <1>c, <1>j DEF Count
  <2>6. received' > 0
      BY <1>d
  <2>7. Count(received > 0 /\ ~(finished /\ closed /\ ~ioError))' = 1
      BY <2>6, <1>c, <1>j DEF Count
  <2>8. Count(srefs > 0)' = Count(srefs > 0)
      BY <1>j
  <2>9. RefsExact'
      BY <2>3, <2>4, <2>5, <2>7, <2>8 DEF RefsExact
  <2>10. SrefsExact'
      BY <1>1, <1>c, <1>j DEF RefsOK, SrefsExact, Count, Gone
  <2> QED
      BY <2>9, <2>10 DEF RefsOK
<1>11. DataOK'
    BY <1>1, <1>j, <1>c DEF DataOK, ResponseInOrder, ClosedAfterLastByte
<1> QED
    BY <1>2, <1>3, <1>4, <1>5, <1>6, <1>7, <1>8, <1>9, <1>10, <1>11 DEF ConnInv,
       ConnType

\* An error of the socket closes the connection with the response under way.
LEMMA FailInv ==
    ASSUME ConnInv, LoopReadFails \/ LoopWriteFails
    PROVE  ConnInv'
<1>1. ConnType /\ RequestOK /\ TokenOK /\ CloseOK /\ ThrowOK /\ RefsOK /\ DataOK
    BY DEF ConnInv
<1>a. /\ Unlocked /\ loop = "poll" /\ armed # {}
      /\ closed' /\ armed' = {} /\ refs' = refs - 1 /\ ioError'
      /\ UNCHANGED <<request, write_buf, wire, stream, threads, raised, lateThrow, uaf>>
    BY DEF LoopReadFails, LoopWriteFails
<1>b. ~closed /\ ~ioError
    BY <1>1, <1>a DEF CloseOK, Unlocked
<1>c. headers => running
    BY <1>1 DEF LoopReadFails, LoopWriteFails, RequestOK, TokenOK, CloseOK
<1>2. NumberType'
    BY <1>1, <1>a DEF ConnType, NumberType
<1>3. SequenceType'
    BY <1>1, <1>a DEF ConnType, SequenceType
<1>4. FlagType'
    BY <1>1, <1>a DEF ConnType, FlagType
<1>5. PlaceType'
    BY <1>1, <1>a DEF ConnType, PlaceType, Places
<1>6. RequestOK'
    BY <1>1, <1>a DEF RequestOK
<1>7. TokenOK'
    BY <1>1, <1>a DEF TokenOK, Early
<1>8. CloseOK'
    BY <1>1, <1>a, <1>b, <1>c DEF CloseOK, TwoWriters, TokenOK, Unlocked
<1>9. ThrowOK'
    BY <1>1, <1>a DEF ThrowOK, NoUseAfterFree
<1>10. RefsOK'
  <2>1. refs = 1 + Count(received > 0) + Count(srefs > 0)
      BY <1>1, <1>b DEF RefsOK, RefsExact, Count
  <2>2. refs' = Count(received' > 0) + Count(srefs' > 0)
      BY <2>1, <1>1, <1>a DEF ConnType, NumberType, Count
  <2>3. RefsExact'
      BY <2>2, <1>1, <1>a DEF RefsExact, Count, Unlocked
  <2>4. SrefsExact'
      BY <1>1, <1>a, <1>b DEF RefsOK, SrefsExact, Count, Unlocked
  <2> QED
      BY <2>3, <2>4 DEF RefsOK
<1>11. DataOK'
    BY <1>1, <1>a, <1>b DEF DataOK, ResponseInOrder, ClosedAfterLastByte
<1> QED
    BY <1>2, <1>3, <1>4, <1>5, <1>6, <1>7, <1>8, <1>9, <1>10, <1>11 DEF ConnInv,
       ConnType

\* A posted callback: the service is started by the last one, or has been told
\* before of the end if it is gone.
LEMMA LoopBodyCallbackInv ==
    ASSUME ConnInv, LoopBodyCallback
    PROVE  ConnInv'
<1>1. ConnType /\ RequestOK /\ TokenOK /\ CloseOK /\ ThrowOK /\ RefsOK /\ DataOK
    BY DEF ConnInv
<1> DEFINE e == Head(runq)
<1>a. /\ loop = "poll" /\ runq # << >> /\ runq' = Tail(runq) /\ body' = body \o e.data
      /\ lasts' = (IF e.last THEN lasts + 1 ELSE lasts)
      /\ hpc' = (IF service = "simple" /\ e.last THEN "ready" ELSE hpc)
      /\ uaf' = (service # "simple" /\ hpc \in {"done", "escaped"})
      /\ UNCHANGED <<asked, parser, received, body_buf, chunkfn, conn, stream, loop, lchunk,
                     hchunk, caught, written, ioError, raised, lateThrow>>
    BY DEF LoopBodyCallback
<1>b. /\ e \in Posted /\ runq' \in Seq(Posted) /\ Len(runq) \in Nat /\ Len(runq) >= 1
      /\ e = runq[1] /\ Len(runq') = Len(runq) - 1
      /\ \A i \in 1..Len(runq') : runq'[i] = runq[i + 1]
    BY <1>1, <1>a, HeadTailProperties, LenProperties, EmptySeq DEF ConnType, SequenceType
<1> HIDE DEF e
<1>c. e.last \in BOOLEAN /\ e.data \in Seq(Int)
    BY <1>b DEF Posted
<1>d. /\ chunkfn /\ received # 0 /\ (e.last => parser = "done")
      /\ lasts > 0 => e.last
      /\ service = "simple" /\ e.last => hpc = "none" /\ lasts = 0 /\ Len(runq) = 1
  <2>1. 1 \in 1..Len(runq) /\ lasts \in Nat
      BY <1>1, <1>b DEF ConnType, NumberType
  <2>2. chunkfn /\ received # 0
      BY <1>1, <1>a DEF RequestOK
  <2>3. (e.last => parser = "done") /\ (lasts > 0 => e.last)
      BY <2>1, <1>1, <1>b DEF RequestOK
  <2>4. ASSUME service = "simple", e.last
        PROVE  lasts = 0 /\ Len(runq) = 1
      BY <2>1, <2>4, <1>1, <1>b DEF RequestOK
  <2>5. service = "simple" /\ lasts = 0 => hpc = "none"
    <3>1. service = "simple" /\ hpc # "none" => lasts > 0
        BY <1>1 DEF RequestOK
    <3> QED
        BY <3>1
  <2> QED
      BY <2>2, <2>3, <2>4, <2>5
<1>e. hpc' # hpc => hpc = "none" /\ hpc' = "ready"
    BY <1>a, <1>d
<1>f. \A i \in 1..Len(runq') : i + 1 \in 1..Len(runq) /\ 1 < i + 1
    BY <1>b
<1>g. RequestOK'
  <2>1. lasts \in Nat /\ lasts' \in Nat
      BY <1>1, <1>a DEF ConnType, NumberType
  <2>2. hpc' = "none" => received' = 0 \/ (service' = "simple" /\ lasts' = 0)
      BY <1>1, <1>a, <1>d DEF RequestOK
  <2>3. lasts > 0 => lasts' > 0
      BY <2>1, <1>a
  <2>4. e.last => lasts' > 0
      BY <2>1, <1>a
  <2>5. service' = "simple" /\ hpc' # "none" => lasts' > 0
      BY <1>1, <1>a, <2>3, <2>4 DEF RequestOK
  <2>6. chunkfn' /\ service' # "simple" /\ hpc' \notin {"reading", "wait body"} => lasts' > 0
      BY <1>1, <1>a, <2>3 DEF RequestOK
  <2>7. lasts' > 0 => e.last \/ lasts > 0
      BY <2>1, <1>a
  <2>8. lasts' > 0 => parser' = "done" /\ \A i \in 1..Len(runq') : runq'[i].last
    <3>1. e.last => \A i \in 1..Len(runq') : runq'[i].last
      <4>1. 1 \in 1..Len(runq)
          BY <1>b
      <4> QED
          BY <4>1, <1>1, <1>b, <1>f DEF RequestOK
    <3> QED
        BY <3>1, <2>7, <1>1, <1>a, <1>d DEF RequestOK
  <2>9. \A i \in 1..Len(runq') : runq'[i].last => parser' = "done"
      BY <1>1, <1>a, <1>b, <1>f DEF RequestOK
  <2>10. ASSUME NEW i \in 1..Len(runq'), NEW k \in 1..Len(runq'), i < k, runq'[i].last
         PROVE  runq'[k].last
    <3>1. i + 1 < k + 1
        BY <2>10, <1>b
    <3> QED
        BY <3>1, <2>10, <1>1, <1>b, <1>f DEF RequestOK
  <2>11. ASSUME service' = "simple", NEW i \in 1..Len(runq'), runq'[i].last
         PROVE  i = Len(runq') /\ lasts' = 0
    <3>1. i + 1 = Len(runq) /\ lasts = 0
        BY <2>11, <1>1, <1>a, <1>b, <1>f DEF RequestOK
    <3>2. ~e.last
        BY <3>1, <2>11, <1>a, <1>b, <1>d
    <3> QED
        BY <3>1, <3>2, <1>a, <1>b
  <2>12. ~chunkfn' => runq' = << >>
      BY <1>a, <1>d
  <2> QED
      BY <2>2, <2>5, <2>6, <2>8, <2>9, <2>10, <2>11, <2>12, <1>1, <1>a, <1>d DEF RequestOK
<1>h. uaf' => lasts' > 1
  <2>1. uaf' => lasts > 0 /\ e.last
      BY <1>1, <1>a, <1>d DEF RequestOK
  <2> QED
      BY <2>1, <1>1, <1>a DEF ConnType, NumberType
<1>i. UNCHANGED <<service, pieces, parser, received, chunkfn, conn, stream, loop, lchunk,
                  hchunk, caught, written, ioError, raised, lateThrow>>
    BY <1>a
<1>2. NumberType'
    BY <1>1, <1>a DEF ConnType, NumberType
<1>3. SequenceType'
    BY <1>1, <1>a, <1>b, <1>c, ConcatType DEF ConnType, SequenceType
<1>4. FlagType'
    BY <1>1, <1>a DEF ConnType, FlagType
<1>5. PlaceType'
    BY <1>1, <1>e, <1>i DEF ConnType, PlaceType, Places
<1>6. RequestOK'
    BY <1>g
<1>7. TokenOK'
    BY <1>1, <1>e, <1>i DEF TokenOK, Early
<1>8. CloseOK'
    BY <1>1, <1>e, <1>i DEF CloseOK, TwoWriters
<1>9. ThrowOK'
    BY <1>1, <1>e, <1>i, <1>h DEF ThrowOK, NoUseAfterFree
<1>10. RefsOK'
    BY <1>1, <1>e, <1>i DEF RefsOK, RefsExact, SrefsExact, Count, Gone
<1>11. DataOK'
    BY <1>1, <1>e, <1>i DEF DataOK, ResponseInOrder, ClosedAfterLastByte
<1> QED
    BY <1>2, <1>3, <1>4, <1>5, <1>6, <1>7, <1>8, <1>9, <1>10, <1>11 DEF ConnInv,
       ConnType

\* What write() takes from the buffer is on the wire.
LEMMA LoopWriteInv ==
    ASSUME ConnInv, NEW n \in 1..(MaxUnits + 1), LoopWrite(n)
    PROVE  ConnInv'
<1>1. ConnType /\ RequestOK /\ TokenOK /\ CloseOK /\ ThrowOK /\ RefsOK /\ DataOK
    BY DEF ConnInv
<1>b. /\ loop = "poll" /\ "write" \in armed /\ running /\ headers /\ ~raised /\ ~closed
      /\ ~ioError /\ hpc \notin {"start", "write body", "cancel"}
      /\ lchunk = << >> /\ hchunk = << >>
    BY <1>1 DEF LoopWrite, TokenOK, CloseOK, Unlocked, DataOK
<1>c. UNCHANGED <<request, closed, refs, stream, lchunk, hpc, hchunk, caught, written, history>>
    BY DEF LoopWrite
<1>d. /\ wire' \in Seq(Int) /\ write_buf' \in Seq(Int)
      /\ wire' \o write_buf' = wire \o write_buf
      /\ n = Len(write_buf) => write_buf' = << >>
  <2> DEFINE p == SubSeq(write_buf, 1, n)  q == SubSeq(write_buf, n + 1, Len(write_buf))
  <2>1. n \in 0..Len(write_buf) /\ wire \in Seq(Int) /\ write_buf \in Seq(Int)
      BY <1>1, ServerAssumption, LenProperties DEF LoopWrite, ConnType, SequenceType
  <2>2. /\ p \in Seq(Int) /\ q \in Seq(Int) /\ p \o q = write_buf
        /\ n = Len(write_buf) => q = << >>
      BY <2>1, Split
  <2>3. wire' = wire \o p /\ write_buf' = q
      BY DEF LoopWrite
  <2> HIDE DEF p, q
  <2>4. wire \o p \in Seq(Int)
      BY <2>1, <2>2, ConcatType
  <2>5. (wire \o p) \o q = wire \o (p \o q)
      BY <2>1, <2>2, Associative
  <2> QED
      BY <2>2, <2>3, <2>4, <2>5
<1>e. wire' \o write_buf' \o << >> \o << >> \o buf = Numbers(0, written)
    BY <1>1, <1>b, <1>d DEF DataOK, ResponseInOrder
<1>f. ResponseInOrder'
    BY <1>b, <1>c, <1>e DEF ResponseInOrder
<1>g. CASE n < Len(write_buf)
  <2>a. UNCHANGED <<armed, loop>>
      BY <1>1, <1>g, ServerAssumption, LenProperties DEF LoopWrite, ConnType, SequenceType
  <2>2. NumberType'
      BY <1>1, <1>b, <1>c, <2>a DEF ConnType, NumberType
  <2>3. SequenceType'
      BY <1>1, <1>b, <1>c, <2>a, <1>d DEF ConnType, SequenceType
  <2>4. FlagType'
      BY <1>1, <1>b, <1>c, <2>a DEF ConnType, FlagType
  <2>5. PlaceType'
      BY <1>1, <1>b, <1>c, <2>a DEF ConnType, PlaceType, Places
  <2>6. RequestOK'
      BY <1>1, <1>b, <1>c, <2>a DEF RequestOK
  <2>7. TokenOK'
      BY <1>1, <1>b, <1>c, <2>a DEF TokenOK, Early
  <2>8. CloseOK'
      BY <1>1, <1>b, <1>c, <2>a DEF CloseOK, TwoWriters
  <2>9. ThrowOK'
      BY <1>1, <1>b, <1>c, <2>a DEF ThrowOK, NoUseAfterFree
  <2>10. RefsOK'
      BY <1>1, <1>b, <1>c, <2>a DEF RefsOK, RefsExact, SrefsExact, Count, Gone
  <2>11. DataOK'
      BY <1>1, <1>b, <1>c, <1>f, <2>a DEF DataOK, ClosedAfterLastByte
  <2> QED
      BY <2>2, <2>3, <2>4, <2>5, <2>6, <2>7, <2>8, <2>9, <2>10, <2>11 DEF ConnInv,
         ConnType
<1>h. CASE n = Len(write_buf)
  <2>a. armed' = armed \ {"write"} /\ loop' = "callback"
      BY <1>1, <1>h, ServerAssumption DEF LoopWrite
  <2>2. NumberType'
      BY <1>1, <1>b, <1>c, <2>a DEF ConnType, NumberType
  <2>3. SequenceType'
      BY <1>1, <1>b, <1>c, <2>a, <1>d DEF ConnType, SequenceType
  <2>4. FlagType'
      BY <1>1, <1>b, <1>c, <2>a DEF ConnType, FlagType
  <2>5. PlaceType'
      BY <1>1, <1>b, <1>c, <2>a DEF ConnType, PlaceType, Places
  <2>6. RequestOK'
      BY <1>1, <1>b, <1>c, <2>a DEF RequestOK
  <2>7. TokenOK'
      BY <1>1, <1>b, <1>c, <2>a DEF TokenOK, Early
  <2>8. CloseOK'
      BY <1>1, <1>b, <1>c, <2>a DEF CloseOK, TwoWriters
  <2>9. ThrowOK'
      BY <1>1, <1>b, <1>c, <2>a DEF ThrowOK, NoUseAfterFree, TokenOK
  <2>10. RefsOK'
      BY <1>1, <1>b, <1>c, <2>a DEF RefsOK, RefsExact, SrefsExact, Count, Gone
  <2>11. DataOK'
      BY <1>1, <1>b, <1>c, <1>d, <1>f, <1>h, <2>a DEF DataOK, ClosedAfterLastByte
  <2> QED
      BY <2>2, <2>3, <2>4, <2>5, <2>6, <2>7, <2>8, <2>9, <2>10, <2>11 DEF ConnInv,
         ConnType
<1> QED
    BY <1>g, <1>h DEF LoopWrite

\* onStateChanged() in the loop, from the completion callback or from the
\* service's callback: both leave the connection as finishResponse() expects it.
LEMMA LoopStateChangedInv ==
    ASSUME ConnInv, NEW b \in Seq(Int), NEW f \in BOOLEAN, NEW w \in Nat,
           loop \in {"callback", "onwritten"}, Unlocked, LoopStateChanged(b, f),
           written' = w, finished' = f, f = finished \/ service = "pull",
           UNCHANGED <<request, write_buf, wire, headers, hchunk, caught, ioError,
                       lateThrow, uaf>>,
           wire \o b = Numbers(0, w)
    PROVE  ConnInv'
<1>1. ConnType /\ RequestOK /\ TokenOK /\ CloseOK /\ ThrowOK /\ RefsOK /\ DataOK
    BY DEF ConnInv
<1>b. /\ headers /\ ~raised /\ ~closed /\ ~ioError /\ "write" \notin armed
      /\ hpc \notin {"start", "write body", "cancel", "none", "ready"}
      /\ parser = "done" /\ write_buf = << >> /\ lchunk = << >> /\ hchunk = << >>
      /\ (service = "pull" => ~(hpc = "catch" /\ ~lateThrow))
    BY <1>1 DEF TokenOK, CloseOK, RequestOK, ThrowOK, Unlocked, DataOK, Early
<1>r. received > 0
  <2>1. received # 0
      BY <1>1, <1>b DEF RequestOK
  <2> QED
      BY <2>1, <1>1 DEF ConnType, NumberType
<1>c. wire \in Seq(Int) /\ (b = << >> => wire = Numbers(0, w))
    BY <1>1, NoneAdded DEF ConnType, SequenceType
<1>d. CASE b # << >>
  <2>a. /\ hpc' = (IF hpc = "wait reader" THEN "test reader" ELSE hpc)
        /\ running' = TRUE /\ loop' = "write body"
        /\ UNCHANGED <<closed, refs, armed, srefs, raised>>
      BY <1>d DEF LoopStateChanged
  <2>b. lchunk' \in Seq(Int) /\ buf' \in Seq(Int) /\ lchunk' \o buf' = b
      BY <1>d, TakeSizeRange, Split DEF LoopStateChanged
  <2>2. NumberType'
      BY <1>1, <1>b, <2>a DEF ConnType, NumberType
  <2>3. SequenceType'
      BY <1>1, <1>b, <2>a, <2>b DEF ConnType, SequenceType
  <2>4. FlagType'
      BY <1>1, <1>b, <2>a DEF ConnType, FlagType
  <2>5. PlaceType'
      BY <1>1, <1>b, <2>a DEF ConnType, PlaceType, Places
  <2>6. RequestOK'
      BY <1>1, <1>b, <2>a DEF RequestOK
  <2>7. TokenOK'
      BY <1>1, <1>b, <2>a DEF TokenOK, Early
  <2>8. CloseOK'
      BY <1>1, <1>b, <2>a DEF CloseOK, TwoWriters, TokenOK
  <2>9. ThrowOK'
      BY <1>1, <1>b, <2>a DEF ThrowOK, NoUseAfterFree
  <2>10. RefsOK'
      BY <1>1, <1>b, <2>a DEF RefsOK, RefsExact, SrefsExact, Count, Gone
  <2>11. DataOK'
    <3>1. wire \o << >> \o lchunk' \o << >> \o buf' = wire \o b
      <4>1. wire \o lchunk' \in Seq(Int)
          BY <1>c, <2>b, ConcatType
      <4>2. wire \o << >> = wire /\ (wire \o lchunk') \o << >> = wire \o lchunk'
          BY <4>1, <1>c, NoneAdded
      <4>3. (wire \o lchunk') \o buf' = wire \o (lchunk' \o buf')
          BY <1>c, <2>b, Associative
      <4> QED
          BY <4>2, <4>3, <2>b
    <3>2. ResponseInOrder'
        BY <3>1, <1>b DEF ResponseInOrder
    <3> QED
        BY <3>2, <1>1, <1>b, <2>a DEF DataOK, ClosedAfterLastByte
  <2> QED
      BY <2>2, <2>3, <2>4, <2>5, <2>6, <2>7, <2>8, <2>9, <2>10, <2>11 DEF ConnInv,
         ConnType
<1>e. CASE b = << >> /\ f
  <2>a. /\ closed' = TRUE /\ armed' = {} /\ loop' = "poll" /\ running' = FALSE /\ buf' = << >>
        /\ UNCHANGED <<lchunk, hpc, raised>>
      BY <1>b, <1>e DEF LoopStateChanged
  <2>b. srefs' = srefs - 1 /\ refs' = (IF srefs = 1 THEN refs - 2 - 1 ELSE refs - 2)
      BY <1>b, <1>e DEF LoopStateChanged, StreamUnref
  <2>2. NumberType'
      BY <1>1, <2>b DEF ConnType, NumberType
  <2>3. SequenceType'
      BY <1>1, <1>b, <1>e, <2>a DEF ConnType, SequenceType
  <2>4. FlagType'
      BY <1>1, <1>b, <1>e, <2>a DEF ConnType, FlagType
  <2>5. PlaceType'
      BY <1>1, <1>b, <1>e, <2>a DEF ConnType, PlaceType, Places
  <2>6. RequestOK'
      BY <1>1, <1>b, <1>e, <2>a DEF RequestOK
  <2>7. TokenOK'
      BY <1>1, <1>b, <1>e, <2>a DEF TokenOK, Early
  <2>8. CloseOK'
      BY <1>1, <1>b, <1>e, <2>a DEF CloseOK, TwoWriters, TokenOK
  <2>9. ThrowOK'
      BY <1>1, <1>b, <1>e, <2>a DEF ThrowOK, NoUseAfterFree
  <2>10. RefsOK'
    <3>1. refs = 2 + Count(srefs > 0)
      <4>2. Count(~closed \/ hpc = "cancel") = 1
          BY <1>b DEF Count
      <4>3. Count(received > 0 /\ ~(finished /\ closed /\ ~ioError)) = 1
          BY <1>r, <1>b DEF Count
      <4>4. Count(srefs > 0) \in Int
          BY DEF Count
      <4> QED
          BY <4>2, <4>3, <4>4, <1>1 DEF RefsOK, RefsExact
    <3>2. srefs = Count(hpc \notin Gone \cup {"none", "ready"} /\ ~caught) + 1
        BY <1>1, <1>b DEF RefsOK, SrefsExact, Count
    <3>3. srefs \in {1, 2}
        BY <3>2 DEF Count
    <3>4. refs' = Count(srefs' > 0)
        BY <3>1, <3>3, <2>b DEF Count
    <3>5. RefsExact'
      <4>1. Count(~closed \/ hpc = "cancel")' = 0
          BY <1>b, <2>a DEF Count
      <4>2. Count(received > 0 /\ ~(finished /\ closed /\ ~ioError))' = 0
          BY <1>b, <1>e, <2>a DEF Count
      <4>3. Count(srefs > 0)' \in Int
          BY DEF Count
      <4> QED
          BY <4>1, <4>2, <4>3, <3>4 DEF RefsExact
    <3>6. SrefsExact'
      <4>1. srefs' = Count(hpc \notin Gone \cup {"none", "ready"} /\ ~caught)
          BY <3>2, <2>b DEF Count
      <4>2. Count(hpc \notin {"none", "ready"} /\ ~(closed /\ ~ioError /\ hpc # "cancel"))' = 0
          BY <1>b, <2>a DEF Count
      <4> QED
          BY <4>1, <4>2, <2>a DEF SrefsExact, Count
    <3> QED
        BY <3>5, <3>6 DEF RefsOK
  <2>11. DataOK'
      BY <1>1, <1>b, <1>e, <2>a, <1>c DEF DataOK, ResponseInOrder, ClosedAfterLastByte
  <2> QED
      BY <2>2, <2>3, <2>4, <2>5, <2>6, <2>7, <2>8, <2>9, <2>10, <2>11 DEF ConnInv,
         ConnType
<1>f. CASE b = << >> /\ ~f
  <2>a. /\ running' = FALSE /\ buf' = << >>
        /\ loop' = (IF service = "pull" THEN "onwritten" ELSE "poll")
        /\ UNCHANGED <<closed, refs, armed, srefs, lchunk, hpc, raised>>
      BY <1>f DEF LoopStateChanged
  <2>2. NumberType'
      BY <1>1, <1>b, <1>f, <2>a DEF ConnType, NumberType
  <2>3. SequenceType'
      BY <1>1, <1>b, <1>f, <2>a DEF ConnType, SequenceType
  <2>4. FlagType'
      BY <1>1, <1>b, <1>f, <2>a DEF ConnType, FlagType
  <2>5. PlaceType'
      BY <1>1, <1>b, <1>f, <2>a DEF ConnType, PlaceType, Places
  <2>6. RequestOK'
      BY <1>1, <1>b, <1>f, <2>a DEF RequestOK
  <2>7. TokenOK'
      BY <1>1, <1>b, <1>f, <2>a DEF TokenOK, Early
  <2>8. CloseOK'
      BY <1>1, <1>b, <1>f, <2>a DEF CloseOK, TwoWriters
  <2>9. ThrowOK'
      BY <1>1, <1>b, <1>f, <2>a DEF ThrowOK, NoUseAfterFree
  <2>10. RefsOK'
      BY <1>1, <1>b, <1>f, <2>a DEF RefsOK, RefsExact, SrefsExact, Count, Gone
  <2>11. DataOK'
    <3>1. wire \o << >> \o << >> \o << >> \o << >> = wire
        BY <1>c, NoneAdded
    <3>2. ResponseInOrder'
        BY <3>1, <1>b, <1>c, <1>f, <2>a DEF ResponseInOrder
    <3> QED
        BY <3>2, <1>1, <1>b, <2>a DEF DataOK, ClosedAfterLastByte
  <2> QED
      BY <2>2, <2>3, <2>4, <2>5, <2>6, <2>7, <2>8, <2>9, <2>10, <2>11 DEF ConnInv,
         ConnType
<1> QED
    BY <1>d, <1>e, <1>f

\* The completion callback.
LEMMA OnCallbackCompletedInv ==
    ASSUME ConnInv, OnCallbackCompleted
    PROVE  ConnInv'
<1>1. ConnType /\ RequestOK /\ TokenOK /\ CloseOK /\ ThrowOK /\ RefsOK /\ DataOK
    BY DEF ConnInv
<1>2. /\ loop = "callback" /\ Unlocked /\ LoopStateChanged(buf, finished)
      /\ UNCHANGED <<request, write_buf, wire, headers, finished, hchunk, caught, written,
                     ioError, lateThrow, uaf>>
    BY DEF OnCallbackCompleted
<1>3. buf \in Seq(Int) /\ finished \in BOOLEAN /\ written \in Nat /\ wire \in Seq(Int)
    BY <1>1 DEF ConnType, SequenceType, FlagType, NumberType
<1>4. wire \o buf = Numbers(0, written)
  <2>1. /\ headers /\ ~raised /\ ~ioError /\ hpc \notin {"start", "write body"}
        /\ "write" \notin armed
      BY <1>1, <1>2 DEF TokenOK, CloseOK
  <2>2. write_buf = << >> /\ lchunk = << >> /\ hchunk = << >>
      BY <2>1, <1>1, <1>2 DEF DataOK
  <2>3. wire \o << >> \o << >> \o << >> \o buf = Numbers(0, written)
      BY <2>1, <2>2, <1>1 DEF DataOK, ResponseInOrder
  <2> QED
      BY <2>3, <1>3, NoneAdded
<1> QED
    BY <1>2, <1>3, <1>4, LoopStateChangedInv

\* The callback of a pull service.
LEMMA OnBodyWrittenInv ==
    ASSUME ConnInv, OnBodyWritten
    PROVE  ConnInv'
<1>1. ConnType /\ RequestOK /\ TokenOK /\ CloseOK /\ ThrowOK /\ RefsOK /\ DataOK
    BY DEF ConnInv
<1>2. /\ loop = "onwritten" /\ Unlocked
      /\ UNCHANGED <<request, write_buf, wire, headers, hchunk, caught, ioError, lateThrow, uaf>>
    BY DEF OnBodyWritten
<1>3. written \in Nat /\ wire \in Seq(Int) /\ finished \in BOOLEAN
    BY <1>1 DEF ConnType, SequenceType, FlagType, NumberType
<1>4. /\ service = "pull" /\ headers /\ ~running /\ ~raised /\ ~ioError /\ ~finished
      /\ hpc \notin {"start", "write body"} /\ "write" \notin armed
    BY <1>1, <1>2 DEF TokenOK, CloseOK, Unlocked
<1>5. wire = Numbers(0, written)
  <2>1. write_buf = << >> /\ lchunk = << >> /\ hchunk = << >> /\ buf = << >>
      BY <1>1, <1>2, <1>4 DEF DataOK
  <2>2. wire \o << >> \o << >> \o << >> \o << >> = Numbers(0, written)
      BY <2>1, <1>1, <1>4 DEF DataOK, ResponseInOrder
  <2> QED
      BY <2>2, <1>3, NoneAdded
<1>6. CASE written' = written + 1 /\ LoopStateChanged(<<written + 1>>, FALSE) /\ UNCHANGED finished
  <2>1. Numbers(0, written) \o Numbers(written + 1, written + 1) = Numbers(0, written + 1)
      BY <1>3, NumbersGrow
  <2>2. Numbers(written + 1, written + 1) = <<written + 1>>
      BY <1>3, NumbersOne
  <2>3. wire \o <<written + 1>> = Numbers(0, written + 1)
      BY <2>1, <2>2, <1>5
  <2>4. <<written + 1>> \in Seq(Int) /\ written + 1 \in Nat
      BY <1>3
  <2>5. finished' = FALSE /\ FALSE = finished
      BY <1>3, <1>4, <1>6
  <2> QED
      BY <2>3, <2>4, <2>5, <1>2, <1>4, <1>6, LoopStateChangedInv
<1>7. CASE finished' = TRUE /\ LoopStateChanged(<< >>, TRUE) /\ UNCHANGED written
  <2>1. << >> \in Seq(Int) /\ wire \o << >> = Numbers(0, written)
      BY <1>3, <1>5, NoneAdded
  <2> QED
      BY <2>1, <1>2, <1>3, <1>4, <1>7, LoopStateChangedInv
<1> QED
    BY <1>6, <1>7 DEF OnBodyWritten

\* The loop hands a chunk to the connection, which cannot refuse it.
LEMMA LoopWritesBodyInv ==
    ASSUME ConnInv, LoopWritesBody
    PROVE  ConnInv'
<1>1. ConnType /\ RequestOK /\ TokenOK /\ CloseOK /\ ThrowOK /\ RefsOK /\ DataOK
    BY DEF ConnInv
<1>b. /\ loop = "write body" /\ running /\ headers /\ ~raised /\ ~closed /\ ~ioError
      /\ hpc \notin {"start", "write body", "cancel"} /\ "write" \notin armed
      /\ parser = "done"
    BY <1>1 DEF LoopWritesBody, TokenOK, CloseOK, Unlocked
<1>c. /\ loop' = "poll" /\ lchunk' = << >> /\ armed' = armed \cup {"write"}
      /\ UNCHANGED <<request, closed, refs, wire, stream, hpc, hchunk, caught, written,
                     history>>
    BY <1>b DEF LoopWritesBody, Refused, Buffered
<1>d. /\ write_buf = << >> /\ hchunk = << >>
      /\ write_buf' = lchunk /\ lchunk \in Seq(Int) /\ wire \in Seq(Int)
  <2>1. write_buf' = write_buf \o lchunk
      BY <1>b DEF LoopWritesBody, Refused, Buffered
  <2> QED
      BY <2>1, <1>1, <1>b, NoneAdded DEF DataOK, ConnType, SequenceType
<1>2. NumberType'
    BY <1>1, <1>b, <1>c DEF ConnType, NumberType
<1>3. SequenceType'
    BY <1>1, <1>b, <1>c, <1>d DEF ConnType, SequenceType
<1>4. FlagType'
    BY <1>1, <1>b, <1>c DEF ConnType, FlagType
<1>5. PlaceType'
    BY <1>1, <1>b, <1>c DEF ConnType, PlaceType, Places
<1>6. RequestOK'
    BY <1>1, <1>b, <1>c DEF RequestOK
<1>7. TokenOK'
    BY <1>1, <1>b, <1>c DEF TokenOK, Early
<1>8. CloseOK'
    BY <1>1, <1>b, <1>c DEF CloseOK, TwoWriters
<1>9. ThrowOK'
    BY <1>1, <1>b, <1>c DEF ThrowOK, NoUseAfterFree
<1>10. RefsOK'
    BY <1>1, <1>b, <1>c DEF RefsOK, RefsExact, SrefsExact, Count, Gone
<1>11. DataOK'
  <2>1. wire \o << >> \o lchunk \o << >> = wire \o lchunk \o << >> \o << >>
      BY <1>d, NoneAdded, ConcatType
  <2>2. ResponseInOrder'
      BY <2>1, <1>1, <1>b, <1>c, <1>d DEF ResponseInOrder, DataOK
  <2> QED
      BY <2>2, <1>1, <1>b, <1>c, <1>d DEF DataOK, ClosedAfterLastByte
<1> QED
    BY <1>2, <1>3, <1>4, <1>5, <1>6, <1>7, <1>8, <1>9, <1>10, <1>11 DEF ConnInv,
       ConnType

-----------------------------------------------------------------------------
(* The thread of the service keeps the invariant.                          *)

\* The stream comes with two references, and refers to the connection.
LEMMA BeginInv ==
    ASSUME ConnInv, Begin
    PROVE  ConnInv'
<1>1. ConnType /\ RequestOK /\ TokenOK /\ CloseOK /\ ThrowOK /\ RefsOK /\ DataOK
    BY DEF ConnInv
<1>a. /\ hpc = "ready" /\ hpc' = "begin" /\ srefs' = 2 /\ refs' = refs + 1
      /\ UNCHANGED <<request, closed, write_buf, armed, wire, running, headers, finished,
                      buf, loop, lchunk, hchunk, caught, written, history>>
    BY DEF Begin
<1>b. ~finished /\ ~caught /\ (closed => ioError)
    BY <1>1, <1>a DEF TokenOK, CloseOK, Early
<1>2. NumberType'
    BY <1>1, <1>a DEF ConnType, NumberType
<1>3. SequenceType'
    BY <1>1, <1>a DEF ConnType, SequenceType
<1>4. FlagType'
    BY <1>1, <1>a DEF ConnType, FlagType
<1>5. PlaceType'
    BY <1>1, <1>a DEF ConnType, PlaceType, Places
<1>6. RequestOK'
    BY <1>1, <1>a DEF RequestOK
<1>7. TokenOK'
    BY <1>1, <1>a DEF TokenOK, Early
<1>8. CloseOK'
    BY <1>1, <1>a DEF CloseOK, TwoWriters
<1>9. ThrowOK'
    BY <1>1, <1>a DEF ThrowOK, NoUseAfterFree
<1>10. RefsOK'
  <2>1. srefs = 0
      BY <1>1, <1>a DEF RefsOK, SrefsExact, Count
  <2>2. RefsExact'
      BY <1>1, <1>a, <2>1 DEF RefsOK, RefsExact, Count, ConnType, NumberType
  <2>3. SrefsExact'
      BY <1>a, <1>b DEF SrefsExact, Count, Gone
  <2> QED
      BY <2>2, <2>3 DEF RefsOK
<1>11. DataOK'
    BY <1>1, <1>a DEF DataOK, ResponseInOrder, ClosedAfterLastByte
<1> QED
    BY <1>2, <1>3, <1>4, <1>5, <1>6, <1>7, <1>8, <1>9, <1>10, <1>11 DEF ConnInv,
       ConnType

\* The service asks for the body.
LEMMA ReadBodyInv ==
    ASSUME ConnInv, ReadBody
    PROVE  ConnInv'
<1>1. ConnType /\ RequestOK /\ TokenOK /\ CloseOK /\ ThrowOK /\ RefsOK /\ DataOK
    BY DEF ConnInv
<1>a. /\ hpc = "begin" /\ service # "simple" /\ ~caught /\ ~chunkfn
      /\ hpc' = "reading" /\ chunkfn' = TRUE
      /\ UNCHANGED <<asked, parser, received, body_buf, runq, body, lasts, conn, stream, loop,
                      lchunk, hchunk, caught, written, history>>
    BY DEF ReadBody
<1>2. NumberType'
    BY <1>1, <1>a DEF ConnType, NumberType
<1>3. SequenceType'
    BY <1>1, <1>a DEF ConnType, SequenceType
<1>4. FlagType'
    BY <1>1, <1>a DEF ConnType, FlagType
<1>5. PlaceType'
    BY <1>1, <1>a DEF ConnType, PlaceType, Places
<1>6. RequestOK'
    BY <1>1, <1>a DEF RequestOK
<1>7. TokenOK'
    BY <1>1, <1>a DEF TokenOK, Early
<1>8. CloseOK'
    BY <1>1, <1>a DEF CloseOK, TwoWriters
<1>9. ThrowOK'
    BY <1>1, <1>a DEF ThrowOK, NoUseAfterFree
<1>10. RefsOK'
    BY <1>1, <1>a DEF RefsOK, RefsExact, SrefsExact, Count, Gone
<1>11. DataOK'
    BY <1>1, <1>a DEF DataOK, ResponseInOrder, ClosedAfterLastByte
<1> QED
    BY <1>2, <1>3, <1>4, <1>5, <1>6, <1>7, <1>8, <1>9, <1>10, <1>11 DEF ConnInv,
       ConnType

\* What came before is posted; its end may be announced a second time.
LEMMA ReadBodyFlushInv ==
    ASSUME ConnInv, ReadBodyFlush
    PROVE  ConnInv'
<1>1. ConnType /\ RequestOK /\ TokenOK /\ CloseOK /\ ThrowOK /\ RefsOK /\ DataOK
    BY DEF ConnInv
<1>a. /\ hpc = "reading" /\ hpc' = "wait body" /\ chunkfn /\ service # "simple"
      /\ UNCHANGED <<asked, parser, received, chunkfn, body, lasts, conn, stream, loop, lchunk,
                     hchunk, caught, written, history>>
    BY <1>1 DEF ReadBodyFlush, RequestOK
<1> DEFINE e == [data |-> body_buf, last |-> parser = "done"]
<1>b. e \in Posted /\ e.last = (parser = "done") /\ runq \in Seq(Posted)
    BY <1>1 DEF Posted, ConnType, SequenceType
<1>c. \/ runq' = Append(runq, e) /\ body_buf' = << >>
      \/ UNCHANGED <<runq, body_buf>>
    BY DEF ReadBodyFlush, Post
<1> HIDE DEF e
<1>f. runq' \in Seq(Posted) /\ body_buf' \in Seq(Int)
  <2>1. Append(runq, e) \in Seq(Posted) /\ << >> \in Seq(Int)
      BY <1>b, Appended
  <2> QED
      BY <2>1, <1>1, <1>c DEF ConnType, SequenceType
<1>d. runq' = runq => RequestOK'
    BY <1>1, <1>a DEF RequestOK
<1>e. ASSUME runq' = Append(runq, e) PROVE RequestOK'
  <2>1. /\ Len(runq) \in Nat /\ Len(runq') = Len(runq) + 1 /\ runq' # << >>
        /\ \A i \in 1..Len(runq) : runq'[i] = runq[i]
        /\ runq'[Len(runq) + 1].last = (parser = "done")
      BY <1>b, <1>e, Appended
  <2>2. ASSUME NEW i \in 1..Len(runq')
        PROVE  i \in 1..Len(runq) \/ i = Len(runq) + 1
      BY <2>1
  <2>3. lasts' > 0 => parser' = "done" /\ \A i \in 1..Len(runq') : runq'[i].last
      BY <1>1, <1>a, <2>1, <2>2 DEF RequestOK
  <2>4. \A i \in 1..Len(runq') : runq'[i].last => parser' = "done"
      BY <1>1, <1>a, <2>1, <2>2 DEF RequestOK
  <2>5. ASSUME NEW i \in 1..Len(runq'), NEW k \in 1..Len(runq'), i < k, runq'[i].last
        PROVE  runq'[k].last
    <3>1. i \in 1..Len(runq)
        BY <2>1, <2>5
    <3>2. parser = "done"
        BY <3>1, <1>1, <2>1, <2>5 DEF RequestOK
    <3> QED
        BY <3>1, <3>2, <1>1, <2>1, <2>2, <2>5 DEF RequestOK
  <2> QED
      BY <1>1, <1>a, <2>1, <2>3, <2>4, <2>5 DEF RequestOK
<1>2. NumberType'
    BY <1>1, <1>a DEF ConnType, NumberType
<1>3. SequenceType'
    BY <1>1, <1>a, <1>f DEF ConnType, SequenceType
<1>4. FlagType'
    BY <1>1, <1>a DEF ConnType, FlagType
<1>5. PlaceType'
    BY <1>1, <1>a DEF ConnType, PlaceType, Places
<1>6. RequestOK'
    BY <1>c, <1>d, <1>e
<1>7. TokenOK'
    BY <1>1, <1>a DEF TokenOK, Early
<1>8. CloseOK'
    BY <1>1, <1>a DEF CloseOK, TwoWriters
<1>9. ThrowOK'
    BY <1>1, <1>a DEF ThrowOK, NoUseAfterFree
<1>10. RefsOK'
    BY <1>1, <1>a DEF RefsOK, RefsExact, SrefsExact, Count, Gone
<1>11. DataOK'
    BY <1>1, <1>a DEF DataOK, ResponseInOrder, ClosedAfterLastByte
<1> QED
    BY <1>2, <1>3, <1>4, <1>5, <1>6, <1>7, <1>8, <1>9, <1>10, <1>11 DEF ConnInv,
       ConnType

\* The service has the body.
LEMMA BodyReadInv ==
    ASSUME ConnInv, BodyRead
    PROVE  ConnInv'
<1>1. ConnType /\ RequestOK /\ TokenOK /\ CloseOK /\ ThrowOK /\ RefsOK /\ DataOK
    BY DEF ConnInv
<1>a. /\ hpc = "wait body" /\ lasts > 0 /\ hpc' = "begin"
      /\ UNCHANGED <<request, conn, stream, loop, lchunk, hchunk, caught, written, history>>
    BY DEF BodyRead
<1>2. NumberType'
    BY <1>1, <1>a DEF ConnType, NumberType
<1>3. SequenceType'
    BY <1>1, <1>a DEF ConnType, SequenceType
<1>4. FlagType'
    BY <1>1, <1>a DEF ConnType, FlagType
<1>5. PlaceType'
    BY <1>1, <1>a DEF ConnType, PlaceType, Places
<1>6. RequestOK'
    BY <1>1, <1>a DEF RequestOK
<1>7. TokenOK'
    BY <1>1, <1>a DEF TokenOK, Early
<1>8. CloseOK'
    BY <1>1, <1>a DEF CloseOK, TwoWriters
<1>9. ThrowOK'
    BY <1>1, <1>a DEF ThrowOK, NoUseAfterFree
<1>10. RefsOK'
    BY <1>1, <1>a DEF RefsOK, RefsExact, SrefsExact, Count, Gone
<1>11. DataOK'
    BY <1>1, <1>a DEF DataOK, ResponseInOrder, ClosedAfterLastByte
<1> QED
    BY <1>2, <1>3, <1>4, <1>5, <1>6, <1>7, <1>8, <1>9, <1>10, <1>11 DEF ConnInv,
       ConnType

\* startResponse() takes callback_running_.
LEMMA StartResponseInv ==
    ASSUME ConnInv, StartResponse
    PROVE  ConnInv'
<1>1. ConnType /\ RequestOK /\ TokenOK /\ CloseOK /\ ThrowOK /\ RefsOK /\ DataOK
    BY DEF ConnInv
<1>a. /\ hpc = "begin" /\ hpc' = "start" /\ headers' = TRUE /\ running' = TRUE
      /\ UNCHANGED <<request, conn, finished, buf, srefs, loop, lchunk, hchunk, caught,
                      written, history>>
    BY DEF StartResponse
<1>b. /\ ~headers /\ ~running /\ ~finished /\ ~raised /\ (closed => ioError)
      /\ loop = "poll" /\ "write" \notin armed
    BY <1>1, <1>a DEF TokenOK, CloseOK, Early, ConnType, PlaceType
<1>2. NumberType'
    BY <1>1, <1>a DEF ConnType, NumberType
<1>3. SequenceType'
    BY <1>1, <1>a DEF ConnType, SequenceType
<1>4. FlagType'
    BY <1>1, <1>a DEF ConnType, FlagType
<1>5. PlaceType'
    BY <1>1, <1>a DEF ConnType, PlaceType, Places
<1>6. RequestOK'
    BY <1>1, <1>a DEF RequestOK
<1>7. TokenOK'
    BY <1>1, <1>a, <1>b DEF TokenOK, Early
<1>8. CloseOK'
    BY <1>1, <1>a, <1>b DEF CloseOK, TwoWriters
<1>9. ThrowOK'
    BY <1>1, <1>a DEF ThrowOK, NoUseAfterFree
<1>10. RefsOK'
    BY <1>1, <1>a DEF RefsOK, RefsExact, SrefsExact, Count, Gone
<1>11. DataOK'
    BY <1>1, <1>a, <1>b DEF DataOK, ResponseInOrder, ClosedAfterLastByte
<1> QED
    BY <1>2, <1>3, <1>4, <1>5, <1>6, <1>7, <1>8, <1>9, <1>10, <1>11 DEF ConnInv,
       ConnType

\* The header is refused, or is the first unit in the buffer.
LEMMA WriteHeadersInv ==
    ASSUME ConnInv, WriteHeaders
    PROVE  ConnInv'
<1>1. ConnType /\ RequestOK /\ TokenOK /\ CloseOK /\ ThrowOK /\ RefsOK /\ DataOK
    BY DEF ConnInv
<1>b. /\ hpc = "start" /\ running /\ headers /\ ~finished /\ ~raised /\ loop = "poll"
      /\ "write" \notin armed /\ (closed => ioError)
      /\ write_buf = << >> /\ lchunk = << >> /\ hchunk = << >> /\ buf = << >>
      /\ wire = << >> /\ written = 0
    BY <1>1 DEF WriteHeaders, TokenOK, CloseOK, DataOK
<1>c. UNCHANGED <<request, closed, refs, wire, stream, loop, lchunk, hchunk, caught, written,
                  ioError, lateThrow, uaf>>
    BY DEF WriteHeaders
<1>d. CASE Refused
  <2>a. /\ hpc' = (IF caught THEN "escaped" ELSE "catch") /\ raised' = TRUE
        /\ UNCHANGED <<write_buf, armed>>
      BY <1>d DEF WriteHeaders, RaiseTo
  <2>2. NumberType'
      BY <1>1, <1>b, <1>c, <2>a DEF ConnType, NumberType
  <2>3. SequenceType'
      BY <1>1, <1>b, <1>c, <2>a DEF ConnType, SequenceType
  <2>4. FlagType'
      BY <1>1, <1>b, <1>c, <2>a DEF ConnType, FlagType
  <2>5. PlaceType'
      BY <1>1, <1>b, <1>c, <2>a DEF ConnType, PlaceType, Places
  <2>6. RequestOK'
      BY <1>1, <1>b, <1>c, <2>a DEF RequestOK
  <2>7. TokenOK'
      BY <1>1, <1>b, <1>c, <2>a DEF TokenOK, Early
  <2>8. CloseOK'
      BY <1>1, <1>b, <1>c, <2>a DEF CloseOK, TwoWriters
  <2>9. ThrowOK'
      BY <1>1, <1>b, <1>c, <2>a DEF ThrowOK, NoUseAfterFree
  <2>10. RefsOK'
      BY <1>1, <1>b, <1>c, <2>a DEF RefsOK, RefsExact, SrefsExact, Count, Gone
  <2>11. DataOK'
      BY <1>1, <1>b, <1>c, <2>a DEF DataOK, ResponseInOrder, ClosedAfterLastByte
  <2> QED
      BY <2>2, <2>3, <2>4, <2>5, <2>6, <2>7, <2>8, <2>9, <2>10, <2>11 DEF ConnInv,
         ConnType
<1>e. CASE ~Refused
  <2>a. /\ hpc' = (IF service = "pull" /\ ~caught THEN "finished" ELSE "open")
        /\ parser = "done" /\ ~closed /\ armed' = armed \cup {"write"} /\ raised' = raised
      BY <1>e DEF WriteHeaders, Refused, Buffered
  <2>b. write_buf' = <<0>>
    <3>1. write_buf' = << >> \o <<0>>
        BY <1>b, <1>e DEF WriteHeaders, Refused, Buffered
    <3> QED
        BY <3>1, NoneAdded
  <2>2. NumberType'
      BY <1>1, <1>b, <1>c, <2>a DEF ConnType, NumberType
  <2>3. SequenceType'
      BY <1>1, <1>b, <1>c, <2>a, <2>b DEF ConnType, SequenceType
  <2>4. FlagType'
      BY <1>1, <1>b, <1>c, <2>a DEF ConnType, FlagType
  <2>5. PlaceType'
      BY <1>1, <1>b, <1>c, <2>a DEF ConnType, PlaceType, Places
  <2>6. RequestOK'
      BY <1>1, <1>b, <1>c, <2>a DEF RequestOK
  <2>7. TokenOK'
      BY <1>1, <1>b, <1>c, <2>a DEF TokenOK, Early
  <2>8. CloseOK'
      BY <1>1, <1>b, <1>c, <2>a DEF CloseOK, TwoWriters
  <2>9. ThrowOK'
      BY <1>1, <1>b, <1>c, <2>a DEF ThrowOK, NoUseAfterFree
  <2>10. RefsOK'
      BY <1>1, <1>b, <1>c, <2>a DEF RefsOK, RefsExact, SrefsExact, Count, Gone
  <2>11. DataOK'
    <3>1. Numbers(0, 0) = <<0>> /\ <<0>> \in Seq(Int) /\ << >> \in Seq(Int)
        BY NumbersOne
    <3>2. << >> \o <<0>> \o << >> \o << >> \o << >> = <<0>>
        BY <3>1, NoneAdded
    <3>3. ResponseInOrder'
        BY <3>1, <3>2, <1>b, <1>c, <2>b DEF ResponseInOrder
    <3> QED
        BY <3>3, <1>1, <1>b, <1>c, <2>a DEF DataOK, ClosedAfterLastByte
  <2> QED
      BY <2>2, <2>3, <2>4, <2>5, <2>6, <2>7, <2>8, <2>9, <2>10, <2>11 DEF ConnInv,
         ConnType
<1> QED
    BY <1>d, <1>e

\* A chunk goes behind the buffer or, with callback_running_ down, to the
\* connection.
LEMMA WriteBodyChunkInv ==
    ASSUME ConnInv, NEW n \in 1..2, WriteBodyChunk(n)
    PROVE  ConnInv'
<1>1. ConnType /\ RequestOK /\ TokenOK /\ CloseOK /\ ThrowOK /\ RefsOK /\ DataOK
    BY DEF ConnInv
<1>b. /\ hpc = "open" /\ service = "push" /\ headers /\ ~finished /\ ~caught
      /\ (closed => ioError) /\ (closed => running)
    BY <1>1 DEF WriteBodyChunk, TokenOK, CloseOK, Early
<1>c. /\ written' = written + n
      /\ UNCHANGED <<request, write_buf, armed, wire, headers, finished, srefs, loop,
                     lchunk, caught, history>>
    BY DEF WriteBodyChunk
<1> DEFINE new == Numbers(written + 1, written + n)
<1>d. /\ written \in Nat /\ written' \in Nat /\ new \in Seq(Int) /\ new # << >>
      /\ Numbers(0, written) \o new = Numbers(0, written')
  <2>1. written \in Nat /\ n \in Nat /\ written' = written + n
      BY <1>1, <1>c DEF ConnType, NumberType
  <2>2. new \in Seq(Int) /\ Len(new) = n
      BY <2>1 DEF Numbers
  <2>3. Numbers(0, written) \o new = Numbers(0, written + n)
      BY <2>1, NumbersGrow
  <2> QED
      BY <2>1, <2>2, <2>3
<1>e. StateChanged(buf \o new, FALSE)
    BY DEF WriteBodyChunk
<1> HIDE DEF new
<1>f. buf \o new \in Seq(Int) /\ buf \o new # << >>
    BY <1>1, <1>d, ConcatProperties, ConcatEqualIffEmpty DEF ConnType, SequenceType
<1>g. CASE running
  <2>a. hpc' = "open" /\ UNCHANGED <<running, hchunk, closed, refs>>
      BY <1>e, <1>g DEF StateChanged, AfterCall
  <2>b. buf' = buf \o new
      BY <1>e, <1>g DEF StateChanged
  <2>2. NumberType'
      BY <1>1, <1>b, <1>c, <1>g, <2>a, <1>d DEF ConnType, NumberType
  <2>3. SequenceType'
      BY <1>1, <1>b, <1>c, <1>g, <2>a, <1>f, <2>b DEF ConnType, SequenceType
  <2>4. FlagType'
      BY <1>1, <1>b, <1>c, <1>g, <2>a DEF ConnType, FlagType
  <2>5. PlaceType'
      BY <1>1, <1>b, <1>c, <1>g, <2>a DEF ConnType, PlaceType, Places
  <2>6. RequestOK'
      BY <1>1, <1>b, <1>c, <1>g, <2>a DEF RequestOK
  <2>7. TokenOK'
      BY <1>1, <1>b, <1>c, <1>g, <2>a DEF TokenOK, Early
  <2>8. CloseOK'
      BY <1>1, <1>b, <1>c, <1>g, <2>a DEF CloseOK, TwoWriters
  <2>9. ThrowOK'
      BY <1>1, <1>b, <1>c, <1>g, <2>a DEF ThrowOK, NoUseAfterFree
  <2>10. RefsOK'
      BY <1>1, <1>b, <1>c, <1>g, <2>a DEF RefsOK, RefsExact, SrefsExact, Count, Gone
  <2>11. DataOK'
    <3> DEFINE sent == wire \o write_buf \o lchunk \o hchunk
    <3>1. sent \in Seq(Int) /\ buf \in Seq(Int)
        BY <1>1, ConcatType DEF ConnType, SequenceType
    <3> HIDE DEF sent
    <3>2. (sent \o buf) \o new = sent \o (buf \o new)
        BY <3>1, <1>d, Associative
    <3>3. ~raised => sent \o buf = Numbers(0, written)
        BY <1>1, <1>b DEF DataOK, ResponseInOrder, sent
    <3>4. ~raised => (sent \o buf)' = Numbers(0, written)'
        BY <3>2, <3>3, <1>c, <1>d, <2>a, <2>b DEF sent
    <3>5. ResponseInOrder'
        BY <3>4, <1>c, <2>a DEF ResponseInOrder, sent
    <3> QED
        BY <3>5, <1>1, <1>b, <1>c, <1>g, <2>a DEF DataOK, ClosedAfterLastByte, CloseOK
  <2> QED
      BY <2>2, <2>3, <2>4, <2>5, <2>6, <2>7, <2>8, <2>9, <2>10, <2>11 DEF ConnInv,
         ConnType
<1>h. CASE ~running
  <2>a. /\ hpc' = "write body" /\ running' = TRUE /\ UNCHANGED <<closed, refs>>
        /\ ~closed /\ ~ioError /\ ~raised /\ loop = "poll" /\ "write" \notin armed
      BY <1>1, <1>b, <1>e, <1>f, <1>h DEF StateChanged, CloseOK, TokenOK, ConnType, PlaceType
  <2>b. /\ buf = << >> /\ write_buf = << >> /\ lchunk = << >> /\ hchunk = << >>
        /\ wire \o << >> \o << >> \o << >> \o << >> = Numbers(0, written)
      BY <1>1, <1>b, <1>h, <2>a DEF DataOK, ResponseInOrder
  <2>c. hchunk' \in Seq(Int) /\ buf' \in Seq(Int) /\ hchunk' \o buf' = new
    <3> DEFINE b == buf \o new
    <3>1. b = new
        BY <2>b, <1>d, NoneAdded
    <3>2. hchunk' = SubSeq(b, 1, TakeSize(b)) /\ buf' = SubSeq(b, TakeSize(b) + 1, Len(b))
        BY <1>e, <1>f, <1>h DEF StateChanged
    <3> HIDE DEF b
    <3> QED
        BY <3>1, <3>2, <1>d, TakeSizeRange, Split
  <2>2. NumberType'
      BY <1>1, <1>b, <1>c, <1>h, <2>a, <1>d DEF ConnType, NumberType
  <2>3. SequenceType'
      BY <1>1, <1>b, <1>c, <1>h, <2>a, <2>c DEF ConnType, SequenceType
  <2>4. FlagType'
      BY <1>1, <1>b, <1>c, <1>h, <2>a DEF ConnType, FlagType
  <2>5. PlaceType'
      BY <1>1, <1>b, <1>c, <1>h, <2>a DEF ConnType, PlaceType, Places
  <2>6. RequestOK'
      BY <1>1, <1>b, <1>c, <1>h, <2>a DEF RequestOK
  <2>7. TokenOK'
      BY <1>1, <1>b, <1>c, <1>h, <2>a DEF TokenOK, Early
  <2>8. CloseOK'
      BY <1>1, <1>b, <1>c, <1>h, <2>a DEF CloseOK, TwoWriters
  <2>9. ThrowOK'
      BY <1>1, <1>b, <1>c, <1>h, <2>a DEF ThrowOK, NoUseAfterFree
  <2>10. RefsOK'
      BY <1>1, <1>b, <1>c, <1>h, <2>a DEF RefsOK, RefsExact, SrefsExact, Count, Gone
  <2>11. DataOK'
    <3>1. wire \in Seq(Int) /\ wire = Numbers(0, written)
        BY <2>b, <1>1, NoneAdded DEF ConnType, SequenceType
    <3>2. wire \o << >> \o << >> \o hchunk' \o buf' = wire \o new
      <4>1. wire \o << >> \o << >> = wire
          BY <3>1, NoneAdded
      <4>2. (wire \o hchunk') \o buf' = wire \o (hchunk' \o buf')
          BY <3>1, <2>c, Associative
      <4> QED
          BY <4>1, <4>2, <2>c
    <3>3. ResponseInOrder'
        BY <3>1, <3>2, <1>c, <1>d, <2>b DEF ResponseInOrder
    <3> QED
        BY <3>3, <1>1, <1>b, <1>c, <2>a, <2>b DEF DataOK, ClosedAfterLastByte
  <2> QED
      BY <2>2, <2>3, <2>4, <2>5, <2>6, <2>7, <2>8, <2>9, <2>10, <2>11 DEF ConnInv,
         ConnType
<1> QED
    BY <1>g, <1>h

\* The thread hands a chunk to the connection; only a failed one refuses it.
LEMMA ServiceWritesBodyInv ==
    ASSUME ConnInv, ServiceWritesBody
    PROVE  ConnInv'
<1>1. ConnType /\ RequestOK /\ TokenOK /\ CloseOK /\ ThrowOK /\ RefsOK /\ DataOK
    BY DEF ConnInv
<1>b. /\ hpc = "write body" /\ running /\ headers /\ ~finished /\ ~raised /\ ~caught
      /\ service = "push" /\ loop = "poll" /\ "write" \notin armed /\ (closed => ioError)
      /\ parser = "done" /\ lchunk = << >>
    BY <1>1 DEF ServiceWritesBody, TokenOK, CloseOK, DataOK
<1>c. /\ hchunk' = << >>
      /\ UNCHANGED <<request, closed, refs, wire, stream, loop, lchunk, caught, written,
                     ioError, lateThrow, uaf>>
    BY DEF ServiceWritesBody
<1>d. CASE Refused
  <2>a. hpc' = "catch" /\ raised' = TRUE /\ UNCHANGED <<write_buf, armed>>
      BY <1>b, <1>d DEF ServiceWritesBody, RaiseTo
  <2>2. NumberType'
      BY <1>1, <1>b, <1>c, <2>a DEF ConnType, NumberType
  <2>3. SequenceType'
      BY <1>1, <1>b, <1>c, <2>a DEF ConnType, SequenceType
  <2>4. FlagType'
      BY <1>1, <1>b, <1>c, <2>a DEF ConnType, FlagType
  <2>5. PlaceType'
      BY <1>1, <1>b, <1>c, <2>a DEF ConnType, PlaceType, Places
  <2>6. RequestOK'
      BY <1>1, <1>b, <1>c, <2>a DEF RequestOK
  <2>7. TokenOK'
      BY <1>1, <1>b, <1>c, <2>a DEF TokenOK, Early
  <2>8. CloseOK'
      BY <1>1, <1>b, <1>c, <2>a DEF CloseOK, TwoWriters
  <2>9. ThrowOK'
      BY <1>1, <1>b, <1>c, <2>a DEF ThrowOK, NoUseAfterFree
  <2>10. RefsOK'
      BY <1>1, <1>b, <1>c, <2>a DEF RefsOK, RefsExact, SrefsExact, Count, Gone
  <2>11. DataOK'
      BY <1>1, <1>b, <1>c, <2>a DEF DataOK, ResponseInOrder, ClosedAfterLastByte
  <2> QED
      BY <2>2, <2>3, <2>4, <2>5, <2>6, <2>7, <2>8, <2>9, <2>10, <2>11 DEF ConnInv,
         ConnType
<1>e. CASE ~Refused
  <2>a. /\ hpc' = "open" /\ ~closed /\ armed' = armed \cup {"write"} /\ raised' = raised
      BY <1>b, <1>e DEF ServiceWritesBody, Refused, Buffered, AfterCall
  <2>b. write_buf = << >> /\ write_buf' = hchunk
    <3>1. write_buf = << >>
        BY <1>1, <1>b, <2>a DEF DataOK, CloseOK
    <3>2. write_buf' = << >> \o hchunk
        BY <3>1, <1>b, <1>e DEF ServiceWritesBody, Refused, Buffered
    <3> QED
        BY <3>1, <3>2, <1>1, NoneAdded DEF ConnType, SequenceType
  <2>2. NumberType'
      BY <1>1, <1>b, <1>c, <2>a DEF ConnType, NumberType
  <2>3. SequenceType'
      BY <1>1, <1>b, <1>c, <2>a, <2>b DEF ConnType, SequenceType
  <2>4. FlagType'
      BY <1>1, <1>b, <1>c, <2>a DEF ConnType, FlagType
  <2>5. PlaceType'
      BY <1>1, <1>b, <1>c, <2>a DEF ConnType, PlaceType, Places
  <2>6. RequestOK'
      BY <1>1, <1>b, <1>c, <2>a DEF RequestOK
  <2>7. TokenOK'
      BY <1>1, <1>b, <1>c, <2>a DEF TokenOK, Early
  <2>8. CloseOK'
      BY <1>1, <1>b, <1>c, <2>a DEF CloseOK, TwoWriters
  <2>9. ThrowOK'
      BY <1>1, <1>b, <1>c, <2>a DEF ThrowOK, NoUseAfterFree
  <2>10. RefsOK'
      BY <1>1, <1>b, <1>c, <2>a DEF RefsOK, RefsExact, SrefsExact, Count, Gone
  <2>11. DataOK'
    <3>1. wire \o << >> \o << >> \o hchunk = wire \o hchunk \o << >> \o << >>
        BY <1>1, NoneAdded, ConcatType DEF ConnType, SequenceType
    <3>2. ResponseInOrder'
        BY <3>1, <1>1, <1>b, <1>c, <2>a, <2>b DEF ResponseInOrder, DataOK
    <3> QED
        BY <3>2, <1>1, <1>b, <1>c, <2>a DEF DataOK, ClosedAfterLastByte
  <2> QED
      BY <2>2, <2>3, <2>4, <2>5, <2>6, <2>7, <2>8, <2>9, <2>10, <2>11 DEF ConnInv,
         ConnType
<1> QED
    BY <1>d, <1>e

\* waitForReader() changes nothing.
LEMMA WaitInv ==
    ASSUME ConnInv, WaitForReader \/ ReaderCaughtUp
    PROVE  ConnInv'
<1>1. ConnType /\ RequestOK /\ TokenOK /\ CloseOK /\ ThrowOK /\ RefsOK /\ DataOK
    BY DEF ConnInv
<1>a. /\ hpc \in {"open", "test reader"} /\ hpc' \in {"wait reader", "open"}
      /\ UNCHANGED <<request, conn, stream, loop, lchunk, hchunk, caught, written, history>>
    BY DEF WaitForReader, ReaderCaughtUp
<1>b. service = "pull" /\ hpc' = "wait reader" => caught
    BY <1>1, <1>a DEF TokenOK
<1>2. NumberType'
    BY <1>1, <1>a DEF ConnType, NumberType
<1>3. SequenceType'
    BY <1>1, <1>a DEF ConnType, SequenceType
<1>4. FlagType'
    BY <1>1, <1>a DEF ConnType, FlagType
<1>5. PlaceType'
    BY <1>1, <1>a DEF ConnType, PlaceType, Places
<1>6. RequestOK'
    BY <1>1, <1>a DEF RequestOK
<1>7. TokenOK'
    BY <1>1, <1>a DEF TokenOK, Early
<1>8. CloseOK'
    BY <1>1, <1>a DEF CloseOK, TwoWriters
<1>9. ThrowOK'
    BY <1>1, <1>a DEF ThrowOK, NoUseAfterFree
<1>10. RefsOK'
    BY <1>1, <1>a DEF RefsOK, RefsExact, SrefsExact, Count, Gone
<1>11. DataOK'
    BY <1>1, <1>a DEF DataOK, ResponseInOrder, ClosedAfterLastByte
<1> QED
    BY <1>2, <1>3, <1>4, <1>5, <1>6, <1>7, <1>8, <1>9, <1>10, <1>11 DEF ConnInv,
       ConnType

\* finishResponse() closes at once only if everything is on the wire and the loop
\* is in no callback, but for the second writer of a pull service.
LEMMA FinishResponseInv ==
    ASSUME ConnInv, FinishResponse
    PROVE  ConnInv'
<1>1. ConnType /\ RequestOK /\ TokenOK /\ CloseOK /\ ThrowOK /\ RefsOK /\ DataOK
    BY DEF ConnInv
<1>b. /\ hpc = "open" /\ headers /\ (~caught => ~finished)
      /\ (service = "pull" => caught) /\ (ioError => running) /\ received # 0
    BY <1>1 DEF FinishResponse, TokenOK, CloseOK, RequestOK, Early
<1>c. /\ finished' = TRUE
      /\ UNCHANGED <<request, write_buf, armed, wire, headers, srefs, loop, lchunk, caught,
                     written, history>>
    BY DEF FinishResponse
<1>d. CASE finished
  <2>a. /\ hpc' = "done" /\ caught
        /\ UNCHANGED <<running, buf, hchunk, closed, refs, finished>>
      BY <1>1, <1>b, <1>c, <1>d DEF FinishResponse, AfterCall, ConnType, FlagType
  <2>2. NumberType'
      BY <1>1, <1>b, <1>c, <2>a DEF ConnType, NumberType
  <2>3. SequenceType'
      BY <1>1, <1>b, <1>c, <2>a DEF ConnType, SequenceType
  <2>4. FlagType'
      BY <1>1, <1>b, <1>c, <2>a DEF ConnType, FlagType
  <2>5. PlaceType'
      BY <1>1, <1>b, <1>c, <2>a DEF ConnType, PlaceType, Places
  <2>6. RequestOK'
      BY <1>1, <1>b, <1>c, <2>a DEF RequestOK
  <2>7. TokenOK'
      BY <1>1, <1>b, <1>c, <2>a DEF TokenOK, Early
  <2>8. CloseOK'
      BY <1>1, <1>b, <1>c, <2>a DEF CloseOK, TwoWriters
  <2>9. ThrowOK'
      BY <1>1, <1>b, <1>c, <2>a DEF ThrowOK, NoUseAfterFree
  <2>10. RefsOK'
      BY <1>1, <1>b, <1>c, <2>a DEF RefsOK, RefsExact, SrefsExact, Count, Gone
  <2>11. DataOK'
      BY <1>1, <1>b, <1>c, <2>a DEF DataOK, ResponseInOrder, ClosedAfterLastByte
  <2> QED
      BY <2>2, <2>3, <2>4, <2>5, <2>6, <2>7, <2>8, <2>9, <2>10, <2>11 DEF ConnInv,
         ConnType
<1>e. CASE ~finished /\ running
  <2>a. /\ hpc' = (IF caught THEN "done" ELSE "finished") /\ (closed => ioError)
        /\ UNCHANGED <<running, buf, hchunk, closed, refs>>
      BY <1>1, <1>e DEF FinishResponse, StateChanged, AfterCall, CloseOK
  <2>2. NumberType'
      BY <1>1, <1>b, <1>c, <1>e, <2>a DEF ConnType, NumberType
  <2>3. SequenceType'
      BY <1>1, <1>b, <1>c, <1>e, <2>a DEF ConnType, SequenceType
  <2>4. FlagType'
      BY <1>1, <1>b, <1>c, <1>e, <2>a DEF ConnType, FlagType
  <2>5. PlaceType'
      BY <1>1, <1>b, <1>c, <1>e, <2>a DEF ConnType, PlaceType, Places
  <2>6. RequestOK'
      BY <1>1, <1>b, <1>c, <1>e, <2>a DEF RequestOK
  <2>7. TokenOK'
      BY <1>1, <1>b, <1>c, <1>e, <2>a DEF TokenOK, Early
  <2>8. CloseOK'
      BY <1>1, <1>b, <1>c, <1>e, <2>a DEF CloseOK, TwoWriters
  <2>9. ThrowOK'
      BY <1>1, <1>b, <1>c, <1>e, <2>a DEF ThrowOK, NoUseAfterFree
  <2>10. RefsOK'
      BY <1>1, <1>b, <1>c, <1>e, <2>a DEF RefsOK, RefsExact, SrefsExact, Count, Gone
  <2>11. DataOK'
      BY <1>1, <1>b, <1>c, <1>e, <2>a DEF DataOK, ResponseInOrder, ClosedAfterLastByte
  <2> QED
      BY <2>2, <2>3, <2>4, <2>5, <2>6, <2>7, <2>8, <2>9, <2>10, <2>11 DEF ConnInv,
         ConnType
<1>f. CASE ~finished /\ ~running
  <2>a. /\ ~closed /\ ~ioError /\ ~raised /\ buf = << >> /\ "write" \notin armed
        /\ (loop = "poll" \/ TwoWriters) /\ loop \notin {"callback", "write body"}
      BY <1>1, <1>b, <1>f DEF CloseOK, TokenOK, DataOK, TwoWriters, ConnType, PlaceType
  <2>b. /\ hpc' = "cancel" /\ closed' = TRUE /\ refs' = refs - 1
        /\ UNCHANGED <<running, buf, hchunk>>
      BY <2>a, <1>f DEF FinishResponse, StateChanged
  <2>c. wire = Numbers(0, written)
    <3>1. write_buf = << >> /\ lchunk = << >> /\ hchunk = << >> /\ wire \in Seq(Int)
        BY <1>1, <1>b, <2>a DEF DataOK, ConnType, SequenceType
    <3>2. wire \o << >> \o << >> \o << >> \o << >> = Numbers(0, written)
        BY <3>1, <1>1, <1>b, <2>a DEF DataOK, ResponseInOrder
    <3> QED
        BY <3>1, <3>2, NoneAdded
  <2>2. NumberType'
      BY <1>1, <1>c, <2>b DEF ConnType, NumberType
  <2>3. SequenceType'
      BY <1>1, <1>b, <1>c, <1>f, <2>a, <2>b DEF ConnType, SequenceType
  <2>4. FlagType'
      BY <1>1, <1>b, <1>c, <1>f, <2>a, <2>b DEF ConnType, FlagType
  <2>5. PlaceType'
      BY <1>1, <1>b, <1>c, <1>f, <2>a, <2>b DEF ConnType, PlaceType, Places
  <2>6. RequestOK'
      BY <1>1, <1>b, <1>c, <1>f, <2>a, <2>b DEF RequestOK
  <2>7. TokenOK'
      BY <1>1, <1>b, <1>c, <1>f, <2>a, <2>b DEF TokenOK, Early
  <2>8. CloseOK'
      BY <1>1, <1>b, <1>c, <1>f, <2>a, <2>b DEF CloseOK, TwoWriters
  <2>9. ThrowOK'
      BY <1>1, <1>b, <1>c, <1>f, <2>a, <2>b DEF ThrowOK, NoUseAfterFree
  <2>10. RefsOK'
    <3>1. refs = 2 + Count(srefs > 0)
      <4>1. received > 0
          BY <1>1, <1>b DEF ConnType, NumberType
      <4>2. Count(~closed \/ hpc = "cancel") = 1
          BY <2>a DEF Count
      <4>3. Count(received > 0 /\ ~(finished /\ closed /\ ~ioError)) = 1
          BY <4>1, <2>a DEF Count
      <4>4. Count(srefs > 0) \in Int
          BY DEF Count
      <4> QED
          BY <4>2, <4>3, <4>4, <1>1 DEF RefsOK, RefsExact
    <3>2. refs' = 1 + Count(srefs' > 0)
        BY <3>1, <1>1, <1>c, <2>b DEF Count, ConnType, NumberType
    <3>3. RefsExact'
      <4>1. Count(~closed \/ hpc = "cancel")' = 1
          BY <2>b DEF Count
      <4>2. Count(received > 0 /\ ~(finished /\ closed /\ ~ioError))' = 0
          BY <1>c, <2>a, <2>b DEF Count
      <4>3. Count(srefs > 0)' \in Int
          BY DEF Count
      <4> QED
          BY <4>1, <4>2, <4>3, <3>2 DEF RefsExact
    <3>4. SrefsExact'
        BY <1>1, <1>b, <1>c, <2>a, <2>b DEF RefsOK, SrefsExact, Count, Gone
    <3> QED
        BY <3>3, <3>4 DEF RefsOK
  <2>11. DataOK'
      BY <1>1, <1>b, <1>c, <1>f, <2>a, <2>b, <2>c DEF DataOK, ResponseInOrder,
         ClosedAfterLastByte
  <2> QED
      BY <2>2, <2>3, <2>4, <2>5, <2>6, <2>7, <2>8, <2>9, <2>10, <2>11 DEF ConnInv,
         ConnType
<1> QED
    BY <1>d, <1>e, <1>f

\* The loop has executed cancelFD(): the references go.
LEMMA CancelFDInv ==
    ASSUME ConnInv, CancelFD
    PROVE  ConnInv'
<1>1. ConnType /\ RequestOK /\ TokenOK /\ CloseOK /\ ThrowOK /\ RefsOK /\ DataOK
    BY DEF ConnInv
<1>a. /\ hpc = "cancel" /\ loop = "poll" /\ armed' = {}
      /\ srefs' = srefs - 1 /\ refs' = (IF srefs = 1 THEN refs - 2 ELSE refs - 1)
      /\ hpc' = (IF caught THEN "done" ELSE "finished")
      /\ UNCHANGED <<request, closed, write_buf, wire, running, headers, finished, buf, loop,
                      lchunk, hchunk, caught, written, history>>
    BY <1>1 DEF CancelFD, StreamUnref, AfterCall, ConnType, FlagType, NumberType
<1>b. closed /\ ~ioError /\ finished /\ ~running /\ "write" \notin armed
    BY <1>1, <1>a DEF CloseOK, TokenOK
<1>c. srefs = Count(~caught) + 1
    BY <1>1, <1>a, <1>b DEF RefsOK, SrefsExact, Count, Gone
<1>2. NumberType'
    BY <1>1, <1>a DEF ConnType, NumberType
<1>3. SequenceType'
    BY <1>1, <1>a DEF ConnType, SequenceType
<1>4. FlagType'
    BY <1>1, <1>a DEF ConnType, FlagType
<1>5. PlaceType'
    BY <1>1, <1>a DEF ConnType, PlaceType, Places
<1>6. RequestOK'
    BY <1>1, <1>a DEF RequestOK
<1>7. TokenOK'
    BY <1>1, <1>a DEF TokenOK, Early
<1>8. CloseOK'
    BY <1>1, <1>a, <1>b DEF CloseOK, TwoWriters
<1>9. ThrowOK'
    BY <1>1, <1>a DEF ThrowOK, NoUseAfterFree
<1>10. RefsOK'
  <2>1. RefsExact'
      BY <1>1, <1>a, <1>b, <1>c DEF RefsOK, RefsExact, Count, ConnType, NumberType
  <2>2. SrefsExact'
      BY <1>1, <1>a, <1>b, <1>c DEF SrefsExact, Count, Gone
  <2> QED
      BY <2>1, <2>2 DEF RefsOK
<1>11. DataOK'
    BY <1>1, <1>a, <1>b DEF DataOK, ResponseInOrder, ClosedAfterLastByte
<1> QED
    BY <1>2, <1>3, <1>4, <1>5, <1>6, <1>7, <1>8, <1>9, <1>10, <1>11 DEF ConnInv,
       ConnType

\* A service that throws before it has finished holds the stream.
LEMMA ServiceThrowsInv ==
    ASSUME ConnInv, ServiceThrows
    PROVE  ConnInv'
<1>1. ConnType /\ RequestOK /\ TokenOK /\ CloseOK /\ ThrowOK /\ RefsOK /\ DataOK
    BY DEF ConnInv
<1>a. /\ ~uaf /\ ~caught /\ hpc \in {"begin", "open", "finished"}
      /\ hpc' = "catch" /\ lateThrow' = (hpc = "finished")
      /\ UNCHANGED <<request, conn, stream, loop, lchunk, hchunk, caught, written, ioError,
                      raised, uaf>>
    BY DEF ServiceThrows
<1>2. NumberType'
    BY <1>1, <1>a DEF ConnType, NumberType
<1>3. SequenceType'
    BY <1>1, <1>a DEF ConnType, SequenceType
<1>4. FlagType'
    BY <1>1, <1>a DEF ConnType, FlagType
<1>5. PlaceType'
    BY <1>1, <1>a DEF ConnType, PlaceType, Places
<1>6. RequestOK'
    BY <1>1, <1>a DEF RequestOK
<1>7. TokenOK'
    BY <1>1, <1>a DEF TokenOK, Early
<1>8. CloseOK'
    BY <1>1, <1>a DEF CloseOK, TwoWriters
<1>9. ThrowOK'
    BY <1>1, <1>a DEF ThrowOK, NoUseAfterFree, CloseOK, TokenOK, Early, ConnType,
       PlaceType
<1>10. RefsOK'
    BY <1>1, <1>a DEF RefsOK, RefsExact, SrefsExact, Count, Gone
<1>11. DataOK'
    BY <1>1, <1>a DEF DataOK, ResponseInOrder, ClosedAfterLastByte
<1> QED
    BY <1>2, <1>3, <1>4, <1>5, <1>6, <1>7, <1>8, <1>9, <1>10, <1>11 DEF ConnInv,
       ConnType

\* The catch clause uses the stream after the service's reference is gone: the
\* stream's own is still there unless the response was finished.
LEMMA CatchInv ==
    ASSUME ConnInv, Catch
    PROVE  ConnInv'
<1>1. ConnType /\ RequestOK /\ TokenOK /\ CloseOK /\ ThrowOK /\ RefsOK /\ DataOK
    BY DEF ConnInv
<1>a. /\ ~uaf /\ hpc = "catch" /\ caught' = TRUE
      /\ srefs' = srefs - 1 /\ refs' = (IF srefs = 1 THEN refs - 1 ELSE refs)
      /\ uaf' = (srefs = 1) /\ hpc' = (IF headers THEN "open" ELSE "begin")
      /\ UNCHANGED <<request, closed, write_buf, armed, wire, running, headers, finished,
                      buf, loop, lchunk, hchunk, written, ioError, raised, lateThrow>>
    BY DEF Catch, StreamUnref
<1>b. ~caught
    BY <1>1, <1>a DEF CloseOK
<1>c. srefs = 1 + Count(~(closed /\ ~ioError))
    BY <1>1, <1>a, <1>b DEF RefsOK, SrefsExact, Count, Gone
<1>2. NumberType'
    BY <1>1, <1>a DEF ConnType, NumberType
<1>3. SequenceType'
    BY <1>1, <1>a DEF ConnType, SequenceType
<1>4. FlagType'
    BY <1>1, <1>a DEF ConnType, FlagType
<1>5. PlaceType'
    BY <1>1, <1>a DEF ConnType, PlaceType, Places
<1>6. RequestOK'
    BY <1>1, <1>a DEF RequestOK
<1>7. TokenOK'
    BY <1>1, <1>a DEF TokenOK, Early
<1>8. CloseOK'
    BY <1>1, <1>a DEF CloseOK, TwoWriters
<1>9. ThrowOK'
  <2>1. srefs = 1 => closed /\ ~ioError
      BY <1>c DEF Count
  <2>2. uaf' => lateThrow'
      BY <2>1, <1>1, <1>a DEF CloseOK, ThrowOK
  <2> QED
      BY <2>2, <1>a DEF ThrowOK, NoUseAfterFree
<1>10. RefsOK'
  <2>1. RefsExact'
      BY <1>1, <1>a, <1>c DEF RefsOK, RefsExact, Count, ConnType, NumberType
  <2>2. SrefsExact'
      BY <1>1, <1>a, <1>c DEF SrefsExact, Count, Gone
  <2> QED
      BY <2>1, <2>2 DEF RefsOK
<1>11. DataOK'
    BY <1>1, <1>a DEF DataOK, ResponseInOrder, ClosedAfterLastByte
<1> QED
    BY <1>2, <1>3, <1>4, <1>5, <1>6, <1>7, <1>8, <1>9, <1>10, <1>11 DEF ConnInv,
       ConnType

\* The service returns.
LEMMA ServiceReturnsInv ==
    ASSUME ConnInv, ServiceReturns
    PROVE  ConnInv'
<1>1. ConnType /\ RequestOK /\ TokenOK /\ CloseOK /\ ThrowOK /\ RefsOK /\ DataOK
    BY DEF ConnInv
<1>a. /\ ~uaf /\ hpc = "finished" /\ hpc' = "done"
      /\ srefs' = srefs - 1 /\ refs' = (IF srefs = 1 THEN refs - 1 ELSE refs)
      /\ UNCHANGED <<request, closed, write_buf, armed, wire, running, headers, finished,
                      buf, loop, lchunk, hchunk, caught, written, history>>
    BY DEF ServiceReturns, StreamUnref
<1>b. ~caught
    BY <1>1, <1>a DEF CloseOK
<1>c. srefs = 1 + Count(~(closed /\ ~ioError))
    BY <1>1, <1>a, <1>b DEF RefsOK, SrefsExact, Count, Gone
<1>2. NumberType'
    BY <1>1, <1>a DEF ConnType, NumberType
<1>3. SequenceType'
    BY <1>1, <1>a DEF ConnType, SequenceType
<1>4. FlagType'
    BY <1>1, <1>a DEF ConnType, FlagType
<1>5. PlaceType'
    BY <1>1, <1>a DEF ConnType, PlaceType, Places
<1>6. RequestOK'
    BY <1>1, <1>a DEF RequestOK
<1>7. TokenOK'
    BY <1>1, <1>a DEF TokenOK, Early
<1>8. CloseOK'
    BY <1>1, <1>a DEF CloseOK, TwoWriters
<1>9. ThrowOK'
    BY <1>1, <1>a DEF ThrowOK, NoUseAfterFree
<1>10. RefsOK'
  <2>1. RefsExact'
      BY <1>1, <1>a, <1>c DEF RefsOK, RefsExact, Count, ConnType, NumberType
  <2>2. SrefsExact'
      BY <1>1, <1>a, <1>c DEF SrefsExact, Count, Gone
  <2> QED
      BY <2>1, <2>2 DEF RefsOK
<1>11. DataOK'
    BY <1>1, <1>a DEF DataOK, ResponseInOrder, ClosedAfterLastByte
<1> QED
    BY <1>2, <1>3, <1>4, <1>5, <1>6, <1>7, <1>8, <1>9, <1>10, <1>11 DEF ConnInv,
       ConnType

\* Nothing happens.
LEMMA StutterInv == ConnInv /\ UNCHANGED vars => ConnInv'
<1> SUFFICES ASSUME ConnInv, UNCHANGED vars PROVE ConnInv'
    OBVIOUS
<1>1. ConnType /\ RequestOK /\ TokenOK /\ CloseOK /\ ThrowOK /\ RefsOK /\ DataOK
    BY DEF ConnInv
<1>2. NumberType' /\ SequenceType'
    BY <1>1 DEF ConnType, NumberType, SequenceType, vars
<1>5. FlagType'
    BY <1>1 DEF ConnType, FlagType, vars
<1>6. PlaceType'
    BY <1>1 DEF ConnType, PlaceType, vars
<1>3. RequestOK' /\ TokenOK' /\ CloseOK'
    BY ZenonT(40), <1>1 DEF RequestOK, TokenOK, CloseOK, TwoWriters, vars
<1>4. ThrowOK' /\ RefsOK' /\ DataOK'
    BY <1>1 DEF ThrowOK, NoUseAfterFree, RefsOK, RefsExact, SrefsExact, Count, DataOK,
       ResponseInOrder, ClosedAfterLastByte, vars
<1> QED
    BY <1>2, <1>3, <1>4, <1>5, <1>6 DEF ConnInv, ConnType

-----------------------------------------------------------------------------
(* The invariant.                                                          *)

\* It holds at first.
LEMMA InitInv == Init => ConnInv
<1> SUFFICES ASSUME Init PROVE ConnInv
    OBVIOUS
<1>1. NumberType
    BY ServerAssumption DEF Init, NumberType
<1>2. SequenceType
    BY DEF Init, SequenceType
<1>3. FlagType
    BY DEF Init, FlagType
<1>4. PlaceType
    BY ServerAssumption DEF Init, PlaceType, Places
<1>5. RequestOK
    BY <1>1 DEF Init, RequestOK, NumberType
<1>6. TokenOK
    BY DEF Init, TokenOK, Early
<1>7. CloseOK
    BY DEF Init, CloseOK
<1>8. ThrowOK
    BY DEF Init, ThrowOK, NoUseAfterFree
<1>9. RefsOK
    BY DEF Init, RefsOK, RefsExact, SrefsExact, Count
<1>10. DataOK
    BY DEF Init, DataOK, ResponseInOrder, ClosedAfterLastByte
<1> QED
    BY <1>1, <1>2, <1>3, <1>4, <1>5, <1>6, <1>7, <1>8, <1>9, <1>10 DEF ConnInv, ConnType

\* Every step keeps it.
LEMMA NextInv == ConnInv /\ [Next]_vars => ConnInv'
<1> SUFFICES ASSUME ConnInv, [Next]_vars PROVE ConnInv'
    OBVIOUS
<1>1. CASE UNCHANGED vars
    BY <1>1, StutterInv
<1>2. CASE \E n \in 1..(MaxPieces + 1) : LoopRead(n)
    BY <1>2, LoopReadInv
<1>3. CASE \E n \in 1..(MaxUnits + 1) : LoopWrite(n)
    BY <1>3, LoopWriteInv
<1>4. CASE LoopReadFails \/ LoopWriteFails
    BY <1>4, FailInv
<1>5. CASE LoopBodyCallback \/ OnCallbackCompleted \/ OnBodyWritten \/ LoopWritesBody
    BY <1>5, LoopBodyCallbackInv, OnCallbackCompletedInv, OnBodyWrittenInv, LoopWritesBodyInv
<1>6. CASE Begin \/ ReadBody \/ ReadBodyFlush \/ BodyRead \/ StartResponse \/ WriteHeaders
    BY <1>6, BeginInv, ReadBodyInv, ReadBodyFlushInv, BodyReadInv, StartResponseInv,
       WriteHeadersInv
<1>7. CASE \E n \in 1..2 : WriteBodyChunk(n)
    BY <1>7, WriteBodyChunkInv
<1>8. CASE ServiceWritesBody \/ WaitForReader \/ ReaderCaughtUp \/ FinishResponse
    BY <1>8, ServiceWritesBodyInv, WaitInv, FinishResponseInv
<1>9. CASE CancelFD \/ ServiceThrows \/ Catch \/ ServiceReturns
    BY <1>9, CancelFDInv, ServiceThrowsInv, CatchInv, ServiceReturnsInv
<1> QED
    BY <1>1, <1>2, <1>3, <1>4, <1>5, <1>6, <1>7, <1>8, <1>9 DEF Next

\* The invariant holds in every state of the connection.
THEOREM HTTPConnectionInvariant == Spec => []ConnInv
<1>1. Init => ConnInv
    BY InitInv
<1>2. ConnInv /\ [Next]_vars => ConnInv'
    BY NextInv
<1> QED
    BY <1>1, <1>2, PTL DEF Spec

\* A service's thread that waits in cancelFD() with the mutexes of stream and
\* connection finds the loop outside of every callback that needs one of them,
\* but for a pull service that throws behind its callback.
THEOREM HTTPNoLockCycle == Spec => []NoLockCycle
<1>1. ConnInv => NoLockCycle
    BY DEF ConnInv, CloseOK, NoLockCycle
<1> QED
    BY <1>1, HTTPConnectionInvariant, PTL

\* The references that the loop and the service's thread hold to connection and
\* stream are counted right whoever drops the last one, and freed objects are
\* used in no case but the two that NoUseAfterFree names.
THEOREM HTTPLifetimesRight == Spec => []LifetimesRight
<1>1. ConnInv => LifetimesRight
    BY DEF ConnInv, RefsOK, ThrowOK, LifetimesRight
<1> QED
    BY <1>1, HTTPConnectionInvariant, PTL

-----------------------------------------------------------------------------
(* The body of the request.                                                *)

\* A callback posted with all that is behind the others.
LEMMA BodyPosted ==
    ASSUME NEW last \in Nat, NEW next \in Nat, last <= next, NEW e \in Posted,
           NEW cut \in [0..Len(runq) -> 0..last], runq \in Seq(Posted),
           body = Numbers(1, cut[0]),
           \A i \in 1..Len(runq) :
               cut[i - 1] <= cut[i] /\ runq[i].data = Numbers(cut[i - 1] + 1, cut[i]),
           e.data = Numbers(cut[Len(runq)] + 1, next),
           runq' = Append(runq, e), body_buf' = << >>, body' = body,
           (IF received = 0 THEN 0 ELSE received - 1)' = next
    PROVE  BodyInOrder'
<1> DEFINE m == Len(runq)
           cut2 == [i \in 0..(m + 1) |-> IF i = m + 1 THEN next ELSE cut[i]]
<1>1. /\ m \in Nat /\ Len(runq') = m + 1 /\ \A i \in 1..m : runq'[i] = runq[i]
      /\ runq'[m + 1] = e
    BY Appended
<1>2. cut[m] \in 0..last
    BY <1>1
<1> HIDE DEF m
<1>3. /\ cut2 \in [0..(m + 1) -> 0..next] /\ cut2[m + 1] = next
      /\ \A i \in 0..m : cut2[i] = cut[i]
    BY <1>1 DEF m
<1> HIDE DEF cut2
<1>4. ASSUME NEW i \in 1..(m + 1)
      PROVE  cut2[i - 1] <= cut2[i] /\ runq'[i].data = Numbers(cut2[i - 1] + 1, cut2[i])
  <2>1. CASE i \in 1..m
    <3>1. i \in 0..m /\ i - 1 \in 0..m
        BY <2>1, <1>1
    <3> QED
        BY <3>1, <2>1, <1>1, <1>3 DEF m
  <2>2. CASE i = m + 1
    <3>1. i - 1 = m /\ m \in 0..m
        BY <2>2, <1>1
    <3> QED
        BY <3>1, <2>2, <1>1, <1>2, <1>3 DEF m
  <2> QED
      BY <2>1, <2>2, <1>1
<1>5. cut2[0] = cut[0]
    BY <1>3, <1>1
<1>6. Numbers(next + 1, next) = << >>
    BY NumbersNone
<1> QED
    BY <1>1, <1>3, <1>4, <1>5, <1>6 DEF BodyInOrder

\* New pieces go to body_buf_ or, with what is there, to a callback.
LEMMA LoopReadBody ==
    ASSUME ConnInv, BodyInOrder, NEW n \in 1..(MaxPieces + 1), LoopRead(n)
    PROVE  BodyInOrder'
<1> DEFINE last == IF received = 0 THEN 0 ELSE received - 1
           m == Len(runq)
<1>1. /\ received \in Nat /\ received' = received + n /\ n \in Nat /\ n >= 1 /\ body' = body
      /\ runq \in Seq(Posted) /\ body_buf \in Seq(Int) /\ m \in Nat
    BY ServerAssumption, LenProperties
    DEF ConnInv, ConnType, NumberType, SequenceType, LoopRead
<1>2. PICK cut \in [0..m -> 0..last] :
        /\ body = Numbers(1, cut[0])
        /\ \A i \in 1..m :
               cut[i - 1] <= cut[i] /\ runq[i].data = Numbers(cut[i - 1] + 1, cut[i])
        /\ body_buf = Numbers(cut[m] + 1, last)
    BY DEF BodyInOrder
<1> DEFINE data == Numbers(IF received = 0 THEN 1 ELSE received, received + n - 1)
           next == received + n - 1
           e == [data |-> body_buf \o data, last |-> parser' = "done"]
<1>3. last \in Nat /\ next \in Nat /\ last <= next /\ cut[m] \in 0..last /\ received' # 0
    BY <1>1
<1>4. data = Numbers(last + 1, next)
    BY <1>1
<1> HIDE DEF last, next, data, m
<1>5. body_buf \o data = Numbers(cut[m] + 1, next) /\ body_buf \o data \in Seq(Int)
      /\ data \in Seq(Int)
  <2> DEFINE c == cut[m] + 1
  <2>1. c \in Int /\ last \in Int /\ next \in Int /\ c <= last + 1 /\ last <= next /\ last + 1 \in Int
      BY <1>3
  <2> HIDE DEF c
  <2>2. Numbers(c, last) \o Numbers(last + 1, next) = Numbers(c, next)
      BY <2>1, NumbersConcat
  <2>3. Numbers(c, next) \in Seq(Int) /\ Numbers(last + 1, next) \in Seq(Int)
      BY <2>1, NumbersType
  <2> QED
      BY <2>2, <2>3, <1>2, <1>4 DEF c
<1>6. e \in Posted /\ e.data = Numbers(cut[m] + 1, next)
    BY <1>5 DEF Posted
<1>7. \/ runq' = Append(runq, e) /\ body_buf' = << >>
      \/ runq' = runq /\ body_buf' = body_buf \o data
  <2>1. data = << >> => body_buf = body_buf \o data
      BY <1>1, NoneAdded
  <2>2. body_buf \o data = << >> => body_buf = body_buf \o data
      BY <1>1, <1>5, ConcatEqualIffEmpty
  <2>3. \/ Post(body_buf \o data, parser' = "done")
        \/ data = << >> /\ UNCHANGED <<runq, body_buf>>
        \/ body_buf' = body_buf \o data /\ UNCHANGED runq
      BY DEF LoopRead, data
  <2> QED
      BY <2>1, <2>2, <2>3 DEF Post
<1>8. (IF received = 0 THEN 0 ELSE received - 1)' = next
    BY <1>1, <1>3 DEF next
<1> HIDE DEF e
<1>9. CASE runq' = runq /\ body_buf' = body_buf \o data
  <2>1. cut \in [0..Len(runq') -> 0..next] /\ Len(runq') = m
      BY <1>2, <1>3, <1>9 DEF m
  <2> QED
      BY <2>1, <1>1, <1>2, <1>5, <1>8, <1>9 DEF BodyInOrder
<1>10. CASE runq' = Append(runq, e) /\ body_buf' = << >>
    BY <1>1, <1>2, <1>3, <1>6, <1>8, <1>10, BodyPosted DEF m
<1> QED
    BY <1>7, <1>9, <1>10

\* What came before the service asked for the body is posted.
LEMMA ReadBodyFlushBody ==
    ASSUME ConnInv, BodyInOrder, ReadBodyFlush
    PROVE  BodyInOrder'
<1> DEFINE last == IF received = 0 THEN 0 ELSE received - 1
           m == Len(runq)
           e == [data |-> body_buf, last |-> parser = "done"]
<1>1. /\ received \in Nat /\ received' = received /\ body' = body
      /\ runq \in Seq(Posted) /\ body_buf \in Seq(Int) /\ m \in Nat
    BY LenProperties
    DEF ConnInv, ConnType, NumberType, SequenceType, ReadBodyFlush
<1>2. PICK cut \in [0..m -> 0..last] :
        /\ body = Numbers(1, cut[0])
        /\ \A i \in 1..m :
               cut[i - 1] <= cut[i] /\ runq[i].data = Numbers(cut[i - 1] + 1, cut[i])
        /\ body_buf = Numbers(cut[m] + 1, last)
    BY DEF BodyInOrder
<1>3. last \in Nat /\ cut[m] \in 0..last /\ last' = last
    BY <1>1
<1>4. e \in Posted /\ e.data = Numbers(cut[m] + 1, last)
    BY <1>1, <1>2 DEF Posted
<1>5. \/ runq' = Append(runq, e) /\ body_buf' = << >>
      \/ runq' = runq /\ body_buf' = body_buf
    BY DEF ReadBodyFlush, Post
<1>6. CASE runq' = runq /\ body_buf' = body_buf
    BY <1>1, <1>6 DEF BodyInOrder
<1>7. CASE runq' = Append(runq, e) /\ body_buf' = << >>
  <2> HIDE DEF last, e
  <2>1. (IF received = 0 THEN 0 ELSE received - 1)' = last
      BY <1>3 DEF last
  <2>2. last <= last
      BY <1>3
  <2> QED
      BY <2>1, <2>2, <1>1, <1>2, <1>3, <1>4, <1>7, BodyPosted
<1> QED
    BY <1>5, <1>6, <1>7

\* The oldest callback gives its pieces to the service.
LEMMA LoopBodyCallbackBody ==
    ASSUME ConnInv, BodyInOrder, LoopBodyCallback
    PROVE  BodyInOrder'
<1> DEFINE last == IF received = 0 THEN 0 ELSE received - 1
           m == Len(runq)
<1>1. /\ UNCHANGED <<received, body_buf>> /\ body' = body \o runq[1].data /\ m \in Nat /\ m >= 1
      /\ received \in Nat /\ Len(runq') = m - 1
      /\ \A i \in 1..(m - 1) : runq'[i] = runq[i + 1]
  <2>1. /\ runq \in Seq(Posted) /\ runq # << >> /\ runq' = Tail(runq)
        /\ body' = body \o Head(runq).data /\ UNCHANGED <<received, body_buf>> /\ received \in Nat
      BY DEF ConnInv, ConnType, NumberType, SequenceType, LoopBodyCallback
  <2>2. Head(runq) = runq[1] /\ m \in Nat /\ m # 0
      BY <2>1, LenProperties, EmptySeq
  <2>3. Len(runq') = m - 1 /\ \A i \in 1..Len(runq') : runq'[i] = runq[i + 1]
      BY <2>1, HeadTailProperties
  <2> QED
      BY <2>1, <2>2, <2>3
<1>2. PICK cut \in [0..m -> 0..last] :
        /\ body = Numbers(1, cut[0])
        /\ \A i \in 1..m :
               cut[i - 1] <= cut[i] /\ runq[i].data = Numbers(cut[i - 1] + 1, cut[i])
        /\ body_buf = Numbers(cut[m] + 1, last)
    BY DEF BodyInOrder
<1>3. last \in Nat /\ (IF received = 0 THEN 0 ELSE received - 1)' = last
    BY <1>1
<1> HIDE DEF last, m
<1> DEFINE cut2 == [i \in 0..(m - 1) |-> cut[i + 1]]
<1>4. /\ cut2 \in [0..(m - 1) -> 0..last] /\ m - 1 \in 0..(m - 1) /\ m - 1 + 1 = m
      /\ \A i \in 0..(m - 1) : cut2[i] = cut[i + 1]
    BY <1>1
<1>5. /\ cut[0] \in 0..last /\ cut[1] \in 0..last /\ cut[0] <= cut[1] /\ cut2[0] = cut[1]
      /\ runq[1].data = Numbers(cut[0] + 1, cut[1])
  <2>1. 0 \in 0..m /\ 1 \in 0..m /\ 1 \in 1..m /\ 1 - 1 = 0 /\ 0 \in 0..(m - 1) /\ 0 + 1 = 1
      BY <1>1
  <2>2. cut[1 - 1] <= cut[1] /\ runq[1].data = Numbers(cut[1 - 1] + 1, cut[1])
      BY <2>1, <1>2
  <2> QED
      BY <2>1, <2>2, <1>4
<1> HIDE DEF cut2
<1>6. body' = Numbers(1, cut2[0])
  <2> DEFINE x == cut[0]  y == cut[1]
  <2>1. 1 \in Int /\ x \in Int /\ y \in Int /\ 1 <= x + 1 /\ x <= y
      BY <1>3, <1>5
  <2> HIDE DEF x, y
  <2>2. Numbers(1, x) \o Numbers(x + 1, y) = Numbers(1, y)
      BY <2>1, NumbersConcat
  <2> QED
      BY <2>2, <1>1, <1>2, <1>5 DEF x, y
<1>7. ASSUME NEW i \in 1..(m - 1)
      PROVE  cut2[i - 1] <= cut2[i] /\ runq'[i].data = Numbers(cut2[i - 1] + 1, cut2[i])
  <2>1. i + 1 \in 1..m /\ i + 1 - 1 = i /\ i - 1 \in 0..(m - 1) /\ i \in 0..(m - 1) /\ i - 1 + 1 = i
      BY <1>1
  <2>2. cut[i + 1 - 1] <= cut[i + 1] /\ runq[i + 1].data = Numbers(cut[i + 1 - 1] + 1, cut[i + 1])
      BY <2>1, <1>2
  <2>3. cut2[i - 1] = cut[i] /\ cut2[i] = cut[i + 1] /\ runq'[i] = runq[i + 1]
      BY <2>1, <1>1, <1>4
  <2> QED
      BY <2>1, <2>2, <2>3
<1>8. cut2[m - 1] = cut[m]
    BY <1>4
<1> QED
    BY <1>1, <1>2, <1>3, <1>4, <1>6, <1>7, <1>8 DEF BodyInOrder

\* There is no body at first.
LEMMA InitBody == Init => BodyInOrder
<1> SUFFICES ASSUME Init PROVE BodyInOrder
    OBVIOUS
<1>1. Numbers(1, 0) = << >>
    BY NumbersNone
<1>2. received = 0 /\ body = << >> /\ body_buf = << >> /\ runq = << >> /\ Len(runq) = 0
    BY DEF Init
<1> DEFINE cut == [i \in 0..0 |-> 0]
<1>3. cut \in [0..Len(runq) -> 0..0] /\ cut[0] = 0 /\ cut[Len(runq)] + 1 = 1
    BY <1>2
<1>4. \A i \in 1..Len(runq) : FALSE
    BY <1>2
<1> HIDE DEF cut
<1> QED
    BY <1>1, <1>2, <1>3, <1>4 DEF BodyInOrder

\* No step loses, doubles or reorders a piece of it.
LEMMA NextBody == ConnInv /\ BodyInOrder /\ [Next]_vars => BodyInOrder'
<1> SUFFICES ASSUME ConnInv, BodyInOrder, [Next]_vars PROVE BodyInOrder'
    OBVIOUS
<1>1. CASE UNCHANGED <<received, runq, body, body_buf>>
    BY <1>1 DEF BodyInOrder
<1>2. CASE UNCHANGED vars
    BY <1>1, <1>2 DEF vars
<1>3. CASE \E n \in 1..(MaxPieces + 1) : LoopRead(n)
    BY <1>3, LoopReadBody
<1>4. CASE ReadBodyFlush
    BY <1>4, ReadBodyFlushBody
<1>5. CASE LoopBodyCallback
    BY <1>5, LoopBodyCallbackBody
<1>6. CASE \/ \E n \in 1..(MaxUnits + 1) : LoopWrite(n)
           \/ LoopReadFails \/ LoopWriteFails
           \/ OnCallbackCompleted \/ OnBodyWritten \/ LoopWritesBody
    BY <1>1, <1>6
    DEF LoopWrite, LoopReadFails, LoopWriteFails, OnCallbackCompleted, OnBodyWritten,
        LoopWritesBody
<1>7. CASE Begin \/ ReadBody \/ BodyRead \/ StartResponse \/ WriteHeaders
    BY <1>1, <1>7 DEF Begin, ReadBody, BodyRead, StartResponse, WriteHeaders
<1>8. CASE \/ \E n \in 1..2 : WriteBodyChunk(n)
           \/ ServiceWritesBody \/ WaitForReader \/ ReaderCaughtUp \/ FinishResponse
           \/ CancelFD \/ ServiceThrows \/ Catch \/ ServiceReturns
    BY <1>1, <1>8
    DEF WriteBodyChunk, ServiceWritesBody, WaitForReader, ReaderCaughtUp, FinishResponse,
        CancelFD, ServiceThrows, Catch, ServiceReturns
<1> QED
    BY <1>2, <1>3, <1>4, <1>5, <1>6, <1>7, <1>8 DEF Next

\* Every piece of the request and every unit of the response passes once and in
\* order, whenever the service reads the body, whichever of the two threads moves
\* a chunk on, and whichever of them closes the connection: behind the last byte.
THEOREM HTTPBytesInOrder == Spec => []BytesInOrder
<1>1. Init => ConnInv /\ BodyInOrder
    BY InitInv, InitBody
<1>2. ConnInv /\ BodyInOrder /\ [Next]_vars => (ConnInv /\ BodyInOrder)'
    BY NextInv, NextBody
<1>3. ConnInv /\ BodyInOrder => BytesInOrder
    BY DEF ConnInv, DataOK, BytesInOrder
<1> QED
    BY <1>1, <1>2, <1>3, PTL DEF Spec
=============================================================================
