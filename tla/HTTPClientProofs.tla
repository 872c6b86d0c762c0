--------------------------- MODULE HTTPClientProofs ---------------------------
(***************************************************************************)
(* CallbacksOwned and CallsSettle of HTTPClient, for any number of calls   *)
(* and descriptors and any answers of the server.                          *)
(***************************************************************************)
EXTENDS HTTPClient, FiniteSetTheorems, SequenceTheorems, WellFoundedInduction, TLAPS

-----------------------------------------------------------------------------
(* Types *)

Owners == Calls \cup {"user"}
TaskType ==
  {"writable", "readable", "cancel"} \X {"connected", "write", "user"} \X Owners \X Fds
CallbackType == {NoCallback} \cup ({"connected", "write", "read", "user"} \X Owners)
LoopType ==
  [runq : Seq(TaskType), pipe : BOOLEAN, read : SUBSET Fds, write : SUBSET Fds,
   callbacks : [Fds -> CallbackType], num : Int]
RoundType ==
  [phase : {"select", "drain", "splice", "tasks", "fds"},
   read : SUBSET Fds, write : SUBSET Fds, tasks : Seq(TaskType)]
AnyResponse == Responses \cup {Usual}
AnyFd == Fds \cup {NoFD}
CallType ==
  [pc : {"start", "wakeup", "onsuccess", "onfailure", "wait", "runonce", "get", "done"},
   response : AnyResponse, pos : Nat,
   conn : {"none", "busy", "closed", "freed"}, fd : AnyFd,
   unsent : Nat, parser : {"header", "body", "done", "raised"}, body : Int, blocked : Nat,
   handler : {"none", "live", "deleted"}, promise : {"pending", "success", "failure"},
   onSuccess : BOOLEAN, onFailure : BOOLEAN, status : {"none", "ok", "error"},
   readies : Nat, connections : Int, requests : Int]

ClientType ==
  /\ mode \in {"pool", "sync"}
  /\ call \in [Calls -> CallType]
  /\ ev \in LoopType /\ round \in RoundType
  /\ threadid \in Calls /\ mutex \in Calls \cup {"free"}
  /\ owner \in [Fds -> Owners \cup {"free"}]
  /\ user \in {"register", "cancel", "cancelling", "cancelled", "done"}
  /\ crashed \in BOOLEAN

-----------------------------------------------------------------------------
(* The event loop *)

(* The tasks under way, in the order in which they will run *)
Pending == round.tasks \o ev.runq

RoundRight ==
  /\ round.phase # "tasks" => round.tasks = <<>>
  /\ round.phase = "tasks" => round.tasks # <<>>
  /\ round.phase = "fds" => Ready(round) # {}

(* A callback belongs to the socket that has the descriptor; a descriptor  *)
(* is waited for only with a callback.                                     *)
CallbacksRight ==
  \A f \in Fds :
    /\ ev.callbacks[f] # NoCallback =>
         /\ ev.callbacks[f][2] = owner[f]
         /\ ev.callbacks[f][1] = "user" <=> owner[f] = "user"
    /\ f \in ev.read \cup ev.write => ev.callbacks[f] # NoCallback

(* A task belongs to the socket that has the descriptor *)
TaskRight(t) ==
  /\ owner[t[4]] = t[3]
  /\ t[2] = "user" <=> t[3] = "user"
  /\ t[1] = "writable" <=> t[3] # "user"
  /\ t[3] # "user" => ev.callbacks[t[4]] = NoCallback
TasksRight == \A i \in 1..Len(Pending) : TaskRight(Pending[i])

(* A call has one task at most *)
OneTask ==
  \A i, j \in 1..Len(Pending) :
    Pending[i][3] = Pending[j][3] /\ Pending[i][3] # "user" => i = j

OwnersRight ==
  \A f \in Fds :
    /\ owner[f] = "user" => f = UserFD
    /\ owner[f] \in Calls => call[owner[f]].fd = f

UserRight ==
  /\ user # "done" => owner[UserFD] = "user" /\ mode = "pool"
  /\ user \in {"register", "cancelled", "done"} =>
       /\ owner[UserFD] = "user" => ev.callbacks[UserFD] = NoCallback
       /\ \A i \in 1..Len(Pending) : Pending[i][3] # "user"
  /\ \A i \in 1..Len(Pending) : Pending[i][1] = "cancel" =>
       /\ user = "cancelling"
       /\ \A j \in 1..Len(Pending) : Pending[j][3] = "user" => j <= i

(* HTTPClient's loop serves one connection, that of the mutex' holder *)
SyncRight ==
  mode = "sync" =>
    /\ \A f \in Fds : owner[f] \in Calls => mutex = owner[f]
    /\ \A c \in Calls : call[c].pc \in {"runonce", "get"} <=> mutex = c
    /\ round.read \subseteq ev.read /\ round.write \subseteq ev.write
    /\ \/ ev.read = {} /\ ev.write = {} /\ ev.num = 0
       \/ \E f \in Fds : ev.read = {f} /\ ev.write = {} /\ ev.num = 1
       \/ \E f \in Fds : ev.read = {} /\ ev.write = {f} /\ ev.num = 1

LoopInv ==
  /\ RoundRight /\ CallbacksRight /\ TasksRight /\ OneTask /\ OwnersRight
  /\ UserRight /\ SyncRight

-----------------------------------------------------------------------------
(* The calls *)

Owns(c) == \E f \in Fds : owner[f] = c

Unconnected(k) ==
  k.conn = "none" /\ k.handler = "none" /\ k.connections = 0 /\ k.requests = 0
Busy(k) ==
  /\ k.conn = "busy" /\ k.handler = "live"
  /\ k.connections = IF mode = "pool" THEN 1 ELSE 0
  /\ k.requests = IF mode = "pool" THEN 1 ELSE 0
Settled(k) ==
  /\ k.conn \in {"none", "freed"} /\ k.handler \in {"none", "deleted"}
  /\ k.connections = 0 /\ k.requests = 0

(* What the parser has seen of the response *)
ParserRight(k) ==
  /\ k.parser \in {"header", "body"} /\ k.pos <= k.response.sent
  /\ k.parser = "header" => k.pos < Heads
  /\ k.parser = "body" =>
       k.pos >= Heads /\ k.body = k.pos - Heads /\ k.response.expected \notin {0, k.body}
AnswerRight(k) ==
  Delimited(k.response) => Whole(k.response) /\ k.body = k.response.body

(* Where the thread of the call is, and how often its RPC became ready *)
HooksRight(k) ==
  /\ k.promise = "pending" => k.readies = 0 /\ k.status = "none"
  /\ k.status = "ok" => k.promise = "success"
  /\ k.pc = "start" => k.promise = "pending"
  /\ mode = "sync" =>
       /\ k.pc \in {"start", "runonce", "get", "done"}
       /\ k.readies = 0 /\ ~k.onSuccess /\ ~k.onFailure
       /\ k.pc # "done" => k.status = "none"
  /\ mode = "pool" =>
       /\ k.pc \in {"start", "wakeup", "onsuccess", "onfailure", "wait", "done"}
       /\ k.pc \in {"start", "wakeup", "onsuccess"} =>
            k.readies = 0 /\ ~k.onSuccess /\ ~k.onFailure /\ k.status = "none"
       /\ k.pc = "onfailure" =>
            /\ ~k.onFailure /\ (k.promise = "pending" => k.onSuccess)
            /\ k.promise # "success" => k.readies = 0
       /\ k.readies <= 1

(* The answer of a call, and the socket that it has while it is pending *)
CallRight(c) ==
  /\ HooksRight(call[c])
  /\ call[c].promise = "pending" => ParserRight(call[c])
  /\ call[c].promise = "success" => AnswerRight(call[c])
  /\ Owns(c) => call[c].promise = "pending" /\ call[c].pc \notin {"start", "done"}

(* A connection is made when the socket is connected, and is gone when the *)
(* promise is fulfilled.                                                   *)
ResourcesRight(c) ==
  /\ call[c].promise # "pending" => Settled(call[c])
  /\ call[c].pc \in {"start", "done"} /\ call[c].promise = "pending" => Unconnected(call[c])
  /\ \A f \in Fds :
       /\ ev.callbacks[f] = <<"connected", c>> => mode = "pool" /\ Unconnected(call[c])
       /\ ev.callbacks[f] \in {<<"write", c>>, <<"read", c>>} => Busy(call[c])
  /\ \A i \in 1..Len(Pending) : Pending[i][3] = c =>
       /\ Pending[i][2] = "connected" => mode = "pool" /\ Unconnected(call[c])
       /\ Pending[i][2] = "write" => Busy(call[c])

ClientInv ==
  /\ ClientType /\ LoopInv
  /\ \A c \in Calls : CallRight(c) /\ (~crashed => ResourcesRight(c))

-----------------------------------------------------------------------------
(* Sets of descriptors, and sequences of tasks *)

(* A set of naturals that is not empty has a least element.                *)
LEMMA LeastElement ==
  ASSUME NEW S, S # {}, S \subseteq Nat
  PROVE  \E m \in S : \A n \in S : m <= n
<1> DEFINE R == {p \in Nat \X Nat : p[1] < p[2]}
<1>1. IsWellFoundedOn(R, Nat)
  BY NatLessThanWellFounded, Zenon DEF OpToRel
<1> HIDE DEF R
<1>2. PICK m \in S : \A n \in S : ~(<<n, m>> \in R)
  BY <1>1, WFMin
<1>3. \A n \in S : ~(n < m)
  BY <1>2 DEF R
<1>4. QED
  BY <1>3

(* The descriptor of the server's connection is one.                       *)
LEMMA UserFDRight == UserFD \in Fds
BY LeastElement, FdsAssumption DEF UserFD

(* The descriptor that the loop serves next is one of those select() found.*)
LEMMA NextFDReady ==
  ASSUME NEW r \in RoundType, Ready(r) # {}
  PROVE  NextFD(r) \in Ready(r)
<1>1. Ready(r) \subseteq Nat
  BY FdsAssumption DEF RoundType, Ready
<1>2. \E m \in Ready(r) : \A n \in Ready(r) : m <= n
  BY <1>1, LeastElement
<1>3. QED
  BY <1>2 DEF NextFD

(* socket() returns a descriptor that is free.                             *)
LEMMA LowestFreeRight ==
  ASSUME Free # {}
  PROVE  LowestFree \in Fds /\ owner[LowestFree] = "free"
<1>1. Free \subseteq Nat
  BY FdsAssumption DEF Free
<1>2. \E m \in Free : \A n \in Free : m <= n
  BY <1>1, LeastElement
<1>3. LowestFree \in Free
  BY <1>2 DEF LowestFree
<1>4. QED
  BY <1>3 DEF Free

(* Passing() drops nothing that is still to be done.                       *)
LEMMA PassingRight ==
  ASSUME NEW r \in RoundType, r.tasks # <<>> => r.phase = "tasks"
  PROVE  /\ Passing(r) \in RoundType
         /\ Passing(r).tasks = r.tasks
         /\ Passing(r).read = r.read /\ Passing(r).write = r.write
         /\ Passing(r).phase = "tasks" <=> r.tasks # <<>>
         /\ Passing(r).phase = "fds" => Ready(r) # {}
<1>1. CASE r.tasks # <<>>
  <2>1. Passing(r) = r
    BY <1>1 DEF Passing
  <2>2. QED
    BY <1>1, <2>1
<1>2. CASE r.tasks = <<>> /\ Ready(r) # {}
  <2>1. Passing(r) = [r EXCEPT !.phase = "fds"]
    BY <1>2 DEF Passing
  <2>2. QED
    BY <1>2, <2>1 DEF RoundType
<1>3. CASE r.tasks = <<>> /\ Ready(r) = {}
  <2>1. Passing(r) = Polling
    BY <1>3 DEF Passing
  <2>2. r.read = {} /\ r.write = {}
    BY <1>3 DEF Ready
  <2>3. <<>> \in Seq(TaskType)
    OBVIOUS
  <2>4. QED
    BY <1>3, <2>1, <2>2, <2>3 DEF RoundType, Polling
<1>4. QED
  BY <1>1, <1>2, <1>3

-----------------------------------------------------------------------------
(* The operations of EventLoop, member by member *)

(* runOnReadable() waits for the descriptor with the callback.             *)
LEMMA RunOnReadableRight ==
  ASSUME NEW e \in LoopType, NEW cb \in CallbackType, NEW f \in Fds
  PROVE  /\ RunOnReadable(e, cb, f) \in LoopType
         /\ RunOnReadable(e, cb, f).runq = e.runq
         /\ RunOnReadable(e, cb, f).read = e.read \cup {f}
         /\ RunOnReadable(e, cb, f).write = e.write
         /\ RunOnReadable(e, cb, f).num = e.num + 1
         /\ RunOnReadable(e, cb, f).callbacks = [e.callbacks EXCEPT ![f] = cb]
<1>1. PICK m : m = [e.callbacks EXCEPT ![f] = cb]
  OBVIOUS
<1>2. m \in [Fds -> CallbackType]
  BY <1>1 DEF LoopType
<1>3. PICK n, fds : n = e.num + 1 /\ fds = e.read \cup {f}
  OBVIOUS
<1>4. n \in Int /\ fds \in SUBSET Fds
  BY <1>3 DEF LoopType
<1>5. RunOnReadable(e, cb, f) = [e EXCEPT !.read = fds, !.num = n, !.callbacks = m]
  BY <1>1, <1>3 DEF RunOnReadable, LoopType
<1>6. [e EXCEPT !.read = fds, !.num = n, !.callbacks = m] \in LoopType
  BY <1>2, <1>4 DEF LoopType
<1>7. QED
  BY <1>1, <1>3, <1>5, <1>6 DEF LoopType

(* runOnWritable() waits for the descriptor with the callback.             *)
LEMMA RunOnWritableRight ==
  ASSUME NEW e \in LoopType, NEW cb \in CallbackType, NEW f \in Fds
  PROVE  /\ RunOnWritable(e, cb, f) \in LoopType
         /\ RunOnWritable(e, cb, f).runq = e.runq
         /\ RunOnWritable(e, cb, f).read = e.read
         /\ RunOnWritable(e, cb, f).write = e.write \cup {f}
         /\ RunOnWritable(e, cb, f).num = e.num + 1
         /\ RunOnWritable(e, cb, f).callbacks = [e.callbacks EXCEPT ![f] = cb]
<1>1. PICK m : m = [e.callbacks EXCEPT ![f] = cb]
  OBVIOUS
<1>2. m \in [Fds -> CallbackType]
  BY <1>1 DEF LoopType
<1>3. PICK n, fds : n = e.num + 1 /\ fds = e.write \cup {f}
  OBVIOUS
<1>4. n \in Int /\ fds \in SUBSET Fds
  BY <1>3 DEF LoopType
<1>5. RunOnWritable(e, cb, f) = [e EXCEPT !.write = fds, !.num = n, !.callbacks = m]
  BY <1>1, <1>3 DEF RunOnWritable, LoopType
<1>6. [e EXCEPT !.write = fds, !.num = n, !.callbacks = m] \in LoopType
  BY <1>2, <1>4 DEF LoopType
<1>7. QED
  BY <1>1, <1>3, <1>5, <1>6 DEF LoopType

(* cancelFD() forgets the descriptor, its callback and its place in the sets. *)
LEMMA CancelFDRight ==
  ASSUME NEW e \in LoopType, NEW f \in Fds
  PROVE  /\ CancelFD(e, f) \in LoopType
         /\ CancelFD(e, f).runq = e.runq
         /\ CancelFD(e, f).read = e.read \ {f}
         /\ CancelFD(e, f).write = e.write \ {f}
         /\ f \notin e.read \cup e.write => CancelFD(e, f).num = e.num
         /\ CancelFD(e, f).callbacks = [e.callbacks EXCEPT ![f] = NoCallback]
<1>1. PICK m : m = [e.callbacks EXCEPT ![f] = NoCallback]
  OBVIOUS
<1>2. m \in [Fds -> CallbackType]
  BY <1>1 DEF LoopType, CallbackType
<1>3. PICK n : n = IF f \in e.read \cup e.write THEN e.num - 1 ELSE e.num
  OBVIOUS
<1>4. n \in Int /\ (f \notin e.read \cup e.write => n = e.num)
  BY <1>3 DEF LoopType
<1>5. CancelFD(e, f) =
        [e EXCEPT !.num = n, !.read = @ \ {f}, !.write = @ \ {f}, !.callbacks = m]
  BY <1>1, <1>3 DEF CancelFD, LoopType
<1>6. QED
  BY ZenonT(40), <1>1, <1>2, <1>4, <1>5 DEF LoopType

(* The loop stops to wait for a descriptor before it calls its callback.   *)
LEMMA FiredRight ==
  ASSUME NEW e \in LoopType, NEW r \in RoundType, NEW f, f = NextFD(r)
  PROVE  /\ Fired(e, r) \in LoopType
         /\ Fired(e, r).runq = e.runq /\ Fired(e, r).callbacks = e.callbacks
         /\ Fired(e, r).num = e.num - 1
         /\ f \in r.read => Fired(e, r).read = e.read \ {f} /\ Fired(e, r).write = e.write
         /\ f \notin r.read => Fired(e, r).read = e.read /\ Fired(e, r).write = e.write \ {f}
<1>1. CASE f \in r.read
  <2>1. Fired(e, r) = [e EXCEPT !.read = @ \ {f}, !.num = @ - 1]
    BY <1>1 DEF Fired
  <2>2. PICK n, fds : n = e.num - 1 /\ fds = e.read \ {f}
    OBVIOUS
  <2>3. n \in Int /\ fds \in SUBSET Fds
    BY <2>2 DEF LoopType
  <2>4. [e EXCEPT !.read = fds, !.num = n] \in LoopType
    BY <2>3 DEF LoopType
  <2>5. QED
    BY <1>1, <2>1, <2>2, <2>4 DEF LoopType
<1>2. CASE f \notin r.read
  <2>1. Fired(e, r) = [e EXCEPT !.write = @ \ {f}, !.num = @ - 1]
    BY <1>2 DEF Fired
  <2>2. PICK n, fds : n = e.num - 1 /\ fds = e.write \ {f}
    OBVIOUS
  <2>3. n \in Int /\ fds \in SUBSET Fds
    BY <2>2 DEF LoopType
  <2>4. [e EXCEPT !.write = fds, !.num = n] \in LoopType
    BY <2>3 DEF LoopType
  <2>5. QED
    BY <1>2, <2>1, <2>2, <2>4 DEF LoopType
<1>3. QED
  BY <1>1, <1>2

-----------------------------------------------------------------------------
(* What a step of one call leaves alone *)

(* A call keeps its invariant when a step is not about it: its socket, its *)
(* callback and its task are not new.                                      *)
LEMMA OtherCall ==
  ASSUME ClientInv, ~crashed, NEW d \in Calls,
         mode' = mode, call'[d] = call[d],
         \A f \in Fds : owner'[f] = d => owner[f] = d,
         \A f \in Fds : \A x \in {"connected", "write", "read"} :
           ev'.callbacks[f] = <<x, d>> => ev.callbacks[f] = <<x, d>>,
         \A i \in 1..Len(Pending') : Pending'[i][3] = d =>
           \E j \in 1..Len(Pending) : Pending[j] = Pending'[i]
  PROVE  CallRight(d)' /\ ResourcesRight(d)'
<1>1. CallRight(d) /\ ResourcesRight(d)
  BY DEF ClientInv
<1>2. CallRight(d)'
  BY <1>1 DEF CallRight, Owns, HooksRight, ParserRight, AnswerRight
<1>3. \A f \in Fds : ev'.callbacks[f] = <<"connected", d>> => mode = "pool" /\ Unconnected(call[d])
  BY <1>1 DEF ResourcesRight
<1>4. \A f \in Fds : ev'.callbacks[f] \in {<<"write", d>>, <<"read", d>>} => Busy(call[d])
  BY <1>1 DEF ResourcesRight
<1>5. \A i \in 1..Len(Pending') : Pending'[i][3] = d =>
       /\ Pending'[i][2] = "connected" => mode = "pool" /\ Unconnected(call[d])
       /\ Pending'[i][2] = "write" => Busy(call[d])
  BY <1>1 DEF ResourcesRight
<1>6. ResourcesRight(d)'
  BY <1>1, <1>3, <1>4, <1>5 DEF ResourcesRight, Settled, Unconnected, Busy
<1>7. QED
  BY <1>2, <1>6

(* The members of the loop stay as they are, but for the pipe.             *)
SameLoop ==
  /\ ev' \in LoopType
  /\ ev'.runq = ev.runq /\ ev'.callbacks = ev.callbacks
  /\ ev'.read = ev.read /\ ev'.write = ev.write /\ ev'.num = ev.num

(* A step that leaves the loop alone leaves every member of it alone.      *)
LEMMA UnchangedLoop ==
  ASSUME ClientInv, UNCHANGED ev
  PROVE  SameLoop
BY DEF ClientInv, ClientType, SameLoop

(* A step of the thread of a call that the loop does not notice.           *)
LEMMA ThreadStep ==
  ASSUME ClientInv, ~crashed, NEW c \in Calls, NEW k \in CallType,
         call' = [call EXCEPT ![c] = k], k.fd = call[c].fd,
         UNCHANGED <<mode, round, threadid, owner, user, crashed>>, SameLoop,
         mutex' \in Calls \cup {"free"},
         mode = "sync" =>
           /\ \A f \in Fds : owner[f] \in Calls => mutex' = owner[f]
           /\ \A d \in Calls : call'[d].pc \in {"runonce", "get"} <=> mutex' = d,
         HooksRight(k),
         k.promise = "pending" => ParserRight(k),
         k.promise = "success" => AnswerRight(k),
         Owns(c) => k.promise = "pending" /\ k.pc \notin {"start", "done"},
         k.promise # "pending" => Settled(k),
         k.pc \in {"start", "done"} /\ k.promise = "pending" => Unconnected(k),
         Owns(c) /\ Unconnected(call[c]) => Unconnected(k),
         Owns(c) /\ Busy(call[c]) => Busy(k)
  PROVE  ClientInv'
<1>1. ClientType /\ LoopInv /\ CallRight(c) /\ ResourcesRight(c)
  BY DEF ClientInv
<1>2. call'[c] = k /\ \A d \in Calls \ {c} : call'[d] = call[d]
  BY <1>1 DEF ClientType
<1>3. ClientType'
  BY <1>1 DEF ClientType, SameLoop
<1>4. Pending' = Pending
  BY DEF Pending, SameLoop
<1>5. RoundRight' /\ CallbacksRight' /\ TasksRight' /\ OneTask' /\ UserRight'
  BY <1>1, <1>4 DEF LoopInv, RoundRight, CallbacksRight, TasksRight, TaskRight, OneTask, UserRight, SameLoop
<1>6. OwnersRight'
  BY <1>1, <1>2 DEF LoopInv, OwnersRight
<1>7. SyncRight'
  BY <1>1 DEF LoopInv, SyncRight, SameLoop
<1>8. CallRight(c)'
  BY <1>2 DEF CallRight, Owns, HooksRight, ParserRight, AnswerRight
<1>9. ASSUME NEW f \in Fds, NEW x \in {"connected", "write", "read"}, ev.callbacks[f] = <<x, c>>
      PROVE  Owns(c)
  <2>1. ev.callbacks[f] # NoCallback /\ ev.callbacks[f][2] = c
    BY <1>9 DEF NoCallback
  <2>2. QED
    BY <1>1, <2>1 DEF LoopInv, CallbacksRight, Owns
<1>10. ASSUME NEW i \in 1..Len(Pending), Pending[i][3] = c
       PROVE  Owns(c)
  <2>1. Pending \in Seq(TaskType)
    BY <1>1, ConcatProperties DEF ClientType, LoopType, RoundType, Pending
  <2>2. Pending[i] \in TaskType
    BY <2>1
  <2>3. QED
    BY <1>1, <1>10, <2>2 DEF LoopInv, TasksRight, TaskRight, TaskType, Owns
<1>11. \A f \in Fds : ev.callbacks[f] = <<"connected", c>> => mode = "pool" /\ Unconnected(k)
  BY <1>1, <1>9 DEF ResourcesRight
<1>12. \A f \in Fds : ev.callbacks[f] \in {<<"write", c>>, <<"read", c>>} => Busy(k)
  BY <1>1, <1>9 DEF ResourcesRight
<1>13. \A i \in 1..Len(Pending) : Pending[i][3] = c =>
        /\ Pending[i][2] = "connected" => mode = "pool" /\ Unconnected(k)
        /\ Pending[i][2] = "write" => Busy(k)
  BY <1>1, <1>10 DEF ResourcesRight
<1>14. ResourcesRight(c)'
  BY <1>2, <1>4, <1>11, <1>12, <1>13 DEF ResourcesRight, Settled, Unconnected, Busy, SameLoop
<1>15. ASSUME NEW d \in Calls \ {c}
       PROVE  CallRight(d)' /\ ResourcesRight(d)'
  BY <1>2, <1>4, OtherCall DEF SameLoop
<1>16. QED
  BY <1>3, <1>5, <1>6, <1>7, <1>8, <1>14, <1>15 DEF ClientInv, LoopInv

-----------------------------------------------------------------------------
(* The threads of the calls *)

(* A call in its thread's first steps has no socket.                       *)
LEMMA StartOwnsNothing ==
  ASSUME ClientInv, NEW c \in Calls, call[c].pc = "start"
  PROVE  ~Owns(c) /\ call[c].promise = "pending"
BY DEF ClientInv, CallRight, HooksRight

(* executeHTTPRequest() fails before it connects.                          *)
LEMMA CallFailsStep ==
  ASSUME ClientInv, ~crashed, NEW c \in Calls, CallFails(c)
  PROVE  ClientInv'
<1>1. ClientType /\ LoopInv /\ CallRight(c) /\ ResourcesRight(c) /\ call[c] \in CallType
  BY DEF ClientInv, ClientType
<1>2. ~Owns(c) /\ call[c].promise = "pending" /\ mode = "pool" /\ call[c].pc = "start"
  BY StartOwnsNothing DEF CallFails
<1>3. ~call[c].onFailure /\ call[c].onSuccess \in BOOLEAN /\ call[c].onFailure \in BOOLEAN
  BY <1>1, <1>2 DEF CallRight, HooksRight, CallType
<1>4. PICK k : k = [call[c] EXCEPT !.promise = "failure", !.pc = "onsuccess"]
  OBVIOUS
<1>5. [PromiseFailure(call[c]) EXCEPT !.pc = "onsuccess"] = k
  BY <1>1, <1>3, <1>4 DEF PromiseFailure, CallType
<1>6. k \in CallType /\ k.fd = call[c].fd
  BY ZenonT(40), <1>1, <1>4 DEF CallType
<1>7. call' = [call EXCEPT ![c] = k]
  BY <1>5 DEF CallFails
<1>8. HooksRight(k)
  BY <1>1, <1>2, <1>4 DEF CallRight, HooksRight, CallType
<1>9. Settled(k) /\ k.promise = "failure"
  BY <1>1, <1>2, <1>4 DEF ResourcesRight, Unconnected, Settled, CallType
<1>10. UNCHANGED <<mode, ev, round, threadid, mutex, owner, user, crashed>>
  BY DEF CallFails
<1>11. QED
  BY <1>1, <1>2, <1>6, <1>7, <1>8, <1>9, <1>10, ThreadStep, UnchangedLoop DEF ClientType

(* Setting a callback keeps the type of a call.                            *)
LEMMA HookedType ==
  ASSUME NEW k \in CallType, NEW b \in BOOLEAN, NEW st \in {"none", "ok", "error"}, NEW n \in Nat
  PROVE  /\ [k EXCEPT !.pc = "onfailure", !.onSuccess = b, !.status = st, !.readies = n] \in CallType
         /\ [k EXCEPT !.pc = "wait", !.onFailure = b, !.status = st, !.readies = n] \in CallType
<1>1. [k EXCEPT !.pc = "onfailure", !.onSuccess = b, !.status = st, !.readies = n] \in CallType
  BY ZenonT(40) DEF CallType
<1>2. [k EXCEPT !.pc = "wait", !.onFailure = b, !.status = st, !.readies = n] \in CallType
  BY ZenonT(40) DEF CallType
<1>3. QED
  BY <1>1, <1>2

(* onSuccess() registers the RPC's callback, or runs it at once.           *)
LEMMA HookSuccessStep ==
  ASSUME ClientInv, ~crashed, NEW c \in Calls, HookSuccess(c)
  PROVE  ClientInv'
<1>1. ClientType /\ LoopInv /\ CallRight(c) /\ ResourcesRight(c) /\ call[c] \in CallType
  BY DEF ClientInv, ClientType
<1>2. call[c].pc = "onsuccess" /\ mode = "pool"
  BY <1>1 DEF HookSuccess, CallRight, HooksRight, ClientType
<1>3. /\ call[c].onSuccess \in BOOLEAN /\ call[c].onFailure \in BOOLEAN
     /\ call[c].status \in {"none", "ok", "error"} /\ call[c].readies \in Nat
     /\ call[c].readies + 1 \in Nat
     /\ call[c].promise \in {"pending", "success", "failure"}
  BY <1>1 DEF CallType
<1>4. PICK b \in BOOLEAN, st \in {"none", "ok", "error"}, n \in Nat :
        /\ call' = [call EXCEPT ![c] =
             [call[c] EXCEPT !.pc = "onfailure", !.onSuccess = b, !.status = st, !.readies = n]]
        /\ call[c].promise = "pending" => b /\ n = call[c].readies /\ st = call[c].status
        /\ call[c].promise = "success" => n = call[c].readies + 1
        /\ call[c].promise = "failure" => n = call[c].readies /\ st = call[c].status
  <2>1. CASE call[c].promise = "pending"
    <3>1. call' = [call EXCEPT ![c] = [call[c] EXCEPT !.pc = "onfailure", !.onSuccess = TRUE]]
      BY <1>1, <2>1 DEF HookSuccess, CallType
    <3>2. [call[c] EXCEPT !.pc = "onfailure", !.onSuccess = TRUE] =
          [call[c] EXCEPT !.pc = "onfailure", !.onSuccess = TRUE,
                          !.status = call[c].status, !.readies = call[c].readies]
      BY <1>1 DEF CallType
    <3>3. QED
      BY <1>3, <2>1, <3>1, <3>2
  <2>2. CASE call[c].promise = "success"
    <3>1. call' = [call EXCEPT ![c] = Answered([call[c] EXCEPT !.pc = "onfailure"])]
      BY <1>1, <2>2 DEF HookSuccess, CallType
    <3>2. PICK j : j = [call[c] EXCEPT !.pc = "onfailure"]
      OBVIOUS
    <3>3. PICK st \in {"ok", "error"} : Answered(j) = [j EXCEPT !.status = st, !.readies = @ + 1]
      BY DEF Answered, RPCReady
    <3>4. Answered(j) = [call[c] EXCEPT !.pc = "onfailure", !.onSuccess = call[c].onSuccess,
                                        !.status = st, !.readies = call[c].readies + 1]
      BY <1>1, <3>2, <3>3 DEF CallType
    <3>5. QED
      BY <1>3, <2>2, <3>1, <3>2, <3>4
  <2>3. CASE call[c].promise = "failure"
    <3>1. call' = [call EXCEPT ![c] = [call[c] EXCEPT !.pc = "onfailure"]]
      BY <1>1, <2>3 DEF HookSuccess, CallType
    <3>2. [call[c] EXCEPT !.pc = "onfailure"] =
          [call[c] EXCEPT !.pc = "onfailure", !.onSuccess = call[c].onSuccess,
                          !.status = call[c].status, !.readies = call[c].readies]
      BY <1>1 DEF CallType
    <3>3. QED
      BY <1>3, <2>3, <3>1, <3>2
  <2>4. QED
    BY <1>3, <2>1, <2>2, <2>3
<1>5. PICK k : k = [call[c] EXCEPT !.pc = "onfailure", !.onSuccess = b, !.status = st, !.readies = n]
  OBVIOUS
<1>6. call' = [call EXCEPT ![c] = k]
  BY <1>4, <1>5
<1>7. k \in CallType
  <2>1. st \in {"none", "ok", "error"} /\ n \in Nat /\ b \in BOOLEAN
    BY <1>4
  <2>2. QED
    BY <1>1, <1>5, <2>1, HookedType
<1>8. /\ k \in CallType /\ k.fd = call[c].fd /\ k.promise = call[c].promise /\ k.pc = "onfailure"
      /\ k.response = call[c].response /\ k.pos = call[c].pos /\ k.parser = call[c].parser
      /\ k.body = call[c].body
      /\ k.conn = call[c].conn /\ k.handler = call[c].handler
      /\ k.connections = call[c].connections /\ k.requests = call[c].requests
  BY <1>1, <1>7, <1>5 DEF CallType
<1>9. /\ call[c].readies = 0 /\ ~call[c].onFailure /\ call[c].status = "none"
      /\ k.onFailure = call[c].onFailure /\ k.onSuccess = b /\ k.status = st /\ k.readies = n
  BY <1>1, <1>2, <1>5 DEF CallRight, HooksRight, CallType
<1>10. HooksRight(k)
  <2>1. call[c].promise \in {"pending", "success", "failure"}
    BY <1>1 DEF CallType
  <2>2. k.status = "ok" => k.promise = "success"
    BY <1>4, <1>8, <1>9, <2>1
  <2>3. k.promise = "pending" => k.readies = 0 /\ k.status = "none" /\ k.onSuccess
    BY <1>4, <1>8, <1>9
  <2>4. k.readies <= 1 /\ (k.promise # "success" => k.readies = 0)
    BY <1>4, <1>8, <1>9, <2>1
  <2>5. QED
    BY <1>2, <1>8, <1>9, <2>2, <2>3, <2>4 DEF HooksRight
<1>11. UNCHANGED <<mode, ev, round, threadid, mutex, owner, user, crashed>>
  BY DEF HookSuccess
<1>12. /\ k.promise = "pending" => ParserRight(k)
       /\ k.promise = "success" => AnswerRight(k)
       /\ Owns(c) => k.promise = "pending"
  BY <1>1, <1>8 DEF CallRight, ParserRight, AnswerRight
<1>13. /\ k.promise # "pending" => Settled(k)
       /\ Unconnected(call[c]) => Unconnected(k)
       /\ Busy(call[c]) => Busy(k)
  BY <1>1, <1>8 DEF ResourcesRight, Settled, Unconnected, Busy
<1>14. QED
  BY <1>1, <1>2, <1>6, <1>8, <1>10, <1>11, <1>12, <1>13, ThreadStep, UnchangedLoop DEF ClientType

(* onFailure() registers the RPC's callback, or runs it at once.           *)
LEMMA HookFailureStep ==
  ASSUME ClientInv, ~crashed, NEW c \in Calls, HookFailure(c)
  PROVE  ClientInv'
<1>1. ClientType /\ LoopInv /\ CallRight(c) /\ ResourcesRight(c) /\ call[c] \in CallType
  BY DEF ClientInv, ClientType
<1>2. call[c].pc = "onfailure" /\ mode = "pool"
  BY <1>1 DEF HookFailure, CallRight, HooksRight, ClientType
<1>3. /\ call[c].onSuccess \in BOOLEAN /\ call[c].onFailure \in BOOLEAN
     /\ call[c].status \in {"none", "ok", "error"} /\ call[c].readies \in Nat
     /\ call[c].readies + 1 \in Nat
     /\ call[c].promise \in {"pending", "success", "failure"}
  BY <1>1 DEF CallType
<1>4. PICK b \in BOOLEAN, st \in {"none", "ok", "error"}, n \in Nat :
        /\ call' = [call EXCEPT ![c] =
             [call[c] EXCEPT !.pc = "wait", !.onFailure = b, !.status = st, !.readies = n]]
        /\ call[c].promise # "failure" => n = call[c].readies /\ st = call[c].status
        /\ call[c].promise = "failure" => n = call[c].readies + 1 /\ st = "error"
  <2>1. CASE call[c].promise = "pending"
    <3>1. call' = [call EXCEPT ![c] = [call[c] EXCEPT !.pc = "wait", !.onFailure = TRUE]]
      BY <1>1, <2>1 DEF HookFailure, CallType
    <3>2. [call[c] EXCEPT !.pc = "wait", !.onFailure = TRUE] =
          [call[c] EXCEPT !.pc = "wait", !.onFailure = TRUE,
                          !.status = call[c].status, !.readies = call[c].readies]
      BY <1>1 DEF CallType
    <3>3. QED
      BY <1>3, <2>1, <3>1, <3>2
  <2>2. CASE call[c].promise = "failure"
    <3>1. call' = [call EXCEPT ![c] = RPCReady([call[c] EXCEPT !.pc = "wait"], "error")]
      BY <1>1, <2>2 DEF HookFailure, CallType
    <3>2. RPCReady([call[c] EXCEPT !.pc = "wait"], "error") =
            [call[c] EXCEPT !.pc = "wait", !.onFailure = call[c].onFailure,
                            !.status = "error", !.readies = call[c].readies + 1]
      BY <1>1 DEF RPCReady, CallType
    <3>3. QED
      BY <1>3, <2>2, <3>1, <3>2
  <2>3. CASE call[c].promise = "success"
    <3>1. call' = [call EXCEPT ![c] = [call[c] EXCEPT !.pc = "wait"]]
      BY <1>1, <2>3 DEF HookFailure, CallType
    <3>2. [call[c] EXCEPT !.pc = "wait"] =
          [call[c] EXCEPT !.pc = "wait", !.onFailure = call[c].onFailure,
                          !.status = call[c].status, !.readies = call[c].readies]
      BY <1>1 DEF CallType
    <3>3. QED
      BY <1>3, <2>3, <3>1, <3>2
  <2>4. QED
    BY <1>3, <2>1, <2>2, <2>3
<1>5. PICK k : k = [call[c] EXCEPT !.pc = "wait", !.onFailure = b, !.status = st, !.readies = n]
  OBVIOUS
<1>6. call' = [call EXCEPT ![c] = k]
  BY <1>4, <1>5
<1>7. k \in CallType
  <2>1. st \in {"none", "ok", "error"} /\ n \in Nat /\ b \in BOOLEAN
    BY <1>4
  <2>2. QED
    BY <1>1, <1>5, <2>1, HookedType
<1>8. /\ k \in CallType /\ k.fd = call[c].fd /\ k.promise = call[c].promise /\ k.pc = "wait"
      /\ k.response = call[c].response /\ k.pos = call[c].pos /\ k.parser = call[c].parser
      /\ k.body = call[c].body
      /\ k.conn = call[c].conn /\ k.handler = call[c].handler
      /\ k.connections = call[c].connections /\ k.requests = call[c].requests
  BY <1>1, <1>7, <1>5 DEF CallType
<1>9. HooksRight(k)
  <2>1. k.status = st /\ k.readies = n
    BY <1>1, <1>5 DEF CallType
  <2>2. k.status = "ok" => k.promise = "success"
    BY <1>1, <1>4, <1>8, <2>1 DEF CallRight, HooksRight
  <2>3. k.promise = "pending" => k.readies = 0 /\ k.status = "none"
    BY <1>1, <1>4, <1>8, <2>1 DEF CallRight, HooksRight
  <2>4. k.readies <= 1
    BY <1>1, <1>2, <1>4, <1>8, <2>1 DEF CallRight, HooksRight
  <2>5. QED
    BY <1>2, <1>8, <2>2, <2>3, <2>4 DEF HooksRight
<1>10. UNCHANGED <<mode, ev, round, threadid, mutex, owner, user, crashed>>
  BY DEF HookFailure
<1>11. /\ k.promise = "pending" => ParserRight(k)
       /\ k.promise = "success" => AnswerRight(k)
       /\ Owns(c) => k.promise = "pending"
  BY <1>1, <1>8 DEF CallRight, ParserRight, AnswerRight
<1>12. /\ k.promise # "pending" => Settled(k)
       /\ Unconnected(call[c]) => Unconnected(k)
       /\ Busy(call[c]) => Busy(k)
  BY <1>1, <1>8 DEF ResourcesRight, Settled, Unconnected, Busy
<1>13. QED
  BY <1>1, <1>2, <1>6, <1>8, <1>9, <1>10, <1>11, <1>12, ThreadStep, UnchangedLoop DEF ClientType

(* The thread of the call waits until the RPC is ready.                    *)
LEMMA WaitRPCStep ==
  ASSUME ClientInv, ~crashed, NEW c \in Calls, WaitRPC(c)
  PROVE  ClientInv'
<1>1. ClientType /\ LoopInv /\ CallRight(c) /\ ResourcesRight(c) /\ call[c] \in CallType
  BY DEF ClientInv, ClientType
<1>2. mode = "pool" /\ call[c].promise # "pending" /\ ~Owns(c)
  BY <1>1 DEF WaitRPC, CallRight, HooksRight, CallType
<1>3. PICK k : k = [call[c] EXCEPT !.pc = "done"]
  OBVIOUS
<1>4. call' = [call EXCEPT ![c] = k]
  BY <1>1, <1>3 DEF WaitRPC, Goto
<1>5. /\ k \in CallType /\ k.fd = call[c].fd /\ k.promise = call[c].promise /\ k.pc = "done"
      /\ k.response = call[c].response /\ k.body = call[c].body
      /\ k.conn = call[c].conn /\ k.handler = call[c].handler
      /\ k.connections = call[c].connections /\ k.requests = call[c].requests
  BY <1>1, <1>3 DEF CallType
<1>6. HooksRight(k)
  BY <1>1, <1>2, <1>3, <1>5 DEF CallRight, HooksRight, CallType
<1>7. UNCHANGED <<mode, ev, round, threadid, mutex, owner, user, crashed>>
  BY DEF WaitRPC
<1>8. k.promise = "success" => AnswerRight(k)
  BY <1>1, <1>5 DEF CallRight, AnswerRight
<1>9. Settled(k)
  BY <1>1, <1>2, <1>5 DEF ResourcesRight, Settled
<1>10. QED
  BY <1>1, <1>2, <1>4, <1>5, <1>6, <1>7, <1>8, <1>9, ThreadStep, UnchangedLoop DEF ClientType

(* HTTPClient::executeRequest() fails before it connects.                  *)
LEMMA SyncFailsStep ==
  ASSUME ClientInv, ~crashed, NEW c \in Calls, SyncFails(c)
  PROVE  ClientInv'
<1>1. ClientType /\ LoopInv /\ CallRight(c) /\ ResourcesRight(c) /\ call[c] \in CallType
  BY DEF ClientInv, ClientType
<1>2. ~Owns(c) /\ call[c].promise = "pending" /\ mode = "sync" /\ call[c].pc = "start" /\ mutex = "free"
  BY StartOwnsNothing DEF SyncFails
<1>3. ~call[c].onFailure /\ call[c].conn = "none" /\ Unconnected(call[c])
  BY <1>1, <1>2 DEF CallRight, HooksRight, CallType, ResourcesRight, Unconnected
<1>4. PICK k : k = [call[c] EXCEPT !.promise = "failure", !.pc = "get", !.handler = "deleted"]
  OBVIOUS
<1>5. [OnError([call[c] EXCEPT !.handler = "live"]) EXCEPT !.pc = "get"] = k
  <2>1. PICK j : j = [call[c] EXCEPT !.handler = "live"]
    OBVIOUS
  <2>2. ~j.onFailure /\ j.conn = "none" /\ j \in CallType
    BY <1>1, <1>3, <2>1 DEF CallType
  <2>3. OnError(j) = [j EXCEPT !.promise = "failure", !.handler = "deleted"]
    BY <2>2 DEF OnError, DeleteThis, PromiseFailure, CallType
  <2>4. QED
    BY <1>1, <1>4, <2>1, <2>3 DEF CallType
<1>6. k \in CallType /\ k.fd = call[c].fd /\ k.pc = "get"
  BY ZenonT(40), <1>1, <1>4 DEF CallType
<1>7. call' = [call EXCEPT ![c] = k] /\ mutex' = c
  BY <1>5 DEF SyncFails
<1>8. HooksRight(k)
  BY <1>1, <1>2, <1>4 DEF CallRight, HooksRight, CallType
<1>9. Settled(k) /\ k.promise = "failure"
  BY <1>1, <1>3, <1>4 DEF Unconnected, Settled, CallType
<1>10. UNCHANGED <<mode, ev, round, threadid, owner, user, crashed>>
  BY DEF SyncFails
<1>11. \A d \in Calls : d # "free"
  BY CallsAssumption
<1>12. \A f \in Fds : owner[f] \notin Calls
  BY <1>1, <1>2, <1>11 DEF LoopInv, SyncRight
<1>13. \A d \in Calls : call'[d].pc \in {"runonce", "get"} <=> mutex' = d
  <2>1. \A d \in Calls : ~(call[d].pc \in {"runonce", "get"})
    BY <1>1, <1>2, <1>11 DEF LoopInv, SyncRight
  <2>2. call'[c] = k /\ \A d \in Calls \ {c} : call'[d] = call[d]
    BY <1>1, <1>7 DEF ClientType
  <2>3. QED
    BY <1>6, <1>7, <2>1, <2>2
<1>14. QED
  BY <1>1, <1>2, <1>6, <1>7, <1>8, <1>9, <1>10, <1>12, <1>13, ThreadStep, UnchangedLoop DEF ClientType

(* runOnce() of the caller's own loop returns when nothing is waited for.  *)
LEMMA RunOnceReturnsStep ==
  ASSUME ClientInv, ~crashed, NEW c \in Calls, RunOnceReturns(c)
  PROVE  ClientInv'
<1>1. ClientType /\ LoopInv /\ CallRight(c) /\ ResourcesRight(c) /\ call[c] \in CallType
  BY DEF ClientInv, ClientType
<1>2. mode = "sync" /\ call[c].pc = "runonce"
  BY DEF RunOnceReturns
<1>3. PICK k : k = [call[c] EXCEPT !.pc = "get"]
  OBVIOUS
<1>4. call' = [call EXCEPT ![c] = k]
  BY <1>1, <1>3 DEF RunOnceReturns, Goto
<1>5. /\ k \in CallType /\ k.fd = call[c].fd /\ k.promise = call[c].promise /\ k.pc = "get"
      /\ k.response = call[c].response /\ k.pos = call[c].pos /\ k.parser = call[c].parser
      /\ k.body = call[c].body
      /\ k.conn = call[c].conn /\ k.handler = call[c].handler
      /\ k.connections = call[c].connections /\ k.requests = call[c].requests
  BY <1>1, <1>3 DEF CallType
<1>6. HooksRight(k)
  BY <1>1, <1>2, <1>3, <1>5 DEF CallRight, HooksRight, CallType
<1>7. UNCHANGED <<mode, ev, round, threadid, mutex, owner, user, crashed>>
  BY DEF RunOnceReturns
<1>8. /\ k.promise = "pending" => ParserRight(k)
      /\ k.promise = "success" => AnswerRight(k)
      /\ Owns(c) => k.promise = "pending"
  BY <1>1, <1>5 DEF CallRight, ParserRight, AnswerRight
<1>9. /\ k.promise # "pending" => Settled(k)
      /\ Unconnected(call[c]) => Unconnected(k)
      /\ Busy(call[c]) => Busy(k)
  BY <1>1, <1>5 DEF ResourcesRight, Settled, Unconnected, Busy
<1>10. /\ \A f \in Fds : owner[f] \in Calls => mutex' = owner[f]
       /\ \A d \in Calls : call'[d].pc \in {"runonce", "get"} <=> mutex' = d
  <2>1. call'[c] = k /\ \A d \in Calls \ {c} : call'[d] = call[d]
    BY <1>1, <1>4 DEF ClientType
  <2>2. QED
    BY <1>1, <1>2, <1>5, <1>7, <2>1 DEF LoopInv, SyncRight
<1>11. QED
  BY <1>1, <1>2, <1>4, <1>5, <1>6, <1>7, <1>8, <1>9, <1>10, ThreadStep, UnchangedLoop DEF ClientType

(* The caller of HTTPClient takes the answer and lets the next one in.     *)
LEMMA WaitAndGetStep ==
  ASSUME ClientInv, ~crashed, NEW c \in Calls, WaitAndGet(c)
  PROVE  ClientInv'
<1>1. ClientType /\ LoopInv /\ CallRight(c) /\ ResourcesRight(c) /\ call[c] \in CallType
  BY DEF ClientInv, ClientType
<1>2. mode = "sync" /\ call[c].pc = "get" /\ call[c].promise # "pending" /\ ~Owns(c)
  BY <1>1 DEF WaitAndGet, CallRight, HooksRight, ClientType
<1>3. PICK st : st = IF call[c].status = "none" /\ call[c].promise = "success" THEN "ok" ELSE "error"
  OBVIOUS
<1>4. PICK k : k = [call[c] EXCEPT !.pc = "done", !.status = st]
  OBVIOUS
<1>5. st \in {"ok", "error"}
  BY <1>3
<1>6. call' = [call EXCEPT ![c] = k] /\ mutex' = "free"
  BY <1>1, <1>3, <1>4 DEF WaitAndGet, ClientType, CallType
<1>7. /\ k \in CallType /\ k.fd = call[c].fd /\ k.promise = call[c].promise /\ k.pc = "done"
      /\ k.status = st
      /\ k.response = call[c].response /\ k.body = call[c].body
      /\ k.conn = call[c].conn /\ k.handler = call[c].handler
      /\ k.connections = call[c].connections /\ k.requests = call[c].requests
  BY ZenonT(40), <1>1, <1>5, <1>4 DEF CallType
<1>8. HooksRight(k)
  BY <1>1, <1>2, <1>3, <1>4, <1>7 DEF CallRight, HooksRight, CallType
<1>9. UNCHANGED <<mode, ev, round, threadid, owner, user, crashed>>
  BY DEF WaitAndGet
<1>10. k.promise = "success" => AnswerRight(k)
  BY <1>1, <1>7 DEF CallRight, AnswerRight
<1>11. Settled(k)
  BY <1>1, <1>2, <1>7 DEF ResourcesRight, Settled
<1>12. /\ \A f \in Fds : owner[f] \in Calls => mutex' = owner[f]
       /\ \A d \in Calls : call'[d].pc \in {"runonce", "get"} <=> mutex' = d
  <2>1. call'[c] = k /\ \A d \in Calls \ {c} : call'[d] = call[d]
    BY <1>1, <1>6 DEF ClientType
  <2>2. mutex = c
    BY <1>1, <1>2 DEF LoopInv, SyncRight
  <2>3. \A f \in Fds : owner[f] \notin Calls
    BY <1>1, <1>2, <2>2 DEF LoopInv, SyncRight, Owns
  <2>4. \A d \in Calls : call[d].pc \in {"runonce", "get"} => d = c
    BY <1>1, <1>2, <2>2 DEF LoopInv, SyncRight
  <2>5. \A d \in Calls : d # "free"
    BY CallsAssumption
  <2>6. QED
    BY <1>6, <1>7, <2>1, <2>3, <2>4, <2>5
<1>13. QED
  BY <1>1, <1>2, <1>6, <1>7, <1>8, <1>9, <1>10, <1>11, <1>12, ThreadStep, UnchangedLoop DEF ClientType

(* The thread wakes up the loop after it queued its task.                  *)
LEMMA WakeupStep ==
  ASSUME ClientInv, ~crashed, NEW c \in Calls, Wakeup(c)
  PROVE  ClientInv'
<1>1. ClientType /\ LoopInv /\ CallRight(c) /\ ResourcesRight(c) /\ call[c] \in CallType
  BY DEF ClientInv, ClientType
<1>2. mode = "pool" /\ call[c].pc = "wakeup"
  BY <1>1 DEF Wakeup, CallRight, HooksRight, ClientType
<1>3. PICK k : k = [call[c] EXCEPT !.pc = "onsuccess"]
  OBVIOUS
<1>4. call' = [call EXCEPT ![c] = k]
  BY <1>1, <1>3 DEF Wakeup, Goto
<1>5. /\ k \in CallType /\ k.fd = call[c].fd /\ k.promise = call[c].promise /\ k.pc = "onsuccess"
      /\ k.response = call[c].response /\ k.pos = call[c].pos /\ k.parser = call[c].parser
      /\ k.body = call[c].body
      /\ k.conn = call[c].conn /\ k.handler = call[c].handler
      /\ k.connections = call[c].connections /\ k.requests = call[c].requests
  BY <1>1, <1>3 DEF CallType
<1>6. HooksRight(k)
  BY <1>1, <1>2, <1>3, <1>5 DEF CallRight, HooksRight, CallType
<1>7. UNCHANGED <<mode, round, threadid, mutex, owner, user, crashed>>
  BY DEF Wakeup
<1>8. /\ k.promise = "pending" => ParserRight(k)
      /\ k.promise = "success" => AnswerRight(k)
      /\ Owns(c) => k.promise = "pending"
  BY <1>1, <1>5 DEF CallRight, ParserRight, AnswerRight
<1>9. /\ k.promise # "pending" => Settled(k)
      /\ Unconnected(call[c]) => Unconnected(k)
      /\ Busy(call[c]) => Busy(k)
  BY <1>1, <1>5 DEF ResourcesRight, Settled, Unconnected, Busy
<1>10. SameLoop
  BY <1>1 DEF Wakeup, WakeupPipe, SameLoop, ClientType, LoopType
<1>11. QED
  BY <1>1, <1>2, <1>4, <1>5, <1>6, <1>7, <1>8, <1>9, <1>10, ThreadStep DEF ClientType

-----------------------------------------------------------------------------
(* The loop *)

(* The tasks under way are tasks.                                          *)
LEMMA PendingType ==
  ASSUME ClientType
  PROVE  /\ Pending \in Seq(TaskType)
         /\ Len(Pending) = Len(round.tasks) + Len(ev.runq)
         /\ \A i \in 1..Len(Pending) : Pending[i] \in TaskType
<1>1. round.tasks \in Seq(TaskType) /\ ev.runq \in Seq(TaskType)
  BY DEF ClientType, LoopType, RoundType
<1>2. Pending \in Seq(TaskType) /\ Len(Pending) = Len(round.tasks) + Len(ev.runq)
  BY <1>1, ConcatProperties DEF Pending
<1>3. \A i \in 1..Len(Pending) : Pending[i] \in TaskType
  BY <1>2, ElementOfSeq
<1>4. QED
  BY <1>2, <1>3

(* A step of the loop that changes neither tasks nor callbacks.            *)
LEMMA QuietStep ==
  ASSUME ClientInv, ~crashed,
         UNCHANGED <<mode, call, threadid, mutex, owner, user, crashed>>,
         ev' \in LoopType, round' \in RoundType,
         ev'.callbacks = ev.callbacks, ev'.read = ev.read, ev'.write = ev.write, ev'.num = ev.num,
         Pending' = Pending, RoundRight',
         mode = "sync" => round'.read \subseteq ev.read /\ round'.write \subseteq ev.write
  PROVE  ClientInv'
<1>1. ClientType /\ LoopInv
  BY DEF ClientInv
<1>2. ClientType'
  BY <1>1 DEF ClientType
<1>3. CallbacksRight' /\ TasksRight' /\ OneTask' /\ UserRight'
  BY <1>1 DEF LoopInv, CallbacksRight, TasksRight, TaskRight, OneTask, UserRight
<1>4. OwnersRight'
  BY <1>1 DEF LoopInv, OwnersRight
<1>5. SyncRight'
  BY <1>1 DEF LoopInv, SyncRight
<1>6. \A d \in Calls : CallRight(d)' /\ ResourcesRight(d)'
  BY <1>1, OtherCall
<1>7. QED
  BY <1>2, <1>3, <1>4, <1>5, <1>6 DEF ClientInv, LoopInv

(* select() finds some of the descriptors ready.                           *)
LEMMA PollStep ==
  ASSUME ClientInv, ~crashed, Poll
  PROVE  ClientInv'
<1>1. ClientType /\ LoopInv /\ ev \in LoopType /\ round.phase = "select" /\ round.tasks = <<>>
  BY DEF ClientInv, ClientType, LoopInv, RoundRight, Poll
<1>2. PICK r \in SUBSET ev.read, w \in SUBSET ev.write :
        (ev.pipe \/ r \cup w # {}) /\ round' = Select(ev, r, w)
  BY DEF Poll
<1>3. PICK ph \in {"drain", "fds"} :
        /\ round' = [phase |-> ph, read |-> r, write |-> w, tasks |-> <<>>]
        /\ ph = "fds" => r \cup w # {}
  BY <1>2 DEF Select, Polling
<1>4. r \in SUBSET Fds /\ w \in SUBSET Fds
  BY <1>1, <1>2 DEF LoopType
<1>5. <<>> \in Seq(TaskType)
  OBVIOUS
<1>6. round' \in RoundType
  BY <1>3, <1>4, <1>5 DEF RoundType
<1>7. RoundRight'
  BY <1>3 DEF RoundRight, Ready
<1>8. UNCHANGED <<mode, call, ev, threadid, mutex, owner, user, crashed>>
  BY DEF Poll
<1>9. Pending' = Pending
  BY <1>1, <1>3, <1>8 DEF Pending
<1>10. QED
  BY <1>1, <1>2, <1>3, <1>6, <1>7, <1>8, <1>9, QuietStep

(* The loop empties the wakeup pipe.                                       *)
LEMMA OnRunQWakeupStep ==
  ASSUME ClientInv, ~crashed, OnRunQWakeup
  PROVE  ClientInv'
<1>1. ClientType /\ LoopInv /\ ev \in LoopType /\ round \in RoundType /\ round.tasks = <<>>
  BY DEF ClientInv, ClientType, LoopInv, RoundRight, OnRunQWakeup
<1>2. /\ ev' = [ev EXCEPT !.pipe = FALSE] /\ round' = [round EXCEPT !.phase = "splice"]
      /\ UNCHANGED <<mode, call, threadid, mutex, owner, user, crashed>>
  BY DEF OnRunQWakeup, DrainPipe
<1>3. /\ ev' \in LoopType /\ ev'.runq = ev.runq
      /\ ev'.callbacks = ev.callbacks /\ ev'.read = ev.read /\ ev'.write = ev.write /\ ev'.num = ev.num
  BY <1>1, <1>2 DEF LoopType
<1>4. /\ round' \in RoundType /\ round'.phase = "splice" /\ round'.tasks = round.tasks
      /\ round'.read = round.read /\ round'.write = round.write
  BY <1>1, <1>2 DEF RoundType
<1>5. Pending' = Pending
  BY <1>3, <1>4 DEF Pending
<1>6. RoundRight'
  BY <1>1, <1>4 DEF RoundRight
<1>7. QED
  BY <1>1, <1>2, <1>3, <1>4, <1>5, <1>6, QuietStep DEF LoopInv, SyncRight

(* The loop takes the tasks of the queue.                                  *)
LEMMA TakeTasksStep ==
  ASSUME ClientInv, ~crashed, TakeTasks
  PROVE  ClientInv'
<1>1. ClientType /\ LoopInv /\ ev \in LoopType /\ round \in RoundType /\ round.tasks = <<>>
  BY DEF ClientInv, ClientType, LoopInv, RoundRight, TakeTasks
<1>2. PICK r : r = [round EXCEPT !.phase = "tasks", !.tasks = ev.runq]
  OBVIOUS
<1>3. /\ ev' = [ev EXCEPT !.runq = <<>>] /\ round' = Passing(r)
      /\ UNCHANGED <<mode, call, threadid, mutex, owner, user, crashed>>
  BY <1>2 DEF TakeTasks, Splice
<1>4. /\ r \in RoundType /\ r.phase = "tasks" /\ r.tasks = ev.runq
      /\ r.read = round.read /\ r.write = round.write
  BY <1>1, <1>2 DEF RoundType, LoopType
<1>5. <<>> \in Seq(TaskType) /\ ev.runq \in Seq(TaskType)
  BY <1>1 DEF LoopType
<1>6. /\ ev' \in LoopType /\ ev'.runq = <<>>
      /\ ev'.callbacks = ev.callbacks /\ ev'.read = ev.read /\ ev'.write = ev.write /\ ev'.num = ev.num
  BY <1>1, <1>3, <1>5 DEF LoopType
<1>7. /\ round' \in RoundType /\ round'.tasks = ev.runq
      /\ round'.read = round.read /\ round'.write = round.write
      /\ round'.phase = "tasks" <=> ev.runq # <<>>
      /\ round'.phase = "fds" => Ready(r) # {}
  BY <1>3, <1>4, PassingRight
<1>8. Pending' = Pending
  BY <1>1, <1>5, <1>6, <1>7, ConcatEmptySeq DEF Pending
<1>9. RoundRight'
  BY <1>4, <1>7 DEF RoundRight, Ready
<1>10. QED
  BY <1>1, <1>3, <1>6, <1>7, <1>8, <1>9, QuietStep DEF LoopInv, SyncRight

-----------------------------------------------------------------------------
(* New tasks *)

(* A task that is queued comes after those under way.                      *)
LEMMA PendingAppended ==
  ASSUME ClientType, NEW t \in TaskType,
         round'.tasks = round.tasks, ev'.runq = Append(ev.runq, t)
  PROVE  /\ Len(Pending) \in Nat /\ Len(Pending') = Len(Pending) + 1
         /\ \A i \in 1..Len(Pending) : Pending'[i] = Pending[i]
         /\ Pending'[Len(Pending) + 1] = t
         /\ \A i \in 1..Len(Pending') : i \in 1..Len(Pending) \/ i = Len(Pending) + 1
<1>1. round.tasks \in Seq(TaskType) /\ ev.runq \in Seq(TaskType)
  BY DEF ClientType, LoopType, RoundType
<1>2. PICK a, b : a = round.tasks /\ b = ev.runq
  OBVIOUS
<1>3. a \in Seq(TaskType) /\ b \in Seq(TaskType) /\ Append(b, t) \in Seq(TaskType)
  BY <1>1, <1>2
<1>4. Pending = a \o b /\ Pending' = a \o Append(b, t)
  BY <1>2 DEF Pending
<1>5. /\ Len(a) \in Nat /\ Len(b) \in Nat
      /\ Len(a \o b) = Len(a) + Len(b) /\ Len(a \o Append(b, t)) = Len(a) + Len(b) + 1
  BY <1>3, ConcatProperties, AppendProperties
<1>6. \A i \in 1..(Len(a) + Len(b)) : (a \o Append(b, t))[i] = (a \o b)[i]
  BY <1>3, <1>5, ConcatProperties, AppendProperties
<1>7. (a \o Append(b, t))[Len(a) + Len(b) + 1] = t
  BY <1>3, <1>5, ConcatProperties, AppendProperties
<1>8. QED
  BY <1>4, <1>5, <1>6, <1>7

(* A callback is not NoCallback, and the owner of a descriptor with one is *)
(* its own.                                                                *)
LEMMA RegisteredOwner ==
  ASSUME ClientInv, NEW f \in Fds, ev.callbacks[f] # NoCallback
  PROVE  owner[f] \in Owners /\ owner[f] # "free"
<1>1. ClientType /\ CallbacksRight
  BY DEF ClientInv, LoopInv
<1>2. ev.callbacks[f] \in CallbackType
  BY <1>1 DEF ClientType, LoopType
<1>3. ev.callbacks[f][2] \in Owners
  BY <1>2 DEF CallbackType
<1>4. "free" \notin Owners
  BY CallsAssumption DEF Owners
<1>5. QED
  BY <1>1, <1>3, <1>4 DEF CallbacksRight

(* A free descriptor is neither registered nor named by a task.            *)
LEMMA FreeUnused ==
  ASSUME ClientInv, NEW g \in Fds, owner[g] = "free"
  PROVE  /\ ev.callbacks[g] = NoCallback /\ g \notin ev.read /\ g \notin ev.write
         /\ \A i \in 1..Len(Pending) : Pending[i][4] # g
<1>1. ClientType /\ CallbacksRight /\ TasksRight
  BY DEF ClientInv, LoopInv
<1>2. ev.callbacks[g] = NoCallback
  BY RegisteredOwner
<1>3. g \notin ev.read /\ g \notin ev.write
  BY <1>1, <1>2 DEF CallbacksRight
<1>4. "free" \notin Owners
  BY CallsAssumption DEF Owners
<1>5. \A i \in 1..Len(Pending) : Pending[i][3] \in Owners /\ owner[Pending[i][4]] = Pending[i][3]
  BY <1>1, PendingType DEF TaskType, TasksRight, TaskRight
<1>6. QED
  BY <1>2, <1>3, <1>4, <1>5

(* A call without a socket has neither a callback nor a task.              *)
LEMMA OwnsNothing ==
  ASSUME ClientInv, NEW c \in Calls, ~Owns(c)
  PROVE  /\ \A f \in Fds : \A x : ev.callbacks[f] # <<x, c>>
         /\ \A i \in 1..Len(Pending) : Pending[i][3] # c
<1>1. ClientType /\ CallbacksRight /\ TasksRight
  BY DEF ClientInv, LoopInv
<1>2. ASSUME NEW f \in Fds, NEW x, ev.callbacks[f] = <<x, c>>
      PROVE  FALSE
  <2>1. ev.callbacks[f] # NoCallback /\ ev.callbacks[f][2] = c
    BY <1>2 DEF NoCallback
  <2>2. QED
    BY <1>1, <2>1 DEF CallbacksRight, Owns
<1>3. \A i \in 1..Len(Pending) : Pending[i][4] \in Fds /\ owner[Pending[i][4]] = Pending[i][3]
  BY <1>1, PendingType DEF TaskType, TasksRight, TaskRight
<1>4. QED
  BY <1>2, <1>3 DEF Owns

(* A socket is made, and the loop is told to wait until it can be written. *)
LEMMA SocketQueued ==
  ASSUME ClientInv, ~crashed, NEW c \in Calls, NEW g \in Fds, NEW k \in CallType, NEW t \in TaskType,
         ~Owns(c), owner[g] = "free",
         t[1] = "writable" /\ t[2] \in {"connected", "write"} /\ t[3] = c /\ t[4] = g,
         call' = [call EXCEPT ![c] = k], owner' = [owner EXCEPT ![g] = c],
         ev' \in LoopType, ev'.runq = Append(ev.runq, t), ev'.callbacks = ev.callbacks,
         ev'.read = ev.read, ev'.write = ev.write,
         UNCHANGED <<mode, round, user, crashed>>,
         mutex' \in Calls \cup {"free"}, threadid' \in Calls, SyncRight',
         k.fd = g, k.promise = "pending", k.pc \notin {"start", "done"},
         HooksRight(k), ParserRight(k),
         t[2] = "connected" => mode = "pool" /\ Unconnected(k),
         t[2] = "write" => Busy(k)
  PROVE  ClientInv'
<1>1. /\ ClientType /\ LoopInv
      /\ owner \in [Fds -> Owners \cup {"free"}] /\ ev \in LoopType
  BY DEF ClientInv, ClientType
<1>2. call'[c] = k /\ \A d \in Calls \ {c} : call'[d] = call[d]
  BY <1>1 DEF ClientType
<1>3. owner'[g] = c /\ \A f \in Fds \ {g} : owner'[f] = owner[f]
  BY <1>1
<1>4. PICK n : n = Len(Pending)
  OBVIOUS
<1>5. /\ n \in Nat /\ Len(Pending') = n + 1 /\ Pending'[n + 1] = t
      /\ \A i \in 1..n : Pending'[i] = Pending[i]
      /\ \A i \in 1..Len(Pending') : i \in 1..n \/ i = n + 1
  BY <1>1, <1>4, PendingAppended
<1>6. /\ ev.callbacks[g] = NoCallback /\ g \notin ev.read /\ g \notin ev.write
      /\ \A i \in 1..n : Pending[i][4] # g
  BY <1>4, FreeUnused
<1>7. /\ \A f \in Fds : \A x : ev.callbacks[f] # <<x, c>>
      /\ \A i \in 1..n : Pending[i][3] # c
  BY <1>4, OwnsNothing
<1>8. \A i \in 1..n : Pending[i] \in TaskType /\ Pending[i][4] \in Fds
  BY <1>1, <1>4, PendingType DEF TaskType
<1>9. c # "user" /\ c # "free"
  BY CallsAssumption
<1>10. ClientType'
  <2>1. owner' \in [Fds -> Owners \cup {"free"}]
    BY <1>1 DEF Owners
  <2>2. call' \in [Calls -> CallType]
    BY <1>1 DEF ClientType
  <2>3. QED
    BY <1>1, <2>1, <2>2 DEF ClientType
<1>11. RoundRight'
  BY <1>1 DEF LoopInv, RoundRight
<1>12. CallbacksRight'
  BY <1>1, <1>3, <1>6 DEF LoopInv, CallbacksRight
<1>13. TasksRight'
  <2>1. \A i \in 1..n : TaskRight(Pending[i])'
    BY <1>1, <1>3, <1>4, <1>5, <1>6, <1>8 DEF LoopInv, TasksRight, TaskRight
  <2>2. TaskRight(Pending[n + 1])'
    BY <1>3, <1>5, <1>6, <1>9 DEF TaskRight
  <2>3. QED
    BY <1>5, <2>1, <2>2 DEF TasksRight
<1>14. OneTask'
  <2>1. \A i, j \in 1..n : Pending'[i][3] = Pending'[j][3] /\ Pending'[i][3] # "user" => i = j
    BY <1>1, <1>4, <1>5 DEF LoopInv, OneTask
  <2>2. \A i \in 1..n : Pending'[i][3] # Pending'[n + 1][3]
    BY <1>5, <1>7
  <2>3. QED
    BY <1>5, <2>1, <2>2 DEF OneTask
<1>15. OwnersRight'
  <2>1. \A f \in Fds \ {g} : owner[f] # c
    BY DEF Owns
  <2>2. QED
    BY <1>1, <1>2, <1>3, <1>9, <2>1 DEF LoopInv, OwnersRight
<1>16. UserRight'
  <2>1. user # "done" => UserFD # g
    BY <1>1 DEF LoopInv, UserRight
  <2>2. UserFD \in Fds
    BY UserFDRight
  <2>3. user' # "done" => owner'[UserFD] = "user" /\ mode' = "pool"
    BY <1>1, <1>3, <2>1, <2>2 DEF LoopInv, UserRight
  <2>4. user' \in {"register", "cancelled", "done"} =>
          /\ owner'[UserFD] = "user" => ev'.callbacks[UserFD] = NoCallback
          /\ \A i \in 1..Len(Pending') : Pending'[i][3] # "user"
    BY <1>1, <1>3, <1>4, <1>5, <1>6, <1>9, <2>2 DEF LoopInv, UserRight
  <2>5. \A i \in 1..Len(Pending') : Pending'[i][1] = "cancel" =>
          /\ user' = "cancelling"
          /\ \A j \in 1..Len(Pending') : Pending'[j][3] = "user" => j <= i
    BY <1>1, <1>4, <1>5, <1>9 DEF LoopInv, UserRight
  <2>6. QED
    BY <2>3, <2>4, <2>5 DEF UserRight
<1>17. CallRight(c)'
  BY <1>2 DEF CallRight, HooksRight, ParserRight
<1>18. ResourcesRight(c)'
  <2>1. \A i \in 1..Len(Pending') : Pending'[i][3] = c => Pending'[i][2] = t[2]
    BY <1>5, <1>7
  <2>2. QED
    BY <1>2, <1>7, <2>1 DEF ResourcesRight, Unconnected, Busy
<1>19. ASSUME NEW d \in Calls \ {c}
       PROVE  CallRight(d)' /\ ResourcesRight(d)'
  <2>1. \A f \in Fds : owner'[f] = d => owner[f] = d
    BY <1>3
  <2>2. \A i \in 1..Len(Pending') : Pending'[i][3] = d => \E j \in 1..Len(Pending) : Pending[j] = Pending'[i]
    BY <1>4, <1>5
  <2>3. QED
    BY <1>2, <2>1, <2>2, OtherCall
<1>20. QED
  BY <1>10, <1>11, <1>12, <1>13, <1>14, <1>15, <1>16, <1>17, <1>18, <1>19 DEF ClientInv, LoopInv

(* HTTPClientConnection's socket is made, and its first task is queued.    *)
LEMMA ConnectAsyncStep ==
  ASSUME ClientInv, ~crashed, NEW c \in Calls, ConnectAsync(c)
  PROVE  ClientInv'
<1>1. /\ ClientType /\ LoopInv /\ CallRight(c) /\ ResourcesRight(c) /\ call[c] \in CallType
      /\ owner \in [Fds -> Owners \cup {"free"}] /\ ev \in LoopType
  BY DEF ClientInv, ClientType
<1>2. ~Owns(c) /\ call[c].promise = "pending" /\ mode = "pool" /\ call[c].pc = "start"
  BY StartOwnsNothing DEF ConnectAsync
<1>3. PICK g : g = LowestFree
  OBVIOUS
<1>4. g \in Fds /\ owner[g] = "free"
  BY <1>3, LowestFreeRight DEF ConnectAsync
<1>5. PICK t : t = <<"writable", "connected", c, g>>
  OBVIOUS
<1>6. t \in TaskType /\ t[1] = "writable" /\ t[2] = "connected" /\ t[3] = c /\ t[4] = g
  BY <1>4, <1>5 DEF TaskType, Owners
<1>7. PICK k : k = [call[c] EXCEPT !.fd = g, !.pc = "wakeup"]
  OBVIOUS
<1>8. /\ call' = [call EXCEPT ![c] = k] /\ owner' = [owner EXCEPT ![g] = c]
      /\ ev' = [ev EXCEPT !.runq = Append(@, t)]
      /\ UNCHANGED <<mode, round, threadid, mutex, user, crashed>>
  BY <1>1, <1>3, <1>5, <1>7 DEF ConnectAsync, AppendToRunQ, ClientType, CallType
<1>9. /\ k \in CallType /\ k.fd = g /\ k.promise = "pending" /\ k.pc = "wakeup"
      /\ k.response = call[c].response /\ k.pos = call[c].pos /\ k.parser = call[c].parser
      /\ k.body = call[c].body
      /\ k.conn = call[c].conn /\ k.handler = call[c].handler
      /\ k.connections = call[c].connections /\ k.requests = call[c].requests
  <2>1. g \in AnyFd
    BY <1>4 DEF AnyFd
  <2>2. QED
    BY <1>1, <1>2, <1>7, <2>1 DEF CallType
<1>10. /\ ev' \in LoopType /\ ev'.runq = Append(ev.runq, t) /\ ev'.callbacks = ev.callbacks
       /\ ev'.read = ev.read /\ ev'.write = ev.write
  <2>1. Append(ev.runq, t) \in Seq(TaskType)
    BY <1>1, <1>6, AppendProperties DEF LoopType
  <2>2. QED
    BY <1>1, <1>8, <2>1 DEF LoopType
<1>11. HooksRight(k)
  BY <1>1, <1>2, <1>7, <1>9 DEF CallRight, HooksRight, CallType
<1>12. ParserRight(k)
  BY <1>1, <1>2, <1>9 DEF CallRight, ParserRight
<1>13. Unconnected(k)
  BY <1>1, <1>2, <1>9 DEF ResourcesRight, Unconnected
<1>14. SyncRight'
  BY <1>2, <1>8 DEF SyncRight
<1>15. QED
  BY <1>1, <1>2, <1>4, <1>6, <1>8, <1>9, <1>10, <1>11, <1>12, <1>13, <1>14, SocketQueued DEF ClientType

(* The loop of HTTPClient serves the call that holds the mutex.            *)
LEMMA SyncServes ==
  ASSUME ClientInv, mode = "sync"
  PROVE  /\ \A f \in Fds : ev.callbacks[f] # NoCallback => owner[f] \in Calls /\ mutex = owner[f]
         /\ \A f \in ev.read \cup ev.write : owner[f] \in Calls /\ mutex = owner[f]
         /\ \A f \in Fds : owner[f] \in Calls => mutex = owner[f]
         /\ \A i \in 1..Len(Pending) : Pending[i][3] \in Calls /\ mutex = Pending[i][3]
<1>1. ClientType /\ LoopInv
  BY DEF ClientInv
<1>2. user = "done" /\ UserFD \in Fds
  BY <1>1, UserFDRight DEF LoopInv, UserRight
<1>3. \A f \in Fds : ev.callbacks[f] # NoCallback => owner[f] # "user"
  BY <1>1, <1>2 DEF LoopInv, UserRight, OwnersRight
<1>4. \A f \in Fds : owner[f] \in Calls => mutex = owner[f]
  BY <1>1 DEF LoopInv, SyncRight
<1>5. \A f \in Fds : ev.callbacks[f] # NoCallback => owner[f] \in Calls
  BY <1>3, RegisteredOwner DEF Owners
<1>6. \A f \in ev.read \cup ev.write : f \in Fds /\ ev.callbacks[f] # NoCallback
  BY <1>1 DEF LoopInv, CallbacksRight, ClientType, LoopType
<1>7. \A i \in 1..Len(Pending) :
        /\ Pending[i][3] \in Owners /\ Pending[i][3] # "user"
        /\ Pending[i][4] \in Fds /\ owner[Pending[i][4]] = Pending[i][3]
  BY <1>1, <1>2, PendingType DEF LoopInv, UserRight, TaskType, TasksRight, TaskRight
<1>8. QED
  BY <1>4, <1>5, <1>6, <1>7 DEF Owners

(* When nobody holds the mutex, the loop has nothing to wait for.          *)
LEMMA SyncIdle ==
  ASSUME ClientInv, mode = "sync", mutex = "free"
  PROVE  /\ ev.read = {} /\ ev.write = {} /\ ev.num = 0
         /\ \A f \in Fds : owner[f] \notin Calls
<1>1. \A d \in Calls : d # "free"
  BY CallsAssumption
<1>2. ev.read = {} /\ ev.write = {}
  BY <1>1, SyncServes
<1>3. SyncRight
  BY DEF ClientInv, LoopInv
<1>4. QED
  BY <1>1, <1>2, <1>3, SyncServes DEF SyncRight

(* The same socket, when the loop is the caller's own: it waits at once.   *)
LEMMA SocketRegistered ==
  ASSUME ClientInv, ~crashed, NEW c \in Calls, NEW g \in Fds, NEW k \in CallType,
         ~Owns(c), owner[g] = "free",
         call' = [call EXCEPT ![c] = k], owner' = [owner EXCEPT ![g] = c],
         ev' \in LoopType, ev'.runq = ev.runq,
         ev'.callbacks = [ev.callbacks EXCEPT ![g] = <<"write", c>>],
         ev'.read = ev.read, ev'.write = ev.write \cup {g},
         UNCHANGED <<mode, round, user, crashed>>,
         mutex' \in Calls \cup {"free"}, threadid' \in Calls, SyncRight',
         k.fd = g, k.promise = "pending", k.pc \notin {"start", "done"},
         HooksRight(k), ParserRight(k), Busy(k)
  PROVE  ClientInv'
<1>1. /\ ClientType /\ LoopInv
      /\ owner \in [Fds -> Owners \cup {"free"}] /\ ev.callbacks \in [Fds -> CallbackType]
  BY DEF ClientInv, ClientType, LoopType
<1>2. call'[c] = k /\ \A d \in Calls \ {c} : call'[d] = call[d]
  BY <1>1 DEF ClientType
<1>3. owner'[g] = c /\ \A f \in Fds \ {g} : owner'[f] = owner[f]
  BY <1>1
<1>4. ev'.callbacks[g] = <<"write", c>> /\ \A f \in Fds \ {g} : ev'.callbacks[f] = ev.callbacks[f]
  BY <1>1
<1>5. Pending' = Pending
  BY DEF Pending
<1>6. /\ ev.callbacks[g] = NoCallback /\ g \notin ev.read /\ g \notin ev.write
      /\ \A i \in 1..Len(Pending) : Pending[i][4] # g
  BY FreeUnused
<1>7. /\ \A f \in Fds : \A x : ev.callbacks[f] # <<x, c>>
      /\ \A i \in 1..Len(Pending) : Pending[i][3] # c
  BY OwnsNothing
<1>8. \A i \in 1..Len(Pending) : Pending[i] \in TaskType /\ Pending[i][4] \in Fds
  BY <1>1, PendingType DEF TaskType
<1>9. c # "user" /\ c # "free"
  BY CallsAssumption
<1>10. <<"write", c>> # NoCallback /\ <<"write", c>>[1] = "write" /\ <<"write", c>>[2] = c
  BY DEF NoCallback
<1>11. ClientType'
  <2>1. owner' \in [Fds -> Owners \cup {"free"}]
    BY <1>1 DEF Owners
  <2>2. call' \in [Calls -> CallType]
    BY <1>1 DEF ClientType
  <2>3. QED
    BY <1>1, <2>1, <2>2 DEF ClientType
<1>12. RoundRight'
  BY <1>1 DEF LoopInv, RoundRight
<1>13. CallbacksRight'
  BY <1>1, <1>3, <1>4, <1>6, <1>9, <1>10 DEF LoopInv, CallbacksRight
<1>14. TasksRight'
  BY <1>1, <1>3, <1>4, <1>5, <1>6, <1>8 DEF LoopInv, TasksRight, TaskRight
<1>15. OneTask'
  BY <1>1, <1>5 DEF LoopInv, OneTask
<1>16. OwnersRight'
  <2>1. \A f \in Fds \ {g} : owner[f] # c
    BY DEF Owns
  <2>2. QED
    BY <1>1, <1>2, <1>3, <1>9, <2>1 DEF LoopInv, OwnersRight
<1>17. UserRight'
  <2>1. user # "done" => UserFD # g
    BY <1>1 DEF LoopInv, UserRight
  <2>2. UserFD \in Fds
    BY UserFDRight
  <2>3. QED
    BY <1>1, <1>3, <1>4, <1>5, <1>9, <2>1, <2>2 DEF LoopInv, UserRight
<1>18. CallRight(c)'
  BY <1>2 DEF CallRight, HooksRight, ParserRight
<1>19. ResourcesRight(c)'
  <2>1. \A f \in Fds : ev'.callbacks[f] # <<"connected", c>>
    BY <1>4, <1>7
  <2>2. QED
    BY <1>2, <1>5, <1>7, <2>1 DEF ResourcesRight, Busy
<1>20. ASSUME NEW d \in Calls \ {c}
       PROVE  CallRight(d)' /\ ResourcesRight(d)'
  <2>1. \A f \in Fds : owner'[f] = d => owner[f] = d
    BY <1>3
  <2>2. \A f \in Fds : \A x \in {"connected", "write", "read"} :
          ev'.callbacks[f] = <<x, d>> => ev.callbacks[f] = <<x, d>>
    BY <1>4
  <2>3. QED
    BY <1>2, <1>5, <2>1, <2>2, OtherCall
<1>21. QED
  BY <1>11, <1>12, <1>13, <1>14, <1>15, <1>16, <1>17, <1>18, <1>19, <1>20 DEF ClientInv, LoopInv

(* The socket of HTTPClient's connection is made under the mutex.          *)
LEMMA SyncConnectsStep ==
  ASSUME ClientInv, ~crashed, NEW c \in Calls, SyncConnects(c)
  PROVE  ClientInv'
<1>1. /\ ClientType /\ LoopInv /\ CallRight(c) /\ ResourcesRight(c) /\ call[c] \in CallType
      /\ ev \in LoopType /\ owner \in [Fds -> Owners \cup {"free"}]
  BY DEF ClientInv, ClientType
<1>2. /\ ~Owns(c) /\ call[c].promise = "pending" /\ call[c].pc = "start"
      /\ mode = "sync" /\ mutex = "free"
  BY StartOwnsNothing DEF SyncConnects
<1>3. PICK g : g = LowestFree
  OBVIOUS
<1>4. g \in Fds /\ owner[g] = "free" /\ g \in AnyFd
  BY <1>3, LowestFreeRight DEF SyncConnects, AnyFd
<1>5. Unconnected(call[c])
  BY <1>1, <1>2 DEF ResourcesRight
<1>6. PICK k : k = [call[c] EXCEPT !.conn = "busy", !.handler = "live", !.fd = g, !.pc = "runonce"]
  OBVIOUS
<1>7. [ExecuteRequest(call[c]) EXCEPT !.fd = g, !.pc = "runonce"] = k
  BY <1>1, <1>2, <1>6 DEF ExecuteRequest, CallType
<1>8. /\ call' = [call EXCEPT ![c] = k] /\ owner' = [owner EXCEPT ![g] = c]
      /\ mutex' = c /\ threadid' = c
      /\ UNCHANGED <<mode, round, user, crashed>>
  BY <1>3, <1>7 DEF SyncConnects
<1>9. /\ k \in CallType /\ k.fd = g /\ k.promise = "pending" /\ k.pc = "runonce"
      /\ k.response = call[c].response /\ k.pos = call[c].pos /\ k.parser = call[c].parser
      /\ k.body = call[c].body
      /\ k.conn = "busy" /\ k.handler = "live"
      /\ k.connections = call[c].connections /\ k.requests = call[c].requests
  BY <1>1, <1>2, <1>4, <1>6 DEF CallType
<1>10. HooksRight(k)
  BY <1>1, <1>2, <1>6, <1>9 DEF CallRight, HooksRight, CallType
<1>11. ParserRight(k)
  BY <1>1, <1>2, <1>9 DEF CallRight, ParserRight
<1>12. Busy(k)
  BY <1>2, <1>5, <1>9 DEF Unconnected, Busy
<1>13. ev.read = {} /\ ev.write = {} /\ ev.num = 0 /\ \A f \in Fds : owner[f] \notin Calls
  BY <1>2, SyncIdle
<1>14. /\ \A f \in Fds : owner'[f] \in Calls => mutex' = owner'[f]
       /\ \A d \in Calls : call'[d].pc \in {"runonce", "get"} <=> mutex' = d
       /\ round'.read = {} /\ round'.write = {}
  <2>1. \A d \in Calls : d # "free"
    BY CallsAssumption
  <2>2. \A d \in Calls : ~(call[d].pc \in {"runonce", "get"})
    BY <1>1, <1>2, <2>1 DEF LoopInv, SyncRight
  <2>3. call'[c] = k /\ \A d \in Calls \ {c} : call'[d] = call[d]
    BY <1>1, <1>8 DEF ClientType
  <2>4. owner'[g] = c /\ \A f \in Fds \ {g} : owner'[f] = owner[f]
    BY <1>1, <1>4, <1>8
  <2>5. round.read = {} /\ round.write = {}
    BY <1>1, <1>2, <1>13 DEF LoopInv, SyncRight
  <2>6. QED
    BY <1>8, <1>9, <1>13, <2>2, <2>3, <2>4, <2>5
<1>15. CASE threadid = c
  <2>1. PICK cb : cb = <<"write", c>>
    OBVIOUS
  <2>2. cb \in CallbackType
    BY <2>1 DEF CallbackType, Owners
  <2>3. ev' = RunOnWritable(ev, cb, g)
    BY <1>3, <1>15, <2>1 DEF SyncConnects
  <2>4. ev \in LoopType /\ g \in Fds
    BY <1>1, <1>4
  <2>5. /\ ev' \in LoopType /\ ev'.runq = ev.runq
        /\ ev'.callbacks = [ev.callbacks EXCEPT ![g] = <<"write", c>>]
        /\ ev'.read = ev.read /\ ev'.write = ev.write \cup {g} /\ ev'.num = ev.num + 1
    <3>1. ev' \in LoopType /\ ev'.callbacks = [ev.callbacks EXCEPT ![g] = cb]
      BY ONLY <2>2, <2>3, <2>4, RunOnWritableRight
    <3>2. /\ ev'.runq = ev.runq /\ ev'.read = ev.read
          /\ ev'.write = ev.write \cup {g} /\ ev'.num = ev.num + 1
      BY ONLY ZenonT(40), <2>2, <2>3, <2>4, RunOnWritableRight
    <3>3. QED
      BY <2>1, <3>1, <3>2
  <2>6. SyncRight'
    BY <1>4, <1>8, <1>13, <1>14, <2>5 DEF SyncRight
  <2>7. QED
    BY <1>2, <1>4, <1>8, <1>9, <1>10, <1>11, <1>12, <2>5, <2>6, SocketRegistered
<1>16. CASE threadid # c
  <2>1. PICK t : t = <<"writable", "write", c, g>>
    OBVIOUS
  <2>2. ev' = WakeupPipe(AppendToRunQ(ev, t))
    BY <1>3, <1>16, <2>1 DEF SyncConnects
  <2>3. t \in TaskType /\ t[1] = "writable" /\ t[2] = "write" /\ t[3] = c /\ t[4] = g
    BY <1>4, <2>1 DEF TaskType, Owners
  <2>4. Append(ev.runq, t) \in Seq(TaskType)
    BY <1>1, <2>3, AppendProperties DEF LoopType
  <2>5. /\ ev' \in LoopType /\ ev'.runq = Append(ev.runq, t) /\ ev'.callbacks = ev.callbacks
        /\ ev'.read = ev.read /\ ev'.write = ev.write /\ ev'.num = ev.num
    BY <1>1, <2>2, <2>4 DEF WakeupPipe, AppendToRunQ, LoopType
  <2>6. SyncRight'
    BY <1>8, <1>13, <1>14, <2>5 DEF SyncRight
  <2>7. QED
    BY <1>2, <1>4, <1>8, <1>9, <1>10, <1>11, <1>12, <2>3, <2>5, <2>6, SocketQueued
<1>17. QED
  BY <1>15, <1>16

-----------------------------------------------------------------------------
(* The thread of the server's connection *)

(* It queues a task for its descriptor.                                    *)
LEMMA UserQueues ==
  ASSUME ClientInv, ~crashed, NEW t \in TaskType,
         t[1] \in {"readable", "cancel"} /\ t[2] = "user" /\ t[3] = "user" /\ t[4] = UserFD,
         ev' = WakeupPipe(AppendToRunQ(ev, t)),
         UNCHANGED <<mode, call, round, threadid, mutex, owner, crashed>>,
         \/ user = "register" /\ user' = "cancel" /\ t[1] = "readable"
         \/ user = "cancel" /\ user' = "cancelling" /\ t[1] = "cancel"
  PROVE  ClientInv'
<1>1. ClientType /\ LoopInv /\ ev \in LoopType
  BY DEF ClientInv, ClientType
<1>2. Append(ev.runq, t) \in Seq(TaskType)
  BY <1>1, AppendProperties DEF LoopType
<1>3. /\ ev' \in LoopType /\ ev'.runq = Append(ev.runq, t) /\ ev'.callbacks = ev.callbacks
      /\ ev'.read = ev.read /\ ev'.write = ev.write /\ ev'.num = ev.num
  BY <1>1, <1>2 DEF WakeupPipe, AppendToRunQ, LoopType
<1>4. PICK n : n = Len(Pending)
  OBVIOUS
<1>5. /\ n \in Nat /\ Len(Pending') = n + 1 /\ Pending'[n + 1] = t
      /\ \A i \in 1..n : Pending'[i] = Pending[i]
      /\ \A i \in 1..Len(Pending') : i \in 1..n \/ i = n + 1
  BY <1>1, <1>3, <1>4, PendingAppended
<1>6. owner[UserFD] = "user" /\ mode = "pool" /\ UserFD \in Fds
  BY <1>1, UserFDRight DEF LoopInv, UserRight
<1>7. ClientType'
  BY <1>1, <1>3 DEF ClientType
<1>8. RoundRight' /\ CallbacksRight' /\ OwnersRight'
  BY <1>1, <1>3 DEF LoopInv, RoundRight, CallbacksRight, OwnersRight
<1>9. TasksRight'
  <2>1. \A i \in 1..n : TaskRight(Pending[i])'
    BY <1>1, <1>3, <1>4, <1>5 DEF LoopInv, TasksRight, TaskRight
  <2>2. TaskRight(Pending[n + 1])'
    BY <1>5, <1>6 DEF TaskRight
  <2>3. QED
    BY <1>5, <2>1, <2>2 DEF TasksRight
<1>10. OneTask'
  <2>1. \A i, j \in 1..n : Pending'[i][3] = Pending'[j][3] /\ Pending'[i][3] # "user" => i = j
    BY <1>1, <1>4, <1>5 DEF LoopInv, OneTask
  <2>2. QED
    BY <1>5, <2>1 DEF OneTask
<1>11. UserRight'
  <2>1. \A i \in 1..n : Pending'[i][1] # "cancel"
    BY <1>1, <1>4, <1>5 DEF LoopInv, UserRight
  <2>2. \A i \in 1..Len(Pending') : Pending'[i][1] = "cancel" =>
          /\ user' = "cancelling"
          /\ \A j \in 1..Len(Pending') : Pending'[j][3] = "user" => j <= i
    BY <1>5, <2>1
  <2>3. QED
    BY <1>6, <2>2 DEF UserRight
<1>12. SyncRight'
  BY <1>6 DEF SyncRight
<1>13. ASSUME NEW d \in Calls
       PROVE  CallRight(d)' /\ ResourcesRight(d)'
  <2>1. d # "user"
    BY CallsAssumption
  <2>2. \A i \in 1..Len(Pending') : Pending'[i][3] = d => \E j \in 1..Len(Pending) : Pending[j] = Pending'[i]
    BY <1>4, <1>5, <2>1
  <2>3. QED
    BY <1>3, <2>2, OtherCall
<1>14. QED
  BY <1>7, <1>8, <1>9, <1>10, <1>11, <1>12, <1>13 DEF ClientInv, LoopInv

(* The server's connection asks to be told when it can be read.            *)
LEMMA UserRegisterStep ==
  ASSUME ClientInv, ~crashed, UserRegister
  PROVE  ClientInv'
<1>1. PICK t : t = <<"readable", "user", "user", UserFD>>
  OBVIOUS
<1>2. t \in TaskType /\ t[1] = "readable" /\ t[2] = "user" /\ t[3] = "user" /\ t[4] = UserFD
  BY <1>1, UserFDRight DEF TaskType, Owners
<1>3. QED
  BY <1>1, <1>2, UserQueues DEF UserRegister

(* The server's connection asks to be forgotten.                           *)
LEMMA UserCancelStep ==
  ASSUME ClientInv, ~crashed, UserCancel
  PROVE  ClientInv'
<1>1. PICK t : t = <<"cancel", "user", "user", UserFD>>
  OBVIOUS
<1>2. t \in TaskType /\ t[1] = "cancel" /\ t[2] = "user" /\ t[3] = "user" /\ t[4] = UserFD
  BY <1>1, UserFDRight DEF TaskType, Owners
<1>3. QED
  BY <1>1, <1>2, UserQueues DEF UserCancel

(* The server's connection closes its socket once it is forgotten.         *)
LEMMA UserCloseStep ==
  ASSUME ClientInv, ~crashed, UserClose
  PROVE  ClientInv'
<1>1. ClientType /\ LoopInv /\ owner \in [Fds -> Owners \cup {"free"}]
  BY DEF ClientInv, ClientType
<1>2. /\ user = "cancelled" /\ user' = "done" /\ owner' = [owner EXCEPT ![UserFD] = "free"]
      /\ UNCHANGED <<mode, call, ev, round, threadid, mutex, crashed>>
  BY DEF UserClose
<1>3. UserFD \in Fds /\ owner[UserFD] = "user" /\ mode = "pool"
  BY <1>1, <1>2, UserFDRight DEF LoopInv, UserRight
<1>4. ev.callbacks[UserFD] = NoCallback /\ \A i \in 1..Len(Pending) : Pending[i][3] # "user"
  BY <1>1, <1>2, <1>3 DEF LoopInv, UserRight
<1>5. owner'[UserFD] = "free" /\ \A f \in Fds \ {UserFD} : owner'[f] = owner[f]
  BY <1>1, <1>2, <1>3
<1>6. Pending' = Pending
  BY <1>2 DEF Pending
<1>7. \A i \in 1..Len(Pending) : Pending[i][4] \in Fds /\ Pending[i][4] # UserFD
  BY ZenonT(40), <1>1, <1>3, <1>4, PendingType DEF LoopInv, TaskType, TasksRight, TaskRight
<1>8. ClientType'
  BY <1>1, <1>2, <1>3 DEF ClientType
<1>9. RoundRight' /\ OneTask'
  BY <1>1, <1>2, <1>6 DEF LoopInv, RoundRight, OneTask
<1>10. CallbacksRight'
  BY <1>1, <1>2, <1>4, <1>5 DEF LoopInv, CallbacksRight
<1>11. TasksRight'
  BY <1>1, <1>2, <1>5, <1>6, <1>7 DEF LoopInv, TasksRight, TaskRight
<1>12. OwnersRight'
  <2>1. "free" \notin Calls
    BY CallsAssumption
  <2>2. QED
    BY <1>1, <1>2, <1>5, <2>1 DEF LoopInv, OwnersRight
<1>13. UserRight'
  BY <1>1, <1>2, <1>4, <1>5, <1>6 DEF LoopInv, UserRight
<1>14. SyncRight'
  BY <1>2, <1>3 DEF SyncRight
<1>15. ASSUME NEW d \in Calls
       PROVE  CallRight(d)' /\ ResourcesRight(d)'
  <2>1. d # "free"
    BY CallsAssumption
  <2>2. \A f \in Fds : owner'[f] = d => owner[f] = d
    BY <1>5, <2>1
  <2>3. QED
    BY <1>2, <1>6, <2>2, OtherCall
<1>16. QED
  BY <1>8, <1>9, <1>10, <1>11, <1>12, <1>13, <1>14, <1>15 DEF ClientInv, LoopInv

-----------------------------------------------------------------------------
(* The tasks *)

(* The task that runs is the first of those under way.                     *)
LEMMA PendingTaken ==
  ASSUME ClientType, round.tasks # <<>>,
         round'.tasks = Tail(round.tasks), ev'.runq = ev.runq
  PROVE  /\ Pending[1] = Head(round.tasks) /\ Len(Pending) \in Nat /\ Len(Pending) >= 1
         /\ Len(Pending') = Len(Pending) - 1
         /\ \A i \in 1..Len(Pending') : i + 1 \in 1..Len(Pending) /\ Pending'[i] = Pending[i + 1]
<1>1. round.tasks \in Seq(TaskType) /\ ev.runq \in Seq(TaskType)
  BY DEF ClientType, LoopType, RoundType
<1>2. PICK a, b : a = round.tasks /\ b = ev.runq
  OBVIOUS
<1>3. a \in Seq(TaskType) /\ b \in Seq(TaskType) /\ a # <<>>
  BY <1>1, <1>2
<1>4. Pending = a \o b /\ Pending' = Tail(a) \o b
  BY <1>2 DEF Pending
<1>5. /\ Tail(a) \in Seq(TaskType) /\ Len(Tail(a)) = Len(a) - 1 /\ Len(a) >= 1
      /\ Len(a) \in Nat /\ Len(b) \in Nat /\ Head(a) = a[1]
      /\ \A i \in 1..Len(Tail(a)) : Tail(a)[i] = a[i + 1]
  BY <1>3, HeadTailProperties
<1>6. Len(a \o b) = Len(a) + Len(b) /\ Len(Tail(a) \o b) = Len(a) - 1 + Len(b)
  BY <1>3, <1>5, ConcatProperties
<1>7. (a \o b)[1] = Head(a)
  BY <1>3, <1>5, ConcatProperties
<1>8. \A i \in 1..(Len(a) - 1 + Len(b)) : (Tail(a) \o b)[i] = (a \o b)[i + 1]
  <2>1. \A i \in 1..(Len(a) - 1 + Len(b)) :
          (Tail(a) \o b)[i] = IF i <= Len(a) - 1 THEN Tail(a)[i] ELSE b[i - (Len(a) - 1)]
    BY <1>3, <1>5, ConcatProperties
  <2>2. \A i \in 1..(Len(a) + Len(b)) : (a \o b)[i] = IF i <= Len(a) THEN a[i] ELSE b[i - Len(a)]
    BY <1>3, ConcatProperties
  <2>3. SUFFICES ASSUME NEW i \in 1..(Len(a) - 1 + Len(b))
                 PROVE  (Tail(a) \o b)[i] = (a \o b)[i + 1]
    OBVIOUS
  <2>4. i + 1 \in 1..(Len(a) + Len(b)) /\ (i + 1) - Len(a) = i - (Len(a) - 1)
    BY <1>5
  <2>5. QED
    BY <1>5, <2>1, <2>2, <2>4
<1>9. PICK u, v : u = a \o b /\ v = Tail(a) \o b
  OBVIOUS
<1>10. /\ u[1] = Head(a) /\ Len(u) \in Nat /\ Len(u) >= 1 /\ Len(v) = Len(u) - 1
       /\ \A i \in 1..Len(v) : i + 1 \in 1..Len(u) /\ v[i] = u[i + 1]
  BY <1>5, <1>6, <1>7, <1>8, <1>9
<1>11. QED
  BY <1>2, <1>4, <1>9, <1>10

(* The loop runs the first of its tasks.                                   *)
LEMMA RunTaskStep ==
  ASSUME ClientInv, ~crashed, RunTask
  PROVE  ClientInv'
<1>1. /\ ClientType /\ LoopInv /\ ev \in LoopType /\ round \in RoundType
      /\ round.phase = "tasks" /\ round.tasks # <<>>
  BY DEF ClientInv, ClientType, LoopInv, RoundRight, RunTask
<1>2. PICK r : r = [round EXCEPT !.tasks = Tail(@)]
  OBVIOUS
<1>3. /\ r \in RoundType /\ r.phase = "tasks" /\ r.tasks = Tail(round.tasks)
      /\ r.read = round.read /\ r.write = round.write
  <2>1. Tail(round.tasks) \in Seq(TaskType)
    BY <1>1, HeadTailProperties DEF RoundType
  <2>2. QED
    BY <1>1, <1>2, <2>1 DEF RoundType
<1>4. round' = Passing(r) /\ UNCHANGED <<mode, call, threadid, mutex, owner, crashed>>
  BY <1>2 DEF RunTask
<1>5. /\ round' \in RoundType /\ round'.tasks = Tail(round.tasks)
      /\ round'.read = round.read /\ round'.write = round.write
      /\ round'.phase = "tasks" <=> round'.tasks # <<>>
      /\ round'.phase = "fds" => Ready(r) # {}
  BY <1>3, <1>4, PassingRight
<1>6. RoundRight'
  BY <1>3, <1>5 DEF RoundRight, Ready
<1>7. PICK t : t = Head(round.tasks)
  OBVIOUS
<1>8. /\ ev' = CASE t[1] = "writable" -> RunOnWritable(ev, <<t[2], t[3]>>, t[4])
                 [] t[1] = "readable" -> RunOnReadable(ev, <<t[2], t[3]>>, t[4])
                 [] OTHER -> CancelFD(ev, t[4])
      /\ user' = IF t[1] = "cancel" THEN "cancelled" ELSE user
  BY <1>7 DEF RunTask
<1>9. /\ t \in TaskType /\ t[4] \in Fds /\ t[3] \in Owners
      /\ t[1] \in {"writable", "readable", "cancel"} /\ t[2] \in {"connected", "write", "user"}
  BY <1>1, <1>7, HeadTailProperties DEF RoundType, TaskType
<1>10. PICK f, o, x : f = t[4] /\ o = t[3] /\ x = t[2]
  OBVIOUS
<1>11. <<x, o>> \in CallbackType /\ <<x, o>> # NoCallback /\ <<x, o>>[1] = x /\ <<x, o>>[2] = o
  BY <1>9, <1>10 DEF CallbackType, NoCallback
<1>12. ev' \in LoopType /\ ev'.runq = ev.runq
  <2>1. f \in Fds
    BY <1>9, <1>10
  <2>2. \/ ev' = RunOnWritable(ev, <<x, o>>, f)
        \/ ev' = RunOnReadable(ev, <<x, o>>, f)
        \/ ev' = CancelFD(ev, f)
    BY <1>8, <1>10
  <2>3. CASE ev' = RunOnWritable(ev, <<x, o>>, f)
    BY <1>1, <1>11, <2>1, <2>3, RunOnWritableRight
  <2>4. CASE ev' = RunOnReadable(ev, <<x, o>>, f)
    BY <1>1, <1>11, <2>1, <2>4, RunOnReadableRight
  <2>5. CASE ev' = CancelFD(ev, f)
    BY <1>1, <2>1, <2>5, CancelFDRight
  <2>6. QED
    BY <2>2, <2>3, <2>4, <2>5
<1>13. PICK n : n = Len(Pending')
  OBVIOUS
<1>14. /\ Pending[1] = t /\ Len(Pending) = n + 1 /\ n \in Nat /\ 1 \in 1..Len(Pending)
       /\ \A i \in 1..n : i + 1 \in 1..Len(Pending) /\ Pending'[i] = Pending[i + 1]
  BY <1>1, <1>5, <1>7, <1>12, <1>13, PendingTaken
<1>15. /\ owner[f] = o /\ f \in Fds /\ o \in Owners
       /\ x = "user" <=> o = "user"
       /\ t[1] = "writable" <=> o # "user"
       /\ o # "user" => ev.callbacks[f] = NoCallback
  BY <1>1, <1>9, <1>10, <1>14 DEF LoopInv, TasksRight, TaskRight
<1>16. \A i \in 1..n :
         /\ Pending'[i] \in TaskType /\ Pending'[i][4] \in Fds
         /\ owner[Pending'[i][4]] = Pending'[i][3]
         /\ Pending'[i][2] = "user" <=> Pending'[i][3] = "user"
         /\ Pending'[i][1] = "writable" <=> Pending'[i][3] # "user"
         /\ Pending'[i][3] # "user" => ev.callbacks[Pending'[i][4]] = NoCallback
         /\ o # "user" => Pending'[i][4] # f
         /\ Pending'[i][1] = "cancel" =>
              user = "cancelling" /\ \A j \in 1..n : Pending'[j][3] = "user" => j <= i
  <2>1. \A i \in 1..Len(Pending) : Pending[i] \in TaskType /\ Pending[i][4] \in Fds /\ TaskRight(Pending[i])
    BY <1>1, PendingType DEF LoopInv, TaskType, TasksRight
  <2>2. \A i \in 1..n : Pending'[i] \in TaskType /\ Pending'[i][4] \in Fds /\ TaskRight(Pending'[i])
    BY <1>14, <2>1
  <2>3. ASSUME NEW i \in 1..n, o # "user", Pending'[i][4] = f
        PROVE  FALSE
    <3>1. Pending[i + 1][3] = o
      BY <1>14, <1>15, <2>2, <2>3 DEF TaskRight
    <3>2. i + 1 = 1
      BY <1>1, <1>10, <1>14, <2>3, <3>1 DEF LoopInv, OneTask
    <3>3. QED
      BY <3>2
  <2>4. ASSUME NEW i \in 1..n, Pending'[i][1] = "cancel"
        PROVE  user = "cancelling" /\ \A j \in 1..n : Pending'[j][3] = "user" => j <= i
    <3>1. /\ user = "cancelling"
          /\ \A j \in 1..Len(Pending) : Pending[j][3] = "user" => j <= i + 1
      BY <1>1, <1>14, <2>4 DEF LoopInv, UserRight
    <3>2. QED
      BY <1>14, <3>1
  <2>5. QED
    BY <2>2, <2>3, <2>4 DEF TaskRight
<1>17. \A i, j \in 1..n : Pending'[i][3] = Pending'[j][3] /\ Pending'[i][3] # "user" => i = j
  BY <1>1, <1>14 DEF LoopInv, OneTask
<1>18. OneTask'
  BY <1>13, <1>17 DEF OneTask
<1>19. OwnersRight'
  BY <1>1, <1>4 DEF LoopInv, OwnersRight
<1>20. UserFD \in Fds
  BY UserFDRight
<1>21. CASE t[1] = "writable"
  <2>1. /\ ev'.callbacks = [ev.callbacks EXCEPT ![f] = <<x, o>>]
        /\ ev'.read = ev.read /\ ev'.write = ev.write \cup {f} /\ ev'.num = ev.num + 1
        /\ user' = user
    BY <1>1, <1>8, <1>10, <1>11, <1>15, <1>21, RunOnWritableRight
  <2>2. ev'.callbacks[f] = <<x, o>> /\ \A g \in Fds \ {f} : ev'.callbacks[g] = ev.callbacks[g]
    BY <1>1, <1>15, <2>1 DEF LoopType
  <2>3. o \in Calls /\ o # "user" /\ x \in {"connected", "write"} /\ ev.callbacks[f] = NoCallback
    BY <1>9, <1>10, <1>15, <1>21 DEF Owners
  <2>4. ClientType'
    BY <1>1, <1>4, <1>5, <1>12, <2>1 DEF ClientType
  <2>5. CallbacksRight'
    BY <1>1, <1>4, <1>11, <1>15, <2>1, <2>2, <2>3 DEF LoopInv, CallbacksRight
  <2>6. TasksRight'
    BY <1>4, <1>13, <1>16, <2>2, <2>3 DEF TasksRight, TaskRight
  <2>7. UserRight'
    <3>1. user # "done" => owner[UserFD] = "user" /\ mode = "pool"
      BY <1>1 DEF LoopInv, UserRight
    <3>2. user \in {"register", "cancelled", "done"} =>
            /\ owner[UserFD] = "user" => ev'.callbacks[UserFD] = NoCallback
            /\ \A i \in 1..n : Pending'[i][3] # "user"
      BY <1>1, <1>14, <1>15, <1>20, <2>2, <2>3 DEF LoopInv, UserRight
    <3>3. QED
      BY <1>4, <1>13, <1>16, <2>1, <3>1, <3>2 DEF UserRight
  <2>8. SyncRight'
    <3>1. SUFFICES ASSUME mode = "sync"
                   PROVE  SyncRight'
      BY <1>4 DEF SyncRight
    <3>2. ASSUME NEW g \in ev.read \cup ev.write
          PROVE  FALSE
      <4>1. g \in Fds /\ ev.callbacks[g] # NoCallback
        BY <1>1, <3>2 DEF LoopInv, CallbacksRight, LoopType
      <4>2. owner[g] = o
        BY <1>15, <2>3, <3>1, <3>2, SyncServes
      <4>3. g = f
        BY <1>1, <1>15, <2>3, <4>1, <4>2 DEF LoopInv, OwnersRight
      <4>4. QED
        BY <2>3, <4>1, <4>3
    <3>3. ev.read = {} /\ ev.write = {}
      BY <3>2
    <3>4. ev.num = 0 /\ round.read = {} /\ round.write = {}
      BY <1>1, <3>1, <3>3 DEF LoopInv, SyncRight
    <3>5. ev'.read = {} /\ ev'.write = {f} /\ ev'.num = 1
      BY <2>1, <3>3, <3>4
    <3>6. QED
      BY <1>1, <1>4, <1>5, <1>15, <3>4, <3>5 DEF LoopInv, SyncRight
  <2>9. ASSUME NEW d \in Calls
        PROVE  CallRight(d)' /\ ResourcesRight(d)'
    <3>1. CallRight(d) /\ ResourcesRight(d)
      BY DEF ClientInv
    <3>2. CallRight(d)'
      BY <1>4, <3>1 DEF CallRight, Owns, HooksRight, ParserRight, AnswerRight
    <3>3. ASSUME NEW g \in Fds, ev'.callbacks[g] = <<"connected", d>>
          PROVE  mode = "pool" /\ Unconnected(call[d])
      <4>1. CASE g = f
        <5>1. x = "connected" /\ o = d
          BY <2>2, <3>3, <4>1
        <5>2. QED
          BY <1>10, <1>14, <3>1, <5>1 DEF ResourcesRight
      <4>2. CASE g # f
        BY <2>2, <3>1, <3>3, <4>2 DEF ResourcesRight
      <4>3. QED
        BY <4>1, <4>2
    <3>4. ASSUME NEW g \in Fds, ev'.callbacks[g] \in {<<"write", d>>, <<"read", d>>}
          PROVE  Busy(call[d])
      <4>1. CASE g = f
        <5>1. x = "write" /\ o = d
          BY <2>2, <2>3, <3>4, <4>1
        <5>2. QED
          BY <1>10, <1>14, <3>1, <5>1 DEF ResourcesRight
      <4>2. CASE g # f
        BY <2>2, <3>1, <3>4, <4>2 DEF ResourcesRight
      <4>3. QED
        BY <4>1, <4>2
    <3>5. \A i \in 1..n : Pending'[i][3] = d =>
            /\ Pending'[i][2] = "connected" => mode = "pool" /\ Unconnected(call[d])
            /\ Pending'[i][2] = "write" => Busy(call[d])
      BY <1>14, <3>1 DEF ResourcesRight
    <3>6. ResourcesRight(d)'
      BY <1>4, <1>13, <3>1, <3>3, <3>4, <3>5 DEF ResourcesRight, Settled, Unconnected, Busy
    <3>7. QED
      BY <3>2, <3>6
  <2>10. QED
    BY <1>6, <1>18, <1>19, <2>4, <2>5, <2>6, <2>7, <2>8, <2>9 DEF ClientInv, LoopInv
<1>22. CASE t[1] # "writable"
  <2>1. o = "user" /\ x = "user" /\ f = UserFD /\ owner[UserFD] = "user"
    BY <1>1, <1>15, <1>22 DEF LoopInv, OwnersRight
  <2>2. user \in {"cancel", "cancelling"}
    BY <1>1, <1>10, <1>14, <2>1 DEF LoopInv, UserRight, ClientType
  <2>3. mode = "pool"
    BY <1>1, <2>2 DEF LoopInv, UserRight
  <2>4. /\ \A g \in Fds \ {f} : ev'.callbacks[g] = ev.callbacks[g]
        /\ \/ t[1] = "readable" /\ ev'.callbacks[f] = <<"user", "user">> /\ user' = user
           \/ t[1] = "cancel" /\ ev'.callbacks[f] = NoCallback /\ user' = "cancelled"
        /\ t[1] = "readable" => ev'.read = ev.read \cup {f} /\ ev'.write = ev.write
        /\ t[1] = "cancel" => ev'.read = ev.read \ {f} /\ ev'.write = ev.write \ {f}
    <3>1. CASE t[1] = "readable"
      <4>1. ev' = RunOnReadable(ev, <<x, o>>, f) /\ user' = user
        BY <1>8, <1>10, <3>1
      <4>2. /\ ev'.callbacks = [ev.callbacks EXCEPT ![f] = <<x, o>>]
            /\ ev'.read = ev.read \cup {f} /\ ev'.write = ev.write
        BY <1>1, <1>11, <1>15, <4>1, RunOnReadableRight
      <4>3. QED
        BY <1>1, <1>15, <2>1, <3>1, <4>1, <4>2 DEF LoopType
    <3>2. CASE t[1] = "cancel"
      <4>1. ev' = CancelFD(ev, f) /\ user' = "cancelled"
        BY <1>8, <1>10, <3>2
      <4>2. /\ ev'.callbacks = [ev.callbacks EXCEPT ![f] = NoCallback]
            /\ ev'.read = ev.read \ {f} /\ ev'.write = ev.write \ {f}
        BY <1>1, <1>15, <4>1, CancelFDRight
      <4>3. QED
        BY <1>1, <1>15, <3>2, <4>1, <4>2 DEF LoopType
    <3>3. QED
      BY <1>9, <1>22, <3>1, <3>2
  <2>5. ClientType'
    BY <1>1, <1>4, <1>5, <1>12, <2>4 DEF ClientType
  <2>6. CallbacksRight'
    <3>1. <<"user", "user">> # NoCallback /\ <<"user", "user">>[1] = "user" /\ <<"user", "user">>[2] = "user"
      BY DEF NoCallback
    <3>2. \A g \in Fds \ {f} :
            /\ ev'.callbacks[g] # NoCallback =>
                 /\ ev'.callbacks[g][2] = owner[g]
                 /\ ev'.callbacks[g][1] = "user" <=> owner[g] = "user"
            /\ g \in ev'.read \cup ev'.write => ev'.callbacks[g] # NoCallback
      BY <1>1, <1>9, <1>22, <2>4 DEF LoopInv, CallbacksRight
    <3>3. /\ ev'.callbacks[f] # NoCallback =>
                /\ ev'.callbacks[f][2] = owner[f]
                /\ ev'.callbacks[f][1] = "user" <=> owner[f] = "user"
          /\ f \in ev'.read \cup ev'.write => ev'.callbacks[f] # NoCallback
      BY <1>15, <2>1, <2>4, <3>1
    <3>4. QED
      BY <1>4, <3>2, <3>3 DEF CallbacksRight
  <2>7. TasksRight'
    BY <1>4, <1>13, <1>15, <1>16, <2>1, <2>4 DEF TasksRight, TaskRight
  <2>8. UserRight'
    <3>1. t[1] = "cancel" => \A i \in 1..n : Pending'[i][3] # "user"
      <4>1. t[1] = "cancel" => \A j \in 1..Len(Pending) : Pending[j][3] = "user" => j <= 1
        BY <1>1, <1>14 DEF LoopInv, UserRight
      <4>2. QED
        BY <1>14, <4>1
    <3>2. \A i \in 1..n : Pending'[i][1] = "cancel" => Pending'[i][3] = "user"
      BY <1>16
    <3>3. \A i \in 1..n : Pending'[i][1] = "cancel" =>
            user' = "cancelling" /\ \A j \in 1..n : Pending'[j][3] = "user" => j <= i
      BY <1>16, <2>4, <3>1, <3>2
    <3>4. user' \in {"register", "cancelled", "done"} =>
            ev'.callbacks[UserFD] = NoCallback /\ \A i \in 1..n : Pending'[i][3] # "user"
      BY <2>1, <2>2, <2>4, <3>1
    <3>5. QED
      BY <1>4, <1>13, <2>1, <2>3, <3>3, <3>4 DEF UserRight
  <2>9. SyncRight'
    BY <1>4, <2>3 DEF SyncRight
  <2>10. ASSUME NEW d \in Calls
         PROVE  CallRight(d)' /\ ResourcesRight(d)'
    <3>1. d # "user"
      BY CallsAssumption
    <3>2. \A i \in 1..Len(Pending') : Pending'[i][3] = d => \E j \in 1..Len(Pending) : Pending[j] = Pending'[i]
      BY <1>13, <1>14
    <3>3. \A g \in Fds : \A y \in {"connected", "write", "read"} :
            ev'.callbacks[g] = <<y, d>> => ev.callbacks[g] = <<y, d>>
      BY <2>4, <3>1 DEF NoCallback
    <3>4. QED
      BY <1>4, <3>2, <3>3, OtherCall
  <2>11. QED
    BY <1>6, <1>18, <1>19, <2>5, <2>6, <2>7, <2>8, <2>9, <2>10 DEF ClientInv, LoopInv
<1>23. QED
  BY <1>21, <1>22

-----------------------------------------------------------------------------
(* The callbacks *)

(* The round goes on with the descriptors behind the one that is served.   *)
LEMMA RoundPassed ==
  ASSUME ClientInv, round.phase = "fds", round' = Passing(Passed(round)), NEW f, f = NextFD(round)
  PROVE  /\ f \in Fds /\ f \in Ready(round)
         /\ round' \in RoundType /\ RoundRight' /\ round.tasks = <<>> /\ round'.tasks = round.tasks
         /\ round'.read = round.read \ {f} /\ round'.write = round.write \ {f}
<1>1. round \in RoundType /\ RoundRight
  BY DEF ClientInv, ClientType, LoopInv
<1>2. round.tasks = <<>> /\ f \in Ready(round)
  BY <1>1, NextFDReady DEF RoundRight
<1>3. f \in Fds
  BY <1>1, <1>2 DEF RoundType, Ready
<1>4. PICK r, rd, wr : /\ r = Passed(round)
                       /\ rd = round.read \ {f} /\ wr = round.write \ {f}
  OBVIOUS
<1>5. rd \in SUBSET Fds /\ wr \in SUBSET Fds
  BY <1>1, <1>4 DEF RoundType
<1>6. r = [round EXCEPT !.read = rd, !.write = wr]
  BY <1>4 DEF Passed
<1>7. r \in RoundType /\ r.read = rd /\ r.write = wr /\ r.tasks = round.tasks
  BY <1>1, <1>5, <1>6 DEF RoundType
<1>8. /\ round' \in RoundType /\ round'.tasks = r.tasks
      /\ round'.read = r.read /\ round'.write = r.write
      /\ round'.phase = "tasks" <=> r.tasks # <<>>
      /\ round'.phase = "fds" => Ready(r) # {}
  BY <1>2, <1>4, <1>7, PassingRight
<1>9. RoundRight'
  BY <1>7, <1>8 DEF RoundRight, Ready
<1>10. QED
  BY <1>2, <1>3, <1>4, <1>7, <1>8, <1>9

(* The loop of HTTPClient waits for nothing else when it calls a callback. *)
LEMMA SyncFired ==
  ASSUME ClientInv, mode = "sync", round.phase = "fds", round' = Passing(Passed(round)),
         NEW f, f = NextFD(round)
  PROVE  /\ Fired(ev, round).read = {} /\ Fired(ev, round).write = {} /\ Fired(ev, round).num = 0
         /\ round'.read = {} /\ round'.write = {}
         /\ ev.callbacks[f] # NoCallback /\ owner[f] \in Calls
<1>1. ClientType /\ SyncRight /\ CallbacksRight /\ ev \in LoopType /\ round \in RoundType
  BY DEF ClientInv, ClientType, LoopInv
<1>2. /\ f \in Fds /\ f \in Ready(round)
      /\ round'.read = round.read \ {f} /\ round'.write = round.write \ {f}
  BY RoundPassed
<1>3. /\ round.read \subseteq ev.read /\ round.write \subseteq ev.write
      /\ \/ ev.read = {} /\ ev.write = {} /\ ev.num = 0
         \/ \E g \in Fds : ev.read = {g} /\ ev.write = {} /\ ev.num = 1
         \/ \E g \in Fds : ev.read = {} /\ ev.write = {g} /\ ev.num = 1
  BY <1>1 DEF SyncRight
<1>4. \/ f \in round.read /\ ev.read = {f} /\ ev.write = {} /\ ev.num = 1
      \/ f \notin round.read /\ ev.read = {} /\ ev.write = {f} /\ ev.num = 1
  BY <1>2, <1>3 DEF Ready
<1>5. /\ Fired(ev, round).num = ev.num - 1
      /\ f \in round.read => Fired(ev, round).read = ev.read \ {f} /\ Fired(ev, round).write = ev.write
      /\ f \notin round.read => Fired(ev, round).read = ev.read /\ Fired(ev, round).write = ev.write \ {f}
  BY <1>1, FiredRight
<1>6. Fired(ev, round).read = {} /\ Fired(ev, round).write = {} /\ Fired(ev, round).num = 0
  BY <1>4, <1>5
<1>7. round'.read = {} /\ round'.write = {}
  BY <1>2, <1>3, <1>4
<1>8. f \in ev.read \cup ev.write
  BY <1>4
<1>9. ev.callbacks[f] # NoCallback /\ owner[f] \in Calls
  BY <1>1, <1>2, <1>8, SyncServes DEF CallbacksRight
<1>10. QED
  BY <1>6, <1>7, <1>9

(* The loop calls the callback of the server's connection, or finds none.  *)
LEMMA OtherCallbackStep ==
  ASSUME ClientInv, ~crashed, OtherCallback
  PROVE  ClientInv'
<1>1. ClientType /\ LoopInv /\ ev \in LoopType /\ round \in RoundType
  BY DEF ClientInv, ClientType
<1>2. PICK f : f = NextFD(round)
  OBVIOUS
<1>3. /\ round.phase = "fds" /\ ev.callbacks[f] \in {NoCallback, <<"user", "user">>}
      /\ round' = Passing(Passed(round)) /\ ev' = Fired(ev, round)
      /\ UNCHANGED <<mode, call, threadid, mutex, owner, user, crashed>>
  BY <1>2 DEF OtherCallback
<1>4. f \in Fds /\ round' \in RoundType /\ RoundRight' /\ round'.tasks = round.tasks
  BY <1>2, <1>3, RoundPassed
<1>5. /\ ev' \in LoopType /\ ev'.runq = ev.runq /\ ev'.callbacks = ev.callbacks
      /\ ev'.read \subseteq ev.read /\ ev'.write \subseteq ev.write
  BY <1>1, <1>2, <1>3, FiredRight
<1>6. mode = "pool"
  <2>1. SUFFICES ASSUME mode = "sync" PROVE FALSE
    BY <1>1 DEF ClientType
  <2>2. ev.callbacks[f] = <<"user", "user">> /\ owner[f] \in Calls
    BY <1>2, <1>3, <2>1, SyncFired
  <2>3. <<"user", "user">> # NoCallback /\ <<"user", "user">>[2] = "user"
    BY DEF NoCallback
  <2>4. owner[f] = "user"
    BY <1>1, <1>4, <2>2, <2>3 DEF LoopInv, CallbacksRight
  <2>5. QED
    BY <2>2, <2>4, CallsAssumption
<1>7. Pending' = Pending
  BY <1>4, <1>5 DEF Pending
<1>8. ClientType'
  BY <1>1, <1>3, <1>4, <1>5 DEF ClientType
<1>9. CallbacksRight' /\ TasksRight' /\ OneTask' /\ OwnersRight' /\ UserRight'
  BY <1>1, <1>3, <1>5, <1>7
     DEF LoopInv, CallbacksRight, TasksRight, TaskRight, OneTask, OwnersRight, UserRight
<1>10. SyncRight'
  BY <1>3, <1>6 DEF SyncRight
<1>11. \A d \in Calls : CallRight(d)' /\ ResourcesRight(d)'
  BY <1>3, <1>5, <1>7, OtherCall
<1>12. QED
  BY <1>4, <1>8, <1>9, <1>10, <1>11 DEF ClientInv, LoopInv

(* A callback of a call runs on the socket of the call, while the promise  *)
(* is pending and no task of the call is under way.                        *)
LEMMA CallbackRight ==
  ASSUME ClientInv, ~crashed, NEW c \in Calls, NEW kind \in {"connected", "write", "read"},
         Callback(kind, c), NEW f, f = NextFD(round)
  PROVE  /\ f \in Fds /\ owner[f] = c /\ call[c].fd = f
         /\ call[c].promise = "pending" /\ call[c].pc \notin {"start", "done"}
         /\ kind = "connected" => mode = "pool" /\ Unconnected(call[c])
         /\ kind # "connected" => Busy(call[c])
         /\ \A i \in 1..Len(Pending) : Pending[i][3] # c /\ Pending[i][4] # f
         /\ \A g \in Fds \ {f} : owner[g] # c /\ \A x : ev.callbacks[g] # <<x, c>>
<1>1. ClientType /\ LoopInv /\ CallRight(c) /\ ResourcesRight(c)
  BY DEF ClientInv
<1>2. round.phase = "fds" /\ ev.callbacks[f] = <<kind, c>> /\ round' = Passing(Passed(round))
  BY DEF Callback
<1>3. f \in Fds
  BY <1>2, RoundPassed
<1>4. <<kind, c>> # NoCallback /\ <<kind, c>>[2] = c
  BY DEF NoCallback
<1>5. owner[f] = c
  BY <1>1, <1>2, <1>3, <1>4 DEF LoopInv, CallbacksRight
<1>6. call[c].fd = f /\ \A g \in Fds \ {f} : owner[g] # c
  BY <1>1, <1>3, <1>5 DEF LoopInv, OwnersRight
<1>7. call[c].promise = "pending" /\ call[c].pc \notin {"start", "done"}
  BY <1>1, <1>3, <1>5 DEF CallRight, Owns
<1>8. \A i \in 1..Len(Pending) : Pending[i][3] # c /\ Pending[i][4] # f
  <2>1. c # "user"
    BY CallsAssumption
  <2>2. SUFFICES ASSUME NEW i \in 1..Len(Pending), Pending[i][3] = c \/ Pending[i][4] = f
                 PROVE  FALSE
    OBVIOUS
  <2>3. Pending[i] \in TaskType /\ Pending[i][4] \in Fds
    BY <1>1, PendingType DEF TaskType
  <2>4. TaskRight(Pending[i])
    BY <1>1 DEF LoopInv, TasksRight
  <2>5. Pending[i][3] = c /\ Pending[i][4] = f
    BY <1>5, <1>6, <2>2, <2>3, <2>4 DEF TaskRight
  <2>6. QED
    BY <1>2, <1>4, <2>1, <2>4, <2>5 DEF TaskRight
<1>9. ASSUME NEW g \in Fds \ {f}, NEW x, ev.callbacks[g] = <<x, c>>
      PROVE  FALSE
  <2>1. ev.callbacks[g] # NoCallback /\ ev.callbacks[g][2] = c
    BY <1>9 DEF NoCallback
  <2>2. QED
    BY <1>1, <1>6, <2>1 DEF LoopInv, CallbacksRight
<1>10. (kind = "connected" => mode = "pool" /\ Unconnected(call[c])) /\ (kind # "connected" => Busy(call[c]))
  BY <1>1, <1>2, <1>3 DEF ResourcesRight
<1>11. QED
  BY <1>3, <1>5, <1>6, <1>7, <1>8, <1>9, <1>10

(* The callback leaves the socket waiting for the next one.                *)
LEMMA Rearmed ==
  ASSUME ClientInv, ~crashed, NEW c \in Calls, NEW kind \in {"connected", "write", "read"},
         Callback(kind, c), NEW x \in {"write", "read"}, NEW k \in CallType,
         call' = [call EXCEPT ![c] = k],
         \/ ev' = RunOnWritable(Fired(ev, round), <<x, c>>, call[c].fd)
         \/ ev' = RunOnReadable(Fired(ev, round), <<x, c>>, call[c].fd),
         UNCHANGED <<mode, threadid, mutex, owner, user, crashed>>,
         k.fd = call[c].fd, k.promise = "pending", k.pc = call[c].pc,
         HooksRight(k), ParserRight(k), Busy(k)
  PROVE  ClientInv'
<1>1. /\ ClientType /\ LoopInv /\ ev \in LoopType /\ round \in RoundType
      /\ round.phase = "fds" /\ round' = Passing(Passed(round))
  BY DEF ClientInv, ClientType, Callback
<1>2. PICK f : f = NextFD(round)
  OBVIOUS
<1>3. /\ f \in Fds /\ owner[f] = c /\ call[c].fd = f
      /\ call[c].pc \notin {"start", "done"}
      /\ \A i \in 1..Len(Pending) : Pending[i][3] # c /\ Pending[i][4] # f
      /\ \A g \in Fds \ {f} : owner[g] # c /\ \A y : ev.callbacks[g] # <<y, c>>
  BY <1>2, CallbackRight
<1>4. round' \in RoundType /\ RoundRight' /\ round'.tasks = round.tasks
  BY <1>1, <1>2, RoundPassed
<1>5. PICK e : e = Fired(ev, round)
  OBVIOUS
<1>6. /\ e \in LoopType /\ e.runq = ev.runq /\ e.callbacks = ev.callbacks
      /\ e.read \subseteq ev.read /\ e.write \subseteq ev.write
  BY <1>1, <1>2, <1>5, FiredRight
<1>7. <<x, c>> \in CallbackType /\ <<x, c>> # NoCallback /\ <<x, c>>[1] = x /\ <<x, c>>[2] = c
  BY DEF CallbackType, Owners, NoCallback
<1>8. /\ ev' \in LoopType /\ ev'.runq = ev.runq
      /\ ev'.callbacks = [ev.callbacks EXCEPT ![f] = <<x, c>>]
      /\ ev'.num = e.num + 1
      /\ \/ ev'.read = e.read /\ ev'.write = e.write \cup {f}
         \/ ev'.read = e.read \cup {f} /\ ev'.write = e.write
  <2>1. e \in LoopType /\ f \in Fds /\ <<x, c>> \in CallbackType
    BY <1>3, <1>6, <1>7
  <2>2. ASSUME ev' = RunOnWritable(e, <<x, c>>, f)
        PROVE  /\ ev' \in LoopType /\ ev'.runq = e.runq /\ ev'.num = e.num + 1
               /\ ev'.callbacks = [e.callbacks EXCEPT ![f] = <<x, c>>]
               /\ ev'.read = e.read /\ ev'.write = e.write \cup {f}
    BY <2>1, <2>2, RunOnWritableRight
  <2>3. ASSUME ev' = RunOnReadable(e, <<x, c>>, f)
        PROVE  /\ ev' \in LoopType /\ ev'.runq = e.runq /\ ev'.num = e.num + 1
               /\ ev'.callbacks = [e.callbacks EXCEPT ![f] = <<x, c>>]
               /\ ev'.read = e.read \cup {f} /\ ev'.write = e.write
    BY <2>1, <2>3, RunOnReadableRight
  <2>4. ev' = RunOnWritable(e, <<x, c>>, f) \/ ev' = RunOnReadable(e, <<x, c>>, f)
    BY <1>3, <1>5
  <2>5. QED
    BY <1>6, <2>2, <2>3, <2>4
<1>9. ev'.callbacks[f] = <<x, c>> /\ \A g \in Fds \ {f} : ev'.callbacks[g] = ev.callbacks[g]
  BY <1>1, <1>3, <1>8 DEF LoopType
<1>10. call'[c] = k /\ \A d \in Calls \ {c} : call'[d] = call[d]
  BY <1>1 DEF ClientType
<1>11. Pending' = Pending
  BY <1>4, <1>8 DEF Pending
<1>12. c # "user"
  BY CallsAssumption
<1>13. \A i \in 1..Len(Pending) : Pending[i][4] \in Fds
  BY <1>1, PendingType DEF TaskType
<1>14. ClientType'
  BY <1>1, <1>4, <1>8 DEF ClientType
<1>15. CallbacksRight'
  <2>1. \A g \in Fds \ {f} : g \in ev'.read \cup ev'.write => g \in ev.read \cup ev.write
    BY <1>6, <1>8
  <2>2. QED
    BY <1>1, <1>3, <1>7, <1>9, <1>12, <2>1 DEF LoopInv, CallbacksRight
<1>16. TasksRight'
  BY <1>1, <1>3, <1>9, <1>11, <1>13 DEF LoopInv, TasksRight, TaskRight
<1>17. OneTask'
  BY <1>1, <1>11 DEF LoopInv, OneTask
<1>18. OwnersRight'
  BY <1>1, <1>10 DEF LoopInv, OwnersRight
<1>19. UserRight'
  <2>1. UserFD \in Fds
    BY UserFDRight
  <2>2. QED
    BY <1>1, <1>3, <1>9, <1>11, <1>12, <2>1 DEF LoopInv, UserRight
<1>20. SyncRight'
  <2>1. SUFFICES ASSUME mode = "sync" PROVE SyncRight'
    BY DEF SyncRight
  <2>2. e.read = {} /\ e.write = {} /\ e.num = 0 /\ round'.read = {} /\ round'.write = {}
    BY <1>1, <1>2, <1>5, <2>1, SyncFired
  <2>3. \/ ev'.read = {f} /\ ev'.write = {} /\ ev'.num = 1
        \/ ev'.read = {} /\ ev'.write = {f} /\ ev'.num = 1
    BY <1>8, <2>2
  <2>4. /\ \A g \in Fds : owner'[g] \in Calls => mutex' = owner'[g]
        /\ \A d \in Calls : call'[d].pc \in {"runonce", "get"} <=> mutex' = d
    BY <1>1, <1>10, <2>1 DEF LoopInv, SyncRight
  <2>5. QED
    BY <1>3, <2>2, <2>3, <2>4 DEF SyncRight
<1>21. CallRight(c)'
  BY <1>3, <1>10 DEF CallRight, HooksRight, ParserRight
<1>22. ResourcesRight(c)'
  <2>1. \A g \in Fds : ev'.callbacks[g] # <<"connected", c>>
    BY <1>3, <1>9
  <2>2. QED
    BY <1>3, <1>10, <1>11, <2>1 DEF ResourcesRight, Busy
<1>23. ASSUME NEW d \in Calls \ {c}
       PROVE  CallRight(d)' /\ ResourcesRight(d)'
  <2>1. \A g \in Fds : \A y \in {"connected", "write", "read"} :
          ev'.callbacks[g] = <<y, d>> => ev.callbacks[g] = <<y, d>>
    BY <1>9
  <2>2. QED
    BY <1>10, <1>11, <2>1, OtherCall
<1>24. QED
  BY <1>4, <1>14, <1>15, <1>16, <1>17, <1>18, <1>19, <1>20, <1>21, <1>22, <1>23 DEF ClientInv, LoopInv

(* The callback closes the socket.                                         *)
LEMMA SocketClosed ==
  ASSUME ClientInv, ~crashed, NEW c \in Calls, NEW kind \in {"write", "read"},
         Callback(kind, c), NEW k \in CallType,
         call' = [call EXCEPT ![c] = k], CloseEffect(c, Fired(ev, round)),
         UNCHANGED <<mode, threadid, mutex, user>>, crashed' \in BOOLEAN,
         k.fd = call[c].fd, k.pc = call[c].pc,
         HooksRight(k), k.promise = "pending" => ParserRight(k), k.promise = "success" => AnswerRight(k),
         ~crashed' => k.promise # "pending" /\ Settled(k)
  PROVE  ClientInv'
<1>1. /\ ClientType /\ LoopInv /\ ev \in LoopType /\ round \in RoundType
      /\ owner \in [Fds -> Owners \cup {"free"}]
      /\ round.phase = "fds" /\ round' = Passing(Passed(round))
  BY DEF ClientInv, ClientType, Callback
<1>2. PICK f : f = NextFD(round)
  OBVIOUS
<1>3. /\ f \in Fds /\ owner[f] = c /\ call[c].fd = f
      /\ call[c].pc \notin {"start", "done"}
      /\ \A i \in 1..Len(Pending) : Pending[i][3] # c /\ Pending[i][4] # f
      /\ \A g \in Fds \ {f} : owner[g] # c /\ \A y : ev.callbacks[g] # <<y, c>>
  BY <1>2, CallbackRight
<1>4. round' \in RoundType /\ RoundRight' /\ round'.tasks = round.tasks
  BY <1>1, <1>2, RoundPassed
<1>5. PICK e : e = Fired(ev, round)
  OBVIOUS
<1>6. /\ e \in LoopType /\ e.runq = ev.runq /\ e.callbacks = ev.callbacks
      /\ e.read \subseteq ev.read /\ e.write \subseteq ev.write
  BY <1>1, <1>2, <1>5, FiredRight
<1>7. ev' = CancelFD(e, f) /\ owner' = [owner EXCEPT ![f] = "free"]
  BY <1>3, <1>5 DEF CloseEffect
<1>8. /\ ev' \in LoopType /\ ev'.runq = ev.runq
      /\ ev'.callbacks = [ev.callbacks EXCEPT ![f] = NoCallback]
      /\ ev'.read = e.read \ {f} /\ ev'.write = e.write \ {f}
      /\ f \notin e.read \cup e.write => ev'.num = e.num
  <2>1. /\ ev' \in LoopType /\ ev'.runq = e.runq
        /\ ev'.callbacks = [e.callbacks EXCEPT ![f] = NoCallback]
        /\ ev'.read = e.read \ {f} /\ ev'.write = e.write \ {f}
        /\ f \notin e.read \cup e.write => ev'.num = e.num
    BY <1>3, <1>6, <1>7, CancelFDRight
  <2>2. QED
    BY <1>6, <2>1
<1>9. ev'.callbacks[f] = NoCallback /\ \A g \in Fds \ {f} : ev'.callbacks[g] = ev.callbacks[g]
  BY <1>1, <1>3, <1>8 DEF LoopType
<1>10. call'[c] = k /\ \A d \in Calls \ {c} : call'[d] = call[d]
  BY <1>1 DEF ClientType
<1>11. owner'[f] = "free" /\ \A g \in Fds \ {f} : owner'[g] = owner[g]
  BY <1>1, <1>3, <1>7
<1>12. Pending' = Pending
  BY <1>4, <1>8 DEF Pending
<1>13. c # "user" /\ "free" \notin Calls
  BY CallsAssumption
<1>14. \A i \in 1..Len(Pending) : Pending[i][4] \in Fds
  BY <1>1, PendingType DEF TaskType
<1>15. ClientType'
  <2>1. owner' \in [Fds -> Owners \cup {"free"}]
    BY <1>1, <1>7
  <2>2. QED
    BY <1>1, <1>4, <1>8, <2>1 DEF ClientType
<1>16. CallbacksRight'
  <2>1. \A g \in Fds \ {f} : g \in ev'.read \cup ev'.write => g \in ev.read \cup ev.write
    BY <1>6, <1>8
  <2>2. f \notin ev'.read \cup ev'.write
    BY <1>8
  <2>3. QED
    BY <1>1, <1>9, <1>11, <2>1, <2>2 DEF LoopInv, CallbacksRight
<1>17. TasksRight'
  BY <1>1, <1>3, <1>9, <1>11, <1>12, <1>14 DEF LoopInv, TasksRight, TaskRight
<1>18. OneTask'
  BY <1>1, <1>12 DEF LoopInv, OneTask
<1>19. OwnersRight'
  BY <1>1, <1>10, <1>11, <1>13 DEF LoopInv, OwnersRight
<1>20. UserRight'
  <2>1. UserFD \in Fds
    BY UserFDRight
  <2>2. owner[UserFD] = "user" => UserFD # f
    BY <1>3, <1>13
  <2>3. QED
    BY <1>1, <1>3, <1>9, <1>11, <1>12, <1>13, <2>1, <2>2 DEF LoopInv, UserRight
<1>21. SyncRight'
  <2>1. SUFFICES ASSUME mode = "sync" PROVE SyncRight'
    BY DEF SyncRight
  <2>2. e.read = {} /\ e.write = {} /\ e.num = 0 /\ round'.read = {} /\ round'.write = {}
    BY <1>1, <1>2, <1>5, <2>1, SyncFired
  <2>3. ev'.read = {} /\ ev'.write = {} /\ ev'.num = 0
    BY <1>8, <2>2
  <2>4. /\ \A g \in Fds : owner'[g] \in Calls => mutex' = owner'[g]
        /\ \A d \in Calls : call'[d].pc \in {"runonce", "get"} <=> mutex' = d
    BY <1>1, <1>10, <1>11, <1>13, <2>1 DEF LoopInv, SyncRight
  <2>5. QED
    BY <2>2, <2>3, <2>4 DEF SyncRight
<1>22. \A g \in Fds : owner'[g] # c
  BY <1>3, <1>11, <1>13
<1>23. CallRight(c)'
  BY <1>10, <1>22 DEF CallRight, Owns, HooksRight, ParserRight, AnswerRight
<1>24. ~crashed' => ResourcesRight(c)'
  <2>1. \A g \in Fds : \A y : ev'.callbacks[g] # <<y, c>>
    BY <1>3, <1>9 DEF NoCallback
  <2>2. QED
    BY <1>3, <1>10, <1>12, <2>1 DEF ResourcesRight, Settled
<1>25. ASSUME NEW d \in Calls \ {c}
       PROVE  CallRight(d)' /\ ResourcesRight(d)'
  <2>1. \A g \in Fds : \A y \in {"connected", "write", "read"} :
          ev'.callbacks[g] = <<y, d>> => ev.callbacks[g] = <<y, d>>
    BY <1>9 DEF NoCallback
  <2>2. \A g \in Fds : owner'[g] = d => owner[g] = d
    BY <1>11, <1>13
  <2>3. QED
    BY <1>10, <1>12, <2>1, <2>2, OtherCall
<1>26. QED
  BY <1>4, <1>15, <1>16, <1>17, <1>18, <1>19, <1>20, <1>21, <1>23, <1>24, <1>25 DEF ClientInv, LoopInv

-----------------------------------------------------------------------------
(* What the callbacks do to the call *)

(* on_ready_ wakes up the pool, and the connection leaves the statistics.  *)
LEMMA FinishedRight ==
  ASSUME mode \in {"pool", "sync"}, NEW k \in CallType, Busy(k), NEW j, j = ParkConnection(Finished(k))
  PROVE  /\ j \in CallType /\ j.connections = 0 /\ j.requests = 0
         /\ mode = "pool" => j.conn = "freed"
         /\ mode = "sync" => j.conn = "closed"
         /\ j.pc = k.pc /\ j.response = k.response /\ j.pos = k.pos /\ j.fd = k.fd
         /\ j.parser = k.parser /\ j.body = k.body /\ j.handler = k.handler
         /\ j.promise = k.promise /\ j.onSuccess = k.onSuccess /\ j.onFailure = k.onFailure
         /\ j.status = k.status /\ j.readies = k.readies
<1>1. CASE mode = "pool"
  <2>1. k.connections = 1 /\ k.requests = 1
    BY <1>1 DEF Busy
  <2>2. PICK z \in Int : z = 0
    OBVIOUS
  <2>3. PICK h : h = [k EXCEPT !.conn = "closed", !.requests = z]
    OBVIOUS
  <2>4. h = Finished(k)
    BY <1>1, <2>2, <2>1, <2>3 DEF Finished, CallType
  <2>5. z \in Int
    BY <2>2
  <2>6. h \in CallType
    BY <2>3, <2>5 DEF CallType
  <2>7. h.connections = 1
    BY <2>1, <2>3 DEF CallType
  <2>8. j = [h EXCEPT !.conn = "freed", !.connections = z]
    BY <1>1, <2>2, <2>4, <2>7 DEF ParkConnection
  <2>9. j \in CallType
    BY <2>5, <2>6, <2>8 DEF CallType
  <2>10. QED
    BY <1>1, <2>2, <2>3, <2>8, <2>9 DEF CallType
<1>2. CASE mode = "sync"
  <2>1. j = [k EXCEPT !.conn = "closed"]
    BY <1>2 DEF ParkConnection, Finished, CallType
  <2>2. j \in CallType
    BY <2>1 DEF CallType
  <2>3. QED
    BY <1>2, <2>1, <2>2 DEF CallType, Busy
<1>3. QED
  BY <1>1, <1>2

(* The promise is fulfilled once, and the RPC becomes ready at most once.  *)
LEMMA FulfilledHooks ==
  ASSUME mode \in {"pool", "sync"}, NEW j \in CallType, NEW k \in CallType,
         HooksRight(j), j.promise = "pending", j.pc \notin {"start", "done"},
         k.pc = j.pc, k.onSuccess = j.onSuccess, k.onFailure = j.onFailure,
         \/ k.promise = "success" /\ k.status = j.status /\ k.readies = j.readies /\ ~j.onSuccess
         \/ k.promise = "success" /\ k.readies = j.readies + 1 /\ j.onSuccess
         \/ k.promise = "failure" /\ k.status = j.status /\ k.readies = j.readies /\ ~j.onFailure
         \/ k.promise = "failure" /\ k.status = "error" /\ k.readies = j.readies + 1 /\ j.onFailure
  PROVE  HooksRight(k)
<1>1. j.readies = 0 /\ j.status = "none"
  BY DEF HooksRight
<1>2. k.status = "ok" => k.promise = "success"
  BY <1>1
<1>3. CASE mode = "sync"
  <2>1. ~j.onSuccess /\ ~j.onFailure /\ j.pc \in {"runonce", "get"}
    BY <1>3 DEF HooksRight
  <2>2. QED
    BY <1>1, <1>2, <1>3, <2>1 DEF HooksRight
<1>4. CASE mode = "pool"
  <2>1. j.pc \in {"wakeup", "onsuccess", "onfailure", "wait"}
    BY <1>4 DEF HooksRight
  <2>2. k.readies <= 1
    BY <1>1
  <2>3. k.pc \in {"wakeup", "onsuccess"} =>
          k.readies = 0 /\ ~k.onSuccess /\ ~k.onFailure /\ k.status = "none"
    BY <1>1, <1>4 DEF HooksRight
  <2>4. k.pc = "onfailure" => ~k.onFailure /\ (k.promise # "success" => k.readies = 0)
    BY <1>1, <1>4 DEF HooksRight
  <2>5. k.promise # "pending"
    OBVIOUS
  <2>6. QED
    BY <1>2, <1>4, <2>1, <2>2, <2>3, <2>4, <2>5 DEF HooksRight
<1>5. QED
  BY <1>3, <1>4

(* onError() fails the promise, and the RPC is told if it listens.         *)
LEMMA OnErrorRight ==
  ASSUME mode \in {"pool", "sync"}, NEW j \in CallType, HooksRight(j),
         j.promise = "pending", j.pc \notin {"start", "done"},
         j.connections = 0, j.requests = 0, mode = "pool" => j.conn = "freed", j.conn # "none",
         NEW k, k = OnError(j)
  PROVE  /\ k \in CallType /\ k.promise = "failure" /\ k.fd = j.fd /\ k.pc = j.pc
         /\ Settled(k) /\ HooksRight(k)
<1>1. PICK st \in {"none", "ok", "error"}, n \in Nat :
        /\ PromiseFailure(j) = [j EXCEPT !.promise = "failure", !.status = st, !.readies = n]
        /\ \/ ~j.onFailure /\ st = j.status /\ n = j.readies
           \/ j.onFailure /\ st = "error" /\ n = j.readies + 1
  <2>1. j.status \in {"none", "ok", "error"} /\ j.readies \in Nat /\ j.readies + 1 \in Nat
    BY DEF CallType
  <2>2. CASE j.onFailure
    <3>1. PromiseFailure(j) = [j EXCEPT !.promise = "failure", !.status = "error", !.readies = j.readies + 1]
      BY <2>2 DEF PromiseFailure, RPCReady, CallType
    <3>2. QED
      BY <2>1, <2>2, <3>1
  <2>3. CASE ~j.onFailure
    <3>1. PromiseFailure(j) = [j EXCEPT !.promise = "failure", !.status = j.status, !.readies = j.readies]
      BY <2>3 DEF PromiseFailure, CallType
    <3>2. QED
      BY <2>1, <2>3, <3>1
  <2>4. QED
    BY <2>2, <2>3
<1>2. k = [j EXCEPT !.promise = "failure", !.status = st, !.readies = n,
                    !.handler = "deleted", !.conn = "freed"]
  BY <1>1 DEF OnError, DeleteThis, CallType
<1>3. st \in {"none", "ok", "error"} /\ n \in Nat
  BY <1>1
<1>4. k \in CallType
  BY ZenonT(40), <1>2, <1>3 DEF CallType
<1>5. /\ k.promise = "failure" /\ k.status = st /\ k.readies = n /\ k.fd = j.fd /\ k.pc = j.pc
      /\ k.onSuccess = j.onSuccess /\ k.onFailure = j.onFailure
      /\ k.handler = "deleted" /\ k.conn = "freed"
      /\ k.connections = j.connections /\ k.requests = j.requests
  BY <1>2 DEF CallType
<1>6. HooksRight(k)
  BY <1>1, <1>4, <1>5, FulfilledHooks
<1>7. QED
  BY <1>4, <1>5, <1>6 DEF Settled

(* onResponseComplete() fulfils the promise with the answer.               *)
LEMMA OnResponseCompleteRight ==
  ASSUME mode \in {"pool", "sync"}, NEW j \in CallType, HooksRight(j),
         j.promise = "pending", j.pc \notin {"start", "done"},
         j.connections = 0, j.requests = 0, mode = "pool" => j.conn = "freed", j.conn # "none",
         NEW k, k = OnResponseComplete(j)
  PROVE  /\ k \in CallType /\ k.promise = "success" /\ k.fd = j.fd /\ k.pc = j.pc
         /\ k.response = j.response /\ k.body = j.body
         /\ Settled(k) /\ HooksRight(k)
<1>1. PICK st \in {"none", "ok", "error"}, n \in Nat :
        /\ PromiseSuccess(j) = [j EXCEPT !.promise = "success", !.status = st, !.readies = n]
        /\ \/ ~j.onSuccess /\ st = j.status /\ n = j.readies
           \/ j.onSuccess /\ n = j.readies + 1
  <2>1. j.status \in {"none", "ok", "error"} /\ j.readies \in Nat /\ j.readies + 1 \in Nat
    BY DEF CallType
  <2>2. CASE j.onSuccess
    <3>1. PICK h : h = [j EXCEPT !.promise = "success"]
      OBVIOUS
    <3>2. PICK st \in {"ok", "error"} : Answered(h) = [h EXCEPT !.status = st, !.readies = @ + 1]
      BY DEF Answered, RPCReady
    <3>3. PromiseSuccess(j) = [j EXCEPT !.promise = "success", !.status = st, !.readies = j.readies + 1]
      BY <2>2, <3>1, <3>2 DEF PromiseSuccess, CallType
    <3>4. QED
      BY <2>1, <2>2, <3>2, <3>3
  <2>3. CASE ~j.onSuccess
    <3>1. PromiseSuccess(j) = [j EXCEPT !.promise = "success", !.status = j.status, !.readies = j.readies]
      BY <2>3 DEF PromiseSuccess, CallType
    <3>2. QED
      BY <2>1, <2>3, <3>1
  <2>4. QED
    BY <2>2, <2>3
<1>2. k = [j EXCEPT !.promise = "success", !.status = st, !.readies = n,
                    !.handler = "deleted", !.conn = "freed"]
  BY <1>1 DEF OnResponseComplete, DeleteThis, CallType
<1>3. st \in {"none", "ok", "error"} /\ n \in Nat
  BY <1>1
<1>4. k \in CallType
  BY ZenonT(40), <1>2, <1>3 DEF CallType
<1>5. /\ k.promise = "success" /\ k.status = st /\ k.readies = n /\ k.fd = j.fd /\ k.pc = j.pc
      /\ k.response = j.response /\ k.body = j.body
      /\ k.onSuccess = j.onSuccess /\ k.onFailure = j.onFailure
      /\ k.handler = "deleted" /\ k.conn = "freed"
      /\ k.connections = j.connections /\ k.requests = j.requests
  BY <1>2 DEF CallType
<1>6. HooksRight(k)
  BY <1>1, <1>4, <1>5, FulfilledHooks
<1>7. QED
  BY <1>4, <1>5, <1>6 DEF Settled

(* What read() may leave of the call: the parser waits for more, has the   *)
(* whole message, or raises.                                               *)
LEMMA ReceivedRight ==
  ASSUME ClientInv, NEW c \in Calls, call[c].promise = "pending", NEW k \in Received(c)
  PROVE  /\ k \in CallType
         /\ k.pc = call[c].pc /\ k.response = call[c].response /\ k.fd = call[c].fd
         /\ k.conn = call[c].conn /\ k.handler = call[c].handler
         /\ k.connections = call[c].connections /\ k.requests = call[c].requests
         /\ k.promise = call[c].promise /\ k.onSuccess = call[c].onSuccess /\ k.onFailure = call[c].onFailure
         /\ k.status = call[c].status /\ k.readies = call[c].readies
         /\ k.parser \in {"header", "body"} => ParserRight(k)
         /\ k.parser = "done" => AnswerRight(k)
<1>1. call[c] \in CallType /\ ParserRight(call[c])
  BY DEF ClientInv, ClientType, CallRight
<1>2. PICK k0, r : k0 = call[c] /\ r = call[c].response
  OBVIOUS
<1>3. /\ r \in AnyResponse /\ r.body \in Nat /\ r.expected \in Int /\ r.sent \in Nat
      /\ r.expected \in {0, r.body, UntilClosed} /\ r.sent <= Heads + r.body
  BY <1>1, <1>2, ResponsesAssumption DEF CallType, AnyResponse
<1>4. k0 \in CallType /\ k0.pos \in Nat /\ k0.body \in Int /\ k0.response = r /\ ParserRight(k0)
  BY <1>1, <1>2 DEF CallType
<1>5. CASE k0.pos = r.sent
  <2>1. k = AtEOF(k0)
    BY <1>2, <1>5 DEF Received
  <2>2. PICK p \in {"done", "raised"} :
          /\ k = [k0 EXCEPT !.parser = p]
          /\ p = "done" => k0.parser = "header" \/ r.expected = UntilClosed
    BY <1>4, <2>1 DEF AtEOF, ParserRight
  <2>3. k \in CallType
    BY <1>4, <2>2 DEF CallType
  <2>4. /\ k.pc = k0.pc /\ k.response = r /\ k.fd = k0.fd /\ k.body = k0.body /\ k.parser = p
        /\ k.conn = k0.conn /\ k.handler = k0.handler
        /\ k.connections = k0.connections /\ k.requests = k0.requests
        /\ k.promise = k0.promise /\ k.onSuccess = k0.onSuccess /\ k.onFailure = k0.onFailure
        /\ k.status = k0.status /\ k.readies = k0.readies
    BY <1>4, <2>2 DEF CallType
  <2>5. p = "done" => AnswerRight(k)
    <3>1. SUFFICES ASSUME p = "done", Delimited(r) PROVE Whole(r) /\ k0.body = r.body
      BY <2>4 DEF AnswerRight
    <3>2. k0.parser = "body"
      BY <1>3, <1>4, <1>5, <3>1 DEF Delimited, ParserRight, Heads
    <3>3. r.expected = UntilClosed
      BY <2>2, <3>1, <3>2
    <3>4. Whole(r)
      BY <3>1, <3>3 DEF Delimited, UntilClosed
    <3>5. k0.body = r.sent - Heads
      BY <1>4, <1>5, <3>2 DEF ParserRight
    <3>6. QED
      BY <1>3, <3>4, <3>5 DEF Whole, Heads
  <2>6. QED
    BY <1>2, <2>2, <2>3, <2>4, <2>5
<1>6. CASE k0.pos # r.sent
  <2>1. PICK n \in 1..(r.sent - k0.pos) : k = Parsed(k0, n)
    BY <1>2, <1>6 DEF Received
  <2>2. PICK rd, ps : rd = k0.pos + n - Heads /\ ps = k0.pos + n
    OBVIOUS
  <2>3. /\ ps \in Nat /\ rd \in Int /\ ps <= r.sent /\ ps = rd + Heads /\ n >= 1 /\ n \in Nat
    BY <1>3, <1>4, <2>1, <2>2 DEF Heads
  <2>4. CASE rd < 0
    <3>1. k = [k0 EXCEPT !.pos = ps]
      BY <2>1, <2>2, <2>4 DEF Parsed
    <3>2. k \in CallType
      BY <1>4, <2>3, <3>1 DEF CallType
    <3>3. /\ k.pc = k0.pc /\ k.response = r /\ k.fd = k0.fd /\ k.parser = k0.parser /\ k.pos = ps
          /\ k.conn = k0.conn /\ k.handler = k0.handler
          /\ k.connections = k0.connections /\ k.requests = k0.requests
          /\ k.promise = k0.promise /\ k.onSuccess = k0.onSuccess /\ k.onFailure = k0.onFailure
          /\ k.status = k0.status /\ k.readies = k0.readies
      BY <1>4, <3>1 DEF CallType
    <3>4. k0.parser = "header"
      BY <1>4, <2>2, <2>3, <2>4 DEF ParserRight, Heads
    <3>5. ParserRight(k)
      BY <2>3, <2>4, <3>3, <3>4 DEF ParserRight, Heads
    <3>6. QED
      BY <1>2, <3>2, <3>3, <3>4, <3>5
  <2>5. CASE rd >= 0
    <3>1. PICK p \in {"done", "body"} :
            /\ k = [k0 EXCEPT !.pos = ps, !.body = rd, !.parser = p]
            /\ p = "done" <=> rd = r.expected \/ (k0.parser = "header" /\ r.expected = 0)
      <4>1. DEFINE complete == rd = r.expected \/ (k0.parser = "header" /\ r.expected = 0)
      <4>2. PICK p : p = IF complete THEN "done" ELSE "body"
        OBVIOUS
      <4>3. k = [[k0 EXCEPT !.pos = @ + n] EXCEPT !.body = rd, !.parser = p]
        BY <1>4, <2>1, <2>2, <2>3, <2>5, <4>2 DEF Parsed
      <4>4. k = [k0 EXCEPT !.pos = ps, !.body = rd, !.parser = p]
        BY <1>4, <2>2, <4>3 DEF CallType
      <4>5. QED
        BY <4>2, <4>4
    <3>2. p \in {"done", "body"}
      BY <3>1
    <3>3. k \in CallType
      BY <1>4, <2>3, <3>1, <3>2 DEF CallType
    <3>4. /\ k.pc = k0.pc /\ k.response = r /\ k.fd = k0.fd /\ k.parser = p /\ k.pos = ps /\ k.body = rd
          /\ k.conn = k0.conn /\ k.handler = k0.handler
          /\ k.connections = k0.connections /\ k.requests = k0.requests
          /\ k.promise = k0.promise /\ k.onSuccess = k0.onSuccess /\ k.onFailure = k0.onFailure
          /\ k.status = k0.status /\ k.readies = k0.readies
      BY <1>4, <3>1 DEF CallType
    <3>5. p = "body" => ParserRight(k)
      <4>1. p = "body" => r.expected # rd /\ r.expected # 0
        BY <1>4, <3>1 DEF ParserRight
      <4>2. QED
        BY <2>3, <2>5, <3>4, <4>1 DEF ParserRight, Heads
    <3>6. p = "done" => AnswerRight(k)
      <4>1. SUFFICES ASSUME p = "done", Delimited(r) PROVE Whole(r) /\ rd = r.body
        BY <3>4 DEF AnswerRight
      <4>2. rd = r.expected
        BY <3>1, <4>1 DEF Delimited, UntilClosed
      <4>3. rd = r.body
        BY <1>3, <2>5, <4>1, <4>2 DEF Delimited, UntilClosed
      <4>4. QED
        BY <1>3, <2>3, <4>3 DEF Whole, Heads
    <3>7. QED
      BY <1>2, <3>2, <3>3, <3>4, <3>5, <3>6
  <2>6. QED
    BY <2>3, <2>4, <2>5
<1>7. QED
  BY <1>5, <1>6

(* What a call keeps while its fields for the hooks, the parser and the    *)
(* connection stay as they are.                                            *)
LEMMA KeptRight ==
  ASSUME ClientInv, ~crashed, NEW c \in Calls, call[c].promise = "pending",
         NEW k \in CallType,
         k.pc = call[c].pc, k.promise = call[c].promise,
         k.onSuccess = call[c].onSuccess, k.onFailure = call[c].onFailure,
         k.status = call[c].status, k.readies = call[c].readies
  PROVE  /\ HooksRight(k)
         /\ k.parser = call[c].parser /\ k.pos = call[c].pos /\ k.body = call[c].body
              /\ k.response = call[c].response => ParserRight(k)
<1>1. CallRight(c)
  BY DEF ClientInv
<1>2. HooksRight(k)
  BY <1>1 DEF CallRight, HooksRight
<1>3. QED
  BY <1>1, <1>2 DEF CallRight, ParserRight

(* The socket is connected, and the connection is made.                    *)
LEMMA ConnectedStep ==
  ASSUME ClientInv, ~crashed, NEW c \in Calls, Connected(c)
  PROVE  ClientInv'
<1>1. call[c] \in CallType /\ Callback("connected", c)
  BY DEF ClientInv, ClientType, Connected
<1>2. call[c].promise = "pending" /\ mode = "pool" /\ Unconnected(call[c])
  BY <1>1, CallbackRight
<1>3. PICK one \in Int : one = 1
  OBVIOUS
<1>4. PICK k : k = [call[c] EXCEPT !.conn = "busy", !.handler = "live",
                                   !.connections = one, !.requests = one]
  OBVIOUS
<1>5. k = ExecuteRequest(call[c])
  BY <1>1, <1>2, <1>3, <1>4 DEF ExecuteRequest, Unconnected, CallType
<1>6. one \in Int
  BY <1>3
<1>7. k \in CallType
  BY <1>1, <1>4, <1>6 DEF CallType
<1>8. /\ k.pc = call[c].pc /\ k.promise = call[c].promise /\ k.fd = call[c].fd
      /\ k.onSuccess = call[c].onSuccess /\ k.onFailure = call[c].onFailure
      /\ k.status = call[c].status /\ k.readies = call[c].readies
      /\ k.parser = call[c].parser /\ k.pos = call[c].pos /\ k.body = call[c].body
      /\ k.response = call[c].response
      /\ k.conn = "busy" /\ k.handler = "live" /\ k.connections = one /\ k.requests = one
  BY <1>1, <1>4 DEF CallType
<1>9. HooksRight(k) /\ ParserRight(k)
  BY <1>2, <1>7, <1>8, KeptRight
<1>10. Busy(k)
  BY <1>2, <1>3, <1>8 DEF Busy
<1>11. /\ call' = [call EXCEPT ![c] = k]
       /\ ev' = RunOnWritable(Fired(ev, round), <<"write", c>>, call[c].fd)
       /\ UNCHANGED <<mode, threadid, mutex, owner, user, crashed>>
  BY <1>5 DEF Connected
<1>12. QED
  BY <1>1, <1>2, <1>7, <1>8, <1>9, <1>10, <1>11, Rearmed

(* write() sends some of the request, and waits for the answer after all of it. *)
LEMMA WriteStep ==
  ASSUME ClientInv, ~crashed, NEW c \in Calls, Write(c)
  PROVE  ClientInv'
<1>1. call[c] \in CallType /\ call \in [Calls -> CallType] /\ Callback("write", c)
  BY DEF ClientInv, ClientType, Write
<1>2. call[c].promise = "pending" /\ Busy(call[c])
  BY <1>1, CallbackRight
<1>3. PICK n \in 1..call[c].unsent :
        /\ call' = [call EXCEPT ![c].unsent = @ - n]
        /\ \/ ev' = RunOnWritable(Fired(ev, round), <<"write", c>>, call[c].fd)
           \/ ev' = RunOnReadable(Fired(ev, round), <<"read", c>>, call[c].fd)
  BY DEF Write
<1>4. PICK u : u = call[c].unsent - n
  OBVIOUS
<1>5. u \in Nat
  BY <1>1, <1>3, <1>4 DEF CallType
<1>6. PICK k : k = [call[c] EXCEPT !.unsent = u]
  OBVIOUS
<1>7. k \in CallType
  BY <1>1, <1>5, <1>6 DEF CallType
<1>8. /\ k.pc = call[c].pc /\ k.promise = call[c].promise /\ k.fd = call[c].fd
      /\ k.onSuccess = call[c].onSuccess /\ k.onFailure = call[c].onFailure
      /\ k.status = call[c].status /\ k.readies = call[c].readies
      /\ k.parser = call[c].parser /\ k.pos = call[c].pos /\ k.body = call[c].body
      /\ k.response = call[c].response
      /\ k.conn = call[c].conn /\ k.handler = call[c].handler
      /\ k.connections = call[c].connections /\ k.requests = call[c].requests
  BY <1>1, <1>6 DEF CallType
<1>9. HooksRight(k) /\ ParserRight(k)
  BY <1>2, <1>7, <1>8, KeptRight
<1>10. Busy(k)
  BY <1>2, <1>8 DEF Busy
<1>11. call' = [call EXCEPT ![c] = k] /\ UNCHANGED <<mode, threadid, mutex, owner, user, crashed>>
  BY <1>1, <1>3, <1>4, <1>6 DEF Write
<1>12. CASE ev' = RunOnWritable(Fired(ev, round), <<"write", c>>, call[c].fd)
  BY <1>1, <1>2, <1>7, <1>8, <1>9, <1>10, <1>11, <1>12, Rearmed
<1>13. CASE ev' = RunOnReadable(Fired(ev, round), <<"read", c>>, call[c].fd)
  BY <1>1, <1>2, <1>7, <1>8, <1>9, <1>10, <1>11, <1>13, Rearmed
<1>14. QED
  BY <1>3, <1>12, <1>13

(* read() took some of the answer, and waits for more.                     *)
LEMMA ReadMoreStep ==
  ASSUME ClientInv, ~crashed, NEW c \in Calls, ReadMore(c)
  PROVE  ClientInv'
<1>1. call[c] \in CallType /\ Callback("read", c)
  BY DEF ClientInv, ClientType, ReadMore
<1>2. call[c].promise = "pending" /\ Busy(call[c])
  BY <1>1, CallbackRight
<1>3. PICK k \in Received(c) :
        k.parser \in {"header", "body"} /\ call' = [call EXCEPT ![c] = k]
  BY DEF ReadMore
<1>4. /\ k \in CallType /\ ParserRight(k)
      /\ k.pc = call[c].pc /\ k.promise = call[c].promise /\ k.fd = call[c].fd
      /\ k.onSuccess = call[c].onSuccess /\ k.onFailure = call[c].onFailure
      /\ k.status = call[c].status /\ k.readies = call[c].readies
      /\ k.conn = call[c].conn /\ k.handler = call[c].handler
      /\ k.connections = call[c].connections /\ k.requests = call[c].requests
  BY <1>2, <1>3, ReceivedRight
<1>5. HooksRight(k)
  BY <1>2, <1>4, KeptRight
<1>6. Busy(k)
  BY <1>2, <1>4 DEF Busy
<1>7. /\ ev' = RunOnReadable(Fired(ev, round), <<"read", c>>, call[c].fd)
      /\ UNCHANGED <<mode, threadid, mutex, owner, user, crashed>>
  BY DEF ReadMore
<1>8. QED
  BY <1>1, <1>2, <1>3, <1>4, <1>5, <1>6, <1>7, Rearmed

(* read() found nothing to read.                                           *)
LEMMA ReadWouldBlockStep ==
  ASSUME ClientInv, ~crashed, NEW c \in Calls, ReadWouldBlock(c)
  PROVE  ClientInv'
<1>1. call[c] \in CallType /\ call \in [Calls -> CallType] /\ Callback("read", c)
  BY DEF ClientInv, ClientType, ReadWouldBlock
<1>2. call[c].promise = "pending" /\ Busy(call[c])
  BY <1>1, CallbackRight
<1>3. PICK b : b = call[c].blocked + 1
  OBVIOUS
<1>4. b \in Nat
  BY <1>1, <1>3 DEF CallType
<1>5. PICK k : k = [call[c] EXCEPT !.blocked = b]
  OBVIOUS
<1>6. k \in CallType
  BY <1>1, <1>4, <1>5 DEF CallType
<1>7. /\ k.pc = call[c].pc /\ k.promise = call[c].promise /\ k.fd = call[c].fd
      /\ k.onSuccess = call[c].onSuccess /\ k.onFailure = call[c].onFailure
      /\ k.status = call[c].status /\ k.readies = call[c].readies
      /\ k.parser = call[c].parser /\ k.pos = call[c].pos /\ k.body = call[c].body
      /\ k.response = call[c].response
      /\ k.conn = call[c].conn /\ k.handler = call[c].handler
      /\ k.connections = call[c].connections /\ k.requests = call[c].requests
  BY <1>1, <1>5 DEF CallType
<1>8. HooksRight(k) /\ ParserRight(k)
  BY <1>2, <1>6, <1>7, KeptRight
<1>9. Busy(k)
  BY <1>2, <1>7 DEF Busy
<1>10. /\ call' = [call EXCEPT ![c] = k]
       /\ ev' = RunOnReadable(Fired(ev, round), <<"read", c>>, call[c].fd)
       /\ UNCHANGED <<mode, threadid, mutex, owner, user, crashed>>
  BY <1>1, <1>3, <1>5 DEF ReadWouldBlock
<1>11. QED
  BY <1>1, <1>2, <1>6, <1>7, <1>8, <1>9, <1>10, Rearmed

(* read() took the last of the answer, and closes the socket.              *)
LEMMA ReadDoneStep ==
  ASSUME ClientInv, ~crashed, NEW c \in Calls, ReadDone(c)
  PROVE  ClientInv'
<1>1. /\ call[c] \in CallType /\ Callback("read", c) /\ mode \in {"pool", "sync"}
      /\ CloseEffect(c, Fired(ev, round)) /\ UNCHANGED <<mode, threadid, mutex, user, crashed>>
      /\ crashed \in BOOLEAN
  BY DEF ClientInv, ClientType, ReadDone
<1>2. call[c].promise = "pending" /\ Busy(call[c]) /\ call[c].pc \notin {"start", "done"}
  BY <1>1, CallbackRight
<1>3. PICK h \in Received(c) :
        /\ h.parser = "done"
        /\ call' = [call EXCEPT ![c] = OnResponseComplete(ParkConnection(Finished(h)))]
  BY DEF ReadDone
<1>4. /\ h \in CallType /\ AnswerRight(h)
      /\ h.pc = call[c].pc /\ h.promise = call[c].promise /\ h.fd = call[c].fd
      /\ h.onSuccess = call[c].onSuccess /\ h.onFailure = call[c].onFailure
      /\ h.status = call[c].status /\ h.readies = call[c].readies
      /\ h.conn = call[c].conn /\ h.handler = call[c].handler
      /\ h.connections = call[c].connections /\ h.requests = call[c].requests
  BY <1>2, <1>3, ReceivedRight
<1>5. Busy(h) /\ HooksRight(h)
  BY <1>2, <1>4, KeptRight DEF Busy
<1>6. PICK j, k : j = ParkConnection(Finished(h)) /\ k = OnResponseComplete(j)
  OBVIOUS
<1>7. /\ j \in CallType /\ j.connections = 0 /\ j.requests = 0
      /\ mode = "pool" => j.conn = "freed"
      /\ j.conn # "none"
      /\ j.pc = h.pc /\ j.response = h.response /\ j.fd = h.fd /\ j.body = h.body
      /\ j.promise = h.promise /\ j.onSuccess = h.onSuccess /\ j.onFailure = h.onFailure
      /\ j.status = h.status /\ j.readies = h.readies
  BY <1>1, <1>4, <1>5, <1>6, FinishedRight
<1>8. HooksRight(j)
  BY <1>5, <1>7 DEF HooksRight
<1>9. /\ k \in CallType /\ k.promise = "success" /\ k.fd = j.fd /\ k.pc = j.pc
      /\ k.response = j.response /\ k.body = j.body /\ Settled(k) /\ HooksRight(k)
  BY <1>1, <1>2, <1>4, <1>6, <1>7, <1>8, OnResponseCompleteRight
<1>10. AnswerRight(k)
  BY <1>4, <1>7, <1>9 DEF AnswerRight
<1>11. call' = [call EXCEPT ![c] = k]
  BY <1>3, <1>6
<1>12. QED
  BY <1>1, <1>4, <1>7, <1>9, <1>10, <1>11, SocketClosed

(* error() of a connection, with or without the use of the freed handler.  *)
LEMMA ErrorStep ==
  ASSUME ClientInv, ~crashed, NEW c \in Calls, NEW kind \in {"write", "read"}, Callback(kind, c),
         CloseEffect(c, Fired(ev, round)), Error(c), UNCHANGED <<mode, threadid, mutex, user>>
  PROVE  ClientInv'
<1>1. call[c] \in CallType /\ mode \in {"pool", "sync"} /\ crashed \in BOOLEAN /\ CallRight(c)
  BY DEF ClientInv, ClientType
<1>2. call[c].promise = "pending" /\ Busy(call[c]) /\ call[c].pc \notin {"start", "done"}
  BY CallbackRight
<1>3. PICK j : j = ParkConnection(Finished(call[c]))
  OBVIOUS
<1>4. /\ j \in CallType /\ j.connections = 0 /\ j.requests = 0
      /\ mode = "pool" => j.conn = "freed"
      /\ j.conn # "none"
      /\ j.pc = call[c].pc /\ j.response = call[c].response /\ j.fd = call[c].fd /\ j.body = call[c].body
      /\ j.parser = call[c].parser /\ j.pos = call[c].pos
      /\ j.promise = call[c].promise /\ j.onSuccess = call[c].onSuccess /\ j.onFailure = call[c].onFailure
      /\ j.status = call[c].status /\ j.readies = call[c].readies
  BY <1>1, <1>2, <1>3, FinishedRight
<1>5. HooksRight(j) /\ ParserRight(j)
  BY <1>2, <1>4, KeptRight
<1>6. CASE call' = [call EXCEPT ![c] = OnError(j)] /\ UNCHANGED crashed
  <2>1. PICK k : k = OnError(j)
    OBVIOUS
  <2>2. /\ k \in CallType /\ k.promise = "failure" /\ k.fd = j.fd /\ k.pc = j.pc
        /\ Settled(k) /\ HooksRight(k)
    BY <1>1, <1>2, <1>4, <1>5, <2>1, OnErrorRight
  <2>3. call' = [call EXCEPT ![c] = k]
    BY <1>6, <2>1
  <2>4. QED
    BY <1>1, <1>4, <1>6, <2>2, <2>3, SocketClosed
<1>7. CASE call' = [call EXCEPT ![c] = j] /\ crashed' = TRUE
  BY <1>1, <1>2, <1>4, <1>5, <1>7, SocketClosed
<1>8. QED
  BY <1>3, <1>6, <1>7 DEF Error

-----------------------------------------------------------------------------
(* The invariant *)

(* The invariant holds at first.                                           *)
LEMMA ClientInit == Init => ClientInv
<1>1. SUFFICES ASSUME Init PROVE ClientInv
  OBVIOUS
<1>2. PICK r0 \in Responses :
        call = [c \in Calls |->
                 IF c = FirstCall THEN NewCall(r0)
                 ELSE [NewCall(Usual) EXCEPT !.pc = IF user = "done" THEN "start" ELSE "done"]]
  BY <1>1 DEF Init
<1>3. /\ mode \in {"pool", "sync"} /\ user \in {"register", "done"}
      /\ mode = "sync" => user = "done"
      /\ ev = EmptyLoop /\ round = Polling /\ mutex = "free" /\ crashed = FALSE
      /\ owner = [f \in Fds |-> IF f = UserFD THEN "user" ELSE "free"]
  BY <1>1 DEF Init
<1>4. FirstCall \in Calls
  BY CallsAssumption DEF FirstCall
<1>5. threadid \in Calls
  BY <1>1, <1>4 DEF Init
<1>6. <<>> \in Seq(TaskType) /\ NoFD \in AnyFd
  BY DEF AnyFd
<1>7. ASSUME NEW r \in AnyResponse
      PROVE  /\ NewCall(r) \in CallType
             /\ [NewCall(r) EXCEPT !.pc = "start"] \in CallType
             /\ [NewCall(r) EXCEPT !.pc = "done"] \in CallType
  <2>1. NewCall(r) \in CallType
    BY <1>6, CallsAssumption DEF NewCall, CallType
  <2>2. QED
    BY <2>1 DEF CallType
<1>8. \A c \in Calls : \E r \in AnyResponse : \E p \in {"start", "done"} :
        /\ call[c] = [NewCall(r) EXCEPT !.pc = p] /\ call[c] \in CallType
        /\ p = "done" => user # "done"
  <2>1. SUFFICES ASSUME NEW c \in Calls
                 PROVE  \E r \in AnyResponse : \E p \in {"start", "done"} :
                          /\ call[c] = [NewCall(r) EXCEPT !.pc = p] /\ call[c] \in CallType
                          /\ p = "done" => user # "done"
    OBVIOUS
  <2>2. r0 \in AnyResponse /\ Usual \in AnyResponse
    BY <1>2 DEF AnyResponse
  <2>3. NewCall(r0) = [NewCall(r0) EXCEPT !.pc = "start"]
    <3>1. PICK k : k = NewCall(r0)
      OBVIOUS
    <3>2. k \in CallType /\ k.pc = "start"
      BY <1>7, <2>2, <3>1 DEF NewCall
    <3>3. k = [k EXCEPT !.pc = "start"]
      BY <3>2 DEF CallType
    <3>4. QED
      BY <3>1, <3>3
  <2>4. \/ call[c] = [NewCall(r0) EXCEPT !.pc = "start"]
        \/ call[c] = [NewCall(Usual) EXCEPT !.pc = "start"] /\ user = "done"
        \/ call[c] = [NewCall(Usual) EXCEPT !.pc = "done"] /\ user # "done"
    BY <1>2, <2>3
  <2>5. QED
    BY <1>7, <2>2, <2>4
<1>9. ASSUME NEW c \in Calls
      PROVE  /\ call[c] \in CallType /\ call[c].pc \in {"start", "done"}
             /\ mode = "sync" => call[c].pc = "start"
             /\ call[c].pos = 0 /\ call[c].conn = "none" /\ call[c].handler = "none"
             /\ call[c].parser = "header" /\ call[c].promise = "pending" /\ call[c].status = "none"
             /\ call[c].readies = 0 /\ call[c].connections = 0 /\ call[c].requests = 0
             /\ ~call[c].onSuccess /\ ~call[c].onFailure
  <2>1. PICK r \in AnyResponse, p \in {"start", "done"} :
          /\ call[c] = [NewCall(r) EXCEPT !.pc = p] /\ call[c] \in CallType
          /\ p = "done" => user # "done"
    BY <1>8
  <2>2. QED
    BY <1>3, <2>1 DEF NewCall
<1>10. call \in [Calls -> CallType]
  BY <1>2, <1>9
<1>11. EmptyLoop \in LoopType /\ Polling \in RoundType
  BY <1>6 DEF EmptyLoop, LoopType, CallbackType, Polling, RoundType
<1>12. /\ ev.runq = <<>> /\ ev.read = {} /\ ev.write = {} /\ ev.num = 0
       /\ \A f \in Fds : ev.callbacks[f] = NoCallback
       /\ round.phase = "select" /\ round.read = {} /\ round.write = {} /\ round.tasks = <<>>
  BY <1>3 DEF EmptyLoop, Polling
<1>13. \A f \in Fds : owner[f] = IF f = UserFD THEN "user" ELSE "free"
  BY <1>3
<1>14. UserFD \in Fds /\ "user" \notin Calls /\ "free" \notin Calls
  BY UserFDRight, CallsAssumption
<1>15. ClientType
  <2>1. owner \in [Fds -> Owners \cup {"free"}]
    BY <1>3 DEF Owners
  <2>2. QED
    BY <1>3, <1>5, <1>10, <1>11, <2>1 DEF ClientType
<1>16. Len(Pending) = 0
  BY <1>6, <1>12, ConcatEmptySeq DEF Pending
<1>17. RoundRight /\ CallbacksRight /\ TasksRight /\ OneTask
  BY <1>12, <1>16 DEF RoundRight, CallbacksRight, TasksRight, OneTask
<1>18. OwnersRight
  BY <1>13, <1>14 DEF OwnersRight
<1>19. UserRight
  BY <1>3, <1>12, <1>13, <1>14, <1>16 DEF UserRight
<1>20. SyncRight
  BY <1>3, <1>9, <1>12, <1>13, <1>14 DEF SyncRight
<1>21. ASSUME NEW c \in Calls
       PROVE  CallRight(c) /\ ResourcesRight(c)
  <2>1. ~Owns(c)
    BY <1>13, <1>14 DEF Owns
  <2>2. HooksRight(call[c])
    BY <1>3, <1>9 DEF HooksRight
  <2>3. call[c].response.sent \in Nat
    BY <1>9, ResponsesAssumption DEF CallType, AnyResponse
  <2>4. ParserRight(call[c])
    BY <1>9, <2>3 DEF ParserRight, Heads
  <2>5. CallRight(c)
    BY <1>9, <2>1, <2>2, <2>4 DEF CallRight
  <2>6. <<"connected", c>> # NoCallback /\ <<"write", c>> # NoCallback /\ <<"read", c>> # NoCallback
    BY DEF NoCallback
  <2>7. Unconnected(call[c]) /\ call[c].promise = "pending"
    BY <1>9 DEF Unconnected
  <2>8. \A f \in Fds : ev.callbacks[f] \notin {<<"connected", c>>, <<"write", c>>, <<"read", c>>}
    BY <1>12, <2>6
  <2>9. \A i \in 1..Len(Pending) : FALSE
    BY <1>16
  <2>10. ResourcesRight(c)
    BY <2>7, <2>8, <2>9 DEF ResourcesRight
  <2>11. QED
    BY <2>5, <2>10
<1>22. QED
  BY <1>15, <1>17, <1>18, <1>19, <1>20, <1>21 DEF ClientInv, LoopInv

(* Every step keeps the invariant.                                         *)
LEMMA ClientNext == ClientInv /\ [Next]_vars => ClientInv'
<1>1. SUFFICES ASSUME ClientInv, [Next]_vars PROVE ClientInv'
  OBVIOUS
<1>2. CASE UNCHANGED vars
  <2>1. Pending' = Pending
    BY <1>2 DEF vars, Pending
  <2>2. ClientType' /\ RoundRight' /\ CallbacksRight' /\ TasksRight' /\ OneTask' /\ OwnersRight' /\ UserRight'
    BY <1>1, <1>2, <2>1 DEF ClientInv, LoopInv, vars, ClientType, RoundRight, CallbacksRight, TasksRight,
         TaskRight, OneTask, OwnersRight, UserRight
  <2>3. SyncRight'
    BY <1>1, <1>2 DEF ClientInv, LoopInv, vars, SyncRight
  <2>4. \A c \in Calls : CallRight(c)' /\ (~crashed' => ResourcesRight(c)')
    BY <1>1, <1>2, <2>1 DEF ClientInv, vars, CallRight, Owns, HooksRight, ParserRight, AnswerRight,
         ResourcesRight, Settled, Unconnected, Busy
  <2>5. QED
    BY <2>2, <2>3, <2>4 DEF ClientInv, LoopInv
<1>3. CASE Next
  <2>1. ~crashed
    BY <1>3 DEF Next
  <2>2. CASE LoopStep
    <3>1. CASE Poll \/ OnRunQWakeup \/ TakeTasks \/ RunTask \/ OtherCallback
      BY <1>1, <2>1, <3>1, PollStep, OnRunQWakeupStep, TakeTasksStep, RunTaskStep, OtherCallbackStep
    <3>2. ASSUME NEW c \in Calls,
                 Connected(c) \/ Write(c) \/ WriteFails(c) \/ ReadMore(c)
                   \/ ReadWouldBlock(c) \/ ReadDone(c) \/ ReadFails(c)
          PROVE  ClientInv'
      <4>1. CASE WriteFails(c) \/ ReadFails(c)
        BY <1>1, <2>1, <4>1, ErrorStep DEF WriteFails, ReadFails
      <4>2. QED
        BY <1>1, <2>1, <3>2, <4>1, ConnectedStep, WriteStep, ReadMoreStep, ReadWouldBlockStep, ReadDoneStep
    <3>3. QED
      BY <2>2, <3>1, <3>2 DEF LoopStep
  <2>3. CASE UserStep
    BY <1>1, <2>1, <2>3, UserRegisterStep, UserCancelStep, UserCloseStep DEF UserStep
  <2>4. ASSUME NEW c \in Calls, CallStep(c)
        PROVE  ClientInv'
    BY <1>1, <2>1, <2>4, CallFailsStep, ConnectAsyncStep, WakeupStep, HookSuccessStep, HookFailureStep,
       WaitRPCStep, SyncFailsStep, SyncConnectsStep, RunOnceReturnsStep, WaitAndGetStep DEF CallStep
  <2>5. QED
    BY <1>3, <2>2, <2>3, <2>4 DEF Next
<1>4. QED
  BY <1>1, <1>2, <1>3

(* The invariant always holds.                                             *)
LEMMA ClientInvariant == Spec => []ClientInv
<1>1. QED
  BY ClientInit, ClientNext, PTL DEF Spec

(* A callback and a task always belong to the socket that has the          *)
(* descriptor, for any number of calls that open and close sockets while   *)
(* the loop runs (EventLoop::cancelFD, HTTPClientConnection::close).       *)
THEOREM CallbacksOwnedHolds == Spec => []CallbacksOwned
<1>1. ClientInv => CallbacksOwned
  <2>1. SUFFICES ASSUME ClientInv PROVE CallbacksOwned
    OBVIOUS
  <2>2. ClientType /\ LoopInv
    BY <2>1 DEF ClientInv
  <2>3. \A f \in Fds : ev.callbacks[f] # NoCallback => owner[f] = ev.callbacks[f][2]
    BY <2>2 DEF LoopInv, CallbacksRight
  <2>4. \A f \in Fds : owner[f] = "free" => f \notin ev.read \cup ev.write
    BY <2>1, FreeUnused
  <2>5. ASSUME NEW t \in Range(ev.runq) \cup Range(round.tasks)
        PROVE  owner[t[4]] = t[3]
    <3>1. ev.runq \in Seq(TaskType) /\ round.tasks \in Seq(TaskType)
      BY <2>2 DEF ClientType, LoopType, RoundType
    <3>2. PICK a, b : a = round.tasks /\ b = ev.runq
      OBVIOUS
    <3>3. a \in Seq(TaskType) /\ b \in Seq(TaskType) /\ Pending = a \o b
      BY <3>1, <3>2 DEF Pending
    <3>4. \E i \in 1..Len(Pending) : Pending[i] = t
      <4>1. CASE t \in Range(b)
        <5>1. PICK i \in 1..Len(b) : b[i] = t
          BY <3>3, <4>1 DEF Range
        <5>2. Len(a) + i \in 1..Len(Pending) /\ Pending[Len(a) + i] = t
          BY <3>3, <5>1, ConcatProperties
        <5>3. QED
          BY <5>2
      <4>2. CASE t \in Range(a)
        <5>1. PICK i \in 1..Len(a) : a[i] = t
          BY <3>3, <4>2 DEF Range
        <5>2. i \in 1..Len(Pending) /\ Pending[i] = t
          BY <3>3, <5>1, ConcatProperties
        <5>3. QED
          BY <5>2
      <4>3. QED
        BY <2>5, <3>2, <4>1, <4>2
    <3>5. QED
      BY <2>2, <3>4 DEF LoopInv, TasksRight, TaskRight
  <2>6. mode = "sync" => ev.num = Cardinality(ev.read) + Cardinality(ev.write)
    <3>1. Cardinality({}) = 0 /\ \A f \in Fds : Cardinality({f}) = 1
      BY FS_EmptySet, FS_Singleton
    <3>2. SUFFICES ASSUME mode = "sync"
                   PROVE  ev.num = Cardinality(ev.read) + Cardinality(ev.write)
      OBVIOUS
    <3>3. SyncRight
      BY <2>2 DEF LoopInv
    <3>4. CASE ev.read = {} /\ ev.write = {} /\ ev.num = 0
      BY <3>1, <3>4
    <3>5. ASSUME NEW f \in Fds, ev.read = {f} /\ ev.write = {} /\ ev.num = 1
          PROVE  ev.num = Cardinality(ev.read) + Cardinality(ev.write)
      BY <3>1, <3>5
    <3>6. ASSUME NEW f \in Fds, ev.read = {} /\ ev.write = {f} /\ ev.num = 1
          PROVE  ev.num = Cardinality(ev.read) + Cardinality(ev.write)
      BY <3>1, <3>6
    <3>7. QED
      BY <3>2, <3>3, <3>4, <3>5, <3>6 DEF SyncRight
  <2>7. QED
    BY <2>3, <2>4, <2>5, <2>6 DEF CallbacksOwned
<1>2. QED
  BY <1>1, ClientInvariant, PTL

(* Every call settles once, with the whole body when the message says how  *)
(* long it is, and leaves no connection, handler, descriptor or count      *)
(* behind, whatever fails and in whatever order the loop and the threads   *)
(* of the calls run (HTTPClientConnection, HTTPConnectionPool,             *)
(* HTTPRPCClient).                                                         *)
THEOREM CallsSettleHolds == Spec => []CallsSettle
<1>1. ClientInv => CallsSettle
  <2>1. SUFFICES ASSUME ClientInv PROVE CallsSettle
    OBVIOUS
  <2>2. ASSUME NEW c \in Calls
        PROVE  /\ call[c].readies <= 1
               /\ call[c].status = "ok" => AnswerRight(call[c])
    <3>1. CallRight(c) /\ mode \in {"pool", "sync"}
      BY <2>1 DEF ClientInv, ClientType
    <3>2. QED
      BY <3>1 DEF CallRight, HooksRight
  <2>3. AnswersWhole
    BY <2>2 DEF AnswersWhole, AnswerRight
  <2>4. ASSUME AllDone, ~crashed, NEW c \in Calls
        PROVE  /\ call[c].conn \in {"none", "freed"} /\ call[c].handler \in {"none", "deleted"}
               /\ call[c].connections = 0 /\ call[c].requests = 0
               /\ \A f \in Fds : owner[f] # c
    <3>1. CallRight(c) /\ ResourcesRight(c) /\ call[c].pc = "done"
      BY <2>1, <2>4 DEF ClientInv, AllDone
    <3>2. Settled(call[c]) \/ Unconnected(call[c])
      BY <3>1 DEF ResourcesRight
    <3>3. ~Owns(c)
      BY <3>1 DEF CallRight
    <3>4. QED
      BY <3>2, <3>3 DEF Settled, Unconnected, Owns
  <2>5. NothingLeaks
    BY <2>4 DEF NothingLeaks
  <2>6. QED
    BY <2>3, <2>5 DEF CallsSettle
<1>2. QED
  BY <1>1, ClientInvariant, PTL
=============================================================================
