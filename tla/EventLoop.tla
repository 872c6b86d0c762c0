----------------------------- MODULE EventLoop -----------------------------
(***************************************************************************)
(* stx::thread::EventLoop.  The record ev holds the members of the loop,   *)
(* the record round the local variables of poll(): the descriptors that    *)
(* select() found ready, and the tasks that onRunQWakeup() has taken out   *)
(* of the queue.  Between select() and a callback the descriptor may have  *)
(* been cancelled.  What a task or a callback does is up to the module     *)
(* that uses the loop.                                                     *)
(***************************************************************************)
EXTENDS Integers, Sequences, FiniteSets

CONSTANT Fds              \* the descriptors, small integers

ASSUME FdsAssumption == Fds # {} /\ Fds \subseteq Nat

NoCallback == <<"none">>

EmptyLoop ==
  [runq |-> <<>>,         \* runq_
   pipe |-> FALSE,        \* runq_wakeup_pipe_ can be read
   read |-> {}, write |-> {},                 \* op_read_, op_write_
   callbacks |-> [fd \in Fds |-> NoCallback],
   num |-> 0]             \* num_fds_

Polling == [phase |-> "select", read |-> {}, write |-> {}, tasks |-> <<>>]

(* appendToRunQ(), up to the unlock; the caller writes to the pipe after it *)
AppendToRunQ(ev, task) == [ev EXCEPT !.runq = Append(@, task)]
WakeupPipe(ev) == [ev EXCEPT !.pipe = TRUE]

RunOnReadable(ev, task, fd) ==
  [ev EXCEPT !.read = @ \cup {fd}, !.num = @ + 1, !.callbacks[fd] = task]
RunOnWritable(ev, task, fd) ==
  [ev EXCEPT !.write = @ \cup {fd}, !.num = @ + 1, !.callbacks[fd] = task]

(* A plausible bug: the descriptor is not taken out of the sets *)
CancelFDKeeps(ev, fd) == [ev EXCEPT !.callbacks[fd] = NoCallback]

CancelFD(ev, fd) ==
  [ev EXCEPT !.num = IF fd \in ev.read \cup ev.write THEN @ - 1 ELSE @,
             !.read = @ \ {fd}, !.write = @ \ {fd}, !.callbacks[fd] = NoCallback]

(* select() returns: r and w are ready, and the pipe if it can be read *)
Select(ev, r, w) ==
  [Polling EXCEPT !.phase = IF ev.pipe THEN "drain" ELSE "fds", !.read = r, !.write = w]

(* The two halves of onRunQWakeup() *)
DrainPipe(ev) == [ev EXCEPT !.pipe = FALSE]
Splice(ev, round) == [round EXCEPT !.phase = "tasks", !.tasks = ev.runq]

(* The next descriptor of the loop over the ready ones *)
Ready(round) == round.read \cup round.write
NextFD(round) == CHOOSE fd \in Ready(round) : \A g \in Ready(round) : fd <= g

(* Its bit is cleared before its callback is called; whether it was still  *)
(* set does not matter.                                                    *)
Fired(ev, round) ==
  LET fd == NextFD(round)
  IN IF fd \in round.read THEN [ev EXCEPT !.read = @ \ {fd}, !.num = @ - 1]
                          ELSE [ev EXCEPT !.write = @ \ {fd}, !.num = @ - 1]
Passed(round) ==
  [round EXCEPT !.read = @ \ {NextFD(round)}, !.write = @ \ {NextFD(round)}]

(* From the last task to the descriptors, and from the last of them back to *)
(* select()                                                                *)
Passing(round) ==
  IF round.tasks # <<>> THEN round
  ELSE IF Ready(round) # {} THEN [round EXCEPT !.phase = "fds"]
  ELSE Polling

(* runOnce() returns: nothing to wait for *)
NothingToDo(ev) == ev.runq = <<>> /\ ev.num = 0
=============================================================================
