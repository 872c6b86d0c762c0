------------------------------- MODULE Future -------------------------------
(***************************************************************************)
(* stx::Promise and stx::Future: one PromiseState shared by the threads    *)
(* that may fulfil the promise, the threads that wait for it and the       *)
(* clients that attach callbacks.  success() and failure() set the result  *)
(* under the mutex, then, after the unlock, notify and read the callback   *)
(* slots.  A callback attached to a ready future runs at once, inside the  *)
(* critical section of the call that attaches it.                          *)
(***************************************************************************)
EXTENDS Naturals

CONSTANTS
    Producers,     \* threads that call success() or failure() once
    Waiters,       \* threads that call waitAndGet()
    TimedWaiters,  \* threads that call waitFor()
    Clients,       \* threads that attach callbacks
    ReadyClients,  \* those of them that use onReady(); the others call
                   \*   onSuccess() and then onFailure()
    None

ASSUME FutureAssumption ==
    /\ ReadyClients \subseteq Clients /\ None \notin Clients
    /\ Producers \cap (Waiters \cup TimedWaiters \cup Clients) = {}
    /\ Waiters \cap (TimedWaiters \cup Clients) = {}
    /\ TimedWaiters \cap Clients = {}

VARIABLES
    ready, status,           \* of the PromiseState
    on_success, on_failure,  \* the slots: a client's callback, or None
    pc,                      \* where each thread is
    got,                     \* what wait(), waitFor() and get() returned
    calls                    \* history: how often each client was called back

state == <<ready, status, on_success, on_failure>>
vars == <<state, pc, got, calls>>

Threads == Producers \cup Waiters \cup TimedWaiters \cup Clients

\* Types of the promise's state and of its users: nobody is ever given "get()
\* called on pending future".
TypeOK ==
    /\ ready \in BOOLEAN
    /\ status \in {"success", "error"}
    /\ on_success \in Clients \cup {None} /\ on_failure \in Clients \cup {None}
    /\ pc \in [Threads -> {"start", "notify", "callback", "asleep", "get",
                           "second", "done", "raised"}]
    /\ got \in [Waiters \cup TimedWaiters ->
                   {"nothing", "success", "error", "true", "false"}]
    /\ calls \in [Clients -> Nat]

Init ==
    /\ ready = FALSE /\ status = "success"
    /\ on_success = None /\ on_failure = None
    /\ pc = [t \in Threads |-> "start"]
    /\ got = [t \in Waiters \cup TimedWaiters |-> "nothing"]
    /\ calls = [c \in Clients |-> 0]

Goto(t, l) == pc' = [pc EXCEPT ![t] = l]

-----------------------------------------------------------------------------
(* Promise                                                                 *)

\* success() or failure(), up to the unlock.
Fulfil(p) ==
    /\ pc[p] = "start"
    /\ \/ ready /\ Goto(p, "raised") /\ UNCHANGED <<ready, status>>
       \/ \E s \in {"success", "error"} :
             /\ ~ready
             /\ status' = s /\ ready' = TRUE
             /\ Goto(p, "notify")
    /\ UNCHANGED <<on_success, on_failure, got, calls>>

\* cv.notify_all()
NotifyAll(p) ==
    /\ pc[p] = "notify"
    /\ pc' = [t \in Threads |-> CASE t = p -> "callback"
                                  [] pc[t] = "asleep" -> "get"
                                  [] OTHER -> pc[t]]
    /\ UNCHANGED <<state, got, calls>>

Call(c) == calls' = [calls EXCEPT ![c] = @ + 1]
CallIfSet(c) == IF c = None THEN UNCHANGED calls ELSE Call(c)

\* The slot of the result is read, with the mutex free.
RunCallback(p) ==
    /\ pc[p] = "callback"
    /\ CallIfSet(IF status = "success" THEN on_success ELSE on_failure)
    /\ Goto(p, "done")
    /\ UNCHANGED <<state, got>>

-----------------------------------------------------------------------------
(* Future                                                                  *)

\* wait(): sleep while the result is not there.
Wait(w) ==
    /\ pc[w] = "start"
    /\ Goto(w, IF ready THEN "get" ELSE "asleep")
    /\ UNCHANGED <<state, got, calls>>

\* wait() tests ready again; then get(), which raises the error, if it is one,
\* and would raise "get() called on pending future".
WaitReturns(w) ==
    /\ pc[w] = "get"
    /\ \/ ~ready /\ Goto(w, "asleep") /\ UNCHANGED got
       \/ ready /\ got' = [got EXCEPT ![w] = status] /\ Goto(w, "done")
    /\ UNCHANGED <<state, calls>>

\* waitFor(): one wait, not a loop.
WaitFor(w) ==
    /\ pc[w] = "start"
    /\ \/ ready /\ got' = [got EXCEPT ![w] = "true"] /\ Goto(w, "done")
       \/ ~ready /\ Goto(w, "asleep") /\ UNCHANGED got
    /\ UNCHANGED <<state, calls>>

WaitForReturns(w) ==
    /\ pc[w] = "get"
    /\ got' = [got EXCEPT ![w] = IF ready THEN "true" ELSE "false"]
    /\ Goto(w, "done")
    /\ UNCHANGED <<state, calls>>

\* A wait ends without a notification; for waitFor() this is also the timeout.
SpuriousWakeup(w) ==
    /\ pc[w] = "asleep"
    /\ Goto(w, "get")
    /\ UNCHANGED <<state, got, calls>>

\* Mutant of OnSuccess: the slot is set on either path.
OnSuccessStores(c) ==
    /\ pc[c] = "start" /\ c \notin ReadyClients
    /\ IF ready /\ status = "success" THEN Call(c) ELSE UNCHANGED calls
    /\ on_success' = c
    /\ Goto(c, "second")
    /\ UNCHANGED <<ready, status, on_failure, got>>

OnSuccess(c) ==
    /\ pc[c] = "start" /\ c \notin ReadyClients
    /\ \/ ~ready /\ on_success' = c /\ UNCHANGED calls
       \/ ready /\ status = "success" /\ Call(c) /\ UNCHANGED on_success
       \/ ready /\ status = "error" /\ UNCHANGED <<calls, on_success>>
    /\ Goto(c, "second")
    /\ UNCHANGED <<ready, status, on_failure, got>>

\* Mutant of OnFailure: a result that is there already is not looked at.
OnFailureUnchecked(c) ==
    /\ pc[c] = "second"
    /\ on_failure' = IF ready THEN on_failure ELSE c
    /\ Goto(c, "done")
    /\ UNCHANGED <<ready, status, on_success, got, calls>>

OnFailure(c) ==
    /\ pc[c] = "second"
    /\ \/ ~ready /\ on_failure' = c /\ UNCHANGED calls
       \/ ready /\ status = "error" /\ Call(c) /\ UNCHANGED on_failure
       \/ ready /\ status = "success" /\ UNCHANGED <<calls, on_failure>>
    /\ Goto(c, "done")
    /\ UNCHANGED <<ready, status, on_success, got>>

OnReady(c) ==
    /\ pc[c] = "start" /\ c \in ReadyClients
    /\ \/ ready /\ Call(c) /\ UNCHANGED <<on_success, on_failure>>
       \/ ~ready /\ on_success' = c /\ on_failure' = c /\ UNCHANGED calls
    /\ Goto(c, "done")
    /\ UNCHANGED <<ready, status, got>>

ProducerStep(p) == NotifyAll(p) \/ RunCallback(p)
ClientStep(c) == OnSuccess(c) \/ OnFailure(c) \/ OnReady(c)

Next ==
    \/ \E p \in Producers : Fulfil(p) \/ NotifyAll(p) \/ RunCallback(p)
    \/ \E w \in Waiters : Wait(w) \/ WaitReturns(w)
    \/ \E w \in TimedWaiters : WaitFor(w) \/ WaitForReturns(w)
    \/ \E w \in Waiters \cup TimedWaiters : SpuriousWakeup(w)
    \/ \E c \in Clients : OnSuccess(c) \/ OnFailure(c) \/ OnReady(c)

Spec == Init /\ [][Next]_vars

\* Nobody has to fulfil the promise.  Threads run, and a timed wait times out;
\* an untimed one relies on nothing but its notification.
Fairness ==
    /\ \A p \in Producers : WF_vars(ProducerStep(p))
    /\ \A w \in Waiters : WF_vars(Wait(w) \/ WaitReturns(w))
    /\ \A w \in TimedWaiters : WF_vars(WaitFor(w) \/ WaitForReturns(w) \/ SpuriousWakeup(w))
    /\ \A c \in Clients : WF_vars(ClientStep(c))

FairSpec == Spec /\ Fairness
-----------------------------------------------------------------------------
\* The result and the slots are frozen once the result is there: this is what
\* makes it safe that success() and failure() read them without the mutex,
\* while clients attach callbacks and other producers try again.
FrozenOnceReady == [][ready => UNCHANGED state]_vars

\* A client hears of the result at most once, whichever of its callbacks was
\* attached before and whichever after the result came, and only afterwards.
CalledBackOnce ==
    \A c \in Clients : calls[c] <= 1 /\ (calls[c] = 1 => ready)

Fulfilled(p) == pc[p] \in {"notify", "callback", "done"}

\* Exactly one producer gets through; the others raise.
OneProducerWins ==
    /\ \A p, q \in Producers : Fulfilled(p) /\ Fulfilled(q) => p = q
    /\ \A p \in Producers : pc[p] = "raised" => ready

\* Nobody sleeps beside a result, unless the notification is still due.
SleepersJustified ==
    \A w \in Waiters \cup TimedWaiters :
        pc[w] = "asleep" /\ ready => \E p \in Producers : pc[p] = "notify"

\* get() after wait() never finds the future pending, and sees the one result.
GetsTheResult ==
    \A w \in Waiters : got[w] # "nothing" => ready /\ got[w] = status

\* The slot that belongs to the result.
ResultSlot == IF status = "success" THEN on_success ELSE on_failure

\* Every result is told to the client whose callback holds its slot and to every
\* client that has yet to attach the callback for it; only a client whose slot
\* was taken by another one before the result came may miss it.
ClientsHear ==
    \A c \in Clients :
        (ready /\ \/ ResultSlot = c
                  \/ pc[c] = "start"
                  \/ pc[c] = "second" /\ status = "error") ~> (calls[c] = 1)

\* Once the result is there, every wait() and waitFor() returns.
WaitersReturn ==
    \A w \in Waiters \cup TimedWaiters : ready ~> (pc[w] = "done")
=============================================================================
