----------------------------- MODULE RPCRequest -----------------------------
(***************************************************************************)
(* stx::rpc::RPCRequest and RPCContext: a job that one thread runs, while  *)
(* others cancel it, wait for it or ask to be called back.  ready_ and     *)
(* error_ change under the mutex; the callbacks are called and reset after *)
(* it has been released, by every thread that has finished the job.        *)
(* returnSuccess() does not look whether the job is finished already, so a *)
(* job that is cancelled and returns all the same is finished twice: the   *)
(* reset of a std::function that the other thread is calling is undefined  *)
(* behaviour, modelled by `crashed'.                                       *)
(***************************************************************************)
EXTENDS Integers, FiniteSets

CONSTANTS Runners, Cancellers, Waiters, TimedWaiters, Clients, None

VARIABLES
    ready, running,
    error,              \* None, "failed" or "cancelled"
    on_ready,           \* None or a client
    on_cancel,          \* whether call_fn_ has set one
    pc,                 \* of every thread
    calls,              \* how often a client has been called
    cancelcalls,        \* how often call_fn_ was told about the cancellation
    replaced,           \* history: clients whose place another one has taken
    twice,              \* history: returnSuccess() of a job that was finished
    crashed

shared == <<ready, running, error, on_ready, on_cancel>>
history == <<calls, cancelcalls, replaced, twice>>
vars == <<shared, history, pc, crashed>>

Threads == Runners \cup Cancellers \cup Waiters \cup TimedWaiters \cup Clients
Finishers == Runners \cup Cancellers

Moves(t, from, to) == pc[t] = from /\ pc' = [pc EXCEPT ![t] = to]

\* notify_all()
NotifyAll(f) == [t \in Threads |-> IF f[t] = "asleep" THEN "woken" ELSE f[t]]
-----------------------------------------------------------------------------
\* run(): it refuses a job that is finished or running ("raised").
Run(t) ==
    /\ pc[t] = "start"
    /\ pc' = [pc EXCEPT ![t] = IF ready \/ running THEN "raised" ELSE "call"]
    /\ running' = (running \/ ~ready)
    /\ UNCHANGED <<ready, error, on_ready, on_cancel, history, crashed>>

\* RPCContext::onCancel(), called by call_fn_
OnCancel(t) ==
    /\ Moves(t, "call", "called")
    /\ IF error # None
       THEN cancelcalls' = cancelcalls + 1 /\ UNCHANGED on_cancel
       ELSE on_cancel' = TRUE /\ UNCHANGED cancelcalls
    /\ UNCHANGED <<ready, running, error, on_ready, calls, replaced, twice, crashed>>

\* RPCContext::isCancelled(), called by call_fn_ instead: nothing changes.
IsCancelled(t) == Moves(t, "call", "called") /\ UNCHANGED <<shared, history, crashed>>

\* call_fn_ returns: the first half of returnSuccess().
ReturnSuccess(t) ==
    /\ pc[t] = "called"
    /\ ready' = TRUE /\ twice' = (twice \/ ready)
    /\ pc' = [NotifyAll(pc) EXCEPT ![t] = "callready"]
    /\ UNCHANGED <<running, error, on_ready, on_cancel, calls, cancelcalls, replaced, crashed>>

\* An error that replaces the one before.
ReturnErrorUnchecked(t) ==
    /\ pc[t] = "called"
    /\ ready' = TRUE /\ error' = "failed"
    /\ pc' = [NotifyAll(pc) EXCEPT ![t] = "callready"]
    /\ UNCHANGED <<running, on_ready, on_cancel, history, crashed>>

\* call_fn_ throws, or returns early as isCancelled() allows it to:
\* returnError() raises in a thread whose job has been cancelled.
ReturnError(t) ==
    /\ pc[t] = "called"
    /\ IF ready
       THEN pc' = [pc EXCEPT ![t] = "raised"] /\ UNCHANGED <<ready, error>>
       ELSE /\ ready' = TRUE /\ error' = "failed"
            /\ pc' = [NotifyAll(pc) EXCEPT ![t] = "callready"]
    /\ UNCHANGED <<running, on_ready, on_cancel, history, crashed>>

\* cancel(), of a job that may not have been started
Cancel(t) ==
    /\ pc[t] = "start"
    /\ IF ready
       THEN pc' = [pc EXCEPT ![t] = "done"] /\ UNCHANGED <<ready, error>>
       ELSE /\ ready' = TRUE /\ error' = "cancelled"
            /\ pc' = [NotifyAll(pc) EXCEPT ![t] = "callcancel"]
    /\ UNCHANGED <<running, on_ready, on_cancel, history, crashed>>

\* if (on_cancel_) on_cancel_(): the test and the call ...
CallOnCancel(t) ==
    /\ pc[t] = "callcancel"
    /\ pc' = [pc EXCEPT ![t] = IF on_cancel THEN "incancel" ELSE "callready"]
    /\ cancelcalls' = IF on_cancel THEN cancelcalls + 1 ELSE cancelcalls
    /\ UNCHANGED <<shared, calls, replaced, twice, crashed>>

\* ... that returns.
OnCancelReturns(t) == Moves(t, "incancel", "callready") /\ UNCHANGED <<shared, history, crashed>>

\* if (on_ready_) on_ready_(), by whoever has finished the job
CallOnReady(t) ==
    /\ pc[t] = "callready"
    /\ pc' = [pc EXCEPT ![t] = IF on_ready # None THEN "inready" ELSE "reset"]
    /\ calls' = IF on_ready # None THEN [calls EXCEPT ![on_ready] = @ + 1] ELSE calls
    /\ UNCHANGED <<shared, cancelcalls, replaced, twice, crashed>>

OnReadyReturns(t) == Moves(t, "inready", "reset") /\ UNCHANGED <<shared, history, crashed>>

\* on_ready_, on_cancel_ and on_event_ are reset, whoever is calling them.
Reset(t) ==
    /\ Moves(t, "reset", "done")
    /\ on_ready' = None /\ on_cancel' = FALSE
    /\ crashed' = (crashed \/ \E u \in Finishers :
                      \/ pc[u] = "inready" /\ on_ready # None
                      \/ pc[u] = "incancel" /\ on_cancel)
    /\ UNCHANGED <<ready, running, error, history>>
-----------------------------------------------------------------------------
\* onReady(): one place, which a later client takes from an earlier one.
OnReady(t) ==
    /\ Moves(t, "start", "done")
    /\ IF ready
       THEN calls' = [calls EXCEPT ![t] = @ + 1] /\ UNCHANGED <<on_ready, replaced>>
       ELSE /\ on_ready' = t /\ UNCHANGED calls
            /\ replaced' = replaced \cup ({on_ready} \ {None})
    /\ UNCHANGED <<ready, running, error, on_cancel, cancelcalls, twice, crashed>>

\* wait(), and waitFor(), which does not sleep again.
Wait(t) ==
    /\ pc[t] \in IF t \in Waiters THEN {"start", "woken"} ELSE {"start"}
    /\ pc' = [pc EXCEPT ![t] = IF ready THEN "done" ELSE "asleep"]
    /\ UNCHANGED <<shared, history, crashed>>

WaitForReturns(t) ==
    /\ pc[t] \in {"asleep", "woken"}          \* notified, or timed out
    /\ pc' = [pc EXCEPT ![t] = "done"]
    /\ UNCHANGED <<shared, history, crashed>>
-----------------------------------------------------------------------------
Init ==
    /\ ready = FALSE /\ running = FALSE /\ error = None
    /\ on_ready = None /\ on_cancel = FALSE
    /\ pc = [t \in Threads |-> "start"]
    /\ calls = [c \in Clients |-> 0] /\ cancelcalls = 0
    /\ replaced = {} /\ twice = FALSE /\ crashed = FALSE

Finish(t) == CallOnCancel(t) \/ OnCancelReturns(t) \/ CallOnReady(t) \/ OnReadyReturns(t) \/ Reset(t)
Step(t) ==
    \/ t \in Runners /\ (Run(t) \/ OnCancel(t) \/ IsCancelled(t) \/ ReturnSuccess(t) \/ ReturnError(t))
    \/ t \in Cancellers /\ Cancel(t)
    \/ t \in Finishers /\ Finish(t)
    \/ t \in Clients /\ OnReady(t)
    \/ t \in Waiters \cup TimedWaiters /\ Wait(t)
    \/ t \in TimedWaiters /\ WaitForReturns(t)

Next == ~crashed /\ \E t \in Threads : Step(t)

Spec == Init /\ [][Next]_vars

\* Threads run; that somebody cancels, or calls back in, is not assumed.
Fairness ==
    \A t \in Runners \cup Waiters \cup TimedWaiters \cup Finishers :
        WF_vars(~crashed /\ pc[t] # "start" /\ Step(t))
-----------------------------------------------------------------------------
\* As long as no job is finished twice: nobody crashes, a client hears of the
\* end of the job exactly once, and never before it, call_fn_ is told once
\* that it is cancelled, and the error stays what it was.
HeardOnce ==
    ~twice =>
      /\ ~crashed
      /\ \A c \in Clients : calls[c] <= 1 /\ (calls[c] = 1 => ready /\ c \notin replaced)
      /\ cancelcalls <= 1 /\ (cancelcalls = 1 => error # None)

\* The result is final: a job does not become unfinished, and a job that has
\* failed or been cancelled stays so, also when its function returns later.
ResultFinal == [][ready => ready' /\ error' = error]_vars

\* A running job ends, all who wait for it return, and the client that asked
\* last is called, unless the process crashed.
EverybodyHears ==
    /\ \A t \in Waiters \cup TimedWaiters : running /\ pc[t] # "start" ~> pc[t] = "done" \/ crashed
    /\ \A c \in Clients : ready /\ pc[c] = "done" /\ c \notin replaced ~> calls[c] >= 1 \/ crashed
=============================================================================
