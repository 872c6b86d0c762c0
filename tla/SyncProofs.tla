---------------------------- MODULE SyncProofs ----------------------------
(***************************************************************************)
(* Proofs about Future, Wakeup, RPCRequest and the delayed queues, for any *)
(* number of threads: a callback is called once, by one thread, a job      *)
(* comes out in its time, and nobody sleeps through what it waits for.     *)
(***************************************************************************)
EXTENDS MCSync, SequenceTheorems, WellFoundedInduction, TLAPS

\* The slot that the result selects.
Slot == IF status = "success" THEN on_success ELSE on_failure

\* No result, no producer past its critical section; and never two of them.
ProducerInv ==
    /\ \A p, q \in Producers : Fulfilled(p) /\ Fulfilled(q) => p = q
    /\ \A p \in Producers : Fulfilled(p) \/ pc[p] = "raised" => ready

\* What keeps a client from being called twice: it attaches a callback before
\* it can be called through a slot, and while a producer has still to read
\* the slot, the client in it has not been called.
ClientInv ==
    \A c \in Clients :
        /\ calls[c] \in {0, 1}
        /\ calls[c] = 1 => ready
        /\ pc[c] = "start" => calls[c] = 0 /\ on_success # c /\ on_failure # c
        /\ pc[c] = "second" => on_failure # c /\ (ready /\ status = "error" => calls[c] = 0)
        /\ \A p \in Producers :
              pc[p] \in {"notify", "callback"} /\ Slot = c => calls[c] = 0

FutureInv == TypeOK /\ ProducerInv /\ ClientInv /\ SleepersJustified /\ GetsTheResult

\* The initial state satisfies the invariant.
LEMMA FutureInit == Init => FutureInv
<1> SUFFICES ASSUME Init PROVE FutureInv
    OBVIOUS
<1>1. TypeOK
    BY DEF Init, TypeOK
<1>2. ProducerInv
    BY DEF Init, ProducerInv, Fulfilled, Threads
<1>3. ClientInv
    BY FutureAssumption DEF Init, ClientInv, Threads
<1>4. SleepersJustified /\ GetsTheResult
    BY DEF Init, SleepersJustified, GetsTheResult, Threads
<1> QED BY <1>1, <1>2, <1>3, <1>4 DEF FutureInv

\* Every step keeps the types.
LEMMA FutureTypes == ASSUME TypeOK, [Next]_vars PROVE TypeOK'
<1>1. ASSUME NEW p \in Producers, Fulfil(p) PROVE TypeOK'
    BY <1>1 DEF TypeOK, Fulfil, Goto, Threads
<1>2. ASSUME NEW p \in Producers, NotifyAll(p) PROVE TypeOK'
    BY <1>2 DEF TypeOK, NotifyAll, state
<1>3. ASSUME NEW p \in Producers, RunCallback(p) PROVE TypeOK'
    BY <1>3 DEF TypeOK, RunCallback, CallIfSet, Call, Goto, state, Threads
<1>4. ASSUME NEW w \in Waiters, Wait(w) \/ WaitReturns(w) PROVE TypeOK'
    BY <1>4 DEF TypeOK, Wait, WaitReturns, Goto, state, Threads
<1>5. ASSUME NEW w \in TimedWaiters, WaitFor(w) \/ WaitForReturns(w) PROVE TypeOK'
    BY <1>5 DEF TypeOK, WaitFor, WaitForReturns, Goto, state, Threads
<1>6. ASSUME NEW w \in Waiters \cup TimedWaiters, SpuriousWakeup(w) PROVE TypeOK'
    BY <1>6 DEF TypeOK, SpuriousWakeup, Goto, state, Threads
<1>7. ASSUME NEW c \in Clients, OnSuccess(c) PROVE TypeOK'
    BY <1>7 DEF TypeOK, OnSuccess, Call, Goto, Threads
<1>8. ASSUME NEW c \in Clients, OnFailure(c) PROVE TypeOK'
    BY <1>8 DEF TypeOK, OnFailure, Call, Goto, Threads
<1>9. ASSUME NEW c \in Clients, OnReady(c) PROVE TypeOK'
    BY <1>9 DEF TypeOK, OnReady, Call, Goto, Threads
<1>10. CASE UNCHANGED vars
    BY <1>10 DEF TypeOK, vars, state
<1> QED
    BY <1>1, <1>2, <1>3, <1>4, <1>5, <1>6, <1>7, <1>8, <1>9, <1>10 DEF Next

\* Every step keeps at most one producer past its critical section.
LEMMA FutureProducers == ASSUME FutureInv, [Next]_vars PROVE ProducerInv'
<1> USE FutureAssumption DEF FutureInv, TypeOK, ProducerInv, Fulfilled, Goto, Threads
<1>1. ASSUME NEW p \in Producers, Fulfil(p) PROVE ProducerInv'
    BY <1>1 DEF Fulfil
<1>2. ASSUME NEW p \in Producers, NotifyAll(p) PROVE ProducerInv'
    BY <1>2 DEF NotifyAll, state
<1>3. ASSUME NEW p \in Producers, RunCallback(p) PROVE ProducerInv'
    BY <1>3 DEF RunCallback, state
<1>4. ASSUME NEW w \in Waiters, Wait(w) \/ WaitReturns(w) PROVE ProducerInv'
    BY <1>4 DEF Wait, WaitReturns, state
<1>5. ASSUME NEW w \in TimedWaiters, WaitFor(w) \/ WaitForReturns(w) PROVE ProducerInv'
    BY <1>5 DEF WaitFor, WaitForReturns, state
<1>6. ASSUME NEW w \in Waiters \cup TimedWaiters, SpuriousWakeup(w) PROVE ProducerInv'
    BY <1>6 DEF SpuriousWakeup, state
<1>7. ASSUME NEW c \in Clients, OnSuccess(c) \/ OnFailure(c) \/ OnReady(c)
      PROVE  ProducerInv'
    BY <1>7 DEF OnSuccess, OnFailure, OnReady
<1>8. CASE UNCHANGED vars
    BY <1>8 DEF vars, state
<1> QED BY <1>1, <1>2, <1>3, <1>4, <1>5, <1>6, <1>7, <1>8 DEF Next

\* Every step keeps what is known of the clients.
LEMMA FutureClients == ASSUME FutureInv, [Next]_vars PROVE ClientInv'
<1> USE FutureAssumption DEF FutureInv, TypeOK, ProducerInv, Fulfilled, ClientInv,
                             Slot, Goto, Threads
<1>1. ASSUME NEW p \in Producers, Fulfil(p) PROVE ClientInv'
    BY <1>1 DEF Fulfil
<1>2. ASSUME NEW p \in Producers, NotifyAll(p) PROVE ClientInv'
    BY <1>2 DEF NotifyAll, state
<1>3. ASSUME NEW p \in Producers, RunCallback(p) PROVE ClientInv'
    BY <1>3 DEF RunCallback, CallIfSet, Call, state
<1>4. ASSUME NEW w \in Waiters, Wait(w) \/ WaitReturns(w) PROVE ClientInv'
    BY <1>4 DEF Wait, WaitReturns, state
<1>5. ASSUME NEW w \in TimedWaiters, WaitFor(w) \/ WaitForReturns(w) PROVE ClientInv'
    BY <1>5 DEF WaitFor, WaitForReturns, state
<1>6. ASSUME NEW w \in Waiters \cup TimedWaiters, SpuriousWakeup(w) PROVE ClientInv'
    BY <1>6 DEF SpuriousWakeup, state
<1>7. ASSUME NEW c \in Clients, OnSuccess(c) PROVE ClientInv'
    BY <1>7 DEF OnSuccess, Call
<1>8. ASSUME NEW c \in Clients, OnFailure(c) PROVE ClientInv'
    BY <1>8 DEF OnFailure, Call
<1>9. ASSUME NEW c \in Clients, OnReady(c) PROVE ClientInv'
    BY <1>9 DEF OnReady, Call
<1>10. CASE UNCHANGED vars
    BY <1>10 DEF vars, state
<1> QED
    BY <1>1, <1>2, <1>3, <1>4, <1>5, <1>6, <1>7, <1>8, <1>9, <1>10 DEF Next

\* Every step keeps what is known of the waiters.
LEMMA FutureWaiters ==
    ASSUME FutureInv, [Next]_vars PROVE SleepersJustified' /\ GetsTheResult'
<1> USE FutureAssumption DEF FutureInv, TypeOK, SleepersJustified, GetsTheResult, Goto, Threads
<1> DEFINE WInv == SleepersJustified /\ GetsTheResult
<1>1. ASSUME NEW p \in Producers, Fulfil(p) PROVE WInv'
    BY <1>1 DEF Fulfil
<1>2. ASSUME NEW p \in Producers, NotifyAll(p) PROVE WInv'
    BY <1>2 DEF NotifyAll, state
<1>3. ASSUME NEW p \in Producers, RunCallback(p) PROVE WInv'
    BY <1>3 DEF RunCallback, state
<1>4. ASSUME NEW w \in Waiters, Wait(w) \/ WaitReturns(w) PROVE WInv'
    BY <1>4 DEF Wait, WaitReturns, state
<1>5. ASSUME NEW w \in TimedWaiters, WaitFor(w) \/ WaitForReturns(w) PROVE WInv'
    BY <1>5 DEF WaitFor, WaitForReturns, state
<1>6. ASSUME NEW w \in Waiters \cup TimedWaiters, SpuriousWakeup(w) PROVE WInv'
    BY <1>6 DEF SpuriousWakeup, state
<1>7. ASSUME NEW c \in Clients, OnSuccess(c) \/ OnFailure(c) \/ OnReady(c)
      PROVE  WInv'
    BY <1>7 DEF OnSuccess, OnFailure, OnReady
<1>8. CASE UNCHANGED vars
    BY <1>8 DEF vars, state
<1> QED BY <1>1, <1>2, <1>3, <1>4, <1>5, <1>6, <1>7, <1>8 DEF Next

\* The invariant holds in every reachable state.
THEOREM FutureInvariant == Spec => []FutureInv
<1>1. FutureInv /\ [Next]_vars => FutureInv'
    BY FutureTypes, FutureProducers, FutureClients, FutureWaiters DEF FutureInv
<1> QED BY FutureInit, <1>1, PTL DEF Spec

\* No client is called twice, or before the result: whichever way its calls
\* of onSuccess(), onFailure() and onReady() race with success() and failure().
THEOREM FutureCalledBackOnce == Spec => []CalledBackOnce
<1>1. FutureInv => CalledBackOnce
    BY DEF FutureInv, ClientInv, CalledBackOnce
<1> QED BY FutureInvariant, <1>1, PTL

\* At most one call of success() or failure() goes through.
THEOREM FutureOneProducerWins == Spec => []OneProducerWins
<1>1. FutureInv => OneProducerWins
    BY DEF FutureInv, ProducerInv, OneProducerWins
<1> QED BY FutureInvariant, <1>1, PTL

\* wait() does not miss the notification, and get() after it sees the result.
THEOREM FutureWaits == Spec => [](SleepersJustified /\ GetsTheResult)
<1>1. FutureInv => SleepersJustified /\ GetsTheResult
    BY DEF FutureInv
<1> QED BY FutureInvariant, <1>1, PTL

\* Result and slots do not change once the result is there, so that reading
\* them without the mutex is no race.
THEOREM FutureFrozen == Spec => FrozenOnceReady
<1>1. [Next]_vars => [ready => UNCHANGED state]_vars
  <2> SUFFICES ASSUME Next, ready PROVE UNCHANGED state
      OBVIOUS
  <2>1. ASSUME NEW p \in Producers, Fulfil(p) \/ NotifyAll(p) \/ RunCallback(p)
        PROVE  UNCHANGED state
      BY <2>1 DEF Fulfil, NotifyAll, RunCallback, state
  <2>2. ASSUME NEW w \in Waiters \cup TimedWaiters,
               \/ Wait(w) \/ WaitReturns(w) \/ WaitFor(w) \/ WaitForReturns(w)
               \/ SpuriousWakeup(w)
        PROVE  UNCHANGED state
      BY <2>2 DEF Wait, WaitReturns, WaitFor, WaitForReturns, SpuriousWakeup
  <2>3. ASSUME NEW c \in Clients, OnSuccess(c) \/ OnFailure(c) \/ OnReady(c)
        PROVE  UNCHANGED state
      BY <2>3 DEF OnSuccess, OnFailure, OnReady, state
  <2> QED BY <2>1, <2>2, <2>3 DEF Next
<1> QED BY <1>1, PTL DEF Spec, FrozenOnceReady

-----------------------------------------------------------------------------
(***************************************************************************)
(* Wakeup: a callback that was handed over is in one place, the list, or   *)
(* what one thread has still to run, until it has run.  Those in the list  *)
(* wait for the very next wakeup.                                          *)
(***************************************************************************)
Listed(c) == \E i \in 1..Len(callbacks) : callbacks[i] = c

InBatch(c, t) == \E i \in 1..Len(batch[t]) : batch[t][i] = c

WakeType ==
    /\ gen \in Nat
    /\ callbacks \in Seq(Callbacks)
    /\ wpc \in [WakeThreads -> {"idle", "read", "asleep", "notify", "run"}]
    /\ oldgen \in [WakeThreads -> Nat]
    /\ batch \in [WakeThreads -> Seq(Callbacks)]
    /\ asked \in [Callbacks -> Nat]
    /\ ran \in [Callbacks -> Nat]

\* No callback is in two places.
OneCallback ==
    /\ \A i, k \in 1..Len(callbacks) : callbacks[i] = callbacks[k] => i = k
    /\ \A t \in WakeThreads : \A i, k \in 1..Len(batch[t]) : batch[t][i] = batch[t][k] => i = k
    /\ \A c \in Callbacks : \A t \in WakeThreads : Listed(c) => ~InBatch(c, t)
    /\ \A c \in Callbacks : \A t, u \in WakeThreads : InBatch(c, t) /\ InBatch(c, u) => t = u

\* What is known of a callback in each place.
PlacesOK ==
    \A c \in Callbacks :
        /\ Listed(c) => asked[c] = gen + 1 /\ ran[c] = 0
        /\ \A t \in WakeThreads : InBatch(c, t) => asked[c] > 0 /\ asked[c] <= gen /\ ran[c] = 0
        /\ asked[c] = 0 => ran[c] = 0
        /\ ran[c] <= 1 /\ (ran[c] = 1 => asked[c] <= gen)

\* A callback whose wakeup has come has run, or a thread is about to run it.
NoneMissed ==
    \A c \in Callbacks :
        asked[c] > 0 =>
            \/ ran[c] = 1 \/ (asked[c] > gen /\ Listed(c))
            \/ \E t \in WakeThreads : InBatch(c, t) /\ wpc[t] \in {"notify", "run"}

\* A thread that sleeps has not missed its wakeup, or is about to be notified.
WaitersNotified ==
    /\ \A t \in WakeThreads : oldgen[t] <= gen
    /\ \A t \in WakeThreads :
         wpc[t] = "asleep" /\ gen > oldgen[t] => \E u \in WakeThreads : wpc[u] = "notify"

RestEmpty == \A t \in WakeThreads : wpc[t] \notin {"notify", "run"} => batch[t] = << >>

WakeInv == WakeType /\ OneCallback /\ PlacesOK /\ NoneMissed /\ WaitersNotified /\ RestEmpty

\* An element at the end of a sequence.
LEMMA AppendedElements ==
    ASSUME NEW S, NEW s \in Seq(S), NEW e \in S,
           \A i \in 1..Len(s) : s[i] # e,
           \A i, k \in 1..Len(s) : s[i] = s[k] => i = k
    PROVE  /\ Append(s, e) \in Seq(S)
           /\ \A d : (\E i \in 1..Len(Append(s, e)) : Append(s, e)[i] = d)
                        <=> d = e \/ \E i \in 1..Len(s) : s[i] = d
           /\ \A i, k \in 1..Len(Append(s, e)) : Append(s, e)[i] = Append(s, e)[k] => i = k
<1> DEFINE a == Append(s, e)
<1>1. /\ a \in Seq(S) /\ Len(a) = Len(s) + 1 /\ Len(s) \in Nat
      /\ \A i \in 1..Len(s) : a[i] = s[i]
      /\ a[Len(s) + 1] = e
    BY AppendProperties, LenProperties
<1> HIDE DEF a
<1>2. \A d : (\E i \in 1..Len(a) : a[i] = d) <=> d = e \/ \E i \in 1..Len(s) : s[i] = d
    BY <1>1
<1>3. \A i, k \in 1..Len(a) : a[i] = a[k] => i = k
  <2> SUFFICES ASSUME NEW i \in 1..Len(a), NEW k \in 1..Len(a), a[i] = a[k] PROVE i = k
      OBVIOUS
  <2>1. CASE i \in 1..Len(s) /\ k \in 1..Len(s)
      BY <1>1, <2>1
  <2>2. CASE i = Len(s) + 1 /\ k \in 1..Len(s)
      BY <1>1, <2>2
  <2>3. CASE k = Len(s) + 1 /\ i \in 1..Len(s)
      BY <1>1, <2>3
  <2> QED
      BY <1>1, <2>1, <2>2, <2>3
<1> QED
    BY <1>1, <1>2, <1>3 DEF a

\* The first element of a sequence is taken away.
LEMMA TailElements ==
    ASSUME NEW S, NEW s \in Seq(S), s # << >>,
           \A i, k \in 1..Len(s) : s[i] = s[k] => i = k
    PROVE  /\ Head(s) \in S /\ Tail(s) \in Seq(S)
           /\ \E i \in 1..Len(s) : s[i] = Head(s)
           /\ \A d : (\E i \in 1..Len(Tail(s)) : Tail(s)[i] = d)
                        <=> d # Head(s) /\ \E i \in 1..Len(s) : s[i] = d
           /\ \A i, k \in 1..Len(Tail(s)) : Tail(s)[i] = Tail(s)[k] => i = k
<1> DEFINE r == Tail(s)
           h == Head(s)
<1>1. /\ r \in Seq(S) /\ h \in S /\ h = s[1] /\ Len(s) \in Nat /\ Len(s) > 0
      /\ Len(r) = Len(s) - 1 /\ \A i \in 1..Len(r) : r[i] = s[i + 1]
    BY HeadTailProperties, LenProperties, EmptySeq
<1> HIDE DEF r, h
<1>2. \E i \in 1..Len(s) : s[i] = h
    BY <1>1
<1>3. ASSUME NEW d PROVE (\E i \in 1..Len(r) : r[i] = d) <=> d # h /\ \E i \in 1..Len(s) : s[i] = d
  <2>1. ASSUME NEW i \in 1..Len(r), r[i] = d PROVE d # h /\ \E k \in 1..Len(s) : s[k] = d
    <3>1. i + 1 \in 1..Len(s) /\ 1 \in 1..Len(s) /\ s[i + 1] = d /\ i + 1 # 1
        BY <1>1, <2>1
    <3> QED
        BY <1>1, <3>1
  <2>2. ASSUME NEW k \in 1..Len(s), s[k] = d, d # h PROVE \E i \in 1..Len(r) : r[i] = d
    <3>1. k # 1
        BY <1>1, <2>2
    <3>2. k - 1 \in 1..Len(r) /\ r[k - 1] = s[(k - 1) + 1] /\ (k - 1) + 1 = k
        BY <1>1, <3>1
    <3> QED
        BY <2>2, <3>2
  <2> QED
      BY <2>1, <2>2
<1>4. \A i, k \in 1..Len(r) : r[i] = r[k] => i = k
  <2> SUFFICES ASSUME NEW i \in 1..Len(r), NEW k \in 1..Len(r), r[i] = r[k] PROVE i = k
      OBVIOUS
  <2>1. i + 1 \in 1..Len(s) /\ k + 1 \in 1..Len(s) /\ s[i + 1] = s[k + 1]
      BY <1>1
  <2>2. i + 1 = k + 1
      BY <2>1
  <2> QED
      BY <1>1, <2>2
<1> QED
    BY <1>1, <1>2, <1>3, <1>4 DEF r, h

\* Threads move without a callback.
LEMMA ThreadsMove ==
    ASSUME WakeInv, UNCHANGED <<gen, callbacks, batch, asked, ran>>, WakeType', WaitersNotified',
           \A t \in WakeThreads :
               /\ wpc[t] \in {"notify", "run"} /\ batch[t] # << >> => wpc'[t] \in {"notify", "run"}
               /\ wpc'[t] \notin {"notify", "run"} => batch[t] = << >>
    PROVE  WakeInv'
<1>0. OneCallback /\ PlacesOK /\ NoneMissed
    BY DEF WakeInv
<1>1. \A c, t : (InBatch(c, t)' <=> InBatch(c, t)) /\ (Listed(c)' <=> Listed(c))
    BY DEF InBatch, Listed
<1>2. \A c : \A t \in WakeThreads : InBatch(c, t) => batch[t] # << >>
    BY EmptySeq DEF InBatch
<1>3. OneCallback'
    BY <1>0, <1>1 DEF OneCallback
<1>4. PlacesOK'
    BY <1>0, <1>1 DEF PlacesOK
<1>5. NoneMissed'
    BY <1>0, <1>1, <1>2 DEF NoneMissed
<1>6. RestEmpty'
    BY DEF RestEmpty
<1> QED
    BY <1>3, <1>4, <1>5, <1>6 DEF WakeInv

\* Steps without a callback.
LEMMA WaitSteps ==
    ASSUME WakeInv, NEW t \in WakeThreads,
           \/ W!Generation(t) \/ W!WaitForWakeup(t) \/ W!SpuriousWakeup(t)
           \/ W!NotifyAll(t) \/ W!Return(t)
    PROVE  WakeInv'
<1>0. WakeType /\ WaitersNotified /\ RestEmpty
    BY DEF WakeInv
<1>1. CASE W!Generation(t)
  <2>1. /\ wpc[t] = "idle" /\ wpc' = [wpc EXCEPT ![t] = "read"]
        /\ UNCHANGED <<gen, callbacks, batch, asked, ran>>
        /\ \E g \in {gen, 0} : oldgen' = [oldgen EXCEPT ![t] = g]
      BY <1>1 DEF W!Generation, W!Goto
  <2>2. WakeType'
      BY <1>0, <2>1 DEF WakeType
  <2>3. WaitersNotified'
      BY <1>0, <2>1 DEF WakeType, WaitersNotified
  <2> QED
      BY <1>0, <2>1, <2>2, <2>3, ThreadsMove DEF WakeType, RestEmpty
<1>2. CASE W!WaitForWakeup(t)
  <2>1. /\ wpc[t] = "read" /\ UNCHANGED <<gen, callbacks, oldgen, batch, asked, ran>>
        /\ \/ gen > oldgen[t] /\ wpc' = [wpc EXCEPT ![t] = "idle"]
           \/ ~(gen > oldgen[t]) /\ wpc' = [wpc EXCEPT ![t] = "asleep"]
      BY <1>2 DEF W!WaitForWakeup, W!Goto
  <2>2. WakeType'
      BY <1>0, <2>1 DEF WakeType
  <2>3. WaitersNotified'
      BY <1>0, <2>1 DEF WakeType, WaitersNotified
  <2> QED
      BY <1>0, <2>1, <2>2, <2>3, ThreadsMove DEF WakeType, RestEmpty
<1>3. CASE W!SpuriousWakeup(t)
  <2>1. /\ wpc[t] = "asleep" /\ wpc' = [wpc EXCEPT ![t] = "read"]
        /\ UNCHANGED <<gen, callbacks, oldgen, batch, asked, ran>>
      BY <1>3 DEF W!SpuriousWakeup, W!Goto
  <2>2. WakeType'
      BY <1>0, <2>1 DEF WakeType
  <2>3. WaitersNotified'
      BY <1>0, <2>1 DEF WakeType, WaitersNotified
  <2> QED
      BY <1>0, <2>1, <2>2, <2>3, ThreadsMove DEF WakeType, RestEmpty
<1>4. CASE W!NotifyAll(t)
  <2>1. /\ wpc[t] = "notify" /\ UNCHANGED <<gen, callbacks, oldgen, batch, asked, ran>>
        /\ wpc' = [u \in WakeThreads |-> CASE u = t -> "run"
                                           [] wpc[u] = "asleep" -> "read"
                                           [] OTHER -> wpc[u]]
      BY <1>4 DEF W!NotifyAll
  <2>2. /\ wpc'[t] = "run"
        /\ \A u \in WakeThreads \ {t} : wpc'[u] = IF wpc[u] = "asleep" THEN "read" ELSE wpc[u]
      BY <2>1
  <2>3. WakeType'
    <3>1. \A u \in WakeThreads : wpc'[u] \in {"idle", "read", "asleep", "notify", "run"}
        BY <1>0, <2>2 DEF WakeType
    <3> QED
        BY <1>0, <2>1, <3>1 DEF WakeType
  <2>4. WaitersNotified'
      BY <1>0, <2>1, <2>2 DEF WakeType, WaitersNotified
  <2>5. \A u \in WakeThreads :
               /\ wpc[u] \in {"notify", "run"} /\ batch[u] # << >> => wpc'[u] \in {"notify", "run"}
               /\ wpc'[u] \notin {"notify", "run"} => batch[u] = << >>
      BY <1>0, <2>2 DEF RestEmpty
  <2> QED
      BY <2>1, <2>3, <2>4, <2>5, ThreadsMove
<1>5. CASE W!Return(t)
  <2>1. /\ wpc[t] = "run" /\ batch[t] = << >> /\ wpc' = [wpc EXCEPT ![t] = "idle"]
        /\ UNCHANGED <<gen, callbacks, oldgen, batch, asked, ran>>
      BY <1>5 DEF W!Return, W!Goto
  <2>2. WakeType'
      BY <1>0, <2>1 DEF WakeType
  <2>3. WaitersNotified'
      BY <1>0, <2>1 DEF WakeType, WaitersNotified
  <2> QED
      BY <1>0, <2>1, <2>2, <2>3, ThreadsMove DEF WakeType, RestEmpty
<1> QED
    BY <1>1, <1>2, <1>3, <1>4, <1>5

\* onWakeup(): the callback runs at once, or it is listed.
LEMMA OnWakeupStep == ASSUME WakeInv, NEW t \in WakeThreads, W!OnWakeup(t) PROVE WakeInv'
<1>0. WakeType /\ OneCallback /\ PlacesOK /\ NoneMissed /\ WaitersNotified /\ RestEmpty
    BY DEF WakeInv
<1>1. /\ wpc[t] = "read" /\ UNCHANGED <<gen, oldgen, ran>>
      /\ gen \in Nat /\ oldgen[t] \in Nat /\ oldgen[t] <= gen
    BY <1>0 DEF W!OnWakeup, WakeType, WaitersNotified
<1>2. PICK c \in Callbacks :
         /\ asked[c] = 0 /\ asked' = [asked EXCEPT ![c] = oldgen[t] + 1]
         /\ \/ /\ gen > oldgen[t] /\ batch' = [batch EXCEPT ![t] = <<c>>]
               /\ wpc' = [wpc EXCEPT ![t] = "run"] /\ callbacks' = callbacks
            \/ /\ gen <= oldgen[t] /\ callbacks' = Append(callbacks, c)
               /\ wpc' = [wpc EXCEPT ![t] = "idle"] /\ batch' = batch
    BY DEF W!OnWakeup, W!Goto
<1>3. /\ asked'[c] = oldgen[t] + 1 /\ \A d \in Callbacks \ {c} : asked'[d] = asked[d]
      /\ asked' \in [Callbacks -> Nat]
    BY <1>0, <1>1, <1>2 DEF WakeType
<1>4. ~Listed(c) /\ ran[c] = 0 /\ \A u \in WakeThreads : ~InBatch(c, u)
    BY <1>0, <1>1, <1>2 DEF PlacesOK
<1>5. batch[t] = << >>
    BY <1>0, <1>1 DEF RestEmpty
<1>6. CASE gen > oldgen[t]
  <2>1. /\ batch' = [batch EXCEPT ![t] = <<c>>] /\ wpc' = [wpc EXCEPT ![t] = "run"]
        /\ callbacks' = callbacks
      BY <1>1, <1>2, <1>6
  <2>2. /\ wpc'[t] = "run" /\ batch'[t] = <<c>>
        /\ \A u \in WakeThreads \ {t} : batch'[u] = batch[u] /\ wpc'[u] = wpc[u]
      BY <1>0, <2>1 DEF WakeType
  <2>3. Len(<<c>>) = 1 /\ <<c>>[1] = c /\ <<c>> \in Seq(Callbacks)
      OBVIOUS
  <2>4. /\ \A d : Listed(d)' <=> Listed(d)
        /\ \A d : \A u \in WakeThreads \ {t} : InBatch(d, u)' <=> InBatch(d, u)
        /\ \A d : InBatch(d, t)' <=> d = c
    <3>1. \A d : Listed(d)' <=> Listed(d)
        BY <2>1 DEF Listed
    <3>2. \A d : \A u \in WakeThreads \ {t} : InBatch(d, u)' <=> InBatch(d, u)
        BY <2>2 DEF InBatch
    <3>3. \A d : InBatch(d, t)' <=> d = c
        BY <2>2, <2>3 DEF InBatch
    <3> QED
        BY <3>1, <3>2, <3>3
  <2>5. WakeType'
    <3>1. batch' \in [WakeThreads -> Seq(Callbacks)]
        BY <1>0, <2>1, <2>3 DEF WakeType
    <3> QED
        BY <1>0, <1>1, <1>3, <2>1, <3>1 DEF WakeType
  <2>6. OneCallback'
    <3>1. \A u \in WakeThreads : \A i, k \in 1..Len(batch'[u]) : batch'[u][i] = batch'[u][k] => i = k
        BY <1>0, <2>2, <2>3 DEF OneCallback
    <3>2. \A i, k \in 1..Len(callbacks') : callbacks'[i] = callbacks'[k] => i = k
        BY <1>0, <2>1 DEF OneCallback
    <3>3. \A d \in Callbacks : \A u \in WakeThreads : Listed(d)' => ~InBatch(d, u)'
        BY <1>0, <1>4, <2>4 DEF OneCallback
    <3>4. \A d \in Callbacks : \A u, v \in WakeThreads : InBatch(d, u)' /\ InBatch(d, v)' => u = v
        BY <1>0, <1>4, <2>4 DEF OneCallback
    <3> QED
        BY <3>1, <3>2, <3>3, <3>4 DEF OneCallback
  <2>7. PlacesOK'
    <3>1. ASSUME NEW d \in Callbacks, d # c
          PROVE  /\ Listed(d)' => asked'[d] = gen + 1 /\ ran[d] = 0
                 /\ \A u \in WakeThreads : InBatch(d, u)' => asked'[d] > 0 /\ asked'[d] <= gen /\ ran[d] = 0
                 /\ asked'[d] = 0 => ran[d] = 0
                 /\ ran[d] <= 1 /\ (ran[d] = 1 => asked'[d] <= gen)
        BY <1>0, <1>3, <2>4, <3>1 DEF PlacesOK
    <3>2. ~Listed(c)' /\ asked'[c] > 0 /\ asked'[c] <= gen /\ ran[c] = 0
        BY <1>1, <1>3, <1>4, <1>6, <2>4
    <3> QED
        BY <1>1, <3>1, <3>2 DEF PlacesOK
  <2>8. NoneMissed'
    <3>1. InBatch(c, t)' /\ wpc'[t] \in {"notify", "run"}
        BY <2>2, <2>4
    <3>2. ASSUME NEW d \in Callbacks, d # c, NEW u \in WakeThreads, InBatch(d, u), wpc[u] \in {"notify", "run"}
          PROVE  InBatch(d, u)' /\ wpc'[u] \in {"notify", "run"}
        BY <1>1, <2>2, <2>4, <3>2
    <3> QED
        BY <1>0, <1>1, <1>3, <2>4, <3>1, <3>2 DEF NoneMissed
  <2>9. WaitersNotified' /\ RestEmpty'
      BY <1>0, <1>1, <2>2 DEF WaitersNotified, RestEmpty
  <2> QED
      BY <2>5, <2>6, <2>7, <2>8, <2>9 DEF WakeInv
<1>7. CASE gen <= oldgen[t]
  <2>1. /\ callbacks' = Append(callbacks, c) /\ wpc' = [wpc EXCEPT ![t] = "idle"] /\ batch' = batch
        /\ asked'[c] = gen + 1
      BY <1>1, <1>2, <1>3, <1>7
  <2>2. wpc'[t] = "idle" /\ \A u \in WakeThreads \ {t} : wpc'[u] = wpc[u]
      BY <1>0, <2>1 DEF WakeType
  <2>3. /\ callbacks' \in Seq(Callbacks)
        /\ \A d : Listed(d)' <=> d = c \/ Listed(d)
        /\ \A i, k \in 1..Len(callbacks') : callbacks'[i] = callbacks'[k] => i = k
    <3>1. /\ callbacks \in Seq(Callbacks) /\ \A i \in 1..Len(callbacks) : callbacks[i] # c
          /\ \A i, k \in 1..Len(callbacks) : callbacks[i] = callbacks[k] => i = k
        BY <1>0, <1>4 DEF WakeType, OneCallback, Listed
    <3> QED
        BY <2>1, <3>1, AppendedElements DEF Listed
  <2>4. \A d : \A u \in WakeThreads : InBatch(d, u)' <=> InBatch(d, u)
      BY <2>1 DEF InBatch
  <2>5. WakeType'
      BY <1>0, <1>1, <1>3, <2>1, <2>3 DEF WakeType
  <2>6. OneCallback'
    <3>1. \A u \in WakeThreads : \A i, k \in 1..Len(batch'[u]) : batch'[u][i] = batch'[u][k] => i = k
        BY <1>0, <2>1 DEF OneCallback
    <3>2. \A d \in Callbacks : \A u \in WakeThreads : Listed(d)' => ~InBatch(d, u)'
        BY <1>0, <1>4, <2>3, <2>4 DEF OneCallback
    <3>3. \A d \in Callbacks : \A u, v \in WakeThreads : InBatch(d, u)' /\ InBatch(d, v)' => u = v
        BY <1>0, <2>4 DEF OneCallback
    <3> QED
        BY <2>3, <3>1, <3>2, <3>3 DEF OneCallback
  <2>7. PlacesOK'
    <3>1. ASSUME NEW d \in Callbacks, d # c
          PROVE  /\ Listed(d)' => asked'[d] = gen + 1 /\ ran[d] = 0
                 /\ \A u \in WakeThreads : InBatch(d, u)' => asked'[d] > 0 /\ asked'[d] <= gen /\ ran[d] = 0
                 /\ asked'[d] = 0 => ran[d] = 0
                 /\ ran[d] <= 1 /\ (ran[d] = 1 => asked'[d] <= gen)
        BY <1>0, <1>3, <2>3, <2>4, <3>1 DEF PlacesOK
    <3>2. asked'[c] = gen + 1 /\ asked'[c] # 0 /\ ran[c] = 0 /\ \A u \in WakeThreads : ~InBatch(c, u)'
        BY <1>1, <1>4, <2>1, <2>4
    <3> QED
        BY <1>1, <3>1, <3>2 DEF PlacesOK
  <2>8. NoneMissed'
    <3>1. Listed(c)' /\ asked'[c] > gen
        BY <1>1, <2>1, <2>3
    <3>2. ASSUME NEW d \in Callbacks, d # c, NEW u \in WakeThreads, InBatch(d, u), wpc[u] \in {"notify", "run"}
          PROVE  InBatch(d, u)' /\ wpc'[u] \in {"notify", "run"}
        BY <1>1, <2>2, <2>4, <3>2
    <3> QED
        BY <1>0, <1>1, <1>3, <2>3, <3>1, <3>2 DEF NoneMissed
  <2>9. WaitersNotified' /\ RestEmpty'
      BY <1>0, <1>1, <1>5, <2>1, <2>2 DEF WaitersNotified, RestEmpty
  <2> QED
      BY <2>5, <2>6, <2>7, <2>8, <2>9 DEF WakeInv
<1> QED
    BY <1>1, <1>6, <1>7

\* wakeup(): the caller takes the list, whose callbacks wait for this wakeup.
LEMMA DoWakeupStep == ASSUME WakeInv, NEW t \in WakeThreads, W!DoWakeup(t) PROVE WakeInv'
<1>0. WakeType /\ OneCallback /\ PlacesOK /\ NoneMissed /\ WaitersNotified /\ RestEmpty
    BY DEF WakeInv
<1>1. /\ wpc[t] = "idle" /\ gen \in Nat /\ gen' = gen + 1 /\ callbacks' = << >>
      /\ batch' = [batch EXCEPT ![t] = callbacks] /\ wpc' = [wpc EXCEPT ![t] = "notify"]
      /\ UNCHANGED <<oldgen, asked, ran>>
    BY <1>0 DEF W!DoWakeup, W!Goto, WakeType
<1>2. /\ batch[t] = << >> /\ batch'[t] = callbacks /\ wpc'[t] = "notify"
      /\ \A u \in WakeThreads \ {t} : batch'[u] = batch[u] /\ wpc'[u] = wpc[u]
    BY <1>0, <1>1 DEF WakeType, RestEmpty
<1>3. /\ \A d : ~Listed(d)'
      /\ \A d : InBatch(d, t)' <=> Listed(d)
      /\ \A d : \A u \in WakeThreads \ {t} : InBatch(d, u)' <=> InBatch(d, u)
      /\ \A d : ~InBatch(d, t)
  <2>1. \A d : ~Listed(d)'
      BY <1>1, EmptySeq DEF Listed
  <2>2. \A d : InBatch(d, t)' <=> Listed(d)
      BY <1>2 DEF Listed, InBatch
  <2>3. \A d : \A u \in WakeThreads \ {t} : InBatch(d, u)' <=> InBatch(d, u)
      BY <1>2 DEF InBatch
  <2>4. \A d : ~InBatch(d, t)
      BY <1>2, EmptySeq DEF InBatch
  <2> QED
      BY <2>1, <2>2, <2>3, <2>4
<1>4. WakeType'
    BY <1>0, <1>1 DEF WakeType
<1>5. OneCallback'
  <2>1. \A u \in WakeThreads : \A i, k \in 1..Len(batch'[u]) : batch'[u][i] = batch'[u][k] => i = k
      BY <1>0, <1>2 DEF OneCallback
  <2>2. \A i, k \in 1..Len(callbacks') : callbacks'[i] = callbacks'[k] => i = k
      BY <1>1, EmptySeq
  <2>3. \A d \in Callbacks : \A u, v \in WakeThreads : InBatch(d, u)' /\ InBatch(d, v)' => u = v
      BY <1>0, <1>3 DEF OneCallback
  <2> QED
      BY <1>3, <2>1, <2>2, <2>3 DEF OneCallback
<1>6. PlacesOK'
  <2>1. ASSUME NEW d \in Callbacks
        PROVE  /\ \A u \in WakeThreads : InBatch(d, u)' => asked[d] > 0 /\ asked[d] <= gen + 1 /\ ran[d] = 0
               /\ asked[d] = 0 => ran[d] = 0
               /\ ran[d] <= 1 /\ (ran[d] = 1 => asked[d] <= gen + 1)
    <3>1. asked[d] \in Nat
        BY <1>0 DEF WakeType
    <3> QED
        BY <1>0, <1>1, <1>3, <3>1 DEF PlacesOK
  <2> QED
      BY <1>1, <1>3, <2>1 DEF PlacesOK
<1>7. NoneMissed'
  <2>1. ASSUME NEW d \in Callbacks, NEW u \in WakeThreads, InBatch(d, u), wpc[u] \in {"notify", "run"}
        PROVE  InBatch(d, u)' /\ wpc'[u] \in {"notify", "run"}
      BY <1>1, <1>2, <1>3, <2>1
  <2>2. ASSUME NEW d \in Callbacks, Listed(d) PROVE InBatch(d, t)' /\ wpc'[t] \in {"notify", "run"}
      BY <1>2, <1>3, <2>2
  <2> QED
      BY <1>0, <1>1, <2>1, <2>2 DEF NoneMissed
<1>8. WaitersNotified' /\ RestEmpty'
  <2>1. \A u \in WakeThreads : oldgen[u] \in Nat /\ oldgen[u] <= gen + 1
      BY <1>0, <1>1 DEF WakeType, WaitersNotified
  <2>2. WaitersNotified'
      BY <1>1, <1>2, <2>1 DEF WaitersNotified
  <2> QED
      BY <1>0, <1>2, <2>2 DEF RestEmpty
<1> QED
    BY <1>4, <1>5, <1>6, <1>7, <1>8 DEF WakeInv

\* The thread that holds a callback runs it, and holds it no more.
LEMMA RunCallbackStep == ASSUME WakeInv, NEW t \in WakeThreads, W!RunCallback(t) PROVE WakeInv'
<1>0. WakeType /\ OneCallback /\ PlacesOK /\ NoneMissed /\ WaitersNotified /\ RestEmpty
    BY DEF WakeInv
<1>c. PICK c : c = Head(batch[t])
    OBVIOUS
<1>1. /\ wpc[t] = "run" /\ batch[t] # << >>
      /\ ran' = [ran EXCEPT ![c] = @ + 1] /\ batch' = [batch EXCEPT ![t] = Tail(@)]
      /\ UNCHANGED <<gen, callbacks, wpc, oldgen, asked>>
    BY <1>c DEF W!RunCallback
<1>2. /\ c \in Callbacks /\ Tail(batch[t]) \in Seq(Callbacks) /\ InBatch(c, t)
      /\ \A d : (\E i \in 1..Len(Tail(batch[t])) : Tail(batch[t])[i] = d) <=> d # c /\ InBatch(d, t)
      /\ \A i, k \in 1..Len(Tail(batch[t])) : Tail(batch[t])[i] = Tail(batch[t])[k] => i = k
  <2>1. /\ batch[t] \in Seq(Callbacks)
        /\ \A i, k \in 1..Len(batch[t]) : batch[t][i] = batch[t][k] => i = k
      BY <1>0 DEF WakeType, OneCallback
  <2> QED
      BY <1>1, <1>c, <2>1, TailElements DEF InBatch
<1>3. /\ batch'[t] = Tail(batch[t]) /\ \A u \in WakeThreads \ {t} : batch'[u] = batch[u]
      /\ batch' \in [WakeThreads -> Seq(Callbacks)]
    BY <1>0, <1>1, <1>2 DEF WakeType
<1>4. asked[c] > 0 /\ asked[c] <= gen /\ ran[c] = 0
    BY <1>0, <1>2 DEF PlacesOK
<1>5. ran'[c] = 1 /\ (\A d \in Callbacks \ {c} : ran'[d] = ran[d]) /\ ran' \in [Callbacks -> Nat]
    BY <1>0, <1>1, <1>2, <1>4 DEF WakeType
<1>6. /\ \A d : Listed(d)' <=> Listed(d)
      /\ \A d : InBatch(d, t)' <=> d # c /\ InBatch(d, t)
      /\ \A d : \A u \in WakeThreads \ {t} : InBatch(d, u)' <=> InBatch(d, u)
  <2>1. \A d : Listed(d)' <=> Listed(d)
      BY <1>1 DEF Listed
  <2>2. \A d : InBatch(d, t)' <=> d # c /\ InBatch(d, t)
      BY <1>2, <1>3 DEF InBatch
  <2>3. \A d : \A u \in WakeThreads \ {t} : InBatch(d, u)' <=> InBatch(d, u)
      BY <1>3 DEF InBatch
  <2> QED
      BY <2>1, <2>2, <2>3
<1>7. ~Listed(c) /\ \A u \in WakeThreads : ~InBatch(c, u)'
  <2>1. ~Listed(c) /\ \A u \in WakeThreads \ {t} : ~InBatch(c, u)
      BY <1>0, <1>2 DEF OneCallback
  <2> QED
      BY <1>6, <2>1
<1>8. WakeType'
    BY <1>0, <1>1, <1>3, <1>5 DEF WakeType
<1>9. OneCallback'
  <2>1. \A u \in WakeThreads : \A i, k \in 1..Len(batch'[u]) : batch'[u][i] = batch'[u][k] => i = k
      BY <1>0, <1>2, <1>3 DEF OneCallback
  <2>2. \A i, k \in 1..Len(callbacks') : callbacks'[i] = callbacks'[k] => i = k
      BY <1>0, <1>1 DEF OneCallback
  <2>3. \A d \in Callbacks : \A u \in WakeThreads : InBatch(d, u)' => InBatch(d, u)
      BY <1>6
  <2> QED
      BY <1>0, <1>6, <2>1, <2>2, <2>3 DEF OneCallback
<1>10. PlacesOK'
  <2>1. ASSUME NEW d \in Callbacks, d # c
        PROVE  /\ Listed(d)' => asked[d] = gen + 1 /\ ran'[d] = 0
               /\ \A u \in WakeThreads : InBatch(d, u)' => asked[d] > 0 /\ asked[d] <= gen /\ ran'[d] = 0
               /\ asked[d] = 0 => ran'[d] = 0
               /\ ran'[d] <= 1 /\ (ran'[d] = 1 => asked[d] <= gen)
      BY <1>0, <1>5, <1>6, <2>1 DEF PlacesOK
  <2>2. /\ ~Listed(c)' /\ (\A u \in WakeThreads : ~InBatch(c, u)') /\ asked[c] # 0
        /\ ran'[c] <= 1 /\ (ran'[c] = 1 => asked[c] <= gen)
    <3>1. asked[c] \in Nat
        BY <1>0, <1>2 DEF WakeType
    <3>2. ~Listed(c)'
        BY <1>6, <1>7
    <3> QED
        BY <1>4, <1>5, <1>7, <3>1, <3>2
  <2>3. \A d \in Callbacks :
           /\ Listed(d)' => asked[d] = gen + 1 /\ ran'[d] = 0
           /\ \A u \in WakeThreads : InBatch(d, u)' => asked[d] > 0 /\ asked[d] <= gen /\ ran'[d] = 0
           /\ asked[d] = 0 => ran'[d] = 0
           /\ ran'[d] <= 1 /\ (ran'[d] = 1 => asked[d] <= gen)
      BY <2>1, <2>2
  <2> QED
      BY <1>1, <2>3 DEF PlacesOK
<1>11. NoneMissed'
  <2>1. ASSUME NEW d \in Callbacks, d # c, NEW u \in WakeThreads, InBatch(d, u), wpc[u] \in {"notify", "run"}
        PROVE  InBatch(d, u)' /\ wpc'[u] \in {"notify", "run"}
      BY <1>1, <1>6, <2>1
  <2> QED
      BY <1>0, <1>1, <1>5, <1>6, <2>1 DEF NoneMissed
<1>12. WaitersNotified' /\ RestEmpty'
    BY <1>0, <1>1, <1>3 DEF WaitersNotified, RestEmpty
<1> QED
    BY <1>8, <1>9, <1>10, <1>11, <1>12 DEF WakeInv

\* A Wakeup nobody has used.
LEMMA WakeStarts == W!Init => WakeInv
<1> SUFFICES ASSUME W!Init PROVE WakeInv
    OBVIOUS
<1>1. /\ gen = 0 /\ callbacks = << >> /\ wpc = [t \in WakeThreads |-> "idle"]
      /\ oldgen = [t \in WakeThreads |-> 0] /\ batch = [t \in WakeThreads |-> << >>]
      /\ asked = [c \in Callbacks |-> 0] /\ ran = [c \in Callbacks |-> 0]
    BY DEF W!Init
<1>2. (\A c : ~Listed(c)) /\ \A c : \A t \in WakeThreads : ~InBatch(c, t)
    BY <1>1, EmptySeq DEF Listed, InBatch
<1>3. WakeType
    BY <1>1, EmptySeq DEF WakeType
<1>4. OneCallback
    BY <1>1, <1>2, EmptySeq DEF OneCallback
<1>5. PlacesOK /\ NoneMissed
    BY <1>1, <1>2 DEF PlacesOK, NoneMissed
<1>6. WaitersNotified /\ RestEmpty
    BY <1>1 DEF WaitersNotified, RestEmpty
<1> QED
    BY <1>3, <1>4, <1>5, <1>6 DEF WakeInv

\* Wakeup, for any number of threads, callbacks and wakeups: a callback runs at
\* most once and not before its wakeup; one whose wakeup has come has run, or
\* a thread holds it and runs it next; and nobody sleeps through the wakeup
\* waitForWakeup() was called for unless its notification is still to come.
THEOREM WakeupMissesNothing == W!Spec => [](W!OnceAndNotEarly /\ NoneMissed /\ WaitersNotified)
<1>1. W!Init => WakeInv
    BY WakeStarts
<1>2. WakeInv /\ [W!Next]_(W!vars) => WakeInv'
  <2> SUFFICES ASSUME WakeInv, [W!Next]_(W!vars) PROVE WakeInv'
      OBVIOUS
  <2>1. CASE W!Next
    <3>1. PICK t \in WakeThreads :
             \/ W!Generation(t) \/ W!WaitForWakeup(t) \/ W!SpuriousWakeup(t) \/ W!OnWakeup(t)
             \/ W!DoWakeup(t) \/ W!NotifyAll(t) \/ W!RunCallback(t) \/ W!Return(t)
        BY <2>1 DEF W!Next
    <3> QED
        BY <3>1, WaitSteps, OnWakeupStep, DoWakeupStep, RunCallbackStep
  <2>2. CASE UNCHANGED W!vars
    <3>1. UNCHANGED <<gen, callbacks, wpc, oldgen, batch, asked, ran>>
        BY <2>2 DEF W!vars
    <3>2. WakeType' /\ WaitersNotified'
        BY <3>1 DEF WakeInv, WakeType, WaitersNotified
    <3> QED
        BY <3>1, <3>2, ThreadsMove DEF WakeInv, RestEmpty
  <2> QED
      BY <2>1, <2>2
<1>3. WakeInv => W!OnceAndNotEarly /\ NoneMissed /\ WaitersNotified
  <2> SUFFICES ASSUME WakeInv PROVE W!OnceAndNotEarly /\ NoneMissed /\ WaitersNotified
      OBVIOUS
  <2>1. gen \in Nat /\ asked \in [Callbacks -> Nat] /\ ran \in [Callbacks -> Nat] /\ PlacesOK
      BY DEF WakeInv, WakeType
  <2>2. W!OnceAndNotEarly
      BY <2>1 DEF PlacesOK, W!OnceAndNotEarly
  <2> QED
      BY <2>2 DEF WakeInv
<1> QED
    BY <1>1, <1>2, <1>3, PTL DEF W!Spec

-----------------------------------------------------------------------------
(***************************************************************************)
(* RPCRequest: who may touch the callbacks.  Before the job is finished    *)
(* nobody; afterwards the threads that finished it, which is one unless    *)
(* returnSuccess() came after the end.                                     *)
(***************************************************************************)
Finishing == {"callcancel", "incancel", "callready", "inready", "reset"}

Labels == Finishing \cup {"start", "call", "called", "raised", "done", "asleep", "woken"}

RequestType ==
    /\ rready \in BOOLEAN /\ running \in BOOLEAN /\ on_cancel \in BOOLEAN
    /\ twice \in BOOLEAN /\ crashed \in BOOLEAN
    /\ error \in {None, "failed", "cancelled"}
    /\ on_ready \in RPCClients \cup {None}
    /\ rpc \in [R!Threads -> Labels]
    /\ rcalls \in [RPCClients -> Nat]
    /\ cancelcalls \in Nat
    /\ replaced \subseteq RPCClients

\* run() lets one thread into call_fn_.
OneRunner ==
    /\ \A t \in R!Threads : rpc[t] \in {"call", "called"} => running
    /\ \A t, u \in R!Threads : rpc[t] \in {"call", "called"} /\ rpc[u] \in {"call", "called"} => t = u

\* The job is finished by one thread, and cancelled by at most one.
OneFinisher ==
    /\ \A t \in R!Threads : rpc[t] \in Finishing => rready
    /\ \A t, u \in R!Threads : rpc[t] = "callcancel" /\ rpc[u] = "callcancel" => t = u
    /\ ~twice => ~crashed
    /\ ~twice => \A t, u \in R!Threads : rpc[t] \in Finishing /\ rpc[u] \in Finishing => t = u

NothingYet ==
    ~rready => error = None /\ cancelcalls = 0 /\ \A c \in RPCClients : rcalls[c] = 0

\* A client is called only once: it waits in the place, or it comes after the end.
PlaceOK ==
    /\ \A c \in RPCClients :
         /\ rpc[c] = "start" => rcalls[c] = 0 /\ on_ready # c
         /\ c \in replaced => rpc[c] # "start" /\ on_ready # c /\ rcalls[c] = 0
         /\ ~twice => rcalls[c] <= 1
         /\ ~twice /\ on_ready = c /\ (\A t \in R!Threads : rpc[t] \notin {"inready", "reset"}) => rcalls[c] = 0

\* call_fn_ sets on_cancel_ before the cancellation, or is told at once.
CancelOK ==
    /\ ~running => ~on_cancel /\ cancelcalls = 0
    /\ \A t \in R!Threads :
         /\ rpc[t] = "call" => ~on_cancel /\ cancelcalls = 0
         /\ rpc[t] = "callcancel" => error # None /\ (on_cancel => cancelcalls = 0)
    /\ cancelcalls <= 1 /\ (cancelcalls = 1 => error # None)

RequestInv == RequestType /\ OneRunner /\ OneFinisher /\ NothingYet /\ PlaceOK /\ CancelOK

\* What other threads notice of a step of t: at most that they are notified.
Others(t) ==
    \A u \in R!Threads \ {t} : rpc'[u] = rpc[u] \/ (rpc[u] = "asleep" /\ rpc'[u] = "woken")

\* notify_all() wakes who sleeps, while t goes to l.
LEMMA NotifiedThreads ==
    ASSUME RequestType, NEW t \in R!Threads, NEW l \in Finishing,
           rpc' = [R!NotifyAll(rpc) EXCEPT ![t] = l]
    PROVE  Others(t) /\ rpc'[t] = l /\ rpc' \in [R!Threads -> Labels]
<1>1. /\ rpc'[t] = l /\ DOMAIN rpc' = R!Threads
      /\ \A u \in R!Threads \ {t} : rpc'[u] = IF rpc[u] = "asleep" THEN "woken" ELSE rpc[u]
      /\ rpc' = [u \in R!Threads |-> rpc'[u]]
    BY DEF R!NotifyAll
<1>2. \A u \in R!Threads : rpc'[u] \in Labels
    BY <1>1 DEF RequestType, Labels
<1> QED
    BY <1>1, <1>2 DEF Others

\* What PlaceOK says of threads stays true when t, at "called" or a canceller
\* at "start", goes on to finish the job.
LEMMA PlaceKept ==
    ASSUME RequestType, PlaceOK, NEW t \in R!Threads, Others(t),
           rpc[t] \notin {"inready", "reset"}, rpc'[t] # "start",
           UNCHANGED <<on_ready, rcalls, replaced>>, ~twice' => ~twice
    PROVE  PlaceOK'
<1>1. RPCClients \subseteq R!Threads
    BY DEF R!Threads
<1>2. \A c \in RPCClients : rpc'[c] = "start" => rpc[c] = "start"
    BY <1>1 DEF Others
<1>3. (\A u \in R!Threads : rpc'[u] \notin {"inready", "reset"}) => \A u \in R!Threads : rpc[u] \notin {"inready", "reset"}
    BY DEF Others
<1> QED
    BY <1>2, <1>3 DEF PlaceOK

\* One thread moves, nobody is notified.
LEMMA MovedThread ==
    ASSUME RequestType, NEW t \in R!Threads,
           NEW l \in Labels,
           rpc' = [rpc EXCEPT ![t] = l]
    PROVE  Others(t) /\ rpc'[t] = l /\ rpc' \in [R!Threads -> Labels]
    BY DEF RequestType, Others

\* run(): the first one is let in.
LEMMA RunStep == ASSUME RequestInv, NEW t \in R!Threads, R!Run(t) PROVE RequestInv'
<1>0. RequestType /\ OneRunner /\ OneFinisher /\ NothingYet /\ PlaceOK /\ CancelOK
    BY DEF RequestInv
<1>1. CASE rready \/ running
  <2>1. /\ rpc[t] = "start" /\ rpc' = [rpc EXCEPT ![t] = "raised"]
        /\ running' = running
        /\ UNCHANGED <<rready, error, on_ready, on_cancel, rcalls, cancelcalls, replaced, twice, crashed>>
      <3>1. /\ rpc[t] = "start" /\ running' = (running \/ ~rready)
          /\ rpc' = [rpc EXCEPT ![t] = IF rready \/ running THEN "raised" ELSE "call"]
          /\ UNCHANGED <<rready, error, on_ready, on_cancel, rcalls, cancelcalls, replaced, twice, crashed>>
        BY DEF R!Run, R!history
    <3>2. rready \in BOOLEAN /\ running \in BOOLEAN
        BY <1>0 DEF RequestType
    <3>3. running' = running
        BY <1>1, <3>1, <3>2
    <3> QED
        BY <1>1, <3>1, <3>3
  <2>2. Others(t) /\ rpc'[t] = "raised" /\ rpc' \in [R!Threads -> Labels]
      BY <1>0, <2>1, MovedThread DEF Labels, Finishing
  <2>3. RequestType'
      BY <1>0, <1>1, <2>1, <2>2, NoneAssumption DEF RequestType
  <2>4. OneRunner'
      BY <1>0, <1>1, <2>1, <2>2 DEF OneRunner, Others, Finishing, RequestType
  <2>5. OneFinisher'
      BY <1>0, <1>1, <2>1, <2>2 DEF OneFinisher, Others, Finishing, RequestType
  <2>6. NothingYet'
      BY <1>0, <1>1, <2>1, <2>2, NoneAssumption DEF NothingYet, Others, Finishing, RequestType
  <2>7. PlaceOK'
      BY <1>0, <1>1, <2>1, <2>2, NoneAssumption DEF PlaceOK, Others, Finishing, RequestType
  <2>8. CancelOK'
      BY <1>0, <1>1, <2>1, <2>2, NoneAssumption DEF CancelOK, Others, Finishing, RequestType
  <2> QED
      BY <2>3, <2>4, <2>5, <2>6, <2>7, <2>8 DEF RequestInv
<1>2. CASE ~rready /\ ~running
  <2>1. /\ rpc[t] = "start" /\ rpc' = [rpc EXCEPT ![t] = "call"]
        /\ running' = TRUE
        /\ UNCHANGED <<rready, error, on_ready, on_cancel, rcalls, cancelcalls, replaced, twice, crashed>>
      <3>1. /\ rpc[t] = "start" /\ running' = (running \/ ~rready)
          /\ rpc' = [rpc EXCEPT ![t] = IF rready \/ running THEN "raised" ELSE "call"]
          /\ UNCHANGED <<rready, error, on_ready, on_cancel, rcalls, cancelcalls, replaced, twice, crashed>>
        BY DEF R!Run, R!history
    <3> QED
        BY <1>2, <3>1
  <2>2. Others(t) /\ rpc'[t] = "call" /\ rpc' \in [R!Threads -> Labels]
      BY <1>0, <2>1, MovedThread DEF Labels, Finishing
  <2>3. RequestType'
      BY <1>0, <1>2, <2>1, <2>2, NoneAssumption DEF RequestType
  <2>4. OneRunner'
      BY <1>0, <1>2, <2>1, <2>2 DEF OneRunner, Others, Finishing, RequestType
  <2>5. OneFinisher'
      BY <1>0, <1>2, <2>1, <2>2 DEF OneFinisher, Others, Finishing, RequestType
  <2>6. NothingYet'
      BY <1>0, <1>2, <2>1, <2>2, NoneAssumption DEF NothingYet, Others, Finishing, RequestType
  <2>7. PlaceOK'
      BY <1>0, <1>2, <2>1, <2>2, NoneAssumption DEF PlaceOK, Others, Finishing, RequestType
  <2>8. CancelOK'
      BY <1>0, <1>2, <2>1, <2>2, NoneAssumption DEF CancelOK, Others, Finishing, RequestType
  <2> QED
      BY <2>3, <2>4, <2>5, <2>6, <2>7, <2>8 DEF RequestInv
<1> QED
    BY <1>1, <1>2

\* onCancel(): too late, or remembered.
LEMMA OnCancelStep == ASSUME RequestInv, NEW t \in R!Threads, R!OnCancel(t) PROVE RequestInv'
<1>0. RequestType /\ OneRunner /\ OneFinisher /\ NothingYet /\ PlaceOK /\ CancelOK
    BY DEF RequestInv
<1>1. CASE error # None
  <2>1. /\ rpc[t] = "call" /\ rpc' = [rpc EXCEPT ![t] = "called"]
        /\ cancelcalls' = cancelcalls + 1
        /\ UNCHANGED <<rready, running, error, on_ready, on_cancel, rcalls, replaced, twice, crashed>>
      BY <1>0, <1>1 DEF R!OnCancel, R!Moves, RequestType
  <2>2. Others(t) /\ rpc'[t] = "called" /\ rpc' \in [R!Threads -> Labels]
      BY <1>0, <2>1, MovedThread DEF Labels, Finishing
  <2>3. RequestType'
      BY <1>0, <1>1, <2>1, <2>2, NoneAssumption DEF RequestType
  <2>4. OneRunner'
      BY <1>0, <1>1, <2>1, <2>2 DEF OneRunner, Others, Finishing, RequestType
  <2>5. OneFinisher'
      BY <1>0, <1>1, <2>1, <2>2 DEF OneFinisher, Others, Finishing, RequestType
  <2>6. NothingYet'
      BY <1>0, <1>1, <2>1, <2>2, NoneAssumption DEF NothingYet, Others, Finishing, RequestType
  <2>7. PlaceOK'
      BY <1>0, <1>1, <2>1, <2>2, NoneAssumption DEF PlaceOK, Others, Finishing, RequestType
  <2>8. CancelOK'
    <3>1. cancelcalls = 0 /\ ~on_cancel /\ running /\ \A u \in R!Threads : rpc'[u] # "call"
        BY <1>0, <2>1, <2>2 DEF CancelOK, OneRunner, Others
    <3>2. \A u \in R!Threads : rpc'[u] = "callcancel" => rpc[u] = "callcancel"
        BY <2>2 DEF Others
    <3> QED
        BY <1>0, <1>1, <2>1, <3>1, <3>2 DEF CancelOK
  <2> QED
      BY <2>3, <2>4, <2>5, <2>6, <2>7, <2>8 DEF RequestInv
<1>2. CASE error = None
  <2>1. /\ rpc[t] = "call" /\ rpc' = [rpc EXCEPT ![t] = "called"]
        /\ on_cancel' = TRUE
        /\ UNCHANGED <<rready, running, error, on_ready, rcalls, cancelcalls, replaced, twice, crashed>>
      BY <1>0, <1>2 DEF R!OnCancel, R!Moves, RequestType
  <2>2. Others(t) /\ rpc'[t] = "called" /\ rpc' \in [R!Threads -> Labels]
      BY <1>0, <2>1, MovedThread DEF Labels, Finishing
  <2>3. RequestType'
      BY <1>0, <1>2, <2>1, <2>2, NoneAssumption DEF RequestType
  <2>4. OneRunner'
      BY <1>0, <1>2, <2>1, <2>2 DEF OneRunner, Others, Finishing, RequestType
  <2>5. OneFinisher'
      BY <1>0, <1>2, <2>1, <2>2 DEF OneFinisher, Others, Finishing, RequestType
  <2>6. NothingYet'
      BY <1>0, <1>2, <2>1, <2>2, NoneAssumption DEF NothingYet, Others, Finishing, RequestType
  <2>7. PlaceOK'
      BY <1>0, <1>2, <2>1, <2>2, NoneAssumption DEF PlaceOK, Others, Finishing, RequestType
  <2>8. CancelOK'
    <3>1. cancelcalls = 0 /\ running /\ \A u \in R!Threads : rpc'[u] # "call"
        BY <1>0, <2>1, <2>2 DEF CancelOK, OneRunner, Others
    <3>2. \A u \in R!Threads : rpc'[u] # "callcancel"
        BY <1>0, <1>2, <2>1, <2>2 DEF CancelOK, Others
    <3> QED
        BY <2>1, <3>1, <3>2 DEF CancelOK
  <2> QED
      BY <2>3, <2>4, <2>5, <2>6, <2>7, <2>8 DEF RequestInv
<1> QED
    BY <1>1, <1>2

\* isCancelled() changes nothing.
LEMMA IsCancelledStep == ASSUME RequestInv, NEW t \in R!Threads, R!IsCancelled(t) PROVE RequestInv'
<1>0. RequestType /\ OneRunner /\ OneFinisher /\ NothingYet /\ PlaceOK /\ CancelOK
    BY DEF RequestInv
<1>1. /\ rpc[t] = "call" /\ rpc' = [rpc EXCEPT ![t] = "called"]
      /\ UNCHANGED <<rready, running, error, on_ready, on_cancel, rcalls, cancelcalls, replaced, twice, crashed>>
    BY <1>0 DEF R!IsCancelled, R!Moves, R!shared, R!history, RequestType
<1>2. Others(t) /\ rpc'[t] = "called" /\ rpc' \in [R!Threads -> Labels]
    BY <1>0, <1>1, MovedThread DEF Labels, Finishing
<1>3. RequestType'
    BY <1>0, <1>1, <1>2, NoneAssumption DEF RequestType
<1>4. OneRunner'
    BY <1>0, <1>1, <1>2 DEF OneRunner, Others, Finishing, RequestType
<1>5. OneFinisher'
    BY <1>0, <1>1, <1>2 DEF OneFinisher, Others, Finishing, RequestType
<1>6. NothingYet'
    BY <1>0, <1>1, <1>2, NoneAssumption DEF NothingYet, Others, Finishing, RequestType
<1>7. PlaceOK'
    BY <1>0, <1>1, <1>2, NoneAssumption DEF PlaceOK, Others, Finishing, RequestType
<1>8. CancelOK'
    BY <1>0, <1>1, <1>2, NoneAssumption DEF CancelOK, Others, Finishing, RequestType
<1> QED
    BY <1>3, <1>4, <1>5, <1>6, <1>7, <1>8 DEF RequestInv

\* returnSuccess() finishes the job, maybe again.
LEMMA ReturnSuccessStep == ASSUME RequestInv, NEW t \in R!Threads, R!ReturnSuccess(t) PROVE RequestInv'
<1>0. RequestType /\ OneRunner /\ OneFinisher /\ NothingYet /\ PlaceOK /\ CancelOK
    BY DEF RequestInv
<1>1. CASE rready
  <2>1. /\ rpc[t] = "called" /\ rpc' = [R!NotifyAll(rpc) EXCEPT ![t] = "callready"]
        /\ rready' = TRUE /\ twice' = TRUE
        /\ UNCHANGED <<running, error, on_ready, on_cancel, rcalls, cancelcalls, replaced, crashed>>
      BY <1>0, <1>1 DEF R!ReturnSuccess, RequestType
  <2>2. Others(t) /\ rpc'[t] = "callready" /\ rpc' \in [R!Threads -> Labels]
      BY <1>0, <2>1, NotifiedThreads DEF Labels, Finishing
  <2>3. RequestType'
      BY <1>0, <1>1, <2>1, <2>2, NoneAssumption DEF RequestType
  <2>4. OneRunner'
      BY <1>0, <1>1, <2>1, <2>2 DEF OneRunner, Others, Finishing, RequestType
  <2>5. OneFinisher'
      BY <1>0, <1>1, <2>1, <2>2 DEF OneFinisher, Others, Finishing, RequestType
  <2>6. NothingYet'
      BY <1>0, <1>1, <2>1, <2>2, NoneAssumption DEF NothingYet, Others, Finishing, RequestType
  <2>7. PlaceOK'
      BY <1>0, <2>1, <2>2, PlaceKept
  <2>8. CancelOK'
      BY <1>0, <1>1, <2>1, <2>2, NoneAssumption DEF CancelOK, Others, Finishing, RequestType
  <2> QED
      BY <2>3, <2>4, <2>5, <2>6, <2>7, <2>8 DEF RequestInv
<1>2. CASE ~rready
  <2>1. /\ rpc[t] = "called" /\ rpc' = [R!NotifyAll(rpc) EXCEPT ![t] = "callready"]
        /\ rready' = TRUE /\ twice' = twice
        /\ UNCHANGED <<running, error, on_ready, on_cancel, rcalls, cancelcalls, replaced, crashed>>
      BY <1>0, <1>2 DEF R!ReturnSuccess, RequestType
  <2>2. Others(t) /\ rpc'[t] = "callready" /\ rpc' \in [R!Threads -> Labels]
      BY <1>0, <2>1, NotifiedThreads DEF Labels, Finishing
  <2>3. RequestType'
      BY <1>0, <1>2, <2>1, <2>2, NoneAssumption DEF RequestType
  <2>4. OneRunner'
      BY <1>0, <1>2, <2>1, <2>2 DEF OneRunner, Others, Finishing, RequestType
  <2>5. OneFinisher'
      BY <1>0, <1>2, <2>1, <2>2 DEF OneFinisher, Others, Finishing, RequestType
  <2>6. NothingYet'
      BY <1>0, <1>2, <2>1, <2>2, NoneAssumption DEF NothingYet, Others, Finishing, RequestType
  <2>7. PlaceOK'
      BY <1>0, <2>1, <2>2, PlaceKept
  <2>8. CancelOK'
      BY <1>0, <1>2, <2>1, <2>2, NoneAssumption DEF CancelOK, Others, Finishing, RequestType
  <2> QED
      BY <2>3, <2>4, <2>5, <2>6, <2>7, <2>8 DEF RequestInv
<1> QED
    BY <1>1, <1>2

\* returnError() finishes the job, or raises.
LEMMA ReturnErrorStep == ASSUME RequestInv, NEW t \in R!Threads, R!ReturnError(t) PROVE RequestInv'
<1>0. RequestType /\ OneRunner /\ OneFinisher /\ NothingYet /\ PlaceOK /\ CancelOK
    BY DEF RequestInv
<1>1. CASE rready
  <2>1. /\ rpc[t] = "called" /\ rpc' = [rpc EXCEPT ![t] = "raised"]
        /\ UNCHANGED <<rready, running, error, on_ready, on_cancel, rcalls, cancelcalls, replaced, twice, crashed>>
      BY <1>0, <1>1 DEF R!ReturnError, R!history, RequestType
  <2>2. Others(t) /\ rpc'[t] = "raised" /\ rpc' \in [R!Threads -> Labels]
      BY <1>0, <2>1, MovedThread DEF Labels, Finishing
  <2>3. RequestType'
      BY <1>0, <1>1, <2>1, <2>2, NoneAssumption DEF RequestType
  <2>4. OneRunner'
      BY <1>0, <1>1, <2>1, <2>2 DEF OneRunner, Others, Finishing, RequestType
  <2>5. OneFinisher'
      BY <1>0, <1>1, <2>1, <2>2 DEF OneFinisher, Others, Finishing, RequestType
  <2>6. NothingYet'
      BY <1>0, <1>1, <2>1, <2>2, NoneAssumption DEF NothingYet, Others, Finishing, RequestType
  <2>7. PlaceOK'
      BY <1>0, <1>1, <2>1, <2>2, NoneAssumption DEF PlaceOK, Others, Finishing, RequestType
  <2>8. CancelOK'
      BY <1>0, <1>1, <2>1, <2>2, NoneAssumption DEF CancelOK, Others, Finishing, RequestType
  <2> QED
      BY <2>3, <2>4, <2>5, <2>6, <2>7, <2>8 DEF RequestInv
<1>2. CASE ~rready
  <2>1. /\ rpc[t] = "called" /\ rpc' = [R!NotifyAll(rpc) EXCEPT ![t] = "callready"]
        /\ rready' = TRUE /\ error' = "failed"
        /\ UNCHANGED <<running, on_ready, on_cancel, rcalls, cancelcalls, replaced, twice, crashed>>
      BY <1>0, <1>2 DEF R!ReturnError, R!history, RequestType
  <2>2. Others(t) /\ rpc'[t] = "callready" /\ rpc' \in [R!Threads -> Labels]
      BY <1>0, <2>1, NotifiedThreads DEF Labels, Finishing
  <2>3. RequestType'
      BY <1>0, <1>2, <2>1, <2>2, NoneAssumption DEF RequestType
  <2>4. OneRunner'
      BY <1>0, <1>2, <2>1, <2>2 DEF OneRunner, Others, Finishing, RequestType
  <2>5. OneFinisher'
      BY <1>0, <1>2, <2>1, <2>2 DEF OneFinisher, Others, Finishing, RequestType
  <2>6. NothingYet'
      BY <1>0, <1>2, <2>1, <2>2, NoneAssumption DEF NothingYet, Others, Finishing, RequestType
  <2>7. PlaceOK'
      BY <1>0, <2>1, <2>2, PlaceKept
  <2>8. CancelOK'
      BY <1>0, <1>2, <2>1, <2>2, NoneAssumption DEF CancelOK, Others, Finishing, RequestType
  <2> QED
      BY <2>3, <2>4, <2>5, <2>6, <2>7, <2>8 DEF RequestInv
<1> QED
    BY <1>1, <1>2

\* cancel() finishes the job, or comes too late.
LEMMA CancelStep == ASSUME RequestInv, NEW t \in R!Threads, R!Cancel(t) PROVE RequestInv'
<1>0. RequestType /\ OneRunner /\ OneFinisher /\ NothingYet /\ PlaceOK /\ CancelOK
    BY DEF RequestInv
<1>1. CASE rready
  <2>1. /\ rpc[t] = "start" /\ rpc' = [rpc EXCEPT ![t] = "done"]
        /\ UNCHANGED <<rready, running, error, on_ready, on_cancel, rcalls, cancelcalls, replaced, twice, crashed>>
      BY <1>0, <1>1 DEF R!Cancel, R!history, RequestType
  <2>2. Others(t) /\ rpc'[t] = "done" /\ rpc' \in [R!Threads -> Labels]
      BY <1>0, <2>1, MovedThread DEF Labels, Finishing
  <2>3. RequestType'
      BY <1>0, <1>1, <2>1, <2>2, NoneAssumption DEF RequestType
  <2>4. OneRunner'
      BY <1>0, <1>1, <2>1, <2>2 DEF OneRunner, Others, Finishing, RequestType
  <2>5. OneFinisher'
      BY <1>0, <1>1, <2>1, <2>2 DEF OneFinisher, Others, Finishing, RequestType
  <2>6. NothingYet'
      BY <1>0, <1>1, <2>1, <2>2, NoneAssumption DEF NothingYet, Others, Finishing, RequestType
  <2>7. PlaceOK'
      BY <1>0, <1>1, <2>1, <2>2, NoneAssumption DEF PlaceOK, Others, Finishing, RequestType
  <2>8. CancelOK'
      BY <1>0, <1>1, <2>1, <2>2, NoneAssumption DEF CancelOK, Others, Finishing, RequestType
  <2> QED
      BY <2>3, <2>4, <2>5, <2>6, <2>7, <2>8 DEF RequestInv
<1>2. CASE ~rready
  <2>1. /\ rpc[t] = "start" /\ rpc' = [R!NotifyAll(rpc) EXCEPT ![t] = "callcancel"]
        /\ rready' = TRUE /\ error' = "cancelled"
        /\ UNCHANGED <<running, on_ready, on_cancel, rcalls, cancelcalls, replaced, twice, crashed>>
      BY <1>0, <1>2 DEF R!Cancel, R!history, RequestType
  <2>2. Others(t) /\ rpc'[t] = "callcancel" /\ rpc' \in [R!Threads -> Labels]
      BY <1>0, <2>1, NotifiedThreads DEF Labels, Finishing
  <2>3. RequestType'
      BY <1>0, <1>2, <2>1, <2>2, NoneAssumption DEF RequestType
  <2>4. OneRunner'
      BY <1>0, <1>2, <2>1, <2>2 DEF OneRunner, Others, Finishing, RequestType
  <2>5. OneFinisher'
      BY <1>0, <1>2, <2>1, <2>2 DEF OneFinisher, Others, Finishing, RequestType
  <2>6. NothingYet'
      BY <1>0, <1>2, <2>1, <2>2, NoneAssumption DEF NothingYet, Others, Finishing, RequestType
  <2>7. PlaceOK'
      BY <1>0, <2>1, <2>2, PlaceKept
  <2>8. CancelOK'
    <3>1. cancelcalls = 0 /\ error' # None
        BY <1>0, <1>2, <2>1, NoneAssumption DEF NothingYet
    <3>2. \A u \in R!Threads : rpc'[u] = "call" => rpc[u] = "call"
        BY <2>2 DEF Others
    <3> QED
        BY <1>0, <2>1, <3>1, <3>2 DEF CancelOK
  <2> QED
      BY <2>3, <2>4, <2>5, <2>6, <2>7, <2>8 DEF RequestInv
<1> QED
    BY <1>1, <1>2

\* on_cancel_ is called if it is set.
LEMMA CallOnCancelStep == ASSUME RequestInv, NEW t \in R!Threads, R!CallOnCancel(t) PROVE RequestInv'
<1>0. RequestType /\ OneRunner /\ OneFinisher /\ NothingYet /\ PlaceOK /\ CancelOK
    BY DEF RequestInv
<1>1. CASE on_cancel
  <2>1. /\ rpc[t] = "callcancel" /\ rpc' = [rpc EXCEPT ![t] = "incancel"]
        /\ cancelcalls' = cancelcalls + 1
        /\ UNCHANGED <<rready, running, error, on_ready, on_cancel, rcalls, replaced, twice, crashed>>
      BY <1>0, <1>1 DEF R!CallOnCancel, R!shared, RequestType
  <2>2. Others(t) /\ rpc'[t] = "incancel" /\ rpc' \in [R!Threads -> Labels]
      BY <1>0, <2>1, MovedThread DEF Labels, Finishing
  <2>3. RequestType'
      BY <1>0, <1>1, <2>1, <2>2, NoneAssumption DEF RequestType
  <2>4. OneRunner'
      BY <1>0, <1>1, <2>1, <2>2 DEF OneRunner, Others, Finishing, RequestType
  <2>5. OneFinisher'
      BY <1>0, <1>1, <2>1, <2>2 DEF OneFinisher, Others, Finishing, RequestType
  <2>6. NothingYet'
      BY <1>0, <2>1 DEF OneFinisher, NothingYet, Finishing
  <2>7. PlaceOK'
      BY <1>0, <1>1, <2>1, <2>2, NoneAssumption DEF PlaceOK, Others, Finishing, RequestType
  <2>8. CancelOK'
    <3>1. cancelcalls = 0 /\ error # None /\ running /\ \A u \in R!Threads : rpc'[u] # "call"
        BY <1>0, <1>1, <2>1, <2>2 DEF CancelOK, Others
    <3>2. \A u \in R!Threads : rpc'[u] # "callcancel"
        BY <1>0, <2>1, <2>2 DEF OneFinisher, Others
    <3> QED
        BY <2>1, <3>1, <3>2 DEF CancelOK
  <2> QED
      BY <2>3, <2>4, <2>5, <2>6, <2>7, <2>8 DEF RequestInv
<1>2. CASE ~on_cancel
  <2>1. /\ rpc[t] = "callcancel" /\ rpc' = [rpc EXCEPT ![t] = "callready"]
        /\ cancelcalls' = cancelcalls
        /\ UNCHANGED <<rready, running, error, on_ready, on_cancel, rcalls, replaced, twice, crashed>>
      BY <1>0, <1>2 DEF R!CallOnCancel, R!shared, RequestType
  <2>2. Others(t) /\ rpc'[t] = "callready" /\ rpc' \in [R!Threads -> Labels]
      BY <1>0, <2>1, MovedThread DEF Labels, Finishing
  <2>3. RequestType'
      BY <1>0, <1>2, <2>1, <2>2, NoneAssumption DEF RequestType
  <2>4. OneRunner'
      BY <1>0, <1>2, <2>1, <2>2 DEF OneRunner, Others, Finishing, RequestType
  <2>5. OneFinisher'
      BY <1>0, <1>2, <2>1, <2>2 DEF OneFinisher, Others, Finishing, RequestType
  <2>6. NothingYet'
      BY <1>0, <1>2, <2>1, <2>2, NoneAssumption DEF NothingYet, Others, Finishing, RequestType
  <2>7. PlaceOK'
      BY <1>0, <1>2, <2>1, <2>2, NoneAssumption DEF PlaceOK, Others, Finishing, RequestType
  <2>8. CancelOK'
      BY <1>0, <1>2, <2>1, <2>2, NoneAssumption DEF CancelOK, Others, Finishing, RequestType
  <2> QED
      BY <2>3, <2>4, <2>5, <2>6, <2>7, <2>8 DEF RequestInv
<1> QED
    BY <1>1, <1>2

\* on_cancel_ returns.
LEMMA OnCancelReturnsStep == ASSUME RequestInv, NEW t \in R!Threads, R!OnCancelReturns(t) PROVE RequestInv'
<1>0. RequestType /\ OneRunner /\ OneFinisher /\ NothingYet /\ PlaceOK /\ CancelOK
    BY DEF RequestInv
<1>1. /\ rpc[t] = "incancel" /\ rpc' = [rpc EXCEPT ![t] = "callready"]
      /\ UNCHANGED <<rready, running, error, on_ready, on_cancel, rcalls, cancelcalls, replaced, twice, crashed>>
    BY <1>0 DEF R!OnCancelReturns, R!Moves, R!shared, R!history, RequestType
<1>2. Others(t) /\ rpc'[t] = "callready" /\ rpc' \in [R!Threads -> Labels]
    BY <1>0, <1>1, MovedThread DEF Labels, Finishing
<1>3. RequestType'
    BY <1>0, <1>1, <1>2, NoneAssumption DEF RequestType
<1>4. OneRunner'
    BY <1>0, <1>1, <1>2 DEF OneRunner, Others, Finishing, RequestType
<1>5. OneFinisher'
    BY <1>0, <1>1, <1>2 DEF OneFinisher, Others, Finishing, RequestType
<1>6. NothingYet'
    BY <1>0, <1>1, <1>2, NoneAssumption DEF NothingYet, Others, Finishing, RequestType
<1>7. PlaceOK'
    BY <1>0, <1>1, <1>2, NoneAssumption DEF PlaceOK, Others, Finishing, RequestType
<1>8. CancelOK'
    BY <1>0, <1>1, <1>2, NoneAssumption DEF CancelOK, Others, Finishing, RequestType
<1> QED
    BY <1>3, <1>4, <1>5, <1>6, <1>7, <1>8 DEF RequestInv

\* on_ready_ is called if it is set.
LEMMA CallOnReadyStep == ASSUME RequestInv, NEW t \in R!Threads, R!CallOnReady(t) PROVE RequestInv'
<1>0. RequestType /\ OneRunner /\ OneFinisher /\ NothingYet /\ PlaceOK /\ CancelOK
    BY DEF RequestInv
<1>1. CASE on_ready # None
  <2>1. /\ rpc[t] = "callready" /\ rpc' = [rpc EXCEPT ![t] = "inready"]
        /\ rcalls' = [rcalls EXCEPT ![on_ready] = @ + 1]
        /\ UNCHANGED <<rready, running, error, on_ready, on_cancel, cancelcalls, replaced, twice, crashed>>
      BY <1>0, <1>1 DEF R!CallOnReady, R!shared, RequestType
  <2>2. Others(t) /\ rpc'[t] = "inready" /\ rpc' \in [R!Threads -> Labels]
      BY <1>0, <2>1, MovedThread DEF Labels, Finishing
  <2>3. RequestType'
      BY <1>0, <1>1, <2>1, <2>2, NoneAssumption DEF RequestType
  <2>4. OneRunner'
      BY <1>0, <1>1, <2>1, <2>2 DEF OneRunner, Others, Finishing, RequestType
  <2>5. OneFinisher'
      BY <1>0, <1>1, <2>1, <2>2 DEF OneFinisher, Others, Finishing, RequestType
  <2>6. NothingYet'
      BY <1>0, <2>1 DEF OneFinisher, NothingYet, Finishing
  <2>7. PlaceOK'
    <3>1. on_ready \in RPCClients /\ RPCClients \subseteq R!Threads /\ on_ready \notin replaced /\ rpc[on_ready] # "start"
        BY <1>0, <1>1 DEF RequestType, PlaceOK, R!Threads
    <3>2. \A c \in RPCClients : rpc'[c] = "start" => rpc[c] = "start"
        BY <2>2, <3>1 DEF Others
    <3>3. /\ rcalls[on_ready] \in Nat /\ rcalls'[on_ready] = rcalls[on_ready] + 1
          /\ \A c \in RPCClients \ {on_ready} : rcalls'[c] = rcalls[c]
        BY <1>0, <2>1, <3>1 DEF RequestType
    <3>4. ~twice => rcalls[on_ready] = 0
      <4>1. ~twice => \A u \in R!Threads : rpc[u] \notin {"inready", "reset"}
          BY <1>0, <2>1 DEF OneFinisher, Finishing
      <4> QED
          BY <1>0, <3>1, <4>1 DEF PlaceOK
    <3>5. ASSUME NEW c \in RPCClients
          PROVE  /\ rpc'[c] = "start" => rcalls'[c] = 0 /\ on_ready # c
                 /\ c \in replaced => rpc'[c] # "start" /\ on_ready # c /\ rcalls'[c] = 0
                 /\ ~twice => rcalls'[c] <= 1
      <4>1. CASE c = on_ready
          BY <3>1, <3>2, <3>3, <3>4, <4>1
      <4>2. CASE c # on_ready
          BY <1>0, <3>2, <3>3, <4>2 DEF PlaceOK
      <4> QED
          BY <4>1, <4>2
    <3>6. ~(\A u \in R!Threads : rpc'[u] \notin {"inready", "reset"})
        BY <2>2
    <3> QED
        BY <2>1, <3>5, <3>6 DEF PlaceOK
  <2>8. CancelOK'
      BY <1>0, <1>1, <2>1, <2>2, NoneAssumption DEF CancelOK, Others, Finishing, RequestType
  <2> QED
      BY <2>3, <2>4, <2>5, <2>6, <2>7, <2>8 DEF RequestInv
<1>2. CASE on_ready = None
  <2>1. /\ rpc[t] = "callready" /\ rpc' = [rpc EXCEPT ![t] = "reset"]
        /\ rcalls' = rcalls
        /\ UNCHANGED <<rready, running, error, on_ready, on_cancel, cancelcalls, replaced, twice, crashed>>
      BY <1>0, <1>2 DEF R!CallOnReady, R!shared, RequestType
  <2>2. Others(t) /\ rpc'[t] = "reset" /\ rpc' \in [R!Threads -> Labels]
      BY <1>0, <2>1, MovedThread DEF Labels, Finishing
  <2>3. RequestType'
      BY <1>0, <1>2, <2>1, <2>2, NoneAssumption DEF RequestType
  <2>4. OneRunner'
      BY <1>0, <1>2, <2>1, <2>2 DEF OneRunner, Others, Finishing, RequestType
  <2>5. OneFinisher'
      BY <1>0, <1>2, <2>1, <2>2 DEF OneFinisher, Others, Finishing, RequestType
  <2>6. NothingYet'
      BY <1>0, <1>2, <2>1, <2>2, NoneAssumption DEF NothingYet, Others, Finishing, RequestType
  <2>7. PlaceOK'
      BY <1>0, <1>2, <2>1, <2>2, NoneAssumption DEF PlaceOK, Others, Finishing, RequestType
  <2>8. CancelOK'
      BY <1>0, <1>2, <2>1, <2>2, NoneAssumption DEF CancelOK, Others, Finishing, RequestType
  <2> QED
      BY <2>3, <2>4, <2>5, <2>6, <2>7, <2>8 DEF RequestInv
<1> QED
    BY <1>1, <1>2

\* on_ready_ returns.
LEMMA OnReadyReturnsStep == ASSUME RequestInv, NEW t \in R!Threads, R!OnReadyReturns(t) PROVE RequestInv'
<1>0. RequestType /\ OneRunner /\ OneFinisher /\ NothingYet /\ PlaceOK /\ CancelOK
    BY DEF RequestInv
<1>1. /\ rpc[t] = "inready" /\ rpc' = [rpc EXCEPT ![t] = "reset"]
      /\ UNCHANGED <<rready, running, error, on_ready, on_cancel, rcalls, cancelcalls, replaced, twice, crashed>>
    BY <1>0 DEF R!OnReadyReturns, R!Moves, R!shared, R!history, RequestType
<1>2. Others(t) /\ rpc'[t] = "reset" /\ rpc' \in [R!Threads -> Labels]
    BY <1>0, <1>1, MovedThread DEF Labels, Finishing
<1>3. RequestType'
    BY <1>0, <1>1, <1>2, NoneAssumption DEF RequestType
<1>4. OneRunner'
    BY <1>0, <1>1, <1>2 DEF OneRunner, Others, Finishing, RequestType
<1>5. OneFinisher'
    BY <1>0, <1>1, <1>2 DEF OneFinisher, Others, Finishing, RequestType
<1>6. NothingYet'
    BY <1>0, <1>1, <1>2, NoneAssumption DEF NothingYet, Others, Finishing, RequestType
<1>7. PlaceOK'
    BY <1>0, <1>1, <1>2, NoneAssumption DEF PlaceOK, Others, Finishing, RequestType
<1>8. CancelOK'
    BY <1>0, <1>1, <1>2, NoneAssumption DEF CancelOK, Others, Finishing, RequestType
<1> QED
    BY <1>3, <1>4, <1>5, <1>6, <1>7, <1>8 DEF RequestInv

\* The callbacks are dropped.  One finisher alone finds nobody calling them.
LEMMA ResetStep == ASSUME RequestInv, NEW t \in R!Threads, R!Reset(t) PROVE RequestInv'
<1>0. RequestType /\ OneRunner /\ OneFinisher /\ NothingYet /\ PlaceOK /\ CancelOK
    BY DEF RequestInv
<1>1. /\ rpc[t] = "reset" /\ rpc' = [rpc EXCEPT ![t] = "done"] /\ on_ready' = None /\ on_cancel' = FALSE
      /\ crashed' = (crashed \/ \E u \in R!Finishers :
                       \/ rpc[u] = "inready" /\ on_ready # None
                       \/ rpc[u] = "incancel" /\ on_cancel)
      /\ UNCHANGED <<rready, running, error, rcalls, cancelcalls, replaced, twice>>
    BY DEF R!Reset, R!Moves, R!history
<1>2. Others(t) /\ rpc'[t] = "done" /\ rpc' \in [R!Threads -> Labels]
    BY <1>0, <1>1, MovedThread DEF Labels
<1>3. RequestType'
    BY <1>0, <1>1, <1>2 DEF RequestType
<1>4. OneRunner'
    BY <1>0, <1>1, <1>2 DEF OneRunner, Others
<1>5. OneFinisher'
  <2>1. ~twice => ~crashed'
    <3>1. R!Finishers \subseteq R!Threads
        BY DEF R!Finishers, R!Threads
    <3>2. ~twice => \A u \in R!Threads : rpc[u] \notin {"inready", "incancel"}
        BY <1>0, <1>1 DEF OneFinisher, Finishing
    <3>3. ~twice => ~crashed
        BY <1>0 DEF OneFinisher
    <3> QED
        BY <1>1, <3>1, <3>2, <3>3
  <2>2. \A u \in R!Threads : rpc'[u] \in Finishing => rpc[u] \in Finishing
      BY <1>2 DEF Others, Finishing
  <2>3. \A u \in R!Threads : rpc'[u] = "callcancel" => rpc[u] = "callcancel"
      BY <1>2 DEF Others
  <2> QED
      BY <1>0, <1>1, <2>1, <2>2, <2>3 DEF OneFinisher
<1>6. NothingYet'
    BY <1>0, <1>1 DEF NothingYet
<1>7. PlaceOK'
  <2>1. RPCClients \subseteq R!Threads /\ \A c \in RPCClients : on_ready' # c
      BY <1>1, NoneAssumption DEF R!Threads
  <2>2. \A c \in RPCClients : rpc'[c] = "start" => rpc[c] = "start"
      BY <1>2, <2>1 DEF Others
  <2> QED
      BY <1>0, <1>1, <2>1, <2>2 DEF PlaceOK
<1>8. CancelOK'
  <2>1. \A u \in R!Threads : /\ rpc'[u] = "call" => rpc[u] = "call"
                             /\ rpc'[u] = "callcancel" => rpc[u] = "callcancel"
      BY <1>2 DEF Others
  <2> QED
      BY <1>0, <1>1, <2>1 DEF CancelOK
<1> QED
    BY <1>3, <1>4, <1>5, <1>6, <1>7, <1>8 DEF RequestInv

\* onReady(): too late, or the client takes the place.
LEMMA OnReadyStep == ASSUME RequestInv, NEW t \in RPCClients, R!OnReady(t) PROVE RequestInv'
<1>0. RequestType /\ OneRunner /\ OneFinisher /\ NothingYet /\ PlaceOK /\ CancelOK
    BY DEF RequestInv
<1>1. /\ rpc[t] = "start" /\ rpc' = [rpc EXCEPT ![t] = "done"]
      /\ \/ rready /\ rcalls' = [rcalls EXCEPT ![t] = @ + 1] /\ UNCHANGED <<on_ready, replaced>>
         \/ ~rready /\ on_ready' = t /\ rcalls' = rcalls /\ replaced' = replaced \cup ({on_ready} \ {None})
      /\ UNCHANGED <<rready, running, error, on_cancel, cancelcalls, twice, crashed>>
    BY DEF R!OnReady, R!Moves
<1>2. t \in R!Threads /\ Others(t) /\ rpc'[t] = "done" /\ rpc' \in [R!Threads -> Labels]
  <2>1. t \in R!Threads
      BY DEF R!Threads
  <2> QED
      BY <1>0, <1>1, <2>1, MovedThread DEF Labels
<1>3. rcalls[t] = 0 /\ on_ready # t /\ t \notin replaced
    BY <1>0, <1>1 DEF PlaceOK
<1>4. RequestType'
  <2>1. rcalls' \in [RPCClients -> Nat]
      BY <1>0, <1>1, <1>3 DEF RequestType
  <2> QED
      BY <1>0, <1>1, <1>2, <2>1 DEF RequestType
<1>5. OneRunner'
    BY <1>0, <1>1, <1>2 DEF OneRunner, Others
<1>6. OneFinisher'
  <2>1. \A u \in R!Threads : /\ rpc'[u] \in Finishing => rpc[u] \in Finishing
                             /\ rpc'[u] = "callcancel" => rpc[u] = "callcancel"
      BY <1>2 DEF Others, Finishing
  <2> QED
      BY <1>0, <1>1, <2>1 DEF OneFinisher
<1>7. NothingYet'
    BY <1>0, <1>1 DEF NothingYet
<1>8. PlaceOK'
  <2>1. RPCClients \subseteq R!Threads /\ \A u \in R!Threads \ {t} : rpc'[u] = rpc[u]
      BY <1>0, <1>1 DEF R!Threads, RequestType
  <2>2. CASE rready
    <3>1. /\ rcalls'[t] = 1 /\ on_ready' = on_ready /\ replaced' = replaced
          /\ \A c \in RPCClients \ {t} : rcalls'[c] = rcalls[c]
        BY <1>0, <1>1, <1>3, <2>2 DEF RequestType
    <3>2. \A u \in R!Threads : rpc'[u] \notin {"inready", "reset"} => rpc[u] \notin {"inready", "reset"}
        BY <1>1, <2>1
    <3>3. ASSUME NEW c \in RPCClients \ {t}
          PROVE  /\ rpc'[c] = "start" => rcalls'[c] = 0 /\ on_ready' # c
                 /\ c \in replaced' => rpc'[c] # "start" /\ on_ready' # c /\ rcalls'[c] = 0
                 /\ ~twice => rcalls'[c] <= 1
                 /\ ~twice /\ on_ready' = c /\ (\A u \in R!Threads : rpc'[u] \notin {"inready", "reset"}) => rcalls'[c] = 0
        BY <1>0, <2>1, <3>1, <3>2 DEF PlaceOK
    <3> QED
        BY <1>1, <1>2, <1>3, <3>1, <3>3 DEF PlaceOK
  <2>3. CASE ~rready
    <3>1. /\ on_ready' = t /\ rcalls' = rcalls /\ replaced' = replaced \cup ({on_ready} \ {None})
          /\ \A c \in RPCClients : rcalls[c] = 0
        BY <1>0, <1>1, <2>3 DEF NothingYet
    <3>2. t \notin replaced' /\ \A c \in RPCClients : c \in replaced' => c \in replaced \/ c = on_ready
        BY <1>3, <3>1
    <3>3. \A c \in RPCClients : c \in replaced' => rpc'[c] # "start" /\ on_ready' # c
        BY <1>0, <1>2, <2>1, <3>1, <3>2 DEF PlaceOK
    <3>4. \A c \in RPCClients : rpc'[c] = "start" => on_ready' # c
        BY <1>2, <3>1
    <3> QED
        BY <3>1, <3>3, <3>4 DEF PlaceOK
  <2> QED
      BY <2>2, <2>3
<1>9. CancelOK'
  <2>1. \A u \in R!Threads : /\ rpc'[u] = "call" => rpc[u] = "call"
                             /\ rpc'[u] = "callcancel" => rpc[u] = "callcancel"
      BY <1>2 DEF Others
  <2> QED
      BY <1>0, <1>1, <2>1 DEF CancelOK
<1> QED
    BY <1>4, <1>5, <1>6, <1>7, <1>8, <1>9 DEF RequestInv

\* Those who wait change nothing but their own place.
LEMMA WaitStep ==
    ASSUME RequestInv, NEW t \in R!Threads, R!Wait(t) \/ R!WaitForReturns(t)
    PROVE  RequestInv'
<1>0. RequestType /\ OneRunner /\ OneFinisher /\ NothingYet /\ PlaceOK /\ CancelOK
    BY DEF RequestInv
<1>1. /\ rpc[t] \in {"start", "asleep", "woken"}
      /\ \E l \in {"done", "asleep"} : rpc' = [rpc EXCEPT ![t] = l]
      /\ UNCHANGED <<rready, running, error, on_ready, on_cancel, rcalls, cancelcalls, replaced, twice, crashed>>
    BY DEF R!Wait, R!WaitForReturns, R!shared, R!history
<1>2. Others(t) /\ rpc'[t] \in {"done", "asleep"} /\ rpc' \in [R!Threads -> Labels]
    BY <1>0, <1>1, MovedThread DEF Labels
<1>3. RequestType'
    BY <1>0, <1>1, <1>2 DEF RequestType
<1>4. OneRunner' /\ OneFinisher'
  <2>1. \A u \in R!Threads : /\ rpc'[u] \in Finishing => rpc[u] \in Finishing
                             /\ rpc'[u] = "callcancel" => rpc[u] = "callcancel"
                             /\ rpc'[u] \in {"call", "called"} => rpc[u] \in {"call", "called"}
      BY <1>2 DEF Others, Finishing
  <2> QED
      BY <1>0, <1>1, <2>1 DEF OneRunner, OneFinisher
<1>5. NothingYet'
    BY <1>0, <1>1 DEF NothingYet
<1>6. PlaceOK'
    BY <1>0, <1>1, <1>2, PlaceKept
<1>7. CancelOK'
  <2>1. \A u \in R!Threads : /\ rpc'[u] = "call" => rpc[u] = "call"
                             /\ rpc'[u] = "callcancel" => rpc[u] = "callcancel"
      BY <1>2 DEF Others
  <2> QED
      BY <1>0, <1>1, <2>1 DEF CancelOK
<1> QED
    BY <1>3, <1>4, <1>5, <1>6, <1>7 DEF RequestInv

\* A request nobody has run.
LEMMA RequestStarts == R!Init => RequestInv
<1> SUFFICES ASSUME R!Init PROVE RequestInv
    OBVIOUS
<1>1. /\ rready = FALSE /\ running = FALSE /\ error = None /\ on_ready = None /\ on_cancel = FALSE
      /\ rpc = [t \in R!Threads |-> "start"] /\ rcalls = [c \in RPCClients |-> 0] /\ cancelcalls = 0
      /\ replaced = {} /\ twice = FALSE /\ crashed = FALSE
    BY DEF R!Init
<1>2. RequestType
    BY <1>1 DEF RequestType, Labels
<1>3. OneRunner /\ OneFinisher /\ NothingYet /\ CancelOK
    BY <1>1 DEF OneRunner, OneFinisher, NothingYet, CancelOK, Finishing
<1>4. PlaceOK
    BY <1>1, NoneAssumption DEF PlaceOK
<1> QED
    BY <1>2, <1>3, <1>4 DEF RequestInv

\* Every step of a request is one of these.
LEMMA RequestStep == ASSUME RequestInv, [R!Next]_(R!vars) PROVE RequestInv'
<1>1. CASE R!Next
  <2>1. PICK t \in R!Threads : R!Step(t)
      BY <1>1 DEF R!Next
  <2>2. CASE R!Run(t) \/ R!OnCancel(t) \/ R!IsCancelled(t) \/ R!ReturnSuccess(t) \/ R!ReturnError(t) \/ R!Cancel(t)
      BY <2>2, RunStep, OnCancelStep, IsCancelledStep, ReturnSuccessStep, ReturnErrorStep, CancelStep
  <2>3. CASE R!Finish(t)
      BY <2>3, CallOnCancelStep, OnCancelReturnsStep, CallOnReadyStep, OnReadyReturnsStep, ResetStep DEF R!Finish
  <2>4. CASE t \in RPCClients /\ R!OnReady(t)
      BY <2>4, OnReadyStep
  <2>5. CASE R!Wait(t) \/ R!WaitForReturns(t)
      BY <2>5, WaitStep
  <2> QED
      BY <2>1, <2>2, <2>3, <2>4, <2>5 DEF R!Step
<1>2. CASE UNCHANGED R!vars
  <2>1. UNCHANGED <<rready, running, error, on_ready, on_cancel, rpc, rcalls, cancelcalls, replaced, twice, crashed>>
      BY <1>2 DEF R!vars, R!shared, R!history
  <2> QED
      BY <2>1 DEF RequestInv, RequestType, OneRunner, OneFinisher, NothingYet, PlaceOK, CancelOK
<1> QED
    BY <1>1, <1>2

\* RPCRequest, for any number of threads that run, cancel, wait for or listen
\* to a job: as long as returnSuccess() does not come after the end, nobody
\* crashes, no client is called twice, early or after it has been replaced,
\* and call_fn_ is told once, and only of an error.
THEOREM RequestHeardOnce == R!Spec => []R!HeardOnce
<1>1. RequestInv => R!HeardOnce
  <2> SUFFICES ASSUME RequestInv, ~twice
               PROVE  /\ ~crashed
                      /\ \A c \in RPCClients : rcalls[c] <= 1 /\ (rcalls[c] = 1 => rready /\ c \notin replaced)
                      /\ cancelcalls <= 1 /\ (cancelcalls = 1 => error # None)
      BY DEF R!HeardOnce
  <2>1. ~crashed /\ cancelcalls <= 1 /\ (cancelcalls = 1 => error # None)
      BY DEF RequestInv, OneFinisher, CancelOK
  <2>2. \A c \in RPCClients : rcalls[c] <= 1 /\ (rcalls[c] = 1 => rready /\ c \notin replaced)
      BY DEF RequestInv, NothingYet, PlaceOK
  <2> QED
      BY <2>1, <2>2
<1> QED
    BY <1>1, RequestStarts, RequestStep, PTL DEF R!Spec

\* ready_ never goes back, and error_ stays what it was at the end, however
\* late another thread returns, fails or cancels.
THEOREM RequestResultFinal == R!Spec => R!ResultFinal
<1>1. R!Next => (rready => rready' /\ error' = error)
  <2> SUFFICES ASSUME R!Next, rready PROVE rready' /\ error' = error
      OBVIOUS
  <2>1. PICK t \in R!Threads : R!Step(t)
      BY DEF R!Next
  <2>2. CASE R!Run(t) \/ R!OnCancel(t) \/ R!IsCancelled(t)
      BY <2>2 DEF R!Run, R!OnCancel, R!IsCancelled, R!shared
  <2>3. CASE R!ReturnSuccess(t) \/ R!ReturnError(t) \/ R!Cancel(t)
      BY <2>3 DEF R!ReturnSuccess, R!ReturnError, R!Cancel
  <2>4. CASE R!Finish(t)
      BY <2>4 DEF R!Finish, R!CallOnCancel, R!OnCancelReturns, R!CallOnReady, R!OnReadyReturns, R!Reset, R!shared
  <2>5. CASE R!OnReady(t) \/ R!Wait(t) \/ R!WaitForReturns(t)
      BY <2>5 DEF R!OnReady, R!Wait, R!WaitForReturns, R!shared
  <2> QED
      BY <2>1, <2>2, <2>3, <2>4, <2>5 DEF R!Step
<1> QED
    BY <1>1, PTL DEF R!Spec, R!ResultFinal
-----------------------------------------------------------------------------
\* DelayedQueue and CoalescingDelayedQueue: what the queue holds, in which order.
DelayEntry == [when : 0..MaxTime, job : DelayJobs]
EntriesOf(q) == {q[i] : i \in 1..Len(q)}
InTimeOrder(q) == \A i, k \in 1..Len(q) : i <= k => q[i].when <= q[k].when
OneEntry(q) == \A i, k \in 1..Len(q) : q[i].job = q[k].job => i = k
QueueRight(q) == q \in Seq(DelayEntry) /\ InTimeOrder(q) /\ OneEntry(q)

\* A set of numbers has a least one.
LEMMA LeastOf ==
    ASSUME NEW S, S # {}, S \subseteq Nat
    PROVE  D!Min(S) \in S /\ \A n \in S : D!Min(S) <= n
<1> DEFINE Before == {p \in Nat \X Nat : p[1] < p[2]}
<1>1. IsWellFoundedOn(Before, Nat)
    BY NatLessThanWellFounded, Zenon DEF OpToRel
<1> HIDE DEF Before
<1>2. PICK m \in S : \A n \in S : ~(<<n, m>> \in Before)
    BY <1>1, WFMin
<1>3. \A n \in S : ~(n < m)
    BY <1>2 DEF Before
<1>4. \E x \in S : \A n \in S : x <= n
    BY <1>3
<1> QED
    BY <1>4 DEF D!Min

LEMMA EntriesTyped ==
    ASSUME NEW q \in Seq(DelayEntry)
    PROVE  /\ Len(q) \in Nat
           /\ \A i \in 1..Len(q) : q[i] \in DelayEntry /\ q[i].when \in 0..MaxTime /\ q[i].when \in Nat
<1>1. Len(q) \in Nat /\ \A i \in 1..Len(q) : q[i] \in DelayEntry
    OBVIOUS
<1>2. \A x \in DelayEntry : x.when \in 0..MaxTime
    BY DEF DelayEntry
<1>3. \A t \in 0..MaxTime : t \in Nat
    BY DelayAssumption
<1> QED
    BY <1>1, <1>2, <1>3

\* Two pieces of a queue that are put together.
LEMMA PiecesOf ==
    ASSUME NEW q \in Seq(DelayEntry), NEW l \in 1..Len(q) + 1, NEW u \in 1..Len(q) + 1, NEW n, n = Len(q),
           NEW a, a = SubSeq(q, 1, l - 1), NEW b, b = SubSeq(q, u, n)
    PROVE  /\ a \in Seq(DelayEntry) /\ Len(a) = l - 1 /\ \A i \in 1..l - 1 : a[i] = q[i]
           /\ b \in Seq(DelayEntry) /\ Len(b) = (n + 1) - u /\ \A i \in 1..(n + 1) - u : b[i] = q[(u + i) - 1]
<1>1. n \in Nat
    OBVIOUS
<1>2. /\ a \in Seq(DelayEntry) /\ Len(a) = l - 1 /\ \A i \in 1..l - 1 : a[i] = q[i]
    BY <1>1
<1>3. /\ b \in Seq(DelayEntry) /\ Len(b) = (n + 1) - u /\ \A i \in 1..(n + 1) - u : b[i] = q[(u + i) - 1]
    BY <1>1
<1> QED
    BY <1>2, <1>3

\* lower_bound() and upper_bound() enclose the entries of a time.
LEMMA BoundsRight ==
    ASSUME NEW q, QueueRight(q), NEW t \in 0..MaxTime, NEW l, NEW u,
           l = D!LowerBound(q, t), u = D!UpperBound(q, t)
    PROVE  /\ l \in 1..Len(q) + 1 /\ u \in 1..Len(q) + 1 /\ l <= u
           /\ \A i \in 1..Len(q) : (i < l <=> q[i].when < t) /\ (i < u <=> q[i].when <= t)
<1>1. PICK n : n = Len(q)
    OBVIOUS
<1>2. /\ n \in Nat /\ t \in Nat
      /\ \A i \in 1..n : q[i].when \in Nat
      /\ \A i, k \in 1..n : i <= k => q[i].when <= q[k].when
    BY <1>1, EntriesTyped, DelayAssumption DEF QueueRight, InTimeOrder
<1>3. PICK A, B : /\ A = {k \in 1..n + 1 : k <= n => q[k].when >= t}
                  /\ B = {k \in 1..n + 1 : k <= n => q[k].when > t}
    OBVIOUS
<1>4. n + 1 \in A /\ n + 1 \in B /\ A \subseteq Nat /\ B \subseteq Nat
    BY <1>2, <1>3
<1>5. l = D!Min(A) /\ u = D!Min(B)
    BY <1>1, <1>3 DEF D!LowerBound, D!UpperBound
<1>6. /\ l \in A /\ (\A k \in A : l <= k)
      /\ u \in B /\ (\A k \in B : u <= k)
    BY <1>4, <1>5, LeastOf
<1>7. l \in 1..n + 1 /\ u \in 1..n + 1
    BY <1>3, <1>6
<1>8. ASSUME NEW i \in 1..n PROVE (i < l <=> q[i].when < t)
  <2>1. CASE i < l
    <3>1. i \notin A
        BY <1>6, <1>7, <2>1
    <3> QED
        BY <1>2, <1>3, <2>1, <3>1
  <2>2. CASE ~(i < l)
    <3>1. l <= i /\ l \in 1..n
        BY <1>2, <1>7, <2>2
    <3>2. q[l].when >= t /\ q[l].when <= q[i].when
        BY <1>2, <1>3, <1>6, <3>1
    <3> QED
        BY <1>2, <2>2, <3>1, <3>2
  <2> QED
      BY <2>1, <2>2
<1>9. ASSUME NEW i \in 1..n PROVE (i < u <=> q[i].when <= t)
  <2>1. CASE i < u
    <3>1. i \notin B
        BY <1>6, <1>7, <2>1
    <3> QED
        BY <1>2, <1>3, <2>1, <3>1
  <2>2. CASE ~(i < u)
    <3>1. u <= i /\ u \in 1..n
        BY <1>2, <1>7, <2>2
    <3>2. q[u].when > t /\ q[u].when <= q[i].when
        BY <1>2, <1>3, <1>6, <3>1
    <3> QED
        BY <1>2, <2>2, <3>1, <3>2
  <2> QED
      BY <2>1, <2>2
<1>10. l <= u
  <2>1. \A k \in B : k \in A
      BY <1>2, <1>3
  <2> QED
      BY <1>6, <2>1
<1> QED
    BY <1>1, <1>7, <1>8, <1>9, <1>10

\* An entry enters behind those of its time, and disturbs no order.
LEMMA EmplaceRight ==
    ASSUME NEW q, QueueRight(q), NEW e \in DelayEntry, \A x \in EntriesOf(q) : x.job # e.job,
           NEW r, r = D!Emplace(q, e)
    PROVE  QueueRight(r) /\ Len(r) = Len(q) + 1 /\ EntriesOf(r) = EntriesOf(q) \cup {e}
<1>1. PICK n, u : n = Len(q) /\ u = D!UpperBound(q, e.when)
    OBVIOUS
<1>2. e.when \in 0..MaxTime
    BY DEF DelayEntry
<1>3. n \in Nat /\ q \in Seq(DelayEntry) /\ \A i \in 1..n : q[i] \in DelayEntry /\ q[i].when \in Nat
    BY <1>1, EntriesTyped DEF QueueRight
<1>4. u \in 1..n + 1 /\ \A i \in 1..n : i < u <=> q[i].when <= e.when
    BY <1>1, <1>2, BoundsRight
<1>5. PICK a, b : a = SubSeq(q, 1, u - 1) /\ b = SubSeq(q, u, n)
    OBVIOUS
<1>6. /\ a \in Seq(DelayEntry) /\ Len(a) = u - 1 /\ \A i \in 1..u - 1 : a[i] = q[i]
      /\ b \in Seq(DelayEntry) /\ Len(b) = (n + 1) - u /\ \A i \in 1..(n + 1) - u : b[i] = q[(u + i) - 1]
    BY SMTT(30), <1>1, <1>3, <1>4, <1>5, PiecesOf
<1>7. r = a \o <<e>> \o b
    BY <1>1, <1>5 DEF D!Emplace
<1>8. r \in Seq(DelayEntry) /\ Len(r) = n + 1
  <2>1. <<e>> \in Seq(DelayEntry) /\ Len(<<e>>) = 1
      OBVIOUS
  <2>2. PICK c : c = a \o <<e>> /\ r = c \o b
      BY <1>7
  <2>3. c \in Seq(DelayEntry) /\ Len(c) = Len(a) + 1
      BY <1>6, <2>1, <2>2
  <2>4. r \in Seq(DelayEntry) /\ Len(r) = Len(c) + Len(b)
    <3>1. b \in Seq(DelayEntry) /\ c \in Seq(DelayEntry)
        BY <1>6, <2>3
    <3>2. c \o b \in Seq(DelayEntry) /\ Len(c \o b) = Len(c) + Len(b)
        BY <3>1, ConcatProperties
    <3> QED
        BY <2>2, <3>2
  <2> QED
      BY <1>3, <1>4, <1>6, <2>3, <2>4
<1>9. /\ \A i \in 1..n + 1 : i < u => i \in 1..n /\ r[i] = q[i]
      /\ r[u] = e
      /\ \A i \in 1..n + 1 : i > u => i - 1 \in 1..n /\ r[i] = q[i - 1]
  <2>1. PICK c : c = a \o <<e>>
      OBVIOUS
  <2>2. c \in Seq(DelayEntry) /\ Len(c) = u /\ c[u] = e /\ \A i \in 1..u - 1 : c[i] = q[i]
      BY <1>4, <1>6, <2>1
  <2>3. r = c \o b
      BY <1>7, <2>1
  <2>4. ASSUME NEW i \in 1..n + 1, i < u PROVE i \in 1..n /\ r[i] = q[i]
    <3>1. i \in 1..n /\ i \in 1..u - 1 /\ i \in 1..u
        BY <1>3, <1>4, <2>4
    <3> QED
        BY <1>6, <2>2, <2>3, <3>1
  <2>5. u \in 1..u
      BY <1>4
  <2>6. r[u] = e
      BY <1>6, <2>2, <2>3, <2>5
  <2>7. ASSUME NEW i \in 1..n + 1, i > u PROVE i - 1 \in 1..n /\ r[i] = q[i - 1]
    <3>1. i - 1 \in 1..n /\ i - u \in 1..(n + 1) - u /\ (u + (i - u)) - 1 = i - 1 /\ i \in u + 1..n + 1
        BY <1>3, <1>4, <2>7
    <3>2. r[i] = b[i - u]
        BY <1>6, <1>8, <2>2, <2>3, <2>7
    <3> QED
        BY <1>6, <3>1, <3>2
  <2> QED
      BY <2>4, <2>6, <2>7
<1>10. InTimeOrder(r)
  <2> SUFFICES ASSUME NEW i \in 1..n + 1, NEW k \in 1..n + 1, i <= k PROVE r[i].when <= r[k].when
      BY <1>8 DEF InTimeOrder
  <2>1. \A x, y \in 1..n : x <= y => q[x].when <= q[y].when
      BY <1>1 DEF QueueRight, InTimeOrder
  <2>2. e.when \in Nat
      BY <1>2, DelayAssumption
  <2>3. CASE i < u /\ k < u
      BY <1>9, <2>1, <2>3
  <2>4. CASE i < u /\ k = u
      BY <1>4, <1>9, <2>4
  <2>5. CASE i < u /\ k > u
    <3>1. i <= k - 1
        BY <1>4, <2>5
    <3> QED
        BY <1>9, <2>1, <2>5, <3>1
  <2>6. CASE i = u /\ k = u
      BY <1>9, <2>2, <2>6
  <2>7. CASE i = u /\ k > u
    <3>1. ~(k - 1 < u)
        BY <1>4, <2>7
    <3> QED
        BY <1>3, <1>4, <1>9, <2>2, <2>7, <3>1
  <2>8. CASE i > u
    <3>1. k > u /\ i - 1 <= k - 1
        BY <1>4, <2>8
    <3> QED
        BY <1>9, <2>1, <2>8, <3>1
  <2> QED
      BY <1>4, <2>3, <2>4, <2>5, <2>6, <2>7, <2>8
<1>11. OneEntry(r)
  <2> SUFFICES ASSUME NEW i \in 1..n + 1, NEW k \in 1..n + 1, i < k PROVE r[i].job # r[k].job
      BY <1>8 DEF OneEntry
  <2>1. /\ \A x, y \in 1..n : x # y => q[x].job # q[y].job
        /\ \A x \in 1..n : q[x].job # e.job
      BY <1>1 DEF QueueRight, OneEntry, EntriesOf
  <2>2. CASE k < u
      BY <1>4, <1>9, <2>1, <2>2
  <2>3. CASE k = u
      BY <1>9, <2>1, <2>3
  <2>4. CASE k > u /\ i < u
    <3>1. i # k - 1
        BY <1>4, <2>4
    <3> QED
        BY <1>9, <2>1, <2>4, <3>1
  <2>5. CASE k > u /\ i = u
      BY <1>9, <2>1, <2>5
  <2>6. CASE k > u /\ i > u
    <3>1. i - 1 # k - 1
        OBVIOUS
    <3> QED
        BY <1>9, <2>1, <2>6, <3>1
  <2> QED
      BY <1>4, <2>2, <2>3, <2>4, <2>5, <2>6
<1>12. EntriesOf(r) = EntriesOf(q) \cup {e}
  <2>1. ASSUME NEW i \in 1..n PROVE \E k \in 1..n + 1 : r[k] = q[i]
    <3>1. CASE i < u
        BY <1>3, <1>9, <3>1
    <3>2. CASE ~(i < u)
      <4>1. i + 1 \in 1..n + 1 /\ i + 1 > u /\ (i + 1) - 1 = i
          BY <1>3, <1>4, <3>2
      <4> QED
          BY <1>9, <4>1
    <3> QED
        BY <3>1, <3>2
  <2>2. ASSUME NEW k \in 1..n + 1 PROVE r[k] = e \/ \E i \in 1..n : r[k] = q[i]
      BY <1>4, <1>9
  <2>3. u \in 1..n + 1
      BY <1>4
  <2> QED
      BY <1>1, <1>8, <1>9, <2>1, <2>2, <2>3 DEF EntriesOf
<1> QED
    BY <1>1, <1>8, <1>10, <1>11, <1>12 DEF QueueRight

\* What erase() takes out is every entry of the time.
LEMMA EraseRight ==
    ASSUME NEW q, QueueRight(q), NEW t \in 0..MaxTime, NEW r, r = D!EraseTime(q, t)
    PROVE  /\ QueueRight(r) /\ Len(r) <= Len(q)
           /\ EntriesOf(r) = {x \in EntriesOf(q) : x.when # t}
           /\ Len(r) = Len(q) - 1 => \A x, y \in EntriesOf(q) : x.when = t /\ y.when = t => x = y
<1>1. PICK n, l, u : n = Len(q) /\ l = D!LowerBound(q, t) /\ u = D!UpperBound(q, t)
    OBVIOUS
<1>3. n \in Nat /\ q \in Seq(DelayEntry) /\ t \in Nat /\ \A i \in 1..n : q[i] \in DelayEntry /\ q[i].when \in Nat
    BY <1>1, EntriesTyped, DelayAssumption DEF QueueRight
<1>4. /\ l \in 1..n + 1 /\ u \in 1..n + 1 /\ l <= u
      /\ \A i \in 1..n : (i < l <=> q[i].when < t) /\ (i < u <=> q[i].when <= t)
    BY <1>1, BoundsRight
<1>5. PICK a, b : a = SubSeq(q, 1, l - 1) /\ b = SubSeq(q, u, n)
    OBVIOUS
<1>6. /\ a \in Seq(DelayEntry) /\ Len(a) = l - 1 /\ \A i \in 1..l - 1 : a[i] = q[i]
      /\ b \in Seq(DelayEntry) /\ Len(b) = (n + 1) - u /\ \A i \in 1..(n + 1) - u : b[i] = q[(u + i) - 1]
    BY SMTT(30), <1>1, <1>3, <1>4, <1>5, PiecesOf
<1>7. r = a \o b
    BY <1>1, <1>5 DEF D!EraseTime
<1>8. PICK d : d = u - l
    OBVIOUS
<1>9. d \in Nat /\ d <= n /\ r \in Seq(DelayEntry) /\ Len(r) = n - d
  <2>1. r \in Seq(DelayEntry) /\ Len(r) = Len(a) + Len(b)
      BY <1>6, <1>7
  <2>2. d \in Nat /\ d <= n /\ (l - 1) + ((n + 1) - u) = n - d
      BY <1>3, <1>4, <1>8
  <2> QED
      BY <1>6, <2>1, <2>2
<1>10. /\ \A i \in 1..n - d : i < l => i \in 1..n /\ r[i] = q[i]
       /\ \A i \in 1..n - d : i >= l => i + d \in 1..n /\ i + d >= u /\ r[i] = q[i + d]
  <2>1. ASSUME NEW i \in 1..n - d, i < l PROVE i \in 1..n /\ r[i] = q[i]
    <3>1. i \in 1..n /\ i \in 1..l - 1
        BY <1>3, <1>4, <1>9, <2>1
    <3> QED
        BY <1>6, <1>7, <3>1
  <2>2. ASSUME NEW i \in 1..n - d, i >= l PROVE i + d \in 1..n /\ i + d >= u /\ r[i] = q[i + d]
    <3>1. /\ i + d \in 1..n /\ i + d >= u
          /\ i - (l - 1) \in 1..(n + 1) - u /\ (u + (i - (l - 1))) - 1 = i + d
        BY <1>3, <1>4, <1>8, <1>9, <2>2
    <3>2. r[i] = b[i - (l - 1)]
      <4>1. i \in 1..Len(a) + Len(b) /\ ~(i <= Len(a))
          BY <1>3, <1>4, <1>6, <1>8, <1>9, <2>2
      <4> QED
          BY <1>6, <1>7, <4>1
    <3> QED
        BY <1>6, <3>1, <3>2
  <2> QED
      BY <2>1, <2>2
<1>11. InTimeOrder(r)
  <2> SUFFICES ASSUME NEW i \in 1..n - d, NEW k \in 1..n - d, i <= k PROVE r[i].when <= r[k].when
      BY <1>9 DEF InTimeOrder
  <2>1. \A x, y \in 1..n : x <= y => q[x].when <= q[y].when
      BY <1>1 DEF QueueRight, InTimeOrder
  <2>2. CASE k < l
      BY <1>4, <1>10, <2>1, <2>2
  <2>3. CASE i < l /\ k >= l
    <3>1. i <= k + d
        BY <1>9
    <3> QED
        BY <1>10, <2>1, <2>3, <3>1
  <2>4. CASE i >= l
    <3>1. k >= l /\ i + d <= k + d
        BY <1>4, <1>9, <2>4
    <3> QED
        BY <1>10, <2>1, <2>4, <3>1
  <2> QED
      BY <1>4, <2>2, <2>3, <2>4
<1>12. OneEntry(r)
  <2> SUFFICES ASSUME NEW i \in 1..n - d, NEW k \in 1..n - d, i < k PROVE r[i].job # r[k].job
      BY <1>9 DEF OneEntry
  <2>1. \A x, y \in 1..n : x # y => q[x].job # q[y].job
      BY <1>1 DEF QueueRight, OneEntry
  <2>2. CASE k < l
      BY <1>4, <1>10, <2>1, <2>2
  <2>3. CASE i < l /\ k >= l
    <3>1. i # k + d
        BY <1>9
    <3> QED
        BY <1>10, <2>1, <2>3, <3>1
  <2>4. CASE i >= l
    <3>1. k >= l /\ i + d # k + d
        BY <1>4, <1>9, <2>4
    <3> QED
        BY <1>10, <2>1, <2>4, <3>1
  <2> QED
      BY <1>4, <2>2, <2>3, <2>4
<1>13. EntriesOf(r) = {x \in EntriesOf(q) : x.when # t}
  <2>1. ASSUME NEW i \in 1..n, q[i].when # t PROVE \E k \in 1..n - d : r[k] = q[i]
    <3>1. CASE i < l
      <4>1. i \in 1..n - d
          BY <1>3, <1>4, <1>8, <3>1
      <4> QED
          BY <1>10, <3>1, <4>1
    <3>2. CASE ~(i < l)
      <4>1. i >= u
          BY <1>3, <1>4, <2>1, <3>2
      <4>2. i - d \in 1..n - d /\ i - d >= l /\ (i - d) + d = i
          BY <1>3, <1>4, <1>8, <1>9, <4>1
      <4> QED
          BY <1>10, <4>2
    <3> QED
        BY <3>1, <3>2
  <2>2. ASSUME NEW k \in 1..n - d PROVE \E i \in 1..n : r[k] = q[i] /\ q[i].when # t
    <3>1. CASE k < l
        BY <1>3, <1>4, <1>10, <3>1
    <3>2. CASE k >= l
      <4>1. k + d \in 1..n /\ ~(k + d < u) /\ r[k] = q[k + d]
          BY <1>4, <1>9, <1>10, <3>2
      <4> QED
          BY <1>3, <1>4, <4>1
    <3> QED
        BY <1>4, <3>1, <3>2
  <2>3. /\ EntriesOf(q) = {q[i] : i \in 1..n}
        /\ EntriesOf(r) = {r[k] : k \in 1..n - d}
      BY <1>1, <1>9 DEF EntriesOf
  <2> QED
      BY <2>1, <2>2, <2>3
<1>14. ASSUME Len(r) = n - 1, NEW x \in EntriesOf(q), NEW y \in EntriesOf(q), x.when = t, y.when = t
       PROVE  x = y
  <2>1. PICK i, k \in 1..n : x = q[i] /\ y = q[k]
      BY <1>1 DEF EntriesOf
  <2>2. ~(i < l) /\ i < u /\ ~(k < l) /\ k < u
      BY <1>3, <1>4, <1>14, <2>1
  <2>3. u = l + 1
      BY <1>3, <1>4, <1>8, <1>9, <1>14
  <2>4. i = k
      BY <1>3, <1>4, <2>2, <2>3
  <2> QED
      BY <2>1, <2>4
<1>15. Len(r) <= n
    BY <1>3, <1>9
<1> QED
    BY <1>1, <1>9, <1>11, <1>12, <1>13, <1>14, <1>15 DEF QueueRight

\* The first entry comes out.
LEMMA TailRight ==
    ASSUME NEW q, QueueRight(q), q # << >>
    PROVE  /\ QueueRight(Tail(q)) /\ Len(Tail(q)) = Len(q) - 1 /\ Len(q) >= 1
           /\ q[1] \in EntriesOf(q) /\ q[1] \in DelayEntry
           /\ EntriesOf(Tail(q)) \subseteq EntriesOf(q)
           /\ \A x \in EntriesOf(q) : x \in EntriesOf(Tail(q)) <=> x.job # q[1].job
<1>1. PICK n, r : n = Len(q) /\ r = Tail(q)
    OBVIOUS
<1>2. /\ q \in Seq(DelayEntry) /\ n \in Nat \ {0} /\ r \in Seq(DelayEntry) /\ Len(r) = n - 1
      /\ \A i \in 1..n - 1 : i + 1 \in 1..n /\ r[i] = q[i + 1]
    BY <1>1 DEF QueueRight
<1>3. /\ \A x, y \in 1..n : x <= y => q[x].when <= q[y].when
      /\ \A x, y \in 1..n : q[x].job = q[y].job => x = y
    BY <1>1 DEF QueueRight, InTimeOrder, OneEntry
<1>4. InTimeOrder(r)
  <2> SUFFICES ASSUME NEW i \in 1..n - 1, NEW k \in 1..n - 1, i <= k PROVE r[i].when <= r[k].when
      BY <1>2 DEF InTimeOrder
  <2>1. i + 1 <= k + 1
      BY <1>2
  <2> QED
      BY <1>2, <1>3, <2>1
<1>5. OneEntry(r)
  <2> SUFFICES ASSUME NEW i \in 1..n - 1, NEW k \in 1..n - 1, r[i].job = r[k].job PROVE i = k
      BY <1>2 DEF OneEntry
  <2>1. i + 1 \in 1..n /\ k + 1 \in 1..n /\ q[i + 1].job = q[k + 1].job
      BY <1>2
  <2>2. i + 1 = k + 1
      BY <1>3, <2>1
  <2> QED
      BY <1>2, <2>2
<1>6. 1 \in 1..n /\ q[1] \in DelayEntry
    BY <1>2
<1>7. ASSUME NEW x \in EntriesOf(q) PROVE x \in EntriesOf(r) <=> x.job # q[1].job
  <2>1. PICK i \in 1..n : x = q[i]
      BY <1>1 DEF EntriesOf
  <2>2. CASE i = 1
    <3>1. \A k \in 1..n - 1 : r[k] # x
      <4> SUFFICES ASSUME NEW k \in 1..n - 1, r[k] = x PROVE FALSE
          OBVIOUS
      <4>1. k + 1 # 1 /\ q[k + 1] = q[1]
          BY <1>2, <2>1, <2>2
      <4> QED
          BY <1>2, <1>3, <1>6, <4>1
    <3> QED
        BY <1>2, <2>1, <2>2, <3>1 DEF EntriesOf
  <2>3. CASE i # 1
    <3>1. i - 1 \in 1..n - 1 /\ (i - 1) + 1 = i
        BY <1>2, <2>3
    <3>2. r[i - 1] = x
        BY <1>2, <2>1, <3>1
    <3>3. x \in EntriesOf(r)
        BY <1>2, <3>1, <3>2 DEF EntriesOf
    <3> QED
        BY <1>3, <1>6, <2>1, <2>3, <3>3
  <2> QED
      BY <2>2, <2>3
<1>8. EntriesOf(r) \subseteq EntriesOf(q)
    BY <1>1, <1>2 DEF EntriesOf
<1>9. q[1] \in EntriesOf(q) /\ n >= 1
    BY <1>1, <1>2, <1>6 DEF EntriesOf
<1> QED
    BY <1>1, <1>2, <1>4, <1>5, <1>6, <1>7, <1>8, <1>9 DEF QueueRight

DelayThreads == DelayProducers \cup DelayConsumers
DelayType ==
    /\ coalescing \in BOOLEAN /\ struck \in BOOLEAN /\ length \in Nat /\ now \in Nat
    /\ map \in [DelayJobs -> 0..D!Never] /\ due \in [DelayJobs -> 0..D!Never]
    /\ dpc \in [DelayThreads -> {"idle", "asleep", "awake", "timed", "notify"}]
    /\ until \in [DelayConsumers -> Nat]
    /\ darg \in [DelayProducers -> Seq(DelayEntry)]
    /\ \A p \in DelayProducers : dpc[p] # "timed" /\ (dpc[p] \in {"asleep", "awake"} => darg[p] # << >>)

\* The entry of a job is at the earliest time that the job was inserted with.
EntriesInv == QueueRight(dqueue) /\ \A x \in EntriesOf(dqueue) : due[x.job] = x.when
LengthRight ==
    /\ length >= Len(dqueue)
    /\ coalescing => map = due
    /\ ~coalescing => ~struck /\ length = Len(dqueue)
ArgsRight ==
    ~coalescing =>
      /\ \A p, o \in DelayProducers :
           darg[p] # << >> /\ darg[o] # << >> /\ darg[p][1].job = darg[o][1].job => p = o
      /\ \A p \in DelayProducers : darg[p] # << >> => due[darg[p][1].job] = D!Never

\* A job that is to come out is in the queue, unless erase() has struck others.
DueJobsKept == ~struck => \A j \in DelayJobs : due[j] # D!Never => \E x \in EntriesOf(dqueue) : x.job = j

\* Whoever waits has reason to, and not for longer than until the first entry
\* is due, or a notify_all() is to come.
DelayNotifying == \E t \in DelayThreads : dpc[t] = "notify"
DelaySleepersNotified ==
    \/ DelayNotifying
    \/ /\ \A p \in DelayProducers : dpc[p] = "asleep" => D!Full
       /\ \A c \in DelayConsumers :
            /\ dpc[c] = "asleep" => dqueue = << >>
            /\ dpc[c] = "timed" /\ dqueue # << >> => until[c] <= dqueue[1].when

DelayInv ==
    DelayType /\ EntriesInv /\ LengthRight /\ ArgsRight /\ DueJobsKept /\ DelaySleepersNotified

\* No job comes out before the earliest of its times in this step.
NoneEarly == \A j \in DelayJobs : due[j] # D!Never /\ due'[j] = D!Never => now >= due[j]

LEMMA DelayTimes ==
    /\ D!Never \in Nat /\ D!Never \notin 0..MaxTime
    /\ \A t \in 0..MaxTime : t \in Nat /\ t \in 0..D!Never /\ t < D!Never
    /\ \A t \in 0..D!Never : t \in Nat /\ (t # D!Never => t \in 0..MaxTime)
BY DelayAssumption DEF D!Never

\* insert() with room in the queue
LEMMA EnterStep ==
    ASSUME DelayInv, NEW p \in DelayProducers, NEW e \in DelayEntry, D!Enter(p, e), dpc[p] # "notify",
           ~coalescing => /\ due[e.job] = D!Never
                          /\ \A o \in DelayProducers \ {p} : darg[o] # << >> => darg[o][1].job # e.job
    PROVE  DelayInv' /\ NoneEarly
<1>1. DelayType /\ EntriesInv /\ LengthRight /\ ArgsRight /\ DueJobsKept /\ DelaySleepersNotified
    BY DEF DelayInv
<1>2. PICK j, t, q : j = e.job /\ t = e.when /\ q = dqueue
    OBVIOUS
<1>3. /\ darg' = [darg EXCEPT ![p] = << >>] /\ due' = [due EXCEPT ![j] = D!Earlier(@, t)]
      /\ coalescing' = coalescing /\ now' = now /\ until' = until
    BY <1>2 DEF D!Enter
<1>4. j \in DelayJobs /\ t \in 0..MaxTime /\ t \in Nat /\ t < D!Never /\ D!Never \in Nat
    BY <1>2, DelayTimes DEF DelayEntry
<1>5. due[j] \in Nat /\ map[j] \in Nat /\ due[j] \in 0..D!Never
    BY <1>1, <1>4, DelayTimes DEF DelayType
<1>6. /\ due'[j] = D!Earlier(due[j], t) /\ \A k \in DelayJobs \ {j} : due'[k] = due[k]
    BY <1>1, <1>3, <1>4 DEF DelayType
<1>7. due'[j] # D!Never /\ due'[j] \in 0..D!Never /\ D!Earlier(due[j], t) \in 0..D!Never
  <2>1. (D!Earlier(due[j], t) = due[j] /\ due[j] < t) \/ D!Earlier(due[j], t) = t
      BY DEF D!Earlier
  <2> QED
      BY <1>4, <1>5, <1>6, <2>1, DelayTimes
<1>8. NoneEarly
    BY <1>6, <1>7 DEF NoneEarly
<1>9. due' \in [DelayJobs -> 0..D!Never] /\ darg' \in [DelayProducers -> Seq(DelayEntry)]
  <2>1. << >> \in Seq(DelayEntry)
      OBVIOUS
  <2>2. darg' \in [DelayProducers -> Seq(DelayEntry)]
      BY <1>1, <1>3, <2>1 DEF DelayType
  <2>3. due' \in [DelayJobs -> 0..D!Never]
      BY <1>1, <1>3, <1>7 DEF DelayType
  <2> QED
      BY <2>2, <2>3
<1>10. darg'[p] = << >> /\ \A o \in DelayProducers \ {p} : darg'[o] = darg[o]
    BY <1>1, <1>3 DEF DelayType
<1>11. CASE D!Moves(e) /\ map[j] <= t /\ dpc' = [dpc EXCEPT ![p] = "idle"]
            /\ dqueue' = q /\ length' = length /\ map' = map /\ struck' = struck
  <2>1. coalescing /\ map = due
      BY <1>1, <1>11 DEF D!Moves, LengthRight
  <2>2. D!Earlier(due[j], t) = due[j]
      BY <1>4, <1>5, <1>11, <2>1 DEF D!Earlier
  <2>3. due' = due
      BY <1>1, <1>3, <1>4, <2>2 DEF DelayType
  <2>4. \A o \in DelayThreads \ {p} : dpc'[o] = dpc[o]
      BY <1>1, <1>11 DEF DelayType
  <2>5. dpc' \in [DelayThreads -> {"idle", "asleep", "awake", "timed", "notify"}] /\ dpc'[p] = "idle"
      BY <1>1, <1>11 DEF DelayType, DelayThreads
  <2>6. DelayType'
      BY <1>1, <1>3, <1>9, <1>10, <1>11, <2>4, <2>5 DEF DelayType, DelayThreads
  <2>7. EntriesInv' /\ LengthRight' /\ DueJobsKept' /\ ArgsRight'
      BY <1>1, <1>2, <1>3, <1>11, <2>1, <2>3 DEF EntriesInv, LengthRight, DueJobsKept, ArgsRight
  <2>8. DelaySleepersNotified'
    <3>1. CASE DelayNotifying
      <4>1. PICK o \in DelayThreads : dpc[o] = "notify"
          BY <3>1 DEF DelayNotifying
      <4>2. dpc'[o] = "notify"
          BY <2>4, <4>1
      <4> QED
          BY <4>2 DEF DelayNotifying, DelaySleepersNotified
    <3>2. CASE ~DelayNotifying
      <4>1. D!Full' <=> D!Full
          BY <1>11 DEF D!Full
      <4>2. \A o \in DelayThreads : dpc'[o] # "idle" => dpc'[o] = dpc[o]
          BY <2>4, <2>5
      <4> QED
          BY <1>1, <1>2, <1>3, <1>11, <3>2, <4>1, <4>2 DEF DelaySleepersNotified, DelayThreads
    <3> QED
        BY <3>1, <3>2
  <2> QED
      BY <1>8, <2>6, <2>7, <2>8 DEF DelayInv
<1>12. CASE ~(D!Moves(e) /\ map[j] <= t /\ dpc' = [dpc EXCEPT ![p] = "idle"]
            /\ dqueue' = q /\ length' = length /\ map' = map /\ struck' = struck)
  <2>1. PICK rest : rest = IF D!Moves(e) THEN D!EraseTime(q, map[j]) ELSE q
      OBVIOUS
  <2>2. /\ D!Moves(e) => map[j] > t
        /\ dqueue' = D!Emplace(rest, e) /\ struck' = (struck \/ (D!Moves(e) /\ Len(rest) # Len(q) - 1))
        /\ length' = length + 1
        /\ map' = IF coalescing THEN [map EXCEPT ![j] = t] ELSE map
        /\ dpc' = [dpc EXCEPT ![p] = "notify"]
      BY <1>2, <1>12, <2>1 DEF D!Enter, D!Goto
  <2>3. /\ QueueRight(q) /\ \A x \in EntriesOf(q) : due[x.job] = x.when /\ x.when \in 0..MaxTime /\ x.job \in DelayJobs
    <3>1. QueueRight(q) /\ \A x \in EntriesOf(q) : due[x.job] = x.when
        BY <1>1, <1>2 DEF EntriesInv
    <3>2. \A x \in EntriesOf(q) : x \in DelayEntry
        BY <3>1, EntriesTyped DEF QueueRight, EntriesOf
    <3> QED
        BY <3>1, <3>2 DEF DelayEntry
  <2>4. D!Moves(e) => coalescing /\ map[j] # D!Never /\ map = due /\ map[j] \in 0..MaxTime /\ due[j] > t
      BY <1>1, <1>2, <1>5, <2>2, DelayTimes DEF D!Moves, LengthRight
  <2>5. ~D!Moves(e) => due[j] = D!Never
      BY <1>1, <1>2 DEF D!Moves, LengthRight
  <2>6. /\ QueueRight(rest) /\ Len(rest) <= Len(q) /\ EntriesOf(rest) \subseteq EntriesOf(q)
        /\ \A x \in EntriesOf(rest) : x.job # j
        /\ struck' = FALSE => \A x \in EntriesOf(q) : x.job = j \/ x \in EntriesOf(rest)
    <3>1. CASE D!Moves(e)
      <4>1. /\ QueueRight(rest) /\ Len(rest) <= Len(q)
            /\ EntriesOf(rest) = {x \in EntriesOf(q) : x.when # map[j]}
            /\ Len(rest) = Len(q) - 1 => \A x, y \in EntriesOf(q) : x.when = map[j] /\ y.when = map[j] => x = y
        <5>1. PICK w \in 0..MaxTime : w = map[j]
            BY <2>4, <3>1
        <5>2. rest = D!EraseTime(q, w)
            BY <2>1, <3>1, <5>1
        <5>3. /\ QueueRight(rest) /\ Len(rest) <= Len(q)
              /\ EntriesOf(rest) = {x \in EntriesOf(q) : x.when # w}
              /\ Len(rest) = Len(q) - 1 => \A x, y \in EntriesOf(q) : x.when = w /\ y.when = w => x = y
            BY <2>3, <5>2, EraseRight
        <5> QED
            BY <5>1, <5>3
      <4>2. \A x \in EntriesOf(rest) : x.job # j
          BY <2>3, <2>4, <3>1, <4>1
      <4>3. ASSUME struck' = FALSE, NEW x \in EntriesOf(q), x \notin EntriesOf(rest) PROVE x.job = j
        <5>1. ~struck /\ Len(rest) = Len(q) - 1
            BY <1>1, <2>2, <3>1, <4>3 DEF DelayType
        <5>2. x.when = map[j]
            BY <4>1, <4>3
        <5>3. PICK y \in EntriesOf(dqueue) : y.job = j
            BY <1>1, <1>4, <2>4, <3>1, <5>1 DEF DueJobsKept
        <5>4. y \in EntriesOf(q) /\ y.when = map[j]
            BY <1>2, <2>3, <2>4, <3>1, <5>3
        <5> QED
            BY <4>1, <5>1, <5>2, <5>3, <5>4
      <4> QED
          BY <4>1, <4>2, <4>3
    <3>2. CASE ~D!Moves(e)
      <4>1. rest = q /\ \A x \in EntriesOf(q) : x.job # j
          BY <2>1, <2>3, <2>5, <3>2, DelayTimes
      <4>2. Len(q) <= Len(q)
          BY <2>3, EntriesTyped DEF QueueRight
      <4> QED
          BY <2>3, <4>1, <4>2
    <3> QED
        BY <3>1, <3>2
  <2>7. /\ QueueRight(dqueue') /\ Len(dqueue') = Len(rest) + 1
        /\ EntriesOf(dqueue') = EntriesOf(rest) \cup {e}
      BY <1>2, <2>2, <2>6, EmplaceRight
  <2>8. due'[j] = t
      BY <1>4, <1>5, <1>6, <2>4, <2>5 DEF D!Earlier
  <2>9. EntriesInv'
    <3>1. \A x \in EntriesOf(dqueue') : due'[x.job] = x.when
        BY <1>2, <1>6, <2>3, <2>6, <2>7, <2>8
    <3> QED
        BY <2>7, <3>1 DEF EntriesInv, EntriesOf
  <2>10. Len(q) \in Nat /\ Len(rest) \in Nat /\ length \in Nat /\ length >= Len(q)
      BY <1>1, <1>2, <2>3, <2>6, EntriesTyped DEF QueueRight, DelayType, LengthRight
  <2>11. LengthRight'
    <3>1. length' >= Len(dqueue')
        BY <2>2, <2>6, <2>7, <2>10
    <3>2. coalescing => map' = due'
        BY <1>1, <1>3, <1>4, <1>6, <2>2, <2>8 DEF LengthRight, DelayType
    <3>3. ~coalescing => ~struck' /\ length' = Len(dqueue')
      <4> SUFFICES ASSUME ~coalescing PROVE ~struck' /\ length' = Len(dqueue')
          OBVIOUS
      <4>1. ~D!Moves(e) /\ rest = q
          BY <2>1 DEF D!Moves
      <4> QED
          BY <1>1, <1>2, <2>2, <2>7, <2>10, <4>1 DEF LengthRight
    <3> QED
        BY <1>3, <3>1, <3>2, <3>3 DEF LengthRight
  <2>12. ArgsRight'
    <3> SUFFICES ASSUME ~coalescing
                 PROVE  /\ \A o, r \in DelayProducers :
                             darg'[o] # << >> /\ darg'[r] # << >> /\ darg'[o][1].job = darg'[r][1].job => o = r
                        /\ \A o \in DelayProducers : darg'[o] # << >> => due'[darg'[o][1].job] = D!Never
        BY <1>3 DEF ArgsRight
    <3>1. \A o \in DelayProducers : darg'[o] # << >> => o # p /\ darg'[o] = darg[o] /\ darg[o][1].job # j
        BY <1>2, <1>10
    <3>2. \A o \in DelayProducers : darg[o] # << >> => darg[o][1].job \in DelayJobs
      <4>1. \A o \in DelayProducers : darg[o] # << >> => darg[o][1] \in DelayEntry
          BY <1>1 DEF DelayType
      <4> QED
          BY <4>1 DEF DelayEntry
    <3> QED
        BY <1>1, <1>6, <3>1, <3>2 DEF ArgsRight
  <2>13. DueJobsKept'
    <3> SUFFICES ASSUME ~struck', NEW k \in DelayJobs, due'[k] # D!Never
                 PROVE  \E x \in EntriesOf(dqueue') : x.job = k
        BY DEF DueJobsKept, EntriesOf
    <3>1. CASE k = j
        BY <1>2, <2>7, <3>1
    <3>2. CASE k # j
      <4>1. ~struck /\ due[k] # D!Never
          BY <1>6, <2>2, <3>2
      <4>2. PICK x \in EntriesOf(q) : x.job = k
          BY <1>1, <1>2, <4>1 DEF DueJobsKept
      <4>3. struck' = FALSE
          BY <1>1, <2>2 DEF DelayType
      <4> QED
          BY <2>6, <2>7, <3>2, <4>2, <4>3
    <3> QED
        BY <3>1, <3>2
  <2>14. dpc'[p] = "notify" /\ dpc' \in [DelayThreads -> {"idle", "asleep", "awake", "timed", "notify"}]
         /\ \A o \in DelayThreads \ {p} : dpc'[o] = dpc[o]
      BY <1>1, <2>2 DEF DelayType, DelayThreads
  <2>15. map' \in [DelayJobs -> 0..D!Never] /\ struck' \in BOOLEAN /\ length' \in Nat
      BY <1>1, <1>4, <2>2, <2>10, DelayTimes DEF DelayType
  <2>16. DelayType'
      BY <1>1, <1>3, <1>9, <1>10, <2>14, <2>15 DEF DelayType, DelayThreads
  <2>17. DelaySleepersNotified'
      BY <2>14 DEF DelaySleepersNotified, DelayNotifying, DelayThreads
  <2> QED
      BY <1>8, <2>9, <2>11, <2>12, <2>13, <2>16, <2>17 DEF DelayInv
<1> QED
    BY <1>11, <1>12

\* A step that leaves the queue alone
LEMMA QueueKept ==
    ASSUME DelayInv, UNCHANGED <<coalescing, dqueue, length, map, due, struck>>,
           DelayType', ArgsRight', DelaySleepersNotified'
    PROVE  DelayInv' /\ NoneEarly
BY DEF DelayInv, EntriesInv, LengthRight, DueJobsKept, NoneEarly, EntriesOf

\* The second half of interruptiblePop()
LEMMA TakeStep ==
    ASSUME DelayInv, NEW c \in DelayConsumers, D!Take(c), dpc[c] \in {"idle", "awake"},
           UNCHANGED <<coalescing, now, darg, struck>>
    PROVE  DelayInv' /\ NoneEarly
<1>1. DelayType /\ EntriesInv /\ LengthRight /\ ArgsRight /\ DueJobsKept /\ DelaySleepersNotified
    BY DEF DelayInv
<1>2. c \in DelayThreads /\ c \notin DelayProducers /\ DelayProducers \subseteq DelayThreads
    BY DelayAssumption DEF DelayThreads
<1>3. CASE dqueue = << >> /\ dpc' = [dpc EXCEPT ![c] = "idle"] /\ UNCHANGED <<dqueue, length, map, until, due>>
  <2>1. dpc'[c] = "idle" /\ \A o \in DelayThreads \ {c} : dpc'[o] = dpc[o]
      BY <1>1, <1>2, <1>3 DEF DelayType
  <2>2. DelayType'
      BY <1>1, <1>2, <1>3, <2>1 DEF DelayType
  <2>3. DelaySleepersNotified'
    <3>1. CASE DelayNotifying
        BY <2>1, <3>1 DEF DelayNotifying, DelaySleepersNotified
    <3>2. CASE ~DelayNotifying
        BY <1>1, <1>2, <1>3, <2>1, <3>2 DEF DelaySleepersNotified, D!Full, DelayThreads
    <3> QED
        BY <3>1, <3>2
  <2>4. ArgsRight'
      BY <1>1, <1>3 DEF ArgsRight
  <2> QED
      BY <1>3, <2>2, <2>3, <2>4, QueueKept
<1>4. CASE /\ dqueue # << >> /\ now < dqueue[1].when
           /\ until' = [until EXCEPT ![c] = dqueue[1].when]
           /\ dpc' = [dpc EXCEPT ![c] = "timed"]
           /\ UNCHANGED <<dqueue, length, map, due>>
  <2>1. dpc'[c] = "timed" /\ \A o \in DelayThreads \ {c} : dpc'[o] = dpc[o]
      BY <1>1, <1>2, <1>4 DEF DelayType
  <2>2. dqueue[1].when \in Nat
      BY <1>1, <1>4, TailRight, DelayTimes DEF EntriesInv, DelayEntry
  <2>3. until'[c] = dqueue[1].when /\ \A d \in DelayConsumers \ {c} : until'[d] = until[d]
      BY <1>1, <1>4 DEF DelayType
  <2>4. until' \in [DelayConsumers -> Nat]
      BY <1>1, <1>4, <2>2 DEF DelayType
  <2>5. DelayType'
      BY <1>1, <1>2, <1>4, <2>1, <2>4 DEF DelayType
  <2>6. DelaySleepersNotified'
    <3>1. CASE DelayNotifying
        BY <2>1, <3>1 DEF DelayNotifying, DelaySleepersNotified
    <3>2. CASE ~DelayNotifying
      <4>1. \A p \in DelayProducers : dpc'[p] = "asleep" => D!Full'
          BY <1>1, <1>2, <1>4, <2>1, <3>2 DEF DelaySleepersNotified, D!Full
      <4>2. \A d \in DelayConsumers :
              /\ dpc'[d] = "asleep" => dqueue' = << >>
              /\ dpc'[d] = "timed" /\ dqueue' # << >> => until'[d] <= dqueue'[1].when
          BY <1>1, <1>2, <1>4, <2>1, <2>2, <2>3, <3>2 DEF DelaySleepersNotified, DelayThreads
      <4> QED
          BY <4>1, <4>2 DEF DelaySleepersNotified
    <3> QED
        BY <3>1, <3>2
  <2>7. ArgsRight'
      BY <1>1, <1>4 DEF ArgsRight
  <2> QED
      BY <1>4, <2>5, <2>6, <2>7, QueueKept
<1>5. CASE /\ dqueue # << >> /\ now >= dqueue[1].when
           /\ dqueue' = Tail(dqueue) /\ length' = length - 1
           /\ map' = [map EXCEPT ![dqueue[1].job] = D!Never]
           /\ due' = [due EXCEPT ![dqueue[1].job] = D!Never]
           /\ dpc' = [dpc EXCEPT ![c] = "notify"] /\ until' = until
  <2>1. PICK q, j : q = dqueue /\ j = dqueue[1].job
      OBVIOUS
  <2>2. /\ QueueRight(q) /\ QueueRight(Tail(q)) /\ Len(Tail(q)) = Len(q) - 1 /\ Len(q) >= 1
        /\ q[1] \in EntriesOf(q) /\ q[1] \in DelayEntry
        /\ EntriesOf(Tail(q)) \subseteq EntriesOf(q)
        /\ \A x \in EntriesOf(q) : x \in EntriesOf(Tail(q)) <=> x.job # j
    <3>1. QueueRight(q) /\ q # << >>
        BY <1>1, <1>5, <2>1 DEF EntriesInv
    <3> QED
        BY <2>1, <3>1, TailRight
  <2>3. j \in DelayJobs /\ due[j] = q[1].when
      BY <1>1, <2>1, <2>2 DEF DelayEntry, EntriesInv
  <2>4. /\ due'[j] = D!Never /\ \A k \in DelayJobs \ {j} : due'[k] = due[k]
      BY <1>1, <1>5, <2>1, <2>3 DEF DelayType
  <2>5. dpc'[c] = "notify" /\ \A o \in DelayThreads \ {c} : dpc'[o] = dpc[o]
      BY <1>1, <1>2, <1>5 DEF DelayType
  <2>6. NoneEarly
      BY <1>5, <2>1, <2>3, <2>4 DEF NoneEarly
  <2>7. EntriesInv'
    <3>1. \A x \in EntriesOf(Tail(q)) : x.job \in DelayJobs /\ x.job # j /\ due[x.job] = x.when
      <4>1. \A x \in EntriesOf(q) : x.job \in DelayJobs
          BY <2>2, EntriesTyped DEF QueueRight, EntriesOf, DelayEntry
      <4> QED
          BY <1>1, <2>1, <2>2, <4>1 DEF EntriesInv
    <3>2. \A x \in EntriesOf(Tail(q)) : due'[x.job] = x.when
        BY <2>4, <3>1
    <3>3. dqueue' = Tail(q)
        BY <1>5, <2>1
    <3> QED
        BY <2>2, <3>2, <3>3 DEF EntriesInv, EntriesOf
  <2>8. Len(q) \in Nat /\ length \in Nat /\ length >= Len(q)
      BY <1>1, <2>1, <2>2, EntriesTyped DEF QueueRight, LengthRight, DelayType
  <2>9. length' \in Nat /\ length' >= Len(dqueue') /\ (length = Len(q) => length' = Len(dqueue'))
    <3>1. PICK n, m : n = Len(q) /\ m = length
        OBVIOUS
    <3>2. n \in Nat /\ n >= 1 /\ m \in Nat /\ m >= n /\ length' = m - 1 /\ Len(dqueue') = n - 1
        BY <1>5, <2>1, <2>2, <2>8, <3>1
    <3>3. m - 1 \in Nat /\ m - 1 >= n - 1
        BY <3>2
    <3> QED
        BY <3>1, <3>2, <3>3
  <2>10. LengthRight'
    <3>1. coalescing => map' = due'
        BY <1>1, <1>5 DEF LengthRight
    <3> QED
        BY <1>1, <2>1, <2>9, <3>1 DEF LengthRight
  <2>11. D!Never \in 0..D!Never
      BY DelayTimes
  <2>12. DelayType'
    <3>1. map' \in [DelayJobs -> 0..D!Never] /\ due' \in [DelayJobs -> 0..D!Never]
        BY <1>1, <1>5, <2>1, <2>3, <2>11 DEF DelayType
    <3> QED
        BY <1>1, <1>2, <1>5, <2>5, <2>9, <3>1 DEF DelayType
  <2>13. ArgsRight'
    <3>1. \A o \in DelayProducers : darg[o] # << >> => darg[o][1].job \in DelayJobs
      <4>1. \A o \in DelayProducers : darg[o] # << >> => darg[o][1] \in DelayEntry
          BY <1>1 DEF DelayType
      <4> QED
          BY <4>1 DEF DelayEntry
    <3> QED
        BY <1>1, <2>4, <3>1 DEF ArgsRight
  <2>14. DueJobsKept'
    <3> SUFFICES ASSUME ~struck, NEW k \in DelayJobs, due'[k] # D!Never
                 PROVE  \E x \in EntriesOf(Tail(q)) : x.job = k
        BY <1>5, <2>1 DEF DueJobsKept, EntriesOf
    <3>1. k # j /\ due[k] # D!Never
        BY <2>4
    <3>2. PICK x \in EntriesOf(q) : x.job = k
        BY <1>1, <2>1, <3>1 DEF DueJobsKept
    <3> QED
        BY <2>2, <3>1, <3>2
  <2>15. DelaySleepersNotified'
      BY <1>2, <2>5 DEF DelaySleepersNotified, DelayNotifying
  <2> QED
      BY <2>6, <2>7, <2>10, <2>12, <2>13, <2>14, <2>15 DEF DelayInv
<1> QED
    BY <1>3, <1>4, <1>5 DEF D!Take, D!Goto

\* A step that moves threads only.  Who is notifying goes on or wakes everybody.
LEMMA DelayThreadsMove ==
    ASSUME DelayInv, UNCHANGED <<coalescing, dqueue, length, map, due, darg, until, struck>>, now' \in Nat,
           dpc' \in [DelayThreads -> {"idle", "asleep", "awake", "timed", "notify"}],
           \A p \in DelayProducers : dpc'[p] # "timed" /\ (dpc'[p] \in {"asleep", "awake"} => dpc[p] \in {"asleep", "awake"}),
           \/ \A t \in DelayThreads : dpc'[t] \notin {"asleep", "timed"}
           \/ \A t \in DelayThreads :
                /\ dpc[t] = "notify" => dpc'[t] = "notify"
                /\ dpc'[t] \in {"asleep", "timed"} => dpc[t] = dpc'[t]
    PROVE  DelayInv' /\ NoneEarly
<1>1. DelayType /\ ArgsRight /\ DelaySleepersNotified
    BY DEF DelayInv
<1>2. DelayType' /\ ArgsRight'
    BY <1>1 DEF DelayType, ArgsRight
<1>3. DelaySleepersNotified'
  <2>1. CASE \A t \in DelayThreads : dpc'[t] \notin {"asleep", "timed"}
      BY <2>1 DEF DelaySleepersNotified, DelayThreads
  <2>2. CASE \A t \in DelayThreads :
                /\ dpc[t] = "notify" => dpc'[t] = "notify"
                /\ dpc'[t] \in {"asleep", "timed"} => dpc[t] = dpc'[t]
    <3>1. DelayNotifying => DelayNotifying'
        BY <2>2 DEF DelayNotifying
    <3>2. D!Full' <=> D!Full
        BY DEF D!Full
    <3> QED
        BY <1>1, <2>2, <3>1, <3>2 DEF DelaySleepersNotified, DelayThreads
  <2> QED
      BY <2>1, <2>2
<1> QED
    BY <1>2, <1>3, QueueKept

LEMMA InsertStep ==
    ASSUME DelayInv, NEW p \in DelayProducers, NEW e \in DelayEntry, NEW block \in BOOLEAN, D!Insert(p, e, block)
    PROVE  DelayInv' /\ NoneEarly
<1>1. DelayType /\ ArgsRight /\ DelaySleepersNotified
    BY DEF DelayInv
<1>2. dpc[p] = "idle" /\ (~coalescing => due[e.job] = D!Never /\ ~D!Waiting(e.job))
    BY DEF D!Insert
<1>3. ~coalescing => \A o \in DelayProducers : darg[o] # << >> => darg[o][1].job # e.job
    BY <1>2 DEF D!Waiting
<1>4. CASE ~D!Full /\ D!Enter(p, e)
    BY <1>2, <1>3, <1>4, EnterStep
<1>5. CASE /\ D!Full /\ darg' = [darg EXCEPT ![p] = <<e>>] /\ dpc' = [dpc EXCEPT ![p] = "asleep"]
           /\ UNCHANGED <<coalescing, dqueue, length, map, now, until, due, struck>>
  <2>1. /\ darg'[p] = <<e>> /\ darg'[p] # << >> /\ darg'[p][1] = e /\ dpc'[p] = "asleep" /\ p \in DelayThreads
        /\ \A o \in DelayProducers \ {p} : darg'[o] = darg[o]
        /\ \A o \in DelayThreads \ {p} : dpc'[o] = dpc[o]
      BY <1>1, <1>5 DEF DelayType, DelayThreads
  <2>2. DelayType'
    <3>1. <<e>> \in Seq(DelayEntry)
        OBVIOUS
    <3>2. darg' \in [DelayProducers -> Seq(DelayEntry)]
        BY <1>1, <1>5, <3>1 DEF DelayType
    <3>3. dpc' \in [DelayThreads -> {"idle", "asleep", "awake", "timed", "notify"}]
        BY <1>1, <1>5 DEF DelayType
    <3> QED
        BY <1>1, <1>5, <2>1, <3>2, <3>3 DEF DelayType, DelayThreads
  <2>3. ArgsRight'
    <3> SUFFICES ASSUME ~coalescing
                 PROVE  /\ \A o, r \in DelayProducers :
                             darg'[o] # << >> /\ darg'[r] # << >> /\ darg'[o][1].job = darg'[r][1].job => o = r
                        /\ \A o \in DelayProducers : darg'[o] # << >> => due[darg'[o][1].job] = D!Never
        BY <1>5 DEF ArgsRight
    <3> QED
        BY <1>1, <1>2, <1>3, <2>1 DEF ArgsRight
  <2>4. DelaySleepersNotified'
    <3>1. D!Full'
        BY <1>5 DEF D!Full
    <3>2. CASE DelayNotifying
        BY <1>2, <2>1, <3>2 DEF DelayNotifying, DelaySleepersNotified
    <3>3. CASE ~DelayNotifying
      <4>1. \A c \in DelayConsumers : c # p /\ dpc'[c] = dpc[c]
          BY <2>1, DelayAssumption DEF DelayThreads
      <4> QED
          BY <1>1, <1>5, <3>1, <3>3, <4>1 DEF DelaySleepersNotified
    <3> QED
        BY <3>2, <3>3
  <2> QED
      BY <1>5, <2>2, <2>3, <2>4, QueueKept
<1>6. CASE UNCHANGED <<coalescing, dqueue, length, map, now, dpc, darg, until, due, struck>>
  <2>1. DelayType' /\ ArgsRight'
      BY <1>1, <1>6 DEF DelayType, ArgsRight
  <2>2. DelaySleepersNotified'
      BY <1>1, <1>6 DEF DelaySleepersNotified, DelayNotifying, D!Full
  <2> QED
      BY <1>6, <2>1, <2>2, QueueKept
<1> QED
    BY <1>4, <1>5, <1>6 DEF D!Insert, D!Goto

LEMMA InsertResumesStep ==
    ASSUME DelayInv, NEW p \in DelayProducers, D!InsertResumes(p)
    PROVE  DelayInv' /\ NoneEarly
<1>1. DelayType /\ ArgsRight /\ DelaySleepersNotified /\ dpc[p] = "awake"
    BY DEF DelayInv, D!InsertResumes
<1>2. darg[p] # << >> /\ darg[p][1] \in DelayEntry
    BY <1>1 DEF DelayType
<1>3. CASE ~D!Full /\ D!Enter(p, darg[p][1])
  <2>1. ~coalescing => /\ due[darg[p][1].job] = D!Never
                       /\ \A o \in DelayProducers \ {p} : darg[o] # << >> => darg[o][1].job # darg[p][1].job
      BY <1>1, <1>2 DEF ArgsRight
  <2> QED
      BY <1>1, <1>2, <1>3, <2>1, EnterStep
<1>4. CASE /\ D!Full /\ dpc' = [dpc EXCEPT ![p] = "asleep"]
           /\ UNCHANGED <<coalescing, dqueue, length, map, now, darg, until, due, struck>>
  <2>1. /\ dpc'[p] = "asleep" /\ p \in DelayThreads /\ \A o \in DelayThreads \ {p} : dpc'[o] = dpc[o]
        /\ dpc' \in [DelayThreads -> {"idle", "asleep", "awake", "timed", "notify"}]
      BY <1>1, <1>4 DEF DelayType, DelayThreads
  <2>2. DelayType' /\ ArgsRight'
      BY <1>1, <1>2, <1>4, <2>1 DEF DelayType, ArgsRight, DelayThreads
  <2>3. DelaySleepersNotified'
    <3>1. D!Full'
        BY <1>4 DEF D!Full
    <3>2. CASE DelayNotifying
        BY <1>1, <2>1, <3>2 DEF DelayNotifying, DelaySleepersNotified
    <3>3. CASE ~DelayNotifying
      <4>1. \A c \in DelayConsumers : c # p /\ dpc'[c] = dpc[c]
          BY <2>1, DelayAssumption DEF DelayThreads
      <4> QED
          BY <1>1, <1>4, <3>1, <3>3, <4>1 DEF DelaySleepersNotified
    <3> QED
        BY <3>2, <3>3
  <2> QED
      BY <1>4, <2>2, <2>3, QueueKept
<1> QED
    BY <1>3, <1>4 DEF D!InsertResumes, D!Goto

LEMMA PopStep ==
    ASSUME DelayInv, NEW c \in DelayConsumers, D!Pop(c) \/ D!PopResumes(c)
    PROVE  DelayInv' /\ NoneEarly
<1>1. DelayType /\ ArgsRight /\ DelaySleepersNotified
    BY DEF DelayInv
<1>2. dpc[c] \in {"idle", "awake"} /\ UNCHANGED <<coalescing, now, darg, struck>>
    BY DEF D!Pop, D!PopResumes
<1>3. CASE D!Take(c)
    BY <1>2, <1>3, TakeStep
<1>4. CASE dqueue = << >> /\ dpc' = [dpc EXCEPT ![c] = "asleep"] /\ UNCHANGED <<dqueue, length, map, until, due>>
  <2>1. /\ c \in DelayThreads /\ c \notin DelayProducers
        /\ dpc'[c] = "asleep" /\ (\A o \in DelayThreads \ {c} : dpc'[o] = dpc[o])
        /\ dpc' \in [DelayThreads -> {"idle", "asleep", "awake", "timed", "notify"}]
      BY <1>1, <1>4, DelayAssumption DEF DelayType, DelayThreads
  <2>2. DelayType' /\ ArgsRight'
      BY <1>1, <1>2, <1>4, <2>1 DEF DelayType, ArgsRight, DelayThreads
  <2>3. DelaySleepersNotified'
    <3>1. CASE DelayNotifying
        BY <1>2, <2>1, <3>1 DEF DelayNotifying, DelaySleepersNotified
    <3>2. CASE ~DelayNotifying
      <4>1. D!Full' <=> D!Full
          BY <1>4 DEF D!Full
      <4> QED
          BY <1>1, <1>4, <2>1, <3>2, <4>1 DEF DelaySleepersNotified, DelayThreads
    <3> QED
        BY <3>1, <3>2
  <2> QED
      BY <1>2, <1>4, <2>2, <2>3, QueueKept
<1> QED
    BY <1>3, <1>4 DEF D!Pop, D!PopResumes, D!Goto

LEMMA DelayStarts == D!Init => DelayInv
<1> SUFFICES ASSUME D!Init PROVE DelayInv
    OBVIOUS
<1>1. /\ dqueue = << >> /\ Len(dqueue) = 0 /\ dqueue \in Seq(DelayEntry) /\ length = 0 /\ now = 0 /\ coalescing \in BOOLEAN
      /\ map = [j \in DelayJobs |-> D!Never] /\ due = [j \in DelayJobs |-> D!Never] /\ struck = FALSE
      /\ dpc = [t \in DelayThreads |-> "idle"] /\ darg = [p \in DelayProducers |-> << >>]
      /\ until = [c \in DelayConsumers |-> 0]
    BY DEF D!Init, DelayThreads
<1>2. << >> \in Seq(DelayEntry) /\ D!Never \in 0..D!Never
    BY DelayTimes
<1>3. DelayType
    BY <1>1, <1>2 DEF DelayType, DelayThreads
<1>4. EntriesInv
    BY <1>1 DEF EntriesInv, QueueRight, InTimeOrder, OneEntry, EntriesOf
<1>5. LengthRight /\ ArgsRight /\ DueJobsKept
    BY <1>1 DEF LengthRight, ArgsRight, DueJobsKept
<1>6. DelaySleepersNotified
    BY <1>1 DEF DelaySleepersNotified, DelayThreads
<1> QED
    BY <1>3, <1>4, <1>5, <1>6 DEF DelayInv

LEMMA DelayStep ==
    ASSUME DelayInv, [D!Next]_(D!vars)
    PROVE  DelayInv' /\ NoneEarly
<1>1. DelayType /\ ArgsRight /\ DelaySleepersNotified
    BY DEF DelayInv
<1>2. CASE UNCHANGED D!vars
  <2>1. UNCHANGED <<coalescing, dqueue, length, map, now, dpc, darg, until, due, struck>>
      BY <1>2 DEF D!vars
  <2>2. \A p \in DelayProducers : dpc'[p] # "timed"
      BY <1>1, <2>1 DEF DelayType
  <2> QED
      BY <1>1, <2>1, <2>2, DelayThreadsMove DEF DelayType
<1>3. ASSUME NEW p \in DelayProducers, NEW j \in DelayJobs, NEW w \in 0..MaxTime, NEW block \in BOOLEAN,
             D!Insert(p, [when |-> w, job |-> j], block)
      PROVE  DelayInv' /\ NoneEarly
  <2>1. [when |-> w, job |-> j] \in DelayEntry
      BY DEF DelayEntry
  <2> QED
      BY <1>3, <2>1, InsertStep
<1>4. ASSUME NEW p \in DelayProducers, D!InsertResumes(p) PROVE DelayInv' /\ NoneEarly
    BY <1>4, InsertResumesStep
<1>5. ASSUME NEW c \in DelayConsumers, D!Pop(c) \/ D!PopResumes(c) PROVE DelayInv' /\ NoneEarly
    BY <1>5, PopStep
<1>6. ASSUME NEW c \in DelayConsumers, D!TimedOut(c) PROVE DelayInv' /\ NoneEarly
  <2>1. /\ UNCHANGED <<coalescing, dqueue, length, map, now, darg, until, due, struck>>
        /\ dpc[c] = "timed" /\ dpc' = [dpc EXCEPT ![c] = "idle"] /\ c \in DelayThreads /\ now \in Nat
      BY <1>1, <1>6 DEF D!TimedOut, D!Goto, DelayThreads, DelayType
  <2>2. dpc'[c] = "idle" /\ (\A o \in DelayThreads \ {c} : dpc'[o] = dpc[o])
        /\ dpc' \in [DelayThreads -> {"idle", "asleep", "awake", "timed", "notify"}]
      BY <1>1, <2>1 DEF DelayType
  <2>3. \A p \in DelayProducers : dpc'[p] # "timed" /\ (dpc'[p] \in {"asleep", "awake"} => dpc[p] \in {"asleep", "awake"})
      BY <1>1, <2>2 DEF DelayType, DelayThreads
  <2>4. \A t \in DelayThreads :
          /\ dpc[t] = "notify" => dpc'[t] = "notify"
          /\ dpc'[t] \in {"asleep", "timed"} => dpc[t] = dpc'[t]
      BY <2>1, <2>2
  <2> QED
      BY <2>1, <2>2, <2>3, <2>4, DelayThreadsMove
<1>7. \A l : /\ D!Woken(l) \notin {"asleep", "timed"}
             /\ l \in {"idle", "asleep", "awake", "timed", "notify"} =>
                  D!Woken(l) \in {"idle", "asleep", "awake", "timed", "notify"}
             /\ l # "timed" /\ D!Woken(l) \in {"asleep", "awake"} => l \in {"asleep", "awake"}
    BY DEF D!Woken
<1>8. ASSUME NEW t \in DelayThreads, D!NotifyAll(t) PROVE DelayInv' /\ NoneEarly
  <2>1. /\ UNCHANGED <<coalescing, dqueue, length, map, now, darg, until, due, struck>> /\ now \in Nat
        /\ dpc' = [u \in DelayThreads |-> IF u = t THEN "idle" ELSE D!Woken(dpc[u])]
      BY <1>1, <1>8 DEF D!NotifyAll, DelayThreads, DelayType
  <2>2. \A u \in DelayThreads : dpc[u] \in {"idle", "asleep", "awake", "timed", "notify"}
      BY <1>1 DEF DelayType
  <2>3. /\ \A u \in DelayThreads : dpc'[u] \notin {"asleep", "timed"}
        /\ dpc' \in [DelayThreads -> {"idle", "asleep", "awake", "timed", "notify"}]
      BY <1>7, <2>1, <2>2
  <2>4. \A p \in DelayProducers : dpc'[p] # "timed" /\ (dpc'[p] \in {"asleep", "awake"} => dpc[p] \in {"asleep", "awake"})
      BY <1>1, <1>7, <2>1, <2>3 DEF DelayType, DelayThreads
  <2> QED
      BY <2>1, <2>3, <2>4, DelayThreadsMove
<1>9. CASE D!WakeupQueue
  <2>1. /\ UNCHANGED <<coalescing, dqueue, length, map, now, darg, until, due, struck>> /\ now \in Nat
        /\ dpc' = [u \in DelayThreads |-> D!Woken(dpc[u])]
      BY <1>1, <1>9 DEF D!WakeupQueue, DelayThreads, DelayType
  <2>2. \A u \in DelayThreads : dpc[u] \in {"idle", "asleep", "awake", "timed", "notify"}
      BY <1>1 DEF DelayType
  <2>3. /\ \A u \in DelayThreads : dpc'[u] \notin {"asleep", "timed"}
        /\ dpc' \in [DelayThreads -> {"idle", "asleep", "awake", "timed", "notify"}]
      BY <1>7, <2>1, <2>2
  <2>4. \A p \in DelayProducers : dpc'[p] # "timed" /\ (dpc'[p] \in {"asleep", "awake"} => dpc[p] \in {"asleep", "awake"})
      BY <1>1, <1>7, <2>1, <2>3 DEF DelayType, DelayThreads
  <2> QED
      BY <2>1, <2>3, <2>4, DelayThreadsMove
<1>10. ASSUME NEW t \in DelayThreads, D!Spurious(t) PROVE DelayInv' /\ NoneEarly
  <2>1. /\ UNCHANGED <<coalescing, dqueue, length, map, now, darg, until, due, struck>> /\ now \in Nat
        /\ dpc[t] \in {"asleep", "timed"} /\ dpc' = [dpc EXCEPT ![t] = D!Woken(dpc[t])]
      BY <1>1, <1>10 DEF D!Spurious, D!Goto, DelayType
  <2>2. dpc'[t] = D!Woken(dpc[t]) /\ (\A o \in DelayThreads \ {t} : dpc'[o] = dpc[o])
        /\ dpc' \in [DelayThreads -> {"idle", "asleep", "awake", "timed", "notify"}]
      BY <1>1, <1>7, <2>1 DEF DelayType
  <2>3. \A p \in DelayProducers : dpc'[p] # "timed" /\ (dpc'[p] \in {"asleep", "awake"} => dpc[p] \in {"asleep", "awake"})
      BY <1>1, <1>7, <2>2 DEF DelayType, DelayThreads
  <2>4. \A u \in DelayThreads :
          /\ dpc[u] = "notify" => dpc'[u] = "notify"
          /\ dpc'[u] \in {"asleep", "timed"} => dpc[u] = dpc'[u]
      BY <1>7, <2>1, <2>2
  <2> QED
      BY <2>1, <2>2, <2>3, <2>4, DelayThreadsMove
<1>11. CASE D!Tick
  <2>1. UNCHANGED <<coalescing, dqueue, length, map, dpc, darg, until, due, struck>> /\ now' \in Nat
      BY <1>1, <1>11 DEF D!Tick, DelayType
  <2>2. \A p \in DelayProducers : dpc'[p] # "timed"
      BY <1>1, <2>1 DEF DelayType
  <2> QED
      BY <1>1, <2>1, <2>2, DelayThreadsMove DEF DelayType
<1> QED
    BY <1>2, <1>3, <1>4, <1>5, <1>6, <1>8, <1>9, <1>10, <1>11 DEF D!Next, DelayThreads

\* DelayedQueue and CoalescingDelayedQueue, for any number of producers,
\* consumers, jobs and places: a job that was inserted and has not come out is
\* in the queue, unless erase() has struck an entry of another job; and nobody
\* sleeps beside a due entry, or beside room, for which no notify_all() is to
\* come.
THEOREM DelayedNoneForgotten == D!Spec => [](DueJobsKept /\ DelaySleepersNotified)
<1>1. DelayInv /\ [D!Next]_(D!vars) => DelayInv'
    BY DelayStep
<1>2. DelayInv => DueJobsKept /\ DelaySleepersNotified
    BY DEF DelayInv
<1> QED
    BY <1>1, <1>2, DelayStarts, PTL DEF D!Spec

\* No job comes out before the earliest time it was inserted with, whatever
\* was inserted, moved and taken out meanwhile (interruptiblePop(), emplace()).
THEOREM DelayedNoneBeforeDue == D!Spec => D!NoneBeforeDue
<1>1. DelayInv /\ [D!Next]_(D!vars) => DelayInv'
    BY DelayStep
<1>2. DelayInv /\ [D!Next]_(D!vars) =>
        [\A j \in DelayJobs : due[j] # D!Never /\ due'[j] = D!Never => now >= due[j]]_(D!vars)
    BY DelayStep DEF NoneEarly
<1> QED
    BY <1>1, <1>2, DelayStarts, PTL DEF D!Spec, D!NoneBeforeDue
=============================================================================
