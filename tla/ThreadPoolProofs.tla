-------------------------- MODULE ThreadPoolProofs --------------------------
(***************************************************************************)
(* Proofs about ThreadPool, for any number of tasks, threads and clients.  *)
(* The three counting invariants support each other: a notify_one() that   *)
(* finds nobody waiting is harmless only because every queued task has a   *)
(* thread (QueueHasThreads) and the free threads are then all awake        *)
(* (FreeThreadsExact).                                                     *)
(***************************************************************************)
EXTENDS ThreadPool, FiniteSetTheorems, SequenceTheorems, TLAPS

PoolInv ==
    /\ TypeOK
    /\ FreeThreadsExact
    /\ QueueHasThreads
    /\ NoLostWakeup
    /\ StartedInOrder

-----------------------------------------------------------------------------
\* The number of threads in one state of the worker loop is a number.
LEMMA CountType ==
    ASSUME NEW f, NEW s
    PROVE  /\ Count(f, s) \in Nat
           /\ Count(f, s) = 0 <=> {w \in Threads : f[w] = s} = {}
<1> DEFINE S == {w \in Threads : f[w] = s}
<1>1. IsFiniteSet(S)
    BY PoolAssumption, FS_Subset
<1> QED
    BY <1>1, FS_CardinalityType, FS_EmptySet DEF Count

\* A thread that changes state takes one from the count of the state it
\* leaves and adds one to that of the state it enters; the others stay.
LEMMA MoveThread ==
    ASSUME NEW f \in [Threads -> PCs], NEW w \in Threads, NEW b \in PCs, f[w] # b,
           NEW s \in PCs
    PROVE  Count([f EXCEPT ![w] = b], s) = IF s = f[w] THEN Count(f, s) - 1
                                           ELSE IF s = b THEN Count(f, s) + 1
                                           ELSE Count(f, s)
<1> DEFINE S(h) == {x \in Threads : h[x] = s}
           g == [f EXCEPT ![w] = b]
<1>1. IsFiniteSet(S(f))
    BY PoolAssumption, FS_Subset
<1>2. CASE s = f[w]
  <2>1. S(g) = S(f) \ {w} /\ w \in S(f)
      BY <1>2
  <2> QED BY <1>1, <1>2, <2>1, FS_RemoveElement DEF Count
<1>3. CASE s = b
  <2>1. S(g) = S(f) \cup {w} /\ w \notin S(f)
      BY <1>3
  <2> QED BY <1>1, <1>3, <2>1, FS_AddElement DEF Count
<1>4. CASE s # f[w] /\ s # b
  <2>1. S(g) = S(f)
      BY <1>4
  <2> QED BY <1>4, <2>1 DEF Count
<1> QED
    BY <1>2, <1>3, <1>4

\* The callers that still owe a notify_one() can be counted.
LEMMA NotifyingType ==
    ASSUME TypeOK
    PROVE  IsFiniteSet(notifying) /\ Cardinality(notifying) \in Nat
<1>1. IsFiniteSet(Callers)
    BY PoolAssumption, FS_Union DEF Callers
<1> QED
    BY <1>1, FS_Subset, FS_CardinalityType DEF TypeOK

\* Popping the front of runq_ and appending it to the history of starts
\* leaves the concatenation as it was.
LEMMA PopKeepsOrder ==
    ASSUME NEW s \in Seq(Tasks), NEW q \in Seq(Tasks), q # << >>
    PROVE  Append(s, Head(q)) \o Tail(q) = s \o q
<1>1. /\ Tail(q) \in Seq(Tasks) /\ Len(Tail(q)) = Len(q) - 1
      /\ \A i \in 1..Len(Tail(q)) : Tail(q)[i] = q[i + 1]
      /\ Head(q) = q[1] /\ Head(q) \in Tasks
    BY HeadTailProperties
<1>2. /\ Append(s, Head(q)) \in Seq(Tasks)
      /\ Len(Append(s, Head(q))) = Len(s) + 1
      /\ \A i \in 1..Len(s) : Append(s, Head(q))[i] = s[i]
      /\ Append(s, Head(q))[Len(s) + 1] = Head(q)
    BY <1>1, AppendProperties
<1>3. Len(s) \in Nat /\ Len(q) \in Nat \ {0}
    BY LenProperties, EmptySeq
<1> DEFINE l == Append(s, Head(q)) \o Tail(q)
           r == s \o q
<1>4. /\ l \in Seq(Tasks) /\ Len(l) = Len(s) + Len(q)
      /\ \A i \in 1..Len(s) + Len(q) :
            l[i] = IF i <= Len(s) + 1 THEN Append(s, Head(q))[i]
                                      ELSE Tail(q)[i - (Len(s) + 1)]
    BY <1>1, <1>2, <1>3, ConcatProperties
<1>5. /\ r \in Seq(Tasks) /\ Len(r) = Len(s) + Len(q)
      /\ \A i \in 1..Len(s) + Len(q) :
            r[i] = IF i <= Len(s) THEN s[i] ELSE q[i - Len(s)]
    BY ConcatProperties
<1>6. \A i \in 1..Len(s) + Len(q) : l[i] = r[i]
  <2> SUFFICES ASSUME NEW i \in 1..Len(s) + Len(q) PROVE l[i] = r[i]
      OBVIOUS
  <2>1. CASE i <= Len(s)
      BY <2>1, <1>2, <1>3, <1>4, <1>5
  <2>2. CASE i = Len(s) + 1
      BY <2>2, <1>1, <1>2, <1>3, <1>4, <1>5
  <2>3. CASE i > Len(s) + 1
    <3>1. l[i] = Tail(q)[i - (Len(s) + 1)] /\ r[i] = q[i - Len(s)]
        BY <2>3, <1>3, <1>4, <1>5
    <3>2. i - (Len(s) + 1) \in 1..Len(Tail(q))
        BY <2>3, <1>1, <1>3
    <3>3. Tail(q)[i - (Len(s) + 1)] = q[(i - (Len(s) + 1)) + 1]
        BY <3>2, <1>1
    <3>4. (i - (Len(s) + 1)) + 1 = i - Len(s)
        BY <1>3
    <3> QED BY <3>1, <3>3, <3>4
  <2> QED BY <2>1, <2>2, <2>3, <1>3
<1> QED
    BY <1>4, <1>5, <1>6, SeqEqual

\* Pushing at the back of runq_ appends to the concatenation.
LEMMA PushKeepsOrder ==
    ASSUME NEW s \in Seq(Tasks), NEW q \in Seq(Tasks), NEW t \in Tasks
    PROVE  Append(s \o q, t) = s \o Append(q, t)
<1>1. /\ Append(q, t) \in Seq(Tasks) /\ Len(Append(q, t)) = Len(q) + 1
      /\ \A i \in 1..Len(q) : Append(q, t)[i] = q[i]
      /\ Append(q, t)[Len(q) + 1] = t
    BY AppendProperties
<1>2. Len(s) \in Nat /\ Len(q) \in Nat
    BY LenProperties
<1>3. /\ s \o q \in Seq(Tasks) /\ Len(s \o q) = Len(s) + Len(q)
      /\ \A i \in 1..Len(s) + Len(q) :
            (s \o q)[i] = IF i <= Len(s) THEN s[i] ELSE q[i - Len(s)]
    BY ConcatProperties
<1> DEFINE l == Append(s \o q, t)
           r == s \o Append(q, t)
<1>4. /\ l \in Seq(Tasks) /\ Len(l) = Len(s) + Len(q) + 1
      /\ \A i \in 1..Len(s) + Len(q) : l[i] = (s \o q)[i]
      /\ l[Len(s) + Len(q) + 1] = t
    BY <1>3, AppendProperties
<1>5. /\ r \in Seq(Tasks) /\ Len(r) = Len(s) + Len(q) + 1
      /\ \A i \in 1..Len(s) + Len(q) + 1 :
            r[i] = IF i <= Len(s) THEN s[i] ELSE Append(q, t)[i - Len(s)]
    BY <1>1, <1>2, ConcatProperties
<1>6. \A i \in 1..Len(s) + Len(q) + 1 : l[i] = r[i]
    BY <1>1, <1>2, <1>3, <1>4, <1>5
<1> QED
    BY <1>4, <1>5, <1>6, SeqEqual

-----------------------------------------------------------------------------
\* The new pool, without threads and tasks, satisfies the invariant.
LEMMA InitInv == Init => PoolInv
<1> SUFFICES ASSUME Init PROVE PoolInv
    OBVIOUS
<1>1. \A s \in {"start", "waiting", "woken"} : Count(pc, s) = 0
    BY CountType DEF Init
<1>2. TypeOK
    BY EmptySeq DEF Init, TypeOK, PCs
<1>3. Cardinality({}) = 0
    BY FS_EmptySet
<1>4. StartedInOrder
    BY EmptySeq, ConcatEmptySeq DEF Init, StartedInOrder
<1> QED
    BY <1>1, <1>2, <1>3, <1>4, EmptySeq
    DEF PoolInv, FreeThreadsExact, QueueHasThreads, NoLostWakeup, Init

\* The facts about numbers that the steps below use.
LEMMA Numbers ==
    ASSUME PoolInv
    PROVE  /\ Len(runq) \in Nat /\ free_threads \in Nat /\ startFailures \in Nat
           /\ Cardinality(notifying) \in Nat /\ IsFiniteSet(notifying)
           /\ Count(pc, "start") \in Nat
           /\ Count(pc, "waiting") \in Nat
           /\ Count(pc, "woken") \in Nat
<1>1. TypeOK
    BY DEF PoolInv
<1> QED
    BY <1>1, NotifyingType, CountType, LenProperties DEF TypeOK

\* run() keeps the invariant, whether a thread is started, fails to start or
\* is not needed.
LEMMA RunInv ==
    ASSUME PoolInv, NEW c \in Callers, NEW t \in Tasks, Run(c, t)
    PROVE  PoolInv'
<1>1. TypeOK /\ FreeThreadsExact /\ QueueHasThreads /\ NoLostWakeup
    BY DEF PoolInv
<1>2. /\ runq' \in Seq(Tasks) /\ Len(runq') = Len(runq) + 1
      /\ submitted' \in Seq(Tasks)
    BY <1>1, AppendProperties DEF TypeOK, Run
<1>3. Cardinality(notifying') = Cardinality(notifying) + 1
    BY Numbers, FS_AddElement DEF Run, CanCall
<1>4. StartedInOrder'
    BY PushKeepsOrder DEF PoolInv, TypeOK, StartedInOrder, Run
<1>5. free_threads' = free_threads /\ notifying' \subseteq Callers
    BY <1>1 DEF TypeOK, Run
<1>6. CASE NeedsThread(runq') /\ StartThread
  <2>1. PICK w \in Threads : pc[w] = "none" /\ pc' = [pc EXCEPT ![w] = "start"]
      BY <1>6 DEF StartThread, At
  <2>2. /\ Count(pc', "start") = Count(pc, "start") + 1
        /\ Count(pc', "waiting") = Count(pc, "waiting")
        /\ Count(pc', "woken") = Count(pc, "woken")
      BY <1>1, <2>1, MoveThread DEF TypeOK, PCs
  <2>3. TypeOK'
      BY <1>1, <1>2, <1>5, <1>6, <2>1 DEF TypeOK, Run, StartThread, PCs
  <2>4. startFailures' = startFailures
      BY <1>6 DEF StartThread
  <2>5. /\ FreeThreadsExact'
        /\ QueueHasThreads'
        /\ NoLostWakeup'
    <3>1. FreeThreadsExact'
        BY <1>1, <1>2, <1>3, <1>5, <2>2, <2>4, Numbers DEF FreeThreadsExact
    <3>2. QueueHasThreads'
        BY <1>1, <1>2, <1>3, <1>5, <2>2, <2>4, Numbers DEF QueueHasThreads
    <3>3. NoLostWakeup'
        BY SMTT(30), <1>1, <1>2, <1>3, <1>5, <2>2, <2>4, Numbers DEF NoLostWakeup
    <3> QED
        BY <3>1, <3>2, <3>3
  <2> QED
      BY <1>4, <2>3, <2>5 DEF PoolInv
<1>7. CASE NeedsThread(runq') /\ StartThreadFails
  <2>1. pc' = pc /\ startFailures' = startFailures + 1
      BY <1>7 DEF StartThreadFails
  <2>2. TypeOK'
      BY <1>1, <1>2, <1>5, <1>7, PoolAssumption
      DEF TypeOK, Run, StartThreadFails, OnException
  <2>3. /\ FreeThreadsExact'
        /\ QueueHasThreads'
        /\ NoLostWakeup'
    <3>1. FreeThreadsExact'
        BY <1>1, <1>2, <1>3, <1>5, <2>1, Numbers DEF FreeThreadsExact
    <3>2. QueueHasThreads'
        BY <1>1, <1>2, <1>3, <1>5, <2>1, Numbers DEF QueueHasThreads
    <3>3. NoLostWakeup'
        BY SMTT(30), <1>1, <1>2, <1>3, <1>5, <2>1, Numbers DEF NoLostWakeup
    <3> QED
        BY <3>1, <3>2, <3>3
  <2> QED
      BY <1>4, <2>2, <2>3 DEF PoolInv
<1>8. CASE ~NeedsThread(runq') /\ UNCHANGED <<pc, startFailures, alive>>
  <2>1. TypeOK'
      BY <1>1, <1>2, <1>5, <1>8 DEF TypeOK, Run
  <2>2. Len(runq') <= free_threads
      BY <1>2, <1>8, Numbers DEF NeedsThread
  <2>3. /\ FreeThreadsExact'
        /\ QueueHasThreads'
        /\ NoLostWakeup'
    <3>1. FreeThreadsExact'
        BY <1>1, <1>2, <1>3, <1>5, <1>8, <2>2, Numbers DEF FreeThreadsExact
    <3>2. QueueHasThreads'
        BY <1>1, <1>2, <1>3, <1>5, <1>8, <2>2, Numbers DEF QueueHasThreads
    <3>3. NoLostWakeup'
        BY <1>1, <1>2, <1>3, <1>5, <1>8, <2>2, Numbers DEF NoLostWakeup
    <3> QED
        BY <3>1, <3>2, <3>3
  <2> QED
      BY <1>4, <2>1, <2>3 DEF PoolInv
<1> QED
    BY <1>6, <1>7, <1>8 DEF Run

\* notify_one() keeps the invariant: if nobody is waiting, every free thread
\* is already awake.
LEMMA NotifyInv ==
    ASSUME PoolInv, NEW c \in Callers, NotifyOne(c)
    PROVE  PoolInv'
<1>1. TypeOK /\ FreeThreadsExact /\ QueueHasThreads /\ NoLostWakeup
    BY DEF PoolInv
<1>2. Cardinality(notifying') = Cardinality(notifying) - 1
    BY Numbers, FS_RemoveElement DEF NotifyOne
<1>3. UNCHANGED <<runq, free_threads, startFailures>> /\ StartedInOrder'
    BY DEF NotifyOne, PoolInv, StartedInOrder
<1>4. CASE \E w \in At("waiting") : pc' = [pc EXCEPT ![w] = "woken"]
  <2>1. PICK w \in Threads : pc[w] = "waiting" /\ pc' = [pc EXCEPT ![w] = "woken"]
      BY <1>4 DEF At
  <2>2. /\ Count(pc', "start") = Count(pc, "start")
        /\ Count(pc', "waiting") = Count(pc, "waiting") - 1
        /\ Count(pc', "woken") = Count(pc, "woken") + 1
      BY <1>1, <2>1, MoveThread DEF TypeOK, PCs
  <2>3. TypeOK'
      BY <1>1, <2>1 DEF TypeOK, NotifyOne, PCs
  <2>4. /\ FreeThreadsExact'
        /\ QueueHasThreads'
        /\ NoLostWakeup'
    <3>1. FreeThreadsExact'
        BY <1>1, <1>2, <1>3, <2>2, Numbers DEF FreeThreadsExact
    <3>2. QueueHasThreads'
        BY <1>1, <1>2, <1>3, <2>2, Numbers DEF QueueHasThreads
    <3>3. NoLostWakeup'
        BY <1>1, <1>2, <1>3, <2>2, Numbers DEF NoLostWakeup
    <3> QED
        BY <3>1, <3>2, <3>3
  <2> QED
      BY <1>3, <2>3, <2>4 DEF PoolInv
<1>5. CASE At("waiting") = {} /\ UNCHANGED pc
  <2>1. Count(pc, "waiting") = 0
      BY <1>5, CountType DEF At
  <2>2. TypeOK'
      BY <1>1, <1>5 DEF TypeOK, NotifyOne
  <2>3. /\ FreeThreadsExact'
        /\ QueueHasThreads'
        /\ NoLostWakeup'
    <3>1. FreeThreadsExact'
        BY <1>1, <1>2, <1>3, <1>5, <2>1, Numbers DEF FreeThreadsExact
    <3>2. QueueHasThreads'
        BY <1>1, <1>2, <1>3, <1>5, <2>1, Numbers DEF QueueHasThreads
    <3>3. free_threads = Count(pc, "woken")
        BY <1>1, <2>1, Numbers DEF FreeThreadsExact
    <3>4. Len(runq) <= Count(pc, "woken") + Count(pc, "start") + startFailures
        BY <1>1, <3>3 DEF QueueHasThreads
    <3>5. Cardinality(notifying') \in Nat
        BY Numbers, FS_RemoveElement, FS_CardinalityType DEF NotifyOne
    <3>6. NoLostWakeup'
        BY <1>3, <1>5, <3>4, <3>5, Numbers DEF NoLostWakeup
    <3> QED
        BY <3>1, <3>2, <3>6
  <2> QED
      BY <1>3, <2>2, <2>3 DEF PoolInv
<1> QED
    BY <1>4, <1>5 DEF NotifyOne

\* A worker that finds the queue empty goes to wait; one that does not pops.
LEMMA WorkerInv ==
    ASSUME PoolInv, NEW w \in Threads, Enter(w) \/ Resume(w)
    PROVE  PoolInv'
<1>1. TypeOK /\ FreeThreadsExact /\ QueueHasThreads /\ NoLostWakeup
    BY DEF PoolInv
<1>2. UNCHANGED <<notifying, happened, submitted, startFailures, alive>>
    BY DEF Enter, Resume
<1>3. CASE runq = << >>
  <2>1. /\ pc' = [pc EXCEPT ![w] = "waiting"]
        /\ UNCHANGED <<runq, cur, started>>
        /\ \/ pc[w] = "start" /\ free_threads' = free_threads + 1
           \/ pc[w] = "woken" /\ free_threads' = free_threads
      BY <1>3 DEF Enter, Resume, WaitOrPop
  <2>2. /\ Count(pc', "waiting") = Count(pc, "waiting") + 1
        /\ pc[w] = "start" => /\ Count(pc', "start") = Count(pc, "start") - 1
                              /\ Count(pc', "woken") = Count(pc, "woken")
        /\ pc[w] = "woken" => /\ Count(pc', "start") = Count(pc, "start")
                              /\ Count(pc', "woken") = Count(pc, "woken") - 1
      BY ZenonT(40), <1>1, <2>1, MoveThread DEF TypeOK, PCs
  <2>3. TypeOK'
    <3>1. free_threads' \in Nat
        BY <2>1, Numbers
    <3> QED
        BY <1>1, <1>2, <2>1, <3>1 DEF TypeOK, PCs
  <2>4. Len(runq') = 0 /\ Count(pc', "start") \in Nat /\ Count(pc', "woken") \in Nat
      BY <1>3, <2>1, EmptySeq, CountType
  <2>5. /\ FreeThreadsExact'
        /\ QueueHasThreads'
        /\ NoLostWakeup'
    <3>1. FreeThreadsExact'
        BY <1>1, <1>2, <2>1, <2>2, <2>4, Numbers DEF FreeThreadsExact
    <3>2. QueueHasThreads'
        BY <1>1, <1>2, <2>1, <2>2, <2>4, Numbers DEF QueueHasThreads
    <3>3. NoLostWakeup'
        BY <1>1, <1>2, <2>1, <2>2, <2>4, Numbers DEF NoLostWakeup
    <3> QED
        BY <3>1, <3>2, <3>3
  <2>6. StartedInOrder'
      BY <1>2, <2>1 DEF PoolInv, StartedInOrder
  <2> QED
      BY <2>3, <2>5, <2>6 DEF PoolInv
<1>4. CASE runq # << >>
  <2>1. /\ pc' = [pc EXCEPT ![w] = IF Head(runq) \in Parking THEN "parked"
                                                             ELSE "running"]
        /\ runq' = Tail(runq) /\ cur' = [cur EXCEPT ![w] = Head(runq)]
        /\ started' = Append(started, Head(runq))
        /\ \/ pc[w] = "start" /\ free_threads' = (free_threads + 1) - 1
           \/ pc[w] = "woken" /\ free_threads' = free_threads - 1
      BY <1>4 DEF Enter, Resume, WaitOrPop
  <2>2. /\ Count(pc', "waiting") = Count(pc, "waiting")
        /\ pc[w] = "start" => /\ Count(pc', "start") = Count(pc, "start") - 1
                              /\ Count(pc', "woken") = Count(pc, "woken")
        /\ pc[w] = "woken" => /\ Count(pc', "start") = Count(pc, "start")
                              /\ Count(pc', "woken") = Count(pc, "woken") - 1
    <3>1. CASE Head(runq) \in Parking
        BY ZenonT(40), <1>1, <2>1, <3>1, MoveThread DEF TypeOK, PCs
    <3>2. CASE Head(runq) \notin Parking
        BY ZenonT(40), <1>1, <2>1, <3>2, MoveThread DEF TypeOK, PCs
    <3> QED
        BY <3>1, <3>2
  <2>3. /\ runq' \in Seq(Tasks) /\ Len(runq') = Len(runq) - 1
        /\ Head(runq) \in Tasks
      BY <1>1, <1>4, <2>1, HeadTailProperties DEF TypeOK
  <2>4. started' \in Seq(Tasks)
      BY <1>1, <2>1, <2>3, AppendProperties DEF TypeOK
  <2>5. TypeOK'
    <3>1. Count(pc', "woken") \in Nat
        BY CountType
    <3>2. pc[w] = "woken" => Count(pc, "woken") > 0
        BY <2>2, <3>1, Numbers
    <3>3. free_threads' \in Nat
        BY <1>1, <2>1, <3>2, Numbers DEF FreeThreadsExact
    <3> QED
        BY <1>1, <1>2, <2>1, <2>3, <2>4, <3>3 DEF TypeOK, PCs
  <2>6. StartedInOrder'
      BY <1>1, <1>2, <1>4, <2>1, PopKeepsOrder DEF PoolInv, TypeOK, StartedInOrder
  <2>7. /\ FreeThreadsExact'
        /\ QueueHasThreads'
        /\ NoLostWakeup'
    <3>1. FreeThreadsExact'
        BY <1>1, <1>2, <2>1, <2>2, <2>3, Numbers DEF FreeThreadsExact
    <3>2. QueueHasThreads'
        BY <1>1, <1>2, <2>1, <2>2, <2>3, Numbers DEF QueueHasThreads
    <3>3. NoLostWakeup'
        BY SMTT(30), <1>1, <1>2, <2>1, <2>2, <2>3, Numbers DEF NoLostWakeup
    <3> QED
        BY <3>1, <3>2, <3>3
  <2> QED
      BY <2>5, <2>6, <2>7 DEF PoolInv
<1> QED
    BY <1>3, <1>4

\* A thread of the pool that is woken without notification, unparked, or done
\* with its task keeps the invariant.
LEMMA ThreadInv ==
    ASSUME PoolInv, NEW w \in Threads,
           SpuriousWakeup(w) \/ Unpark(w) \/ Finish(w) \/ Throw(w)
    PROVE  PoolInv'
<1>1. TypeOK /\ FreeThreadsExact /\ QueueHasThreads /\ NoLostWakeup
    BY DEF PoolInv
<1>2. UNCHANGED <<runq, free_threads, notifying, submitted, started, startFailures>>
    BY DEF SpuriousWakeup, Unpark, Finish, Throw
<1>3. StartedInOrder'
    BY <1>2 DEF PoolInv, StartedInOrder
<1>4. CASE SpuriousWakeup(w)
  <2>1. /\ Count(pc', "start") = Count(pc, "start")
        /\ Count(pc', "waiting") = Count(pc, "waiting") - 1
        /\ Count(pc', "woken") = Count(pc, "woken") + 1
      BY <1>1, <1>4, MoveThread DEF SpuriousWakeup, TypeOK, PCs
  <2>2. TypeOK'
      BY <1>1, <1>4 DEF SpuriousWakeup, TypeOK, PCs
  <2>3. /\ FreeThreadsExact'
        /\ QueueHasThreads'
        /\ NoLostWakeup'
    <3>1. FreeThreadsExact'
        BY <1>1, <1>2, <2>1, Numbers DEF FreeThreadsExact
    <3>2. QueueHasThreads'
        BY <1>1, <1>2, <2>1, Numbers DEF QueueHasThreads
    <3>3. NoLostWakeup'
        BY <1>1, <1>2, <2>1, Numbers DEF NoLostWakeup
    <3> QED
        BY <3>1, <3>2, <3>3
  <2> QED
      BY <1>3, <2>2, <2>3 DEF PoolInv
<1>5. CASE Unpark(w)
  <2>1. /\ Count(pc', "start") = Count(pc, "start")
        /\ Count(pc', "waiting") = Count(pc, "waiting")
        /\ Count(pc', "woken") = Count(pc, "woken")
      BY <1>1, <1>5, MoveThread DEF Unpark, TypeOK, PCs
  <2>2. TypeOK'
      BY <1>1, <1>5 DEF Unpark, TypeOK, PCs
  <2>3. /\ FreeThreadsExact'
        /\ QueueHasThreads'
        /\ NoLostWakeup'
    <3>1. FreeThreadsExact'
        BY <1>1, <1>2, <2>1, Numbers DEF FreeThreadsExact
    <3>2. QueueHasThreads'
        BY <1>1, <1>2, <2>1, Numbers DEF QueueHasThreads
    <3>3. NoLostWakeup'
        BY <1>1, <1>2, <2>1, Numbers DEF NoLostWakeup
    <3> QED
        BY <3>1, <3>2, <3>3
  <2> QED
      BY <1>3, <2>2, <2>3 DEF PoolInv
<1>6. CASE Finish(w) \/ Throw(w)
  <2>1. /\ pc[w] = "running" \/ pc[w] = "parked"
        /\ pc' = [pc EXCEPT ![w] = "start"]
      BY <1>6 DEF Finish, Throw
  <2>2. /\ Count(pc', "start") = Count(pc, "start") + 1
        /\ Count(pc', "waiting") = Count(pc, "waiting")
        /\ Count(pc', "woken") = Count(pc, "woken")
      BY ZenonT(40), <1>1, <2>1, MoveThread DEF TypeOK, PCs
  <2>3. TypeOK'
      BY <1>1, <1>6, PoolAssumption DEF Finish, Throw, OnException, TypeOK, PCs
  <2>4. /\ FreeThreadsExact'
        /\ QueueHasThreads'
        /\ NoLostWakeup'
    <3>1. FreeThreadsExact'
        BY <1>1, <1>2, <2>2, Numbers DEF FreeThreadsExact
    <3>2. QueueHasThreads'
        BY <1>1, <1>2, <2>2, Numbers DEF QueueHasThreads
    <3>3. NoLostWakeup'
        BY <1>1, <1>2, <2>2, Numbers DEF NoLostWakeup
    <3> QED
        BY <3>1, <3>2, <3>3
  <2> QED
      BY <1>3, <2>3, <2>4 DEF PoolInv
<1> QED
    BY <1>4, <1>5, <1>6

\* Every step of a caller, of a thread or of an event preserves the invariant.
LEMMA NextInv == PoolInv /\ [Next]_vars => PoolInv'
<1> SUFFICES ASSUME PoolInv, [Next]_vars PROVE PoolInv'
    OBVIOUS
<1>1. ASSUME NEW c \in Callers, NEW t \in Tasks, Run(c, t) PROVE PoolInv'
    BY <1>1, RunInv
<1>2. ASSUME NEW c \in Callers, NotifyOne(c) PROVE PoolInv'
    BY <1>2, NotifyInv
<1>3. ASSUME NEW w \in Threads, Enter(w) \/ Resume(w) PROVE PoolInv'
    BY <1>3, WorkerInv
<1>4. ASSUME NEW w \in Threads,
             SpuriousWakeup(w) \/ Unpark(w) \/ Finish(w) \/ Throw(w)
      PROVE  PoolInv'
    BY <1>4, ThreadInv
<1>5. ASSUME NEW t \in Parking, Event(t) PROVE PoolInv'
    BY <1>5 DEF Event, PoolInv, TypeOK, FreeThreadsExact, QueueHasThreads,
       NoLostWakeup, StartedInOrder
<1>6. CASE UNCHANGED vars
    BY <1>6 DEF vars, PoolInv, TypeOK, FreeThreadsExact, QueueHasThreads,
       NoLostWakeup, StartedInOrder
<1> QED
    BY <1>1, <1>2, <1>3, <1>4, <1>5, <1>6 DEF Next

\* The counting invariants of the pool, and the order of the starts, hold in
\* every reachable state of every instance.
THEOREM PoolInvariant == Spec => []PoolInv
    BY InitInv, NextInv, PTL DEF Spec

\* run() never leaves a queued task without a notification, or a thread that
\* is on its way to the queue (no lost wakeup between unlock() and
\* notify_one()).
THEOREM PoolNoLostWakeup == Spec => []NoLostWakeup
<1>1. PoolInv => NoLostWakeup
    BY DEF PoolInv
<1> QED
    BY <1>1, PoolInvariant, PTL

\* Blocked tasks never make the queue wait: each queued task has its thread.
THEOREM PoolQueueHasThreads == Spec => []QueueHasThreads
<1>1. PoolInv => QueueHasThreads
    BY DEF PoolInv
<1> QED
    BY <1>1, PoolInvariant, PTL

\* Every task is popped once and in the order of its submission.
THEOREM PoolStartedInOrder == Spec => []StartedInOrder
<1>1. PoolInv => StartedInOrder
    BY DEF PoolInv
<1> QED
    BY <1>1, PoolInvariant, PTL
=============================================================================
