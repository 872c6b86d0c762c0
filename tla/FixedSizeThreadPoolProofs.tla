---------------------- MODULE FixedSizeThreadPoolProofs ----------------------
(***************************************************************************)
(* FixedSizeThreadPool implements JobExecutor, for any number of threads,  *)
(* jobs and places in the queue.  The invariant says where a job that has  *)
(* been handed in can be (in one place only), which call a thread can be   *)
(* blocked in, and what stop() has waited for.                             *)
(***************************************************************************)
EXTENDS FixedSizeThreadPool, FiniteSetTheorems, SequenceTheorems, TLAPS

Elems(q) == {q[i] : i \in 1..Len(q)}

Distinct(q) == \A i, k \in 1..Len(q) : q[i] = q[k] => i = k

Holders == {w \in Workers : Holds(w)}

Held == {got[w] : w \in Holders}

\* Types, with what TypeOK leaves open: the stopper's place and the others'.
PoolType ==
    /\ TypeOK
    /\ at \in [Procs -> {"new", "loop", "pop", "popping", "job", "exit", "idle",
                         "waitUntilEmpty", "wakeup", "join", "stopped"}]

\* Which call a thread is blocked in, and where it is then.
CallsOK ==
    /\ \A p \in Procs : /\ op[p] # "pop"
                        /\ op[p] = "insert" <=> arg[p] # NoJob
                        /\ op[p] = "insert" => p \in Clients \/ at[p] = "job"
                        /\ op[p] = "interruptiblePop" => p \in Workers /\ at[p] = "popping"
                        /\ op[p] = "waitUntilEmpty" => p = Stopper /\ at[p] = "waitUntilEmpty"
    /\ Stopper \notin notifying

\* A job that has been handed in is in one place: with a blocked insert(), in
\* the queue, with one worker, or done.
OnePlace ==
    /\ Distinct(queue)
    /\ Elems(inserted) = Elems(queue) \cup Held \cup done
    /\ Elems(queue) \cap (Held \cup done) = {}
    /\ Held \cap done = {}
    /\ \A v, w \in Holders : got[v] = got[w] => v = w
    /\ \A p \in Procs : arg[p] \notin Elems(inserted)
    /\ \A p, r \in Procs : arg[p] = arg[r] /\ arg[p] # NoJob => p = r

\* waitUntilEmpty() has returned.
Drained == \/ at[Stopper] = "waitUntilEmpty" /\ op[Stopper] = "none"
           \/ at[Stopper] \in {"wakeup", "join", "stopped"}

\* What stop() has waited for.
StopOK ==
    /\ beforeStop \subseteq Elems(inserted)
    /\ Drained => Elems(queue) \cap beforeStop = {}
    /\ at[Stopper] = "stopped" => \A w \in Workers : at[w] = "exit"

PoolInv == PoolType /\ CallsOK /\ OnePlace /\ StopOK

\* What the mapped variables of the abstract executor may do.
ExecutorStep == [Executor!ExecutorNext]_(Executor!evars)

-----------------------------------------------------------------------------
\* A job at the back of the queue.
LEMMA AppendElems ==
    ASSUME NEW q \in Seq(Jobs), NEW j \in Jobs
    PROVE  /\ Append(q, j) \in Seq(Jobs)
           /\ Elems(Append(q, j)) = Elems(q) \cup {j}
           /\ Distinct(q) /\ j \notin Elems(q) => Distinct(Append(q, j))
<1>1. /\ Append(q, j) \in Seq(Jobs) /\ Len(Append(q, j)) = Len(q) + 1
      /\ \A i \in 1..Len(q) : Append(q, j)[i] = q[i]
      /\ Append(q, j)[Len(q) + 1] = j /\ Len(q) \in Nat
    BY AppendProperties, LenProperties
<1>2. Elems(Append(q, j)) = Elems(q) \cup {j}
    BY <1>1 DEF Elems
<1>3. ASSUME Distinct(q), j \notin Elems(q) PROVE Distinct(Append(q, j))
    BY <1>1, <1>3 DEF Distinct, Elems
<1> QED
    BY <1>1, <1>2, <1>3

\* The front of the queue, and what is behind it.
LEMMA TailElems ==
    ASSUME NEW q \in Seq(Jobs), q # << >>, Distinct(q)
    PROVE  /\ Tail(q) \in Seq(Jobs) /\ Head(q) \in Jobs
           /\ Head(q) \in Elems(q) /\ Elems(Tail(q)) = Elems(q) \ {Head(q)}
           /\ Distinct(Tail(q))
<1>1. /\ Tail(q) \in Seq(Jobs) /\ Len(Tail(q)) = Len(q) - 1
      /\ \A i \in 1..Len(Tail(q)) : Tail(q)[i] = q[i + 1]
      /\ Head(q) = q[1] /\ Head(q) \in Jobs
    BY HeadTailProperties
<1>2. Len(q) \in Nat \ {0}
    BY LenProperties, EmptySeq
<1>3. Head(q) \in Elems(q)
    BY <1>1, <1>2 DEF Elems
<1>4. Elems(Tail(q)) = Elems(q) \ {Head(q)}
  <2>1. ASSUME NEW i \in 1..Len(Tail(q)) PROVE Tail(q)[i] \in Elems(q) \ {Head(q)}
    <3>1. i + 1 \in 1..Len(q) /\ 1 \in 1..Len(q) /\ i + 1 # 1
        BY <1>1, <1>2
    <3>2. q[i + 1] # q[1]
        BY <3>1 DEF Distinct
    <3> QED
        BY <1>1, <3>1, <3>2 DEF Elems
  <2>2. ASSUME NEW i \in 1..Len(q), q[i] # Head(q) PROVE q[i] \in Elems(Tail(q))
    <3>1. i - 1 \in 1..Len(Tail(q)) /\ (i - 1) + 1 = i
        BY <1>1, <1>2, <2>2
    <3>2. Tail(q)[i - 1] = q[i]
        BY <1>1, <3>1
    <3> QED
        BY <3>1, <3>2 DEF Elems
  <2> QED
      BY <2>1, <2>2 DEF Elems
<1>5. Distinct(Tail(q))
    BY <1>1, <1>2 DEF Distinct
<1> QED
    BY <1>1, <1>3, <1>4, <1>5

\* A step that leaves the jobs where they are.
LEMMA QuietStep ==
    ASSUME OnePlace, UNCHANGED <<queue, inserted, arg, done>>,
           Holders' = Holders, \A w \in Holders : got'[w] = got[w]
    PROVE  OnePlace' /\ Held' = Held
<1>1. Held' = Held
    BY DEF Held
<1>2. \A v, w \in Holders' : got'[v] = got'[w] => v = w
    BY DEF OnePlace
<1> QED
    BY <1>1, <1>2 DEF OnePlace

\* Cardinality as the abstract module instantiates it.
LEMMA SameCardinality == \A S : Executor!Cardinality(S) = Cardinality(S)
    BY DEF Executor!Cardinality, Cardinality

\* The threads are different ones, and each is one of the pool's procs.
LEMMA ThreadsApart ==
    /\ Stopper \in Procs /\ Stopper \notin Workers /\ Stopper \notin Clients
    /\ \A w \in Workers : w \in Procs /\ w \notin Clients /\ w # Stopper
    /\ \A c \in Clients : c \in Procs
    BY PoolAssumption

\* emplace_back of a job that nobody has handed in, or that a blocked insert()
\* brings: the executor accepts it.
LEMMA PutStep ==
    ASSUME PoolInv, NEW p \in Procs, NEW j \in Jobs, Put(p, j), UNCHANGED pvars, ~Full,
           \/ Outside(p) /\ MayRun(p) /\ IsNew(j)
           \/ op[p] = "insert" /\ arg[p] = j
    PROVE  PoolInv' /\ ExecutorStep
<1>1. PoolType /\ CallsOK /\ OnePlace /\ StopOK
    BY DEF PoolInv
<1>2. j \notin Elems(inserted) /\ \A r \in Procs : arg[r] = j => r = p
    BY <1>1, QueueAssumption DEF IsNew, OnePlace, Elems
<1>3. /\ queue' \in Seq(Jobs) /\ Elems(queue') = Elems(queue) \cup {j}
      /\ inserted' \in Seq(Jobs) /\ Elems(inserted') = Elems(inserted) \cup {j}
      /\ Distinct(queue')
    BY <1>1, <1>2, AppendElems DEF Put, PoolType, TypeOK, QueueTypeOK, OnePlace
<1>4. p # Stopper /\ op[p] # "interruptiblePop" /\ op[p] # "waitUntilEmpty"
    BY <1>1, ThreadsApart DEF MayRun, CallsOK, PoolType, TypeOK, Outside
<1>5. op' = [op EXCEPT ![p] = "none"] /\ got' = got /\ at' = at /\ done' = done
      /\ beforeStop' = beforeStop
    BY DEF Put, pvars
<1>6. Holders' = Holders /\ Held' = Held
  <2>1. ASSUME NEW w \in Workers PROVE Holds(w)' <=> Holds(w)
      BY <1>1, <1>5, <2>1, ThreadsApart
      DEF Holds, PoolType, TypeOK, QueueTypeOK, CallsOK, Outside, MayRun
  <2> QED
      BY <2>1, <1>5 DEF Holders, Held
<1>7. PoolType'
    BY <1>1, <1>3 DEF PoolType, TypeOK, QueueTypeOK, Put, pvars
<1>8. CallsOK'
    BY <1>1, <1>4 DEF CallsOK, PoolType, TypeOK, QueueTypeOK, Put, pvars
<1>9. OnePlace'
  <2>1. NoJob \notin Elems(inserted')
      BY <1>3, <1>7, QueueAssumption, ElementOfSeq DEF Elems, PoolType, TypeOK, QueueTypeOK
  <2>2. arg' = [arg EXCEPT ![p] = NoJob]
      BY DEF Put
  <2>3. \A r \in Procs : arg'[r] \notin Elems(inserted')
      BY <1>1, <1>2, <1>3, <2>1, <2>2 DEF OnePlace, PoolType, TypeOK, QueueTypeOK
  <2>4. \A q, r \in Procs : arg'[q] = arg'[r] /\ arg'[q] # NoJob => q = r
      BY <1>1, <2>2 DEF OnePlace, PoolType, TypeOK, QueueTypeOK
  <2> QED
      BY <1>1, <1>2, <1>3, <1>5, <1>6, <2>3, <2>4 DEF OnePlace
<1>10. StopOK'
  <2>1. Drained' <=> Drained
      BY <1>1, <1>4, <1>5, ThreadsApart DEF Drained, PoolType, TypeOK, QueueTypeOK
  <2> QED
      BY <1>1, <1>2, <1>3, <1>5, <2>1 DEF StopOK
<1>11. Executor!Accept(j)
  <2>1. j \notin Executor!Accepted
      BY <1>1, <1>2 DEF Executor!Accepted, OnePlace, Elems, Held, Holders
  <2>2. max_size = Unbounded \/ Len(queue) < max_size
      BY <1>1, LenProperties DEF Full, PoolType, TypeOK, QueueTypeOK
  <2> QED
      BY <1>5, <1>6, <2>1, <2>2 DEF Executor!Accept, Put, Held, Holders
<1> QED
    BY <1>7, <1>8, <1>9, <1>10, <1>11 DEF PoolInv, ExecutorStep, Executor!ExecutorNext

\* pop_front by a worker: the executor starts the job at the front.  A worker
\* that pops holds no job, so that one worker at least is free.
LEMMA TakeStep ==
    ASSUME PoolInv, NEW w \in Workers, Take(w), queue # << >>,
           \/ at[w] = "pop" /\ Outside(w)
           \/ op[w] = "interruptiblePop",
           at' = [at EXCEPT ![w] = "popping"],
           UNCHANGED <<use, running_, done, beforeStop, alive>>
    PROVE  PoolInv' /\ ExecutorStep
<1>1. PoolType /\ CallsOK /\ OnePlace /\ StopOK
    BY DEF PoolInv
<1> DEFINE j == Head(queue)
<1>2. /\ queue' \in Seq(Jobs) /\ Elems(queue') = Elems(queue) \ {j} /\ j \in Jobs
      /\ j \in Elems(queue) /\ Distinct(queue')
    BY <1>1, TailElems DEF Take, PoolType, TypeOK, QueueTypeOK, OnePlace
<1>3. taken' \in Seq(Jobs)
    BY <1>1, <1>2, AppendElems DEF Take, PoolType, TypeOK, QueueTypeOK
<1>4. w \in Procs /\ w # Stopper /\ at[w] \in {"pop", "popping"} /\ op[w] # "insert"
    BY <1>1, ThreadsApart DEF CallsOK, Outside
<1>5. w \notin Holders
    BY <1>1, <1>4 DEF Holders, Holds, CallsOK, Outside
<1>6. /\ op' = [op EXCEPT ![w] = "none"] /\ got' = [got EXCEPT ![w] = j]
      /\ inserted' = inserted /\ arg' = arg /\ max_size' = max_size
    BY DEF Take
<1>7. Holders' = Holders \cup {w}
  <2>1. Holds(w)'
      BY <1>1, <1>2, <1>4, <1>6, QueueAssumption DEF Holds, PoolType, TypeOK, QueueTypeOK
  <2>2. \A v \in Workers \ {w} : Holds(v)' <=> Holds(v)
      BY <1>1, <1>4, <1>6, ThreadsApart DEF Holds, PoolType, TypeOK, QueueTypeOK
  <2> QED
      BY <2>1, <2>2 DEF Holders
<1>8. \A v \in Holders : got'[v] = got[v] /\ v # w
    BY <1>1, <1>5, <1>6, ThreadsApart DEF Holders, PoolType, TypeOK, QueueTypeOK
<1>9. got'[w] = j
    BY <1>1, <1>4, <1>6 DEF PoolType, TypeOK, QueueTypeOK
<1>10. Held' = Held \cup {j}
    BY <1>7, <1>8, <1>9 DEF Held
<1>11. PoolType'
    BY <1>1, <1>2, <1>3, <1>4, <1>6, ThreadsApart
    DEF PoolType, TypeOK, QueueTypeOK, Take
<1>12. CallsOK'
    BY <1>1, <1>4 DEF CallsOK, PoolType, TypeOK, QueueTypeOK, Take
<1>13. OnePlace'
  <2>1. \A u, v \in Holders' : got'[u] = got'[v] => u = v
    <3>1. \A v \in Holders : got[v] # j
        BY <1>1, <1>2 DEF OnePlace, Held
    <3> QED
        BY <1>1, <1>7, <1>8, <1>9, <3>1 DEF OnePlace
  <2> QED
      BY <1>1, <1>2, <1>6, <1>10, <2>1 DEF OnePlace
<1>14. StopOK'
  <2>1. (Drained' <=> Drained) /\ at'[Stopper] = at[Stopper]
      BY <1>1, <1>4, <1>6, ThreadsApart DEF Drained, PoolType, TypeOK, QueueTypeOK
  <2>2. at[Stopper] # "stopped"
      BY <1>1, <1>4 DEF StopOK
  <2> QED
      BY <1>1, <1>2, <1>6, <2>1, <2>2 DEF StopOK
<1>15. Executor!Start
  <2>1. at[Stopper] # "stopped" /\ at'[Stopper] # "stopped"
      BY <1>1, <1>4, ThreadsApart DEF StopOK, PoolType
  <2>2. IsFiniteSet(Workers) /\ Holders \subseteq Workers \ {w}
      BY <1>5, PoolAssumption DEF Holders
  <2>3. IsFiniteSet(Workers \ {w}) /\ Cardinality(Workers \ {w}) = Cardinality(Workers) - 1
      BY <2>2, FS_RemoveElement
  <2>4. IsFiniteSet(Holders) /\ Cardinality(Holders) <= Cardinality(Workers) - 1
      BY <2>2, <2>3, FS_Subset
  <2>5. Cardinality(Held) <= Cardinality(Holders) /\ IsFiniteSet(Held)
    <3>1. [v \in Holders |-> got[v]] \in Surjection(Holders, Held)
        BY DEF Surjection, Held
    <3> QED
        BY <2>4, <3>1, FS_Surjection
  <2>6. Cardinality(Held) < Cardinality(Workers)
      BY <2>2, <2>4, <2>5, FS_CardinalityType
  <2> QED
      BY <1>6, <1>10, <2>1, <2>6, SameCardinality DEF Executor!Start, Take, Held, Holders
<1> QED
    BY <1>11, <1>12, <1>13, <1>14, <1>15 DEF PoolInv, ExecutorStep, Executor!ExecutorNext

\* A step after which the executor has not changed but that may have moved one
\* thread: jobs, holders and stop()'s promise are what they were.
LEMMA StutterStep ==
    ASSUME PoolInv, PoolType', CallsOK',
           UNCHANGED <<max_size, queue, inserted, arg, done, beforeStop>>,
           \A w \in Workers : Holds(w)' <=> Holds(w),
           \A w \in Holders : got'[w] = got[w],
           Drained' => Drained \/ queue = << >>,
           at[Stopper] = "stopped" <=> at'[Stopper] = "stopped",
           at[Stopper] = "stopped" => \A w \in Workers : at'[w] = at[w]
    PROVE  PoolInv' /\ ExecutorStep
<1>1. Holders' = Holders
    BY DEF Holders
<1>2. OnePlace' /\ Held' = Held
    BY <1>1, QuietStep DEF PoolInv
<1>3. StopOK'
  <2>1. CASE queue = << >>
    <3>1. Elems(queue) = {}
        BY <2>1 DEF Elems
    <3> QED
        BY <3>1 DEF StopOK, PoolInv
  <2>2. CASE queue # << >>
      BY <2>2 DEF StopOK, PoolInv
  <2> QED
      BY <2>1, <2>2
<1>4. UNCHANGED Executor!evars
    BY <1>2 DEF Executor!evars, Held, Holders
<1> QED
    BY <1>2, <1>3, <1>4 DEF PoolInv, ExecutorStep

\* Threads wake up or go on sleeping.
LEMMA OnlyCvStep ==
    ASSUME PoolInv, UNCHANGED pvars,
           UNCHANGED <<max_size, queue, op, arg, got, notifying, inserted, taken>>,
           cv' \in [Procs -> {"awake", "asleep"}]
    PROVE  PoolInv' /\ ExecutorStep
<1>1. UNCHANGED <<use, running_, at, done, beforeStop, alive>>
    BY DEF pvars
<1>2. PoolType' /\ CallsOK'
    BY <1>1 DEF PoolInv, PoolType, TypeOK, QueueTypeOK, CallsOK
<1>3. (Drained' <=> Drained) /\ \A w \in Workers : Holds(w)' <=> Holds(w)
    BY <1>1 DEF Drained, Holds
<1> QED
    BY <1>1, <1>2, <1>3, StutterStep

\* Nothing moves.
LEMMA UnchangedStep ==
    ASSUME PoolInv, UNCHANGED vars
    PROVE  PoolInv' /\ ExecutorStep
    BY OnlyCvStep DEF vars, qvars, PoolInv, PoolType, TypeOK, QueueTypeOK

-----------------------------------------------------------------------------
\* A new pool is a new executor, with as many places.
LEMMA InitStep == Init => PoolInv /\ Executor!ExecutorInit
<1> SUFFICES ASSUME Init PROVE PoolInv /\ Executor!ExecutorInit
    OBVIOUS
<1>1. PoolType
    BY PoolAssumption, QueueAssumption, EmptySeq
    DEF Init, QueueInit, QueueMax, PoolType, TypeOK, QueueTypeOK, Use
<1>2. CallsOK
    BY PoolAssumption DEF Init, QueueInit, CallsOK
<1>3. Elems(queue) = {} /\ Elems(inserted) = {} /\ Distinct(queue)
    BY DEF Init, QueueInit, Elems, Distinct
<1>4. Holders = {} /\ Held = {}
    BY PoolAssumption DEF Init, QueueInit, Holders, Holds, Held
<1>5. OnePlace
    BY <1>3, <1>4 DEF Init, QueueInit, OnePlace
<1>6. at[Stopper] = "idle"
    BY ThreadsApart DEF Init
<1>7. StopOK
    BY <1>3, <1>6 DEF Init, StopOK
<1>8. Executor!ExecutorInit
    BY <1>1, <1>4, <1>6
    DEF Executor!ExecutorInit, Init, QueueInit, PoolType, TypeOK, QueueTypeOK, Held, Holders
<1> QED
    BY <1>1, <1>2, <1>5, <1>7, <1>8 DEF PoolInv

\* start() moves every worker from before its loop into it.
LEMMA StartStep ==
    ASSUME PoolInv, Start
    PROVE  PoolInv' /\ ExecutorStep
<1>1. PoolType /\ CallsOK /\ StopOK
    BY DEF PoolInv
<1>2. \A w \in Workers : at[w] = "new" /\ at'[w] = "loop"
    BY ThreadsApart DEF Start
<1>3. \A p \in Procs \ Workers : at'[p] = at[p]
    BY DEF Start
<1>4. UNCHANGED qvars /\ UNCHANGED <<done, beforeStop>>
    BY DEF Start
<1>5. PoolType'
    BY <1>1, <1>2, <1>3, ThreadsApart DEF Start, PoolType, TypeOK, QueueTypeOK, qvars
<1>6. CallsOK'
    BY <1>1, <1>2, <1>3, <1>4, ThreadsApart DEF CallsOK, qvars
<1>7. \A w \in Workers : ~Holds(w) /\ ~Holds(w)'
    BY <1>2 DEF Holds
<1>8. at'[Stopper] = at[Stopper] /\ (Drained' <=> Drained)
    BY <1>3, <1>4, ThreadsApart DEF Drained, qvars
<1>9. at[Stopper] = "stopped" => \A w \in Workers : at'[w] = at[w]
    BY <1>1, <1>2 DEF StopOK
<1> QED
    BY <1>4, <1>5, <1>6, <1>7, <1>8, <1>9, StutterStep DEF qvars, Holders

\* run(): accepted at once, refused, or blocked, which the executor does not see.
LEMMA RunStep ==
    ASSUME PoolInv, NEW p \in Procs, NEW j \in Jobs, Run(p, j)
    PROVE  PoolInv' /\ ExecutorStep
<1>1. PoolType /\ CallsOK /\ OnePlace /\ StopOK
    BY DEF PoolInv
<1>2. CASE Outside(p) /\ IsNew(j) /\ Full /\ Sleep(p, "insert") /\ arg' = [arg EXCEPT ![p] = j]
  <2>1. /\ op' = [op EXCEPT ![p] = "insert"]
        /\ UNCHANGED <<max_size, queue, got, notifying, inserted, taken>>
        /\ UNCHANGED <<use, running_, at, done, beforeStop, alive>>
      BY <1>2 DEF Sleep, Run, pvars
  <2>2. p \in Clients \/ (p \in Workers /\ at[p] = "job")
      BY DEF Run, MayRun
  <2>3. j # NoJob /\ j \notin Elems(inserted) /\ \A r \in Procs : arg[r] # j
      BY <1>2, QueueAssumption DEF IsNew, Elems
  <2>4. PoolType'
      BY <1>1, <1>2, <2>1 DEF PoolType, TypeOK, QueueTypeOK, Sleep
  <2>5. CallsOK'
      BY <1>1, <1>2, <2>1, <2>2, <2>3 DEF CallsOK, PoolType, TypeOK, QueueTypeOK
  <2>6. Holders' = Holders /\ Held' = Held
    <3>1. \A w \in Workers : Holds(w)' <=> Holds(w)
        BY <1>1, <2>1, <2>2, ThreadsApart DEF Holds, PoolType, TypeOK, QueueTypeOK
    <3> QED
        BY <2>1, <3>1 DEF Holders, Held
  <2>7. OnePlace'
    <3>1. \A r \in Procs : arg'[r] \notin Elems(inserted')
        BY <1>1, <1>2, <2>1, <2>3 DEF OnePlace, PoolType, TypeOK, QueueTypeOK
    <3>2. \A q, r \in Procs : arg'[q] = arg'[r] /\ arg'[q] # NoJob => q = r
        BY <1>1, <1>2, <2>3 DEF OnePlace, PoolType, TypeOK, QueueTypeOK
    <3> QED
        BY <1>1, <2>1, <2>6, <3>1, <3>2 DEF OnePlace
  <2>8. StopOK'
    <3>1. Drained' <=> Drained
        BY <1>1, <2>1, <2>2, ThreadsApart DEF Drained, PoolType, TypeOK, QueueTypeOK
    <3> QED
        BY <1>1, <2>1, <3>1 DEF StopOK
  <2>9. UNCHANGED Executor!evars
      BY <2>1, <2>6 DEF Executor!evars, Held, Holders
  <2> QED
      BY <2>4, <2>5, <2>7, <2>8, <2>9 DEF PoolInv, ExecutorStep
<1>3. CASE Outside(p) /\ IsNew(j) /\ ~Full /\ Put(p, j)
    BY <1>3, PutStep DEF Run
<1>4. CASE InsertRaises(p, j)
  <2>1. UNCHANGED vars
      BY <1>4 DEF InsertRaises, Run, vars
  <2> QED
      BY <2>1, UnchangedStep
<1> QED
    BY <1>2, <1>3, <1>4 DEF Run, Insert

\* A worker that tests running_, and one whose pop returns.
LEMMA WorkerMoves ==
    ASSUME PoolInv, NEW w \in Workers, WorkerLoop(w) \/ WorkerGotJob(w)
    PROVE  PoolInv' /\ ExecutorStep
<1>1. PoolType /\ CallsOK /\ StopOK
    BY DEF PoolInv
<1>2. PICK l \in {"loop", "pop", "job", "exit"} :
         /\ at' = [at EXCEPT ![w] = l]
         /\ \/ at[w] = "loop" /\ l \in {"pop", "exit"}
            \/ at[w] = "popping" /\ Outside(w) /\ (l = "job" <=> got[w] # NoJob)
               /\ l \in {"loop", "job"}
    BY DEF WorkerLoop, WorkerGotJob, Goto
<1>3. /\ UNCHANGED <<max_size, queue, op, cv, arg, got, notifying, inserted, taken>>
      /\ UNCHANGED <<use, running_, done, beforeStop, alive>>
    BY DEF WorkerLoop, WorkerGotJob, qvars
<1>4. w \in Procs /\ w # Stopper /\ w \notin Clients
    BY ThreadsApart
<1>5. PoolType'
    BY <1>1, <1>2, <1>3, <1>4, ThreadsApart DEF PoolType, TypeOK, QueueTypeOK, Outside
<1>6. CallsOK'
    BY <1>1, <1>2, <1>3, <1>4 DEF CallsOK, PoolType, TypeOK, Outside
<1>7. \A v \in Workers : Holds(v)' <=> Holds(v)
    BY <1>1, <1>2, <1>3, <1>4, ThreadsApart DEF Holds, PoolType, TypeOK, Outside
<1>8. at'[Stopper] = at[Stopper] /\ (Drained' <=> Drained)
    BY <1>1, <1>2, <1>3, <1>4, ThreadsApart DEF Drained, PoolType
<1>9. at[Stopper] # "stopped"
    BY <1>1, <1>2 DEF StopOK
<1> QED
    BY <1>3, <1>5, <1>6, <1>7, <1>8, <1>9, StutterStep

\* interruptiblePop() takes the front or goes to sleep.
LEMMA WorkerPops ==
    ASSUME PoolInv, NEW w \in Workers, WorkerPop(w)
    PROVE  PoolInv' /\ ExecutorStep
<1>1. PoolType /\ CallsOK /\ StopOK
    BY DEF PoolInv
<1>2. at[w] = "pop" /\ Outside(w) /\ at' = [at EXCEPT ![w] = "popping"]
      /\ UNCHANGED <<use, running_, done, beforeStop, alive>>
    BY DEF WorkerPop, Goto, InterruptiblePop
<1>3. CASE queue # << >> /\ Take(w)
    BY <1>2, <1>3, TakeStep
<1>4. CASE queue = << >> /\ Sleep(w, "interruptiblePop") /\ UNCHANGED arg
  <2>1. /\ op' = [op EXCEPT ![w] = "interruptiblePop"]
        /\ UNCHANGED <<max_size, queue, got, notifying, inserted, taken, arg>>
      BY <1>4 DEF Sleep
  <2>2. w \in Procs /\ w # Stopper /\ w \notin Clients
      BY ThreadsApart
  <2>3. PoolType'
      BY <1>1, <1>2, <1>4, <2>1, <2>2, ThreadsApart DEF PoolType, TypeOK, QueueTypeOK, Sleep
  <2>4. CallsOK'
      BY <1>1, <1>2, <2>1, <2>2 DEF CallsOK, PoolType, TypeOK, QueueTypeOK, Outside
  <2>5. \A v \in Workers : Holds(v)' <=> Holds(v)
      BY <1>1, <1>2, <2>1, <2>2, ThreadsApart DEF Holds, PoolType, TypeOK, QueueTypeOK
  <2>6. at'[Stopper] = at[Stopper] /\ (Drained' <=> Drained)
      BY <1>1, <1>2, <2>1, <2>2, ThreadsApart DEF Drained, PoolType, TypeOK, QueueTypeOK
  <2>7. at[Stopper] # "stopped"
      BY <1>1, <1>2 DEF StopOK
  <2> QED
      BY <1>2, <2>1, <2>3, <2>4, <2>5, <2>6, <2>7, StutterStep
<1> QED
    BY <1>3, <1>4 DEF WorkerPop, InterruptiblePop

\* A job that returns or throws is finished: one worker held it.
LEMMA JobEnds ==
    ASSUME PoolInv, NEW w \in Workers, JobReturns(w) \/ JobThrows(w)
    PROVE  PoolInv' /\ ExecutorStep
<1>1. PoolType /\ CallsOK /\ OnePlace /\ StopOK
    BY DEF PoolInv
<1>2. /\ at[w] = "job" /\ Outside(w) /\ at' = [at EXCEPT ![w] = "loop"]
      /\ done' = done \cup {got[w]}
      /\ UNCHANGED <<max_size, queue, op, cv, arg, got, notifying, inserted, taken>>
      /\ UNCHANGED <<use, running_, beforeStop>>
    BY DEF JobReturns, JobThrows, Goto, qvars
<1>3. w \in Procs /\ w # Stopper /\ w \notin Clients /\ got[w] \in Jobs
    BY <1>1, <1>2, ThreadsApart DEF PoolType, TypeOK
<1>4. w \in Holders /\ Holders' = Holders \ {w}
  <2>1. Holds(w) /\ ~Holds(w)'
      BY <1>1, <1>2, <1>3 DEF Holds, PoolType
  <2>2. \A v \in Workers \ {w} : Holds(v)' <=> Holds(v)
      BY <1>1, <1>2, ThreadsApart DEF Holds, PoolType
  <2> QED
      BY <2>1, <2>2 DEF Holders
<1>5. Held' = Held \ {got[w]} /\ got[w] \in Held
    BY <1>1, <1>2, <1>4 DEF Held, OnePlace
<1>6. alive' \in BOOLEAN
  <2>1. CASE JobReturns(w)
      BY <1>1, <2>1 DEF JobReturns, PoolType, TypeOK
  <2>2. CASE JobThrows(w)
    <3>1. alive' = (use.withHandler /\ use.handlerReturns)
        BY <2>2 DEF JobThrows, OnException
    <3> QED
        BY <3>1, Zenon
  <2> QED
      BY <2>1, <2>2
<1>7. PoolType'
    BY <1>1, <1>2, <1>3, <1>6, ThreadsApart DEF PoolType, TypeOK, QueueTypeOK
<1>8. CallsOK'
    BY <1>1, <1>2, <1>3 DEF CallsOK, PoolType, Outside
<1>9. OnePlace'
    BY <1>1, <1>2, <1>4, <1>5 DEF OnePlace
<1>10. at'[Stopper] = at[Stopper] /\ (Drained' <=> Drained)
    BY <1>1, <1>2, <1>3, ThreadsApart DEF Drained, PoolType
<1>11. StopOK'
    BY <1>1, <1>2, <1>10 DEF StopOK
<1>12. PICK j \in Jobs : j = got[w]
    BY <1>3
<1>13. Executor!Finish(j)
    BY <1>2, <1>5, <1>10, <1>12 DEF Executor!Finish, Held, Holders
<1> QED
    BY <1>7, <1>8, <1>9, <1>11, <1>13 DEF PoolInv, ExecutorStep, Executor!ExecutorNext

\* stop() is called: the executor notes the jobs that it has accepted.
LEMMA StopCalled ==
    ASSUME PoolInv, Stop
    PROVE  PoolInv' /\ ExecutorStep
<1>1. PoolType /\ CallsOK /\ OnePlace /\ StopOK
    BY DEF PoolInv
<1>2. PICK o \in {"none", "waitUntilEmpty"} :
         /\ op' = [op EXCEPT ![Stopper] = o] /\ (o = "none" => queue = << >>)
         /\ cv' \in [Procs -> {"awake", "asleep"}]
    BY <1>1 DEF Stop, WaitUntilEmpty, WaitStep, Sleep, PoolType, TypeOK, QueueTypeOK
<1>3. /\ at[Stopper] = "idle" /\ at' = [at EXCEPT ![Stopper] = "waitUntilEmpty"]
      /\ op[Stopper] = "none"
      /\ beforeStop' = Elems(inserted)
      /\ UNCHANGED <<max_size, queue, arg, got, notifying, inserted, taken>>
      /\ UNCHANGED <<use, running_, done, alive>>
    BY DEF Stop, Goto, WaitUntilEmpty, WaitStep, Sleep, Elems, Outside
<1>4. Stopper \in Procs /\ \A w \in Workers : w # Stopper /\ w \in Procs
    BY ThreadsApart
<1>5. Elems(inserted) \subseteq Jobs
    BY <1>1, ElementOfSeq DEF Elems, PoolType, TypeOK, QueueTypeOK
<1>6. PoolType'
    BY <1>1, <1>2, <1>3, <1>4, <1>5 DEF PoolType, TypeOK, QueueTypeOK
<1>7. CallsOK'
    BY <1>1, <1>2, <1>3, <1>4 DEF CallsOK, PoolType, TypeOK, QueueTypeOK
<1>8. \A w \in Workers : Holds(w)' <=> Holds(w)
    BY <1>1, <1>2, <1>3, <1>4 DEF Holds, PoolType, TypeOK, QueueTypeOK
<1>9. Holders' = Holders
    BY <1>8 DEF Holders
<1>10. OnePlace' /\ Held' = Held
    BY <1>1, <1>3, <1>9, QuietStep
<1>11. at'[Stopper] = "waitUntilEmpty" /\ (Drained' => queue = << >>)
    BY <1>1, <1>2, <1>3, <1>4 DEF Drained, PoolType, TypeOK, QueueTypeOK
<1>12. StopOK'
  <2>1. queue = << >> => Elems(queue') = {}
      BY <1>3 DEF Elems
  <2> QED
      BY <1>3, <1>11, <2>1 DEF StopOK
<1>13. Executor!CallStop
  <2>1. Executor!Accepted = Elems(inserted)
      BY <1>1 DEF Executor!Accepted, OnePlace, Held, Holders, Elems
  <2> QED
      BY <1>3, <1>10, <1>11, <2>1 DEF Executor!CallStop, Held, Holders
<1> QED
    BY <1>6, <1>7, <1>10, <1>12, <1>13 DEF PoolInv, ExecutorStep, Executor!ExecutorNext

\* running_ = false and wakeup() change nothing that the executor shows.
LEMMA StopMoves ==
    ASSUME PoolInv, StopSetFlag \/ StopWakeup
    PROVE  PoolInv' /\ ExecutorStep
<1>1. PoolType /\ CallsOK /\ OnePlace /\ StopOK
    BY DEF PoolInv
<1>2. PICK l \in {"wakeup", "join"} :
         /\ at' = [at EXCEPT ![Stopper] = l]
         /\ \/ at[Stopper] = "waitUntilEmpty" /\ op[Stopper] = "none"
            \/ at[Stopper] = "wakeup"
    BY DEF StopSetFlag, StopWakeup, Goto, Outside
<1>3. /\ UNCHANGED <<max_size, queue, op, arg, got, notifying, inserted, taken>>
      /\ UNCHANGED <<use, done, beforeStop, alive>>
      /\ running_' \in BOOLEAN /\ cv' \in [Procs -> {"awake", "asleep"}]
    BY <1>1 DEF StopSetFlag, StopWakeup, Wakeup, WakeAll, qvars, PoolType, TypeOK, QueueTypeOK
<1>4. Stopper \in Procs /\ \A w \in Workers : w # Stopper /\ w \in Procs
    BY ThreadsApart
<1>5. PoolType'
    BY <1>1, <1>2, <1>3, <1>4 DEF PoolType, TypeOK, QueueTypeOK
<1>6. CallsOK'
    BY <1>1, <1>2, <1>3, <1>4, ThreadsApart DEF CallsOK, PoolType
<1>7. \A w \in Workers : Holds(w)' <=> Holds(w)
    BY <1>1, <1>2, <1>3, <1>4 DEF Holds, PoolType
<1>8. Drained /\ at[Stopper] # "stopped" /\ at'[Stopper] # "stopped"
    BY <1>1, <1>2, <1>4 DEF Drained, PoolType
<1> QED
    BY <1>3, <1>5, <1>6, <1>7, <1>8, StutterStep

\* The joins: no worker holds a job, so that all that was promised is done.
LEMMA StopReturns ==
    ASSUME PoolInv, StopJoin
    PROVE  PoolInv' /\ ExecutorStep
<1>1. PoolType /\ CallsOK /\ OnePlace /\ StopOK
    BY DEF PoolInv
<1>2. /\ at[Stopper] = "join" /\ at' = [at EXCEPT ![Stopper] = "stopped"]
      /\ \A w \in Workers : at[w] = "exit"
      /\ UNCHANGED <<max_size, queue, op, cv, arg, got, notifying, inserted, taken>>
      /\ UNCHANGED <<use, running_, done, beforeStop, alive>>
    BY DEF StopJoin, Goto, qvars
<1>3. Stopper \in Procs /\ \A w \in Workers : w # Stopper /\ w \in Procs
    BY ThreadsApart
<1>4. at'[Stopper] = "stopped" /\ \A w \in Workers : at'[w] = "exit"
    BY <1>1, <1>2, <1>3 DEF PoolType
<1>5. Holders = {} /\ Holders' = {} /\ Held = {} /\ Held' = {}
    BY <1>2, <1>4 DEF Holders, Holds, Held
<1>6. PoolType'
    BY <1>1, <1>2, <1>3 DEF PoolType, TypeOK, QueueTypeOK
<1>7. CallsOK'
    BY <1>1, <1>2, <1>3, ThreadsApart DEF CallsOK, PoolType
<1>8. OnePlace'
    BY <1>1, <1>2, <1>5 DEF OnePlace
<1>9. Elems(queue) \cap beforeStop = {}
    BY <1>1, <1>2 DEF StopOK, Drained
<1>10. StopOK'
    BY <1>1, <1>2, <1>4, <1>9 DEF StopOK
<1>11. beforeStop \subseteq done
    BY <1>1, <1>5, <1>9 DEF StopOK, OnePlace
<1>12. Executor!StopReturns
    BY <1>2, <1>4, <1>5, <1>11 DEF Executor!StopReturns, Held, Holders
<1> QED
    BY <1>6, <1>7, <1>8, <1>10, <1>12 DEF PoolInv, ExecutorStep, Executor!ExecutorNext

\* A wait of the stopper that ends finds the queue empty; one that goes on
\* does not change anything.
LEMMA StopperResumes ==
    ASSUME PoolInv, NEW p \in Procs, WaitUntilEmptyResumes(p), UNCHANGED pvars
    PROVE  PoolInv' /\ ExecutorStep
<1>1. PoolType /\ CallsOK /\ OnePlace /\ StopOK
    BY DEF PoolInv
<1>2. p = Stopper /\ at[p] = "waitUntilEmpty" /\ op[p] = "waitUntilEmpty"
    BY <1>1 DEF WaitUntilEmptyResumes, Awake, CallsOK
<1>3. PICK o \in {"none", "waitUntilEmpty"} :
         /\ op' = [op EXCEPT ![p] = o] /\ (o = "none" => queue = << >>)
         /\ cv' \in [Procs -> {"awake", "asleep"}]
    BY <1>1 DEF WaitUntilEmptyResumes, WaitStep, Sleep, PoolType, TypeOK, QueueTypeOK
<1>4. /\ UNCHANGED <<max_size, queue, arg, got, notifying, inserted, taken>>
      /\ UNCHANGED <<use, running_, at, done, beforeStop, alive>>
    BY DEF WaitUntilEmptyResumes, WaitStep, Sleep, pvars
<1>5. \A w \in Workers : w # p /\ w \in Procs
    BY <1>2, ThreadsApart
<1>6. PoolType'
    BY <1>1, <1>3, <1>4 DEF PoolType, TypeOK, QueueTypeOK
<1>7. CallsOK'
    BY <1>1, <1>2, <1>3, <1>4 DEF CallsOK, PoolType, TypeOK, QueueTypeOK
<1>8. \A w \in Workers : Holds(w)' <=> Holds(w)
    BY <1>1, <1>3, <1>4, <1>5 DEF Holds, PoolType, TypeOK, QueueTypeOK
<1>9. Drained' => queue = << >>
    BY <1>1, <1>2, <1>3, <1>4 DEF Drained, PoolType, TypeOK, QueueTypeOK
<1> QED
    BY <1>4, <1>6, <1>7, <1>8, <1>9, StutterStep

\* A worker that wakes up inside interruptiblePop() takes the front, or returns
\* with nothing.
LEMMA WorkerResumes ==
    ASSUME PoolInv, NEW p \in Procs, InterruptiblePopResumes(p), UNCHANGED pvars
    PROVE  PoolInv' /\ ExecutorStep
<1>1. PoolType /\ CallsOK /\ OnePlace /\ StopOK
    BY DEF PoolInv
<1>2. p \in Workers /\ at[p] = "popping" /\ op[p] = "interruptiblePop"
    BY <1>1 DEF InterruptiblePopResumes, Awake, CallsOK
<1>3. UNCHANGED <<use, running_, at, done, beforeStop, alive>>
    BY DEF pvars
<1>4. CASE queue # << >> /\ Take(p)
  <2>1. at' = [at EXCEPT ![p] = "popping"]
      BY <1>1, <1>2, <1>3 DEF PoolType
  <2> QED
      BY <1>2, <1>3, <1>4, <2>1, TakeStep
<1>5. CASE queue = << >> /\ TakeNothing(p)
  <2>1. /\ got' = [got EXCEPT ![p] = NoJob] /\ op' = [op EXCEPT ![p] = "none"]
        /\ UNCHANGED <<max_size, queue, cv, arg, notifying, inserted, taken>>
      BY <1>5 DEF TakeNothing
  <2>2. p # Stopper /\ p \notin Clients
      BY <1>2, ThreadsApart
  <2>3. PoolType'
      BY <1>1, <1>2, <1>3, <2>1, ThreadsApart DEF PoolType, TypeOK, QueueTypeOK
  <2>4. CallsOK'
      BY <1>1, <1>2, <1>3, <2>1 DEF CallsOK, PoolType, TypeOK, QueueTypeOK
  <2>5. /\ \A w \in Workers : Holds(w)' <=> Holds(w)
        /\ \A w \in Holders : got'[w] = got[w]
      BY <1>1, <1>2, <1>3, <2>1, ThreadsApart
      DEF Holders, Holds, PoolType, TypeOK, QueueTypeOK
  <2>6. Drained' <=> Drained
      BY <1>1, <1>3, <2>1, <2>2, ThreadsApart DEF Drained, PoolType, TypeOK, QueueTypeOK
  <2> QED
      BY <1>3, <2>1, <2>3, <2>4, <2>5, <2>6, StutterStep
<1> QED
    BY <1>4, <1>5 DEF InterruptiblePopResumes

\* A blocked insert() that finds room puts its job; one that does not sleeps on.
LEMMA CallerResumes ==
    ASSUME PoolInv, NEW p \in Procs, InsertResumes(p), UNCHANGED pvars
    PROVE  PoolInv' /\ ExecutorStep
<1>1. PoolType /\ CallsOK /\ OnePlace /\ StopOK
    BY DEF PoolInv
<1>2. op[p] = "insert" /\ arg[p] \in Jobs
    BY <1>1 DEF InsertResumes, Awake, CallsOK, PoolType, TypeOK, QueueTypeOK
<1>3. CASE ~Full /\ Put(p, arg[p])
  <2>1. PICK j \in Jobs : j = arg[p]
      BY <1>2
  <2>2. Put(p, j)
      BY <1>3, <2>1 DEF Put
  <2> QED
      BY <1>2, <1>3, <2>1, <2>2, PutStep
<1>4. CASE Full /\ Sleep(p, "insert") /\ UNCHANGED arg
  <2>1. op' = op
      BY <1>1, <1>2, <1>4 DEF Sleep, PoolType, TypeOK, QueueTypeOK
  <2>2. /\ UNCHANGED <<max_size, queue, op, arg, got, notifying, inserted, taken>>
        /\ cv' \in [Procs -> {"awake", "asleep"}]
      BY <1>1, <1>4, <2>1 DEF Sleep, PoolType, TypeOK, QueueTypeOK
  <2> QED
      BY <2>2, OnlyCvStep
<1> QED
    BY <1>3, <1>4 DEF InsertResumes

\* notify_all(): sleeping threads wake up, and the caller's call is over.
LEMMA NotifyStep ==
    ASSUME PoolInv, NEW p \in Procs, NotifyAll(p), UNCHANGED pvars
    PROVE  PoolInv' /\ ExecutorStep
<1>1. PoolType /\ CallsOK /\ OnePlace /\ StopOK
    BY DEF PoolInv
<1>2. /\ UNCHANGED <<max_size, queue, op, arg, got, inserted, taken>>
      /\ UNCHANGED <<use, running_, at, done, beforeStop, alive>>
      /\ notifying' \subseteq notifying /\ cv' \in [Procs -> {"awake", "asleep"}]
    BY DEF NotifyAll, WakeAll, pvars
<1>3. PoolType' /\ CallsOK'
    BY <1>1, <1>2 DEF PoolType, TypeOK, QueueTypeOK, CallsOK
<1>4. (Drained' <=> Drained) /\ \A w \in Workers : Holds(w)' <=> Holds(w)
    BY <1>2 DEF Drained, Holds
<1> QED
    BY <1>2, <1>3, <1>4, StutterStep

-----------------------------------------------------------------------------
\* Every step of the pool keeps the invariant and is a step of the executor,
\* or none.
LEMMA NextStep ==
    ASSUME PoolInv, [Next]_vars
    PROVE  PoolInv' /\ ExecutorStep
<1>1. ASSUME NEW p \in Procs, QueueStep(p) PROVE PoolInv' /\ ExecutorStep
  <2>1. ~PopResumes(p)
      BY <1>1 DEF PopResumes, Awake, PoolInv, CallsOK
  <2>2. UNCHANGED pvars /\ \/ InsertResumes(p) \/ InterruptiblePopResumes(p)
                           \/ WaitUntilEmptyResumes(p) \/ NotifyAll(p)
      BY <1>1, <2>1 DEF QueueStep, Resumes
  <2> QED
      BY <2>2, CallerResumes, WorkerResumes, StopperResumes, NotifyStep
<1>2. ASSUME NEW p \in Procs, QueueSpurious(p) PROVE PoolInv' /\ ExecutorStep
  <2>1. /\ UNCHANGED pvars
        /\ UNCHANGED <<max_size, queue, op, arg, got, notifying, inserted, taken>>
        /\ cv' \in [Procs -> {"awake", "asleep"}]
      BY <1>2 DEF QueueSpurious, SpuriousWakeup, PoolInv, PoolType, TypeOK, QueueTypeOK
  <2> QED
      BY <2>1, OnlyCvStep
<1>3. ASSUME NEW p \in Procs, NEW j \in Jobs, Run(p, j) PROVE PoolInv' /\ ExecutorStep
    BY <1>3, RunStep
<1>4. ASSUME NEW w \in Workers, \/ WorkerLoop(w) \/ WorkerPop(w) \/ WorkerGotJob(w)
                                \/ JobReturns(w) \/ JobThrows(w)
      PROVE  PoolInv' /\ ExecutorStep
    BY <1>4, WorkerMoves, WorkerPops, JobEnds
<1>5. CASE Start
    BY <1>5, StartStep
<1>6. CASE Stop
    BY <1>6, StopCalled
<1>7. CASE StopSetFlag \/ StopWakeup
    BY <1>7, StopMoves
<1>8. CASE StopJoin
    BY <1>8, StopReturns
<1>9. CASE UNCHANGED vars
    BY <1>9, UnchangedStep
<1> QED
    BY <1>1, <1>2, <1>3, <1>4, <1>5, <1>6, <1>7, <1>8, <1>9 DEF Next

\* A job is in one place at a time, and threads are blocked only in the calls
\* that the pool makes, in every reachable state of every pool.
THEOREM FixedPoolInvariant == Spec => []PoolInv
<1>1. Init => PoolInv
    BY InitStep
<1>2. PoolInv /\ [Next]_vars => PoolInv'
    BY NextStep
<1> QED
    BY <1>1, <1>2, PTL DEF Spec

\* The pool is an executor, for every number of workers, callers, jobs and
\* places in the queue, and however the program uses it: jobs start once each
\* and in the order in which run() accepted them, and stop() returns when all
\* that it found accepted is finished and no worker holds a job.
THEOREM FixedPoolIsExecutor == Spec => PoolIsExecutor
<1>1. Init => Executor!ExecutorInit
    BY InitStep
<1>2. PoolInv /\ [Next]_vars => [Executor!ExecutorNext]_(Executor!evars)
    BY NextStep DEF ExecutorStep
<1> QED
    BY <1>1, <1>2, FixedPoolInvariant, PTL DEF Spec, PoolIsExecutor, Executor!ExecutorSpec

-----------------------------------------------------------------------------
\* The queue by itself, with threads that call whatever they like.
QueueSpec == QueueInit(MaxSize) /\ [][QueueNext]_qvars

QueueInv ==
    /\ QueueTypeOK
    /\ \A p \in Procs : op[p] = "insert" => arg[p] \in Jobs
    /\ FirstInFirstOut

\* What pop_front and emplace_back do to the order of all that went in.
LEMMA PushPop ==
    ASSUME NEW s \in Seq(Jobs), NEW q \in Seq(Jobs)
    PROVE  /\ q # << >> => Append(s, Head(q)) \o Tail(q) = s \o q
           /\ \A j \in Jobs : Append(s \o q, j) = s \o Append(q, j)
<1>1. ASSUME q # << >> PROVE Append(s, Head(q)) \o Tail(q) = s \o q
  <2>1. /\ Head(q) \in Jobs /\ Tail(q) \in Seq(Jobs) /\ <<Head(q)>> \in Seq(Jobs)
        /\ <<Head(q)>> \o Tail(q) = q
      BY <1>1
  <2> QED
      BY <2>1, AppendIsConcat, ConcatAssociative
<1>2. ASSUME NEW j \in Jobs PROVE Append(s \o q, j) = s \o Append(q, j)
  <2>1. <<j>> \in Seq(Jobs) /\ s \o q \in Seq(Jobs)
      BY ConcatProperties
  <2>2. Append(s \o q, j) = (s \o q) \o <<j>> /\ Append(q, j) = q \o <<j>>
      BY <2>1, AppendIsConcat
  <2> QED
      BY <2>1, <2>2, ConcatAssociative
<1> QED
    BY <1>1, <1>2

\* insert() at the back.
LEMMA PutKeepsOrder ==
    ASSUME QueueInv, NEW p \in Procs, NEW j \in Jobs, Put(p, j)
    PROVE  QueueInv'
<1>1. queue' \in Seq(Jobs) /\ inserted' \in Seq(Jobs)
    BY AppendElems DEF Put, QueueInv, QueueTypeOK
<1>2. FirstInFirstOut'
    BY PushPop DEF Put, QueueInv, QueueTypeOK, FirstInFirstOut
<1> QED
    BY <1>1, <1>2 DEF QueueInv, QueueTypeOK, Put

\* A pop of any kind at the front.
LEMMA TakeKeepsOrder ==
    ASSUME QueueInv, NEW p \in Procs, queue # << >>, Take(p)
    PROVE  QueueInv'
<1>1. queue \in Seq(Jobs) /\ taken \in Seq(Jobs)
    BY DEF QueueInv, QueueTypeOK
<1>2. queue' \in Seq(Jobs) /\ Head(queue) \in Jobs /\ taken' \in Seq(Jobs)
    BY <1>1, HeadTailProperties, AppendProperties DEF Take
<1>3. FirstInFirstOut'
    BY <1>1, PushPop DEF Take, QueueInv, FirstInFirstOut
<1> QED
    BY <1>2, <1>3 DEF QueueInv, QueueTypeOK, Take

\* A call that goes to sleep, wakes up, or returns with nothing.
LEMMA RestKeepsOrder ==
    ASSUME QueueInv, UNCHANGED <<max_size, queue, inserted, taken>>,
           op' \in [Procs -> {"none", "insert", "pop", "interruptiblePop", "waitUntilEmpty"}],
           cv' \in [Procs -> {"awake", "asleep"}], arg' \in [Procs -> Jobs \cup {NoJob}],
           got' \in [Procs -> Jobs \cup {NoJob}], notifying' \subseteq Procs,
           \A p \in Procs : op'[p] = "insert" => arg'[p] \in Jobs
    PROVE  QueueInv'
    BY DEF QueueInv, QueueTypeOK, FirstInFirstOut

\* Whatever a thread of the queue does keeps the order.
LEMMA QueueKeepsOrder == QueueInv /\ [QueueNext]_qvars => QueueInv'
<1> SUFFICES ASSUME QueueInv, [QueueNext]_qvars PROVE QueueInv'
    OBVIOUS
<1>1. ASSUME NEW p \in Procs, NEW j \in Jobs, NEW block \in BOOLEAN, Insert(p, j, block)
      PROVE  QueueInv'
  <2>1. CASE Put(p, j)
      BY <2>1, PutKeepsOrder
  <2>2. CASE Sleep(p, "insert") /\ arg' = [arg EXCEPT ![p] = j]
      BY <2>2, RestKeepsOrder DEF Sleep, QueueInv, QueueTypeOK
  <2> QED
      BY <1>1, <2>1, <2>2 DEF Insert
<1>2. ASSUME NEW p \in Procs, InsertResumes(p)
      PROVE  QueueInv'
  <2>1. arg[p] \in Jobs
      BY <1>2 DEF InsertResumes, Awake, QueueInv
  <2>2. CASE Put(p, arg[p])
    <3>1. PICK j \in Jobs : j = arg[p]
        BY <2>1
    <3>2. Put(p, j)
        BY <2>2, <3>1 DEF Put
    <3> QED
        BY <3>2, PutKeepsOrder
  <2>3. CASE Sleep(p, "insert") /\ UNCHANGED arg
      BY <2>1, <2>3, RestKeepsOrder DEF Sleep, QueueInv, QueueTypeOK
  <2> QED
      BY <1>2, <2>2, <2>3 DEF InsertResumes
<1>3. ASSUME NEW p \in Procs, \/ Pop(p) \/ PopResumes(p) \/ InterruptiblePop(p)
                              \/ InterruptiblePopResumes(p) \/ Poll(p)
      PROVE  QueueInv'
  <2>1. CASE queue # << >> /\ Take(p)
      BY <2>1, TakeKeepsOrder
  <2>2. CASE TakeNothing(p)
      BY <2>2, RestKeepsOrder DEF TakeNothing, QueueInv, QueueTypeOK
  <2>3. CASE (Sleep(p, "pop") \/ Sleep(p, "interruptiblePop")) /\ UNCHANGED arg
      BY <2>3, RestKeepsOrder DEF Sleep, QueueInv, QueueTypeOK
  <2> QED
      BY <1>3, <2>1, <2>2, <2>3
      DEF Pop, PopResumes, PopStep, InterruptiblePop, InterruptiblePopResumes, Poll
<1>4. ASSUME NEW p \in Procs, WaitUntilEmpty(p) \/ WaitUntilEmptyResumes(p)
      PROVE  QueueInv'
    BY <1>4, RestKeepsOrder
    DEF WaitUntilEmpty, WaitUntilEmptyResumes, WaitStep, Sleep, QueueInv, QueueTypeOK
<1>5. ASSUME NEW p \in Procs, Wakeup(p) \/ NotifyAll(p) \/ SpuriousWakeup(p)
      PROVE  QueueInv'
    BY <1>5, RestKeepsOrder
    DEF Wakeup, NotifyAll, SpuriousWakeup, WakeAll, QueueInv, QueueTypeOK
<1>6. CASE UNCHANGED qvars
    BY <1>6, RestKeepsOrder DEF qvars, QueueInv, QueueTypeOK
<1>7. ASSUME NEW p \in Procs, NEW j \in Jobs, InsertRaises(p, j)
      PROVE  QueueInv'
    BY <1>6, <1>7 DEF InsertRaises
<1> QED
    BY <1>1, <1>2, <1>3, <1>4, <1>5, <1>6, <1>7 DEF QueueNext, Resumes

\* An empty queue is in order.
LEMMA QueueStarts == QueueInit(MaxSize) => QueueInv
    BY QueueAssumption, EmptySeq, ConcatEmptySeq
    DEF QueueInit, QueueInv, QueueTypeOK, FirstInFirstOut

\* Queue: what the threads have taken is what was inserted, from the front and
\* in that order, with any number of threads that insert, pop, poll and wait.
THEOREM QueueFirstInFirstOut == QueueSpec => []FirstInFirstOut
<1>1. QueueInv => FirstInFirstOut
    BY DEF QueueInv
<1> QED
    BY <1>1, QueueStarts, QueueKeepsOrder, PTL DEF QueueSpec

-----------------------------------------------------------------------------
(* Nobody sleeps through its condition, although producers, consumers and  *)
(* waitUntilEmpty() share the condition variable.                          *)

\* What a blocked call waits for has not come.
StillWaits(p) ==
    \/ op[p] = "insert" /\ Full
    \/ op[p] \in {"pop", "interruptiblePop"} /\ queue = << >>
    \/ op[p] = "waitUntilEmpty" /\ queue # << >>

\* A sleeper whose condition has come true has a notification on its way.
SleepersNotified ==
    \A p \in Procs : cv[p] = "asleep" => StillWaits(p) \/ notifying # {}

\* Blocked producers that are woken together do not overfill the queue.
WithinBound == max_size # Unbounded => Len(queue) <= max_size

SleepInv ==
    /\ QueueInv
    /\ \A p \in Procs : cv[p] = "asleep" => op[p] # "none"
    /\ SleepersNotified
    /\ WithinBound

\* The length of the queue before and after.
LEMMA QueueLengths ==
    ASSUME QueueInv
    PROVE  /\ Len(queue) \in Nat
           /\ \A j \in Jobs : Len(Append(queue, j)) = Len(queue) + 1
           /\ queue # << >> => Len(Tail(queue)) = Len(queue) - 1
<1>1. queue \in Seq(Jobs)
    BY DEF QueueInv, QueueTypeOK
<1> QED
    BY <1>1, LenProperties, AppendProperties, HeadTailProperties

\* A step that leaves a notification behind may change the queue.
LEMMA NotifierWakes ==
    ASSUME SleepInv, NEW p \in Procs, cv[p] = "awake",
           cv' = cv, op' = [op EXCEPT ![p] = "none"],
           notifying' = notifying \cup {p}, QueueInv', WithinBound'
    PROVE  SleepInv'
<1>1. op \in [Procs -> {"none", "insert", "pop", "interruptiblePop", "waitUntilEmpty"}]
    BY DEF SleepInv, QueueInv, QueueTypeOK
<1>2. \A r \in Procs : cv'[r] = "asleep" => op'[r] # "none"
    BY <1>1 DEF SleepInv
<1>3. SleepersNotified'
    BY DEF SleepersNotified
<1> QED
    BY <1>2, <1>3 DEF SleepInv

\* A step that leaves the queue alone puts at most one thread to sleep.
LEMMA RestWaits ==
    ASSUME SleepInv, UNCHANGED <<max_size, queue, notifying>>, QueueInv', NEW p \in Procs,
           \A r \in Procs \ {p} : op'[r] = op[r] /\ (cv'[r] = "asleep" => cv[r] = "asleep"),
           cv'[p] = "asleep" => op'[p] # "none" /\ StillWaits(p)'
    PROVE  SleepInv'
<1>1. \A r \in Procs : cv'[r] = "asleep" => op'[r] # "none"
    BY DEF SleepInv
<1>2. \A r \in Procs \ {p} : StillWaits(r)' = StillWaits(r)
    BY DEF StillWaits, Full
<1>3. SleepersNotified'
    BY <1>2 DEF SleepersNotified, SleepInv
<1>4. WithinBound'
    BY DEF WithinBound, SleepInv
<1> QED
    BY <1>1, <1>3, <1>4 DEF SleepInv

\* The steps of Queue.
LEMMA QueueSleepersStep == SleepInv /\ [QueueNext]_qvars => SleepInv'
<1> SUFFICES ASSUME SleepInv, [QueueNext]_qvars PROVE SleepInv'
    OBVIOUS
<1>0. QueueInv /\ QueueInv'
    BY QueueKeepsOrder DEF SleepInv
<1>t. /\ op \in [Procs -> {"none", "insert", "pop", "interruptiblePop", "waitUntilEmpty"}]
      /\ cv \in [Procs -> {"awake", "asleep"}]
      /\ max_size \in Nat \cup {Unbounded}
    BY <1>0 DEF QueueInv, QueueTypeOK
<1>a. \A p \in Procs : op[p] = "none" => cv[p] = "awake"
    BY <1>t DEF SleepInv
<1>p. ASSUME NEW p \in Procs, NEW j \in Jobs, Put(p, j), ~Full, cv[p] = "awake"
      PROVE  SleepInv'
  <2>1. WithinBound'
      BY <1>0, <1>p, <1>t, QueueLengths DEF WithinBound, Put, Full
  <2> QED
      BY <1>0, <1>p, <2>1, NotifierWakes DEF Put
<1>q. ASSUME NEW p \in Procs, Take(p), queue # << >>, cv[p] = "awake"
      PROVE  SleepInv'
  <2>1. WithinBound'
      BY <1>0, <1>q, <1>t, QueueLengths DEF WithinBound, Take, SleepInv
  <2> QED
      BY <1>0, <1>q, <2>1, NotifierWakes DEF Take
<1>r. ASSUME NEW p \in Procs, TakeNothing(p), cv[p] = "awake"
      PROVE  SleepInv'
    BY <1>0, <1>r, <1>t, RestWaits DEF TakeNothing
<1>s. ASSUME NEW p \in Procs, NEW call \in {"insert", "pop", "interruptiblePop", "waitUntilEmpty"},
             Sleep(p, call),
             \/ call = "insert" /\ Full
             \/ call \in {"pop", "interruptiblePop"} /\ queue = << >>
             \/ call = "waitUntilEmpty" /\ queue # << >>
      PROVE  SleepInv'
  <2>1. StillWaits(p)'
      BY <1>s, <1>t DEF Sleep, StillWaits, Full
  <2> QED
      BY <1>0, <1>s, <1>t, <2>1, RestWaits DEF Sleep
<1>w. ASSUME WakeAll, UNCHANGED <<max_size, queue>>
      PROVE  SleepInv'
    BY <1>0, <1>w DEF WakeAll, SleepInv, SleepersNotified, WithinBound
<1>1. ASSUME NEW p \in Procs, NEW j \in Jobs, NEW block \in BOOLEAN, Insert(p, j, block)
      PROVE  SleepInv'
    BY <1>1, <1>a, <1>p, <1>s DEF Insert, Outside
<1>2. ASSUME NEW p \in Procs, InsertResumes(p)
      PROVE  SleepInv'
  <2>1. arg[p] \in Jobs
      BY <1>0, <1>2 DEF InsertResumes, Awake, QueueInv
  <2>2. PICK j \in Jobs : j = arg[p]
      BY <2>1
  <2> QED
      BY <1>2, <1>p, <1>s, <2>2 DEF InsertResumes, Awake
<1>3. ASSUME NEW p \in Procs, \/ Pop(p) \/ PopResumes(p) \/ InterruptiblePop(p)
                              \/ InterruptiblePopResumes(p) \/ Poll(p)
      PROVE  SleepInv'
    BY <1>3, <1>a, <1>q, <1>r, <1>s
    DEF Pop, PopResumes, PopStep, InterruptiblePop, InterruptiblePopResumes, Poll, Outside, Awake
<1>4. ASSUME NEW p \in Procs, WaitUntilEmpty(p) \/ WaitUntilEmptyResumes(p)
      PROVE  SleepInv'
  <2>1. cv[p] = "awake"
      BY <1>4, <1>a DEF WaitUntilEmpty, WaitUntilEmptyResumes, Outside, Awake
  <2>2. CASE queue # << >>
      BY <1>4, <1>s, <2>2 DEF WaitUntilEmpty, WaitUntilEmptyResumes, WaitStep
  <2>3. CASE queue = << >>
      BY <1>0, <1>4, <1>t, <2>1, <2>3, RestWaits
      DEF WaitUntilEmpty, WaitUntilEmptyResumes, WaitStep
  <2> QED
      BY <2>2, <2>3
<1>5. ASSUME NEW p \in Procs, Wakeup(p) \/ NotifyAll(p)
      PROVE  SleepInv'
    BY <1>5, <1>w DEF Wakeup, NotifyAll
<1>6. ASSUME NEW p \in Procs, SpuriousWakeup(p)
      PROVE  SleepInv'
    BY <1>0, <1>6, <1>t, RestWaits DEF SpuriousWakeup
<1>7. CASE UNCHANGED qvars
    BY <1>0, <1>7
    DEF qvars, SleepInv, SleepersNotified, StillWaits, Full, WithinBound
<1>8. ASSUME NEW p \in Procs, NEW j \in Jobs, InsertRaises(p, j)
      PROVE  SleepInv'
    BY <1>7, <1>8 DEF InsertRaises
<1> QED
    BY <1>1, <1>2, <1>3, <1>4, <1>5, <1>6, <1>7, <1>8 DEF QueueNext, Resumes

\* Queue: a bounded queue never holds more than its bound, and no call of
\* insert(), pop(), interruptiblePop() or waitUntilEmpty() sleeps on while what
\* it waits for has come and nobody is about to notify it, for any number of
\* threads, although one condition variable serves them all and notify_all() is
\* called after the mutex has been released.
THEOREM QueueSleepersNotified == QueueSpec => [](SleepersNotified /\ WithinBound)
<1>1. QueueInit(MaxSize) => SleepInv
  <2>1. QueueInit(MaxSize) => QueueInv
      BY QueueStarts
  <2>2. QueueInit(MaxSize) => Len(queue) = 0
      BY EmptySeq DEF QueueInit
  <2> QED
      BY <2>1, <2>2, QueueAssumption DEF QueueInit, SleepInv, SleepersNotified, WithinBound
<1>2. SleepInv => SleepersNotified /\ WithinBound
    BY DEF SleepInv
<1> QED
    BY <1>1, <1>2, QueueSleepersStep, PTL DEF QueueSpec
=============================================================================
