---------------------------- MODULE GroupByMerge ----------------------------
(***************************************************************************)
(* csql::GroupByMerge on top of csql::ExecutionContext: a merge runs one   *)
(* asynchronous task per source, each accumulates private groups, merges   *)
(* them into the groups of the merge under its mutex and counts sem down;  *)
(* the executing thread sleeps until sem is 0 and emits or raises.         *)
(*                                                                         *)
(* runAsync() of the context admits at most max_concurrent_tasks_ at a     *)
(* time.  A source may hold a subquery with a merge of its own: its task's *)
(* thread then executes that merge (inside accumulate), so that merges     *)
(* form a tree.  The thread pool of the Runtime is the one of ThreadPool:  *)
(* every queued task gets a thread, whatever the others do.                *)
(*                                                                         *)
(* mutex, cv, sem, groups and errors live on the stack of execute(), and   *)
(* the context on the stack of Runtime::executeQuery().  A task that uses  *)
(* one of them after its frame is gone has undefined behaviour: here it    *)
(* goes on as if nothing had happened, or the process dies.                *)
(***************************************************************************)
EXTENDS Integers, FiniteSets, FiniteSetsExt, Functions

CONSTANTS
    Merges, Root,  \* the GroupByMerge nodes of a query, the outermost one
    Sources,       \* all their sources_
    MergeOf,       \* the merge that a source belongs to
    NestedIn,      \* the merge inside a source, or NoMerge
    NoMerge,
    Keys,          \* group keys
    Rows,          \* per source without a nested merge: its rows by key
    MaxTasks,      \* max_concurrent_tasks_
    FailMessages,  \* what() of the errors that accumulate may raise:
                   \*   a subset of {"text", "blank"}
    MergeMayFail,  \* mergeResult() may raise
    EmitMayFail,   \* the row callback may raise
    TasksMayThrow  \* something that is no std::exception may be thrown

SourcesOf(m) == {s \in Sources : MergeOf[s] = m}
Nesting == {s \in Sources : NestedIn[s] # NoMerge}

ASSUME MergeAssumption ==
    /\ Root \in Merges /\ NoMerge \notin Merges
    /\ IsFiniteSet(Sources)
    /\ MergeOf \in [Sources -> Merges]
    /\ NestedIn \in [Sources -> Merges \cup {NoMerge}]
    /\ \A s \in Nesting : NestedIn[s] # Root /\ NestedIn[s] # MergeOf[s]
    /\ \A s, t \in Nesting : NestedIn[s] = NestedIn[t] => s = t
    /\ IsFiniteSet(Merges)
    /\ \E height \in [Merges -> 0..Cardinality(Merges)] :   \* no merge is inside itself
         \A s \in Nesting : height[NestedIn[s]] < height[MergeOf[s]]
    /\ \A m \in Merges : SourcesOf(m) # {}
    /\ Rows \in [Sources -> [Keys -> Nat]]
    /\ MaxTasks \in Nat \ {0}
    /\ FailMessages \subseteq {"text", "blank"}
    /\ {MergeMayFail, EmitMayFail, TasksMayThrow} \subseteq BOOLEAN

VARIABLES
    exec,       \* where the thread that executes a merge is
    toLaunch,   \* the sources its loop has not handed to runAsync() yet
    sem, errors, groups,   \* the locals of execute()
    task,       \* where the task of a source is
    tgroups, terror,       \* the locals of the task
    running_tasks,         \* running_tasks_
    context,    \* "live", or "gone" after executeQuery() has returned
    alive       \* FALSE once the process has died

mergeVars == <<exec, toLaunch, sem, errors, groups>>
taskVars  == <<task, tgroups, terror>>
vars == <<mergeVars, taskVars, running_tasks, context, alive>>

NoGroups == [k \in Keys |-> 0]
InFlight == {"queued", "run", "nested", "merge", "notify", "release"}
Returned(m) == exec[m] \in {"emitted", "raised"}

Init ==
    /\ exec = [m \in Merges |-> IF m = Root THEN "launch" ELSE "idle"]
    /\ toLaunch = [m \in Merges |-> SourcesOf(m)]
    /\ sem = [m \in Merges |-> Cardinality(SourcesOf(m))]
    /\ errors = [m \in Merges |-> {}]
    /\ groups = [m \in Merges |-> NoGroups]
    /\ task = [s \in Sources |-> "none"]
    /\ tgroups = [s \in Sources |-> NoGroups]
    /\ terror = [s \in Sources |-> "none"]
    /\ running_tasks = 1
    /\ context = "live"
    /\ alive = TRUE

\* What a use of a dead frame may do to the process.
DeadFrameUse == alive' \in BOOLEAN

-----------------------------------------------------------------------------
(* The thread that executes a merge.                                       *)

\* runAsync() for the next source, when there is room: sched_->run() and
\* ++running_tasks_ under the mutex of the context.
RunAsync(m) ==
    /\ alive /\ exec[m] = "launch" /\ running_tasks < MaxTasks
    /\ \E s \in toLaunch[m] :
          /\ toLaunch' = [toLaunch EXCEPT ![m] = @ \ {s}]
          /\ task' = [task EXCEPT ![s] = "queued"]
    /\ exec' = [exec EXCEPT ![m] = IF toLaunch'[m] = {} THEN "wait" ELSE "launch"]
    /\ running_tasks' = running_tasks + 1
    /\ UNCHANGED <<sem, errors, groups, tgroups, terror, context, alive>>

\* runAsync() when there is no room: cv_.wait(lk).
RunAsyncBlocks(m) ==
    /\ alive /\ exec[m] = "launch" /\ running_tasks >= MaxTasks
    /\ exec' = [exec EXCEPT ![m] = "blocked"]
    /\ UNCHANGED <<toLaunch, sem, errors, groups, taskVars, running_tasks,
                   context, alive>>

\* while (sem > 0) cv.wait(lk)
WaitForTasks(m) ==
    /\ alive /\ exec[m] = "wait" /\ sem[m] > 0
    /\ exec' = [exec EXCEPT ![m] = "asleep"]
    /\ UNCHANGED <<toLaunch, sem, errors, groups, taskVars, running_tasks,
                   context, alive>>

\* Mutant of Finish: the wait is not repeated while sem > 0.
FinishOnWakeup(m) ==
    /\ alive /\ exec[m] = "wait"
    /\ \/ errors[m] # {} /\ exec' = [exec EXCEPT ![m] = "raised"]
       \/ errors[m] = {} /\ exec' = [exec EXCEPT ![m] = "emitted"]
    /\ UNCHANGED <<toLaunch, sem, errors, groups, taskVars, running_tasks,
                   context, alive>>

\* sem is 0: raise if a source failed, else getResult(); freeResult().
Finish(m) ==
    /\ alive /\ exec[m] = "wait" /\ sem[m] = 0
    /\ \/ errors[m] # {} /\ exec' = [exec EXCEPT ![m] = "raised"]
       \/ errors[m] = {} /\ exec' = [exec EXCEPT ![m] = "emitted"]
       \/ /\ errors[m] = {} /\ EmitMayFail
          /\ exec' = [exec EXCEPT ![m] = "raised"]
    /\ UNCHANGED <<toLaunch, sem, errors, groups, taskVars, running_tasks,
                   context, alive>>

\* A wait of either condition variable may return without notification.
SpuriousWakeup(m) ==
    /\ alive
    /\ \/ exec[m] = "asleep" /\ exec' = [exec EXCEPT ![m] = "wait"]
       \/ exec[m] = "blocked" /\ exec' = [exec EXCEPT ![m] = "launch"]
    /\ UNCHANGED <<toLaunch, sem, errors, groups, taskVars, running_tasks,
                   context, alive>>

\* executeQuery() returns and the context goes out of scope.
QueryReturns ==
    /\ alive /\ context = "live" /\ Returned(Root)
    /\ context' = "gone"
    /\ UNCHANGED <<mergeVars, taskVars, running_tasks, alive>>

-----------------------------------------------------------------------------
(* The task of a source.                                                   *)

\* A thread of the pool picks the task up.
StartTask(s) ==
    /\ alive /\ task[s] = "queued"
    /\ task' = [task EXCEPT ![s] = "run"]
    /\ UNCHANGED <<mergeVars, tgroups, terror, running_tasks, context, alive>>

\* An error leaves a source with some of its rows.
Broken(s, rows) ==
    \E e \in FailMessages, g \in [Keys -> 0..Max({rows[k] : k \in Keys})] :
        /\ \A k \in Keys : g[k] <= rows[k]
        /\ tgroups' = [tgroups EXCEPT ![s] = g]
        /\ terror' = [terror EXCEPT ![s] = e]

\* source->accumulate() of a source that scans a table: all of its rows, or
\* some of them and an error.
Accumulate(s) ==
    /\ alive /\ task[s] = "run" /\ s \notin Nesting
    /\ \/ tgroups' = [tgroups EXCEPT ![s] = Rows[s]] /\ UNCHANGED terror
       \/ Broken(s, Rows[s])
    /\ task' = [task EXCEPT ![s] = "merge"]
    /\ UNCHANGED <<mergeVars, running_tasks, context, alive>>

\* accumulate() of a source over a subquery calls execute() of its merge ...
EnterNested(s) ==
    /\ alive /\ task[s] = "run" /\ s \in Nesting
    /\ task' = [task EXCEPT ![s] = "nested"]
    /\ exec' = [exec EXCEPT ![NestedIn[s]] = "launch"]
    /\ UNCHANGED <<toLaunch, sem, errors, groups, tgroups, terror,
                   running_tasks, context, alive>>

\* ... which has emitted its groups as rows, has raised because a source of it
\* failed, or was left by an error of the row callback on the way.
LeaveNested(s) ==
    LET n == NestedIn[s] IN
    /\ alive /\ task[s] = "nested" /\ Returned(n)
    /\ task' = [task EXCEPT ![s] = "merge"]
    /\ \/ /\ exec[n] = "emitted"
          /\ tgroups' = [tgroups EXCEPT ![s] = groups[n]]
          /\ UNCHANGED terror
       \/ /\ exec[n] = "raised" /\ errors[n] # {}
          /\ terror' = [terror EXCEPT ![s] = "text"]
          /\ UNCHANGED tgroups
       \/ /\ exec[n] = "raised" /\ errors[n] = {}
          /\ Broken(s, groups[n])
    /\ UNCHANGED <<mergeVars, running_tasks, context, alive>>

Plus(g, h) == [k \in Keys |-> g[k] + h[k]]

\* Mutant of Merged: a failed source is merged, and its error is lost.
MergedAlways(m, s) ==
    groups' = [groups EXCEPT ![m] = Plus(@, tgroups[s])] /\ UNCHANGED errors

\* mergeResult(), or errors.emplace_back() if one of the two failed.  An error whose what() is
\* empty looks like none (terror.empty()).
Merged(m, s) ==
    \/ /\ terror[s] # "text"
       /\ groups' = [groups EXCEPT ![m] = Plus(@, tgroups[s])]
       /\ UNCHANGED errors
    \/ /\ terror[s] = "text" \/ MergeMayFail
       /\ errors' = [errors EXCEPT ![m] = @ \cup {s}]
       /\ UNCHANGED groups

\* The whole critical section: merge or record the error, then --sem.
MergeResult(s) ==
    LET m == MergeOf[s] IN
    /\ alive /\ task[s] = "merge"
    /\ Merged(m, s)
    /\ sem' = [sem EXCEPT ![m] = @ - 1]
    /\ task' = [task EXCEPT ![s] = "notify"]
    /\ UNCHANGED <<exec, toLaunch, tgroups, terror, running_tasks, context, alive>>

\* Mutant of Notify: the executing thread is not woken.
NotifyNobody(s) ==
    /\ alive /\ task[s] = "notify"
    /\ task' = [task EXCEPT ![s] = "release"]
    /\ UNCHANGED <<mergeVars, tgroups, terror, running_tasks, context, alive>>

\* cv.notify_all(), after the unlock.
Notify(s) ==
    LET m == MergeOf[s] IN
    /\ alive /\ task[s] = "notify"
    /\ task' = [task EXCEPT ![s] = "release"]
    /\ \/ exec[m] = "asleep" /\ exec' = [exec EXCEPT ![m] = "wait"] /\ UNCHANGED alive
       \/ exec[m] # "asleep" /\ ~Returned(m) /\ UNCHANGED <<exec, alive>>
       \/ Returned(m) /\ DeadFrameUse /\ UNCHANGED exec
    /\ UNCHANGED <<toLaunch, sem, errors, groups, tgroups, terror,
                   running_tasks, context>>

\* --running_tasks_ and cv_.notify_all(), under the mutex of the context.
ReleaseSlot ==
    /\ running_tasks' = running_tasks - 1
    /\ exec' = [m \in Merges |-> IF exec[m] = "blocked" THEN "launch" ELSE exec[m]]

\* The end of the closure of runAsync().
Release(s) ==
    /\ alive /\ task[s] = "release"
    /\ task' = [task EXCEPT ![s] = "done"]
    /\ \/ context = "live" /\ ReleaseSlot /\ UNCHANGED alive
       \/ context = "gone" /\ DeadFrameUse /\ UNCHANGED <<exec, running_tasks>>
    /\ UNCHANGED <<toLaunch, sem, errors, groups, tgroups, terror, context>>

\* catch (...) of runAsync(): the slot is released and the exception goes to
\* the pool, whose handler aborts the process.
Throw(s) ==
    /\ alive /\ task[s] = "run" /\ TasksMayThrow
    /\ task' = [task EXCEPT ![s] = "done"]
    /\ ReleaseSlot
    /\ alive' = FALSE
    /\ UNCHANGED <<toLaunch, sem, errors, groups, tgroups, terror, context>>

MergeStep(m) == RunAsync(m) \/ RunAsyncBlocks(m) \/ WaitForTasks(m) \/ Finish(m)

TaskStep(s) ==
    \/ StartTask(s) \/ Accumulate(s) \/ EnterNested(s) \/ LeaveNested(s)
    \/ MergeResult(s) \/ Notify(s) \/ Release(s) \/ Throw(s)

Next ==
    \/ \E m \in Merges : RunAsync(m) \/ RunAsyncBlocks(m) \/ WaitForTasks(m)
                           \/ Finish(m) \/ SpuriousWakeup(m)
    \/ \E s \in Sources :
          \/ StartTask(s) \/ Accumulate(s) \/ EnterNested(s) \/ LeaveNested(s)
          \/ MergeResult(s) \/ Notify(s) \/ Release(s) \/ Throw(s)
    \/ QueryReturns

Spec == Init /\ [][Next]_vars

\* Threads run, and scans end.  Spurious wakeups are not relied upon.
Fairness ==
    /\ \A m \in Merges : WF_vars(MergeStep(m))
    /\ \A s \in Sources : WF_vars(TaskStep(s))

FairSpec == Spec /\ Fairness
-----------------------------------------------------------------------------
\* running_tasks_ counts the executing thread and the tasks between their
\* run() and their last critical section: a fast task cannot decrement before
\* runAsync() has incremented.  It never passes max_concurrent_tasks_.
RunningTasksExact ==
    context = "live" =>
        /\ running_tasks = 1 + Cardinality({s \in Sources : task[s] \in InFlight})
        /\ running_tasks <= MaxTasks

\* After execute() has returned, no task of it has its merge still to come:
\* groups, errors and sem of the dead frame are never touched.
NoMergeAfterReturn ==
    \A s \in Sources :
        Returned(MergeOf[s]) => task[s] \in {"notify", "release", "done"}

\* The tasks of a query are accounted for, by ExecutionContext while they run
\* and by sem until the last of them has merged.
TasksAccounted == RunningTasksExact /\ NoMergeAfterReturn

\* The sources that feed a merge, at any depth, and the rows they read.
SourcesUnder[m \in Merges] ==
    SourcesOf(m) \cup UNION {SourcesUnder[NestedIn[s]] : s \in SourcesOf(m) \cap Nesting}

Total(m) ==
    [k \in Keys |-> SumFunctionOnSet([s \in Sources |-> Rows[s][k]], SourcesUnder[m] \ Nesting)]

\* A merge emits only what is complete: the rows of every source below it, each
\* counted once, and never in spite of an error with a message.  (An error
\* whose what() is empty passes for success; see terror.empty().)
EmitsCompleteGroups ==
    \A m \in Merges : exec[m] = "emitted" =>
        /\ \A s \in SourcesUnder[m] : terror[s] # "text"
        /\ (\A s \in SourcesUnder[m] : terror[s] # "blank") => groups[m] = Total(m)

\* Sources that wait for a nested merge hold their slots.
EnoughSlots == 1 + Cardinality(Nesting) < MaxTasks

\* With a slot to spare beyond the sources that hold one while they wait for
\* a nested merge, every query comes to an end.
QueryTerminates == EnoughSlots => <>(Returned(Root) \/ ~alive)
=============================================================================
