# A verification project for ChartSQL

ChartSQL is a SQL engine that answers queries over CSV files, MySQL tables and column
files (cstable), runs aggregations in parallel, caches their partial results on disk and
draws charts. It is built on `stx`, a library of its own with threads, promises, an event
loop, an HTTP server and client, RPC, and file formats. This directory holds TLA+ models of
the program, the TLC runs that check them on small instances, and TLAPS proofs about the
concurrent parts and the stores, for every number of threads, tasks, queries and pieces.

Paths below are relative to `src/src/`.

## Inventory

| Part | State it keeps | Operations | Interacts with | What is hard | What makes it correct |
|---|---|---|---|---|---|
| `ThreadPool` (`stx/thread/threadpool.*`) | `runq_`, `free_threads_`, detached threads, one condition variable | `run`, `runOnReadable`, `runOnWritable`, `runOnWakeup`, worker loop | runtime, HTTP server; calls an `ExceptionHandler` | notification after the unlock; a counter decides on new threads; tasks block their thread | no task is left without a thread or a wakeup, order is kept |
| `Queue` (`stx/thread/queue*`) | `queue_`, `length_`, one condition variable | `insert`, `pop`, `interruptiblePop`, `poll`, `waitUntilEmpty`, `wakeup` | `FixedSizeThreadPool` | three kinds of waiters share the condition variable | bounded, first in first out, nobody sleeps through its condition |
| `FixedSizeThreadPool` | `running_`, threads, a `Queue` | `start`, `run`, `stop`, worker loop | `Queue` | `stop` races with workers and with jobs that submit jobs | it is an executor (`JobExecutor`) |
| Delayed queues (`stx/thread/*DelayedQueue*`) | jobs by time, a length | `insert`, `interruptiblePop`, `pop`, `poll`, `waitUntilEmpty`, `wakeup` | `FixedSizeThreadPool`-like users | waits that end at a time; entries that move | every job comes out, when it is due |
| `Wakeup` (`stx/thread/wakeup.*`) | generation, list of callbacks | `generation`, `waitForWakeup`, `onWakeup`, `wakeup` | RPC, HTTP client and request stream, schedulers | wakeups between reading the generation and attaching | every callback once, none missed |
| `Future`, `Promise` (`stx/thread/future*`) | status, value, two callback slots | `success`, `failure`, `wait`, `waitFor`, `get`, `onSuccess`, `onFailure`, `onReady` | HTTP client, RPC | slots are read after the unlock; producers race | one result, frozen, told once |
| `RPCRequest` (`stx/rpc/RPCRequest.*`) | `ready_`, `error_`, callbacks | `run`, `cancel`, `wait`, `onReady`, `onCancel` | services | a cancelled job returns all the same | the first end of a job is final and heard once |
| `EventLoop` (`stx/thread/eventloop.*`) | descriptor sets, one callback per descriptor, run queue | `runOnReadable`, `runOnWritable`, `cancelFD`, `runAsync`, `poll`, `runOnce` | all network code | callbacks of a round change the sets of the round; `cancelFD` waits for the loop | a callback fires for its own descriptor only; `runOnce` ends |
| HTTP server (`stx/http/httpserverconnection.*`, `HTTPResponseStream.*`, `HTTPRequestStream.*`, `httpservice.*`) | parser, buffers, reference counts, `callback_running_` | `read`, `write`, `readRequestBody`, `startResponse`, `writeBodyChunk`, `finishResponse`, `waitForReader`, dispatch with its catch clause | event loop, thread pool | two threads advance one stream; I/O errors and exceptions anywhere; who frees what | bytes in order, closed behind the last one, references exact, no lock cycle |
| HTTP client (`stx/http/httpclient*`, `httpconnectionpool.*`, `httpresponsefuture.*`) | connection state, pool, futures | `executeRequest`, `leaseConnection`, `parkConnection`, `read`, `write`, `error` | `Wakeup`, `Future`, event loop, RPC | error paths wake the owner, who deletes the connection | a call returns once, with a whole answer or an error |
| HTTP messages (`stx/http/httpparser.*`, `httpgenerator.*`, `cookies.*`, `httprouter.*`, `stx/uri.cc`) | parser state | `parse`, `eof`, `generate`, routing, encoding of names | server and client | portions that end anywhere; connections that break off | a message arrives as it was sent |
| `ExecutionContext`, `GroupByMerge` (`csql/runtime`) | `running_tasks_`; `groups`, `sem`, `errors` on the stack of `execute` | `runAsync`, `execute` and its tasks | thread pool, `GroupBy` | tasks refer to the stack of the caller; partial failures; nested merges hold slots | emits all groups of all sources or raises |
| `GroupBy` (`csql/runtime/GroupBy.cc`) | groups per key, cache file and its temporary | `accumulate`, `mergeResult`, `getResult`, `encode`, `decode`, remote groups | scans, file system, other servers | queries and crashes share the cache file | a cached answer is the whole answer |
| SQL (`csql/parser`, `csql/qtree`, `csql/runtime`) | tokens, trees, plans, scratchpads, cursors | tokenize, parse, plan, compile, evaluate, scan, group, sort, limit | each other, other servers | precedence, aggregates inside expressions, merging of parts, early stops | the rows that the query asks for |
| Charts (`csql/runtime/charts`, `cplot`) | canvas, domains, series, viewport | DRAW clauses, series from rows, domains, axes, legends, marks | SQL | state kept from row to row and from chart to chart; order of drawing | what is drawn is what was selected, where the axes say |
| cstable (`cstable`, `csql/CSTableScan.*`) | columns of values with repetition and definition levels; a reader per column, `select_level`, `fetch_level`, aggregate states | `addRecord`, `addRecordsFromCSV`, `write`, `nextRecord`, `skipRecord`; `scan` | VM, the next operator | absent, empty and repeated fields; flat rows from columns of different depth; rejected rows | what was written is read; rows and aggregates are those of the records |
| Data formats (`stx/json`, `stx/protobuf`, `stx/csv`, dates, UTF-8, Base64) | documents, messages, schemas | read, write, look up, convert | RPC, tables, command line | escaping, unknown fields, guessed types, calendar | what is written is what is read |
| Stores (`stx/util/PersistentHashSet.*`, `stx/io/pagemanager.*`, file streams) | files, slots, free lists, mappings, buffers | add, probe, grow; allocate, map, shrink; write, read, skip, rewind | file system | readers beside writers, crashes, ends of buffers | nothing that was stored is lost |
| Statistics (`stx/stats`) | counters, last reports | count, report, receive | UDP | increments during a report; packets lost, repeated, reordered | every increment is in one packet |
| Result formats, MySQL and metric backends, command line, web interface | | | | formatting, I/O | |

`PROJECT.json` lists every part with its status, and under `hazards` what is hard to test in
this code, each at its line, with the properties that would catch it.

## Modules

Each model of concurrent code takes one critical section, one notification, one system call
or one event of the environment as a step. A condition variable is the set of threads that
sleep on it; a notified thread is awake but must get the mutex back, and waits may return
spuriously. Sequential code (parsers, encoders, operators on rows) is written as operators,
and a small machine feeds it: it grows the inputs, cuts them into portions, or hands rows over
one by one. The text of the modules keeps the names of the source. Operators that a comment
calls a mutant, or that are named for a mistake (`...Forgets`, `...OffByOne`, `...Unchecked`),
are used by no specification and serve to show that a property can fail.

### Threads, pools, promises

- **ThreadPool** — `run()` is two actions, `Run` (the critical section, with the decision
  to start a thread) and `NotifyOne` (after the unlock). A thread is `start`, `waiting`,
  `woken`, `parked` (in `select()` or `waitForWakeup()`) or `running`; `Enter`, `Resume`,
  `SpuriousWakeup`, `Unpark`, `Finish` and `Throw` are its steps. Tasks may call `run()`
  themselves. Thread starts may fail, up to a bound; the handler logs or aborts.
- **ThreadQueue** — every operation of `Queue` for any number of threads.
- **FixedSizeThreadPool** — extends ThreadQueue with the workers, `start`, `run`, `stop`
  (four steps) and both constructors. It implements **JobExecutor**, the abstract
  executor: accepted jobs wait in order and within a capacity, run once each on one of the workers,
  and `stop()` returns when what was promised is finished. The refinement mapping
  (`Executor == INSTANCE JobExecutor WITH ...`) reads the waiting jobs off the queue, the running ones off
  the workers' hands, and takes the capacity from the constructor that was used: the one
  without a handler drops `maxqueuelen` (`FixedSizeThreadPool.cc:24`), so that such a pool is an
  unbounded executor, against the comment in its header.
- **DelayedQueue** — both delayed queues, with a clock. A consumer's wait ends at the time of
  the first entry that it saw, or with a notification.
- **Wakeup** — `Generation`, `WaitForWakeup`, `OnWakeup`, and `wakeup()` as `DoWakeup`,
  `NotifyAll` and one `RunCallback` per callback.
- **Future** — `Fulfil`, `NotifyAll`, `RunCallback` of producers; `Wait`, `WaitFor` and their
  returns; clients that attach `onSuccess` and then `onFailure`, or `onReady`.
- **RPCRequest** — `run()`, `cancel()`, the callbacks and those who wait. Finishing a job is
  a critical section, then calls of the callbacks, then their reset, all without
  the mutex; a reset under somebody's call is undefined behaviour and ends in `crashed`.

### Queries

- **SQLParser** (with the tokenizer), **SValue**, **VM**, **QueryPlan** — the text of a query to
  tokens, to a syntax tree, to a plan, to compiled expressions, as operators. A text is a
  sequence of integers: a keyword, a name or a digit is one character. Values are records of
  a type and an exact number.
- **MCDrawCharts** — beside the charts of its run, grows expressions and DRAW statements operator by operator and clause by
  clause, writes each as text with the least parentheses, and lets the parser read it.
- **QueryExecution** — executes a query: plan and programs in `Init`, then rows one by one through scan, select,
  group, order, limit and union, tasks for the parts of a table that end in any order, and
  servers that are sent the text of the aggregation. **MCQueryExecution** defines what queries
  mean, from their description alone.
- **GroupByMerge** — `execute()` of a tree of merges over one `ExecutionContext`:
  `RunAsync`, `RunAsyncBlocks`, `WaitForTasks`, `Finish` of the executing thread;
  `StartTask`, `Accumulate`, `EnterNested`, `LeaveNested`, `MergeResult`, `Notify`,
  `Release`, `Throw` of a source's task. Groups are counts of rows per key: enough to see a
  source lost, counted twice or merged in part. The thread pool below is used through
  the guarantee that ThreadPool establishes: every queued task starts.
- **QueryCache** — concurrent `accumulate()` calls with one cache key: two directory
  entries, inodes, and encodings that take `chunks` flushes of the output buffer. `Close` is
  the destructor that flushes after `Move`. A `Crash` may happen at any step.
- **DrawCharts**, **CPlot** — DRAW statements with their SELECTs into one canvas: the row adapters,
  series by name, domains, axes, legends and titles, and where every mark, label and box
  ends up. Coordinates are exact fractions.

### Column tables

- **CSTable** — `CSTableBuilder` and `RecordMaterializer` for any schema. A record is an object that
  gives the children of every field. Adding one is a sequence of writes to columns
  (`AddRecordField`, `WriteNull`, or `CSVWrites` for a CSV row), which an exception cuts short;
  a column is its levels and, apart from them, its stream of values, as in the file. `NextRecord`
  loads the columns in any order, since the code keeps them in a hash map, and `Insert` is both
  `insertValue` and `insertNull`.
- **CSTableScan** — extends CSTable with a scan: `Execute`, one `ScanRow` per round of the loop (or
  `ScanRecord`, if the query names no column), `ScanEnd`. The WHERE clause is any predicate
  on its columns, found out row by row and remembered in `verdicts`. `TableRows` is the
  reference: the rows of a record by its structure, without levels.

### HTTP and RPC

- **HTTPServerConnection** — one request: the event loop (`Loop...`, `On...`) and the thread
  of the service, for the three styles in which services answer ("simple", "push", "pull").
  Request and response are sequences of numbered pieces.
- **EventLoop** — descriptor sets, `num_fds_`, callbacks, the run queue and the rounds of
  `poll()`, as operators on a record; **HTTPClient** composes it with the connection, the pool, the
  response future and the RPC client, or with the synchronous client, beside a server's
  connection that another thread registers and cancels.
- **HTTPMessages** (parser, generator, router, cookies, URIs) — a request is generated, goes to the server in
  portions of any size, is routed to a servlet, and the response comes back the same way;
  the connection may break off anywhere.
- **JSON** (with JSON-RPC) — the tokenizer, the writer, lookups and conversions, and calls with
  arguments by position and by name.

### Data formats and stores

- **Protobuf** — schemas, messages and their wire format; records that readers
  with other schemas decode, write as JSON and look into.
- **CSVFiles** — scans of a CSV table and the import into a cstable with its guess of types.
- **Conversions**, **Bytes** — dates, numbers and types from text, with a calendar that runs
  day by day as the reference; UTF-8 and Base64; characters and numbers.
- **PersistentHashSet** — adding, probing in batches, growth by a new file, readers that keep the
  old one, failing writes and a crash at any step.
- **PageManager** — the allocator with its free list, `getPage()` in two steps, mappings with
  references, and `shrinkFile()` in two steps without the mutex.
- **FileStreams** — buffered writing (with writes that take less than they are given) and chunked
  reading of integers and strings, with skips and rewinds.
- **Statsd** — counters, the agent's report stat by stat, packets that are split by length,
  lost, repeated and reordered, packets of other programs, and the server's parser.

`MC...` modules define the values of constants that a `.cfg` cannot write down, and put machines
that have nothing to do with each other into one run: a behaviour is one of them, and the others
rest. The theorems are in `ThreadPoolProofs`, `FixedSizeThreadPoolProofs`, `SyncProofs`,
`GroupByProofs` (with `QueryCache`), `HTTPConnectionProofs`, `HTTPClientProofs`, `StoreProofs` and
`StatsProofs`.

## Runs

| Run | Question | Properties | Instance |
|---|---|---|---|
| `threadpool` | Does every queued task have a thread and a wakeup, and does every task start although others may block for ever? | `QueueHasThreads` `NoLostWakeup` `EveryTaskStarts` | 2 clients, 3 threads, 3 tasks (2 blocking), 1 failing start, a handler that returns or aborts |
| `fixedpool` | Does the pool implement the executor? Does `stop()` end? | `PoolIsExecutor` `StopTerminates` | 2 workers, 1 client, 3 jobs, 1 place or no bound; pools that block or throw, jobs that submit jobs, both constructors |
| `groupby` | Slots, lifetime of the locals, completeness of what is emitted, the end of the query; can a query answer from a partial cache file? | `TasksAccounted` `EmitsCompleteGroups` `CacheRight` `QueryTerminates` | a merge of 2 sources, one with a nested merge, 3 slots, every kind of failure; 3 queries with one cache key, encodings of 1 to 3 flushes, 1 crash |
| `sync` | Is anybody called back twice or never? Is a wakeup, a job, a due time missed? Is the first end of a request final? | `CalledBackOnce` `ClientsHear` `WakeupCallbacksRunOnce` `QueuePopsProceed` `DelayedJobsComeOut` `RequestsSettle` | 2 producers, 2 waiters, 3 clients; 3 threads and 2 callbacks; 3 threads at a queue of 1 place; 1 producer, 2 consumers, 2 jobs, times up to 2; a runner, a canceller, 2 waiters, 2 clients |
| `http` | Order of request and response, references, locks, lifetimes, completion, for each kind of service | `BytesInOrder` `NoLockCycle` `LifetimesRight` `ResponseCompletes` | bodies of 0 to 4 pieces cut in every way, responses of up to 5 units in buffers of 2, I/O errors and exceptions anywhere |
| `http_leak` | Does a closed connection free itself, as documented? It does not | `FreesItself` | 1 unit, one failing write |
| `client` | Is a result whole, does a callback fire for its own descriptor, does every call return? | `CallsSettle` `CallbacksOwned` `CallsReturn` | 2 calls, 3 descriptors, 7 kinds of answers, among them servers that break down before, in and just behind the headers or in the body, failures of every system call |
| `cstable` | Do records come back from their columns? Are a scan's rows those of the records? Do aggregates take every value once? | `RecordsComeBack` `RowsRight` `AccumulatedOnce` | 3 schemas (two levels of lists; lists side by side; optional and required objects), up to 2 records with 7 column entries, lists of up to 2, 7 queries, 4 strategies |
| `scan_where` | Do rows accepted by a WHERE clause on an inner record have the values of the outer one? They do not | `AcceptedValuesTaken` | as above |
| `sql` | Are the rows those that the query asks for, from its text on? Does every step leave less to do? | `QueryAnswered` `QueryProgresses` | 14 statements over tables of 1 or 2 parts with up to 2 rows each, here or on another server |
| `charts` | Is what is written read back? Does a chart show the rows, where the axes say, without overlaps? | `TextsReadBack` `ChartShowsRows` `MarksWhereAxesSay` `NothingOverlaps` | every expression of 3 operators, every DRAW statement of 3 clauses; four kinds of charts, 1 or 2 DRAW statements with axes, domains, legends, grids, titles, over strings, numbers, times, NULLs, 2 and 3 dimensions |
| `formats` | Is what is written what is read, by any reader and on every scan? | `ExchangesRight` `RPCReturns` `RecordsTravel` `ConversionsRight` `CSVFilesRight` `SetRemembers` `PagesUsable` `FilesReadBack` `StatsAddUp` | HTTP exchanges in portions of any size with breakdowns; 21 values of 10 types in 11 kinds of calls; 16 pairs of writer and reader; 800 days from three dates on; 726 imports and 20 scans; a hash set of 3 slots that grows, a reader and a crash; pages in a file with blocks of 4; 3 values in buffers of 3 bytes, numbers up to 300; 2 packets, 1 repeated |

What the runs vary, such as the way a pool is constructed, the kind of service or the length
of an encoding, is a rigid variable, chosen in `Init` and never changed. Each property has a
mutant in `PROJECT.json` that breaks it.

### Why the bounds are enough

The interesting cases need two actors that race and a third that can be woken, or can take
the job, in place of another: three threads, or two and a client, everywhere. Queues have
fewer places than there are jobs, so that they are full and empty in one run; pools have
fewer threads than tasks and clients. The merge has one slot less than it wants, so that
`runAsync()` blocks, and its nested one competes for slots while the outer task holds one. Three
queries give a writer, a second writer and a reader of the cache; three flushes are the first, a
middle and the last. Seven column entries are one record with two lists of two items, or two
records of which one has a list; two children of a repeated field tell the first from the others,
which is all the levels do. The response is longer than the buffer, so that it is cut.

Three operators are an operator with one on either side of it or two below each other, which is
what precedence and associativity decide; three clauses are a clause between two others. A table
of two parts has a merge, and two rows in each give groups within a part, across parts and
alone. Buffers, chunks, batches and packets are shorter than two values, so that every value begins
and ends at, before and behind their ends. The first table of the hash set is full after two ids,
of which two meet at its last slot. The calendar covers 29 February of 2000 and 2100.
The properties that are proved hold for every value of the constants.

Deadlock is checked in the `sql` run, where every query must end in `done` or `raised`. The other
systems stop: the tasks of a pool may all block, a pool is stopped, a connection is closed, an
input has been read. Where everybody waiting on everybody would be a fault, a liveness property
says so.

### Fairness

Weak fairness of what a thread does inside a call: a runnable thread runs, and a mutex that
is free is got. A sleeping thread has no fairness: spurious wakeups are never relied on, only
notifications. Nothing makes a client call, a promise be fulfilled, an event come, a request be
cancelled or a task of the thread pool end. `FixedSizeThreadPool` and `GroupByMerge` assume that
jobs and scans end, since `stop()` and `execute()` wait for them; `RPCRequest` that the job's
function does. `HTTPServerConnection` and `HTTPClient` assume that the peer sends and reads, or
breaks down, and that the service goes on and finishes; neither I/O errors nor exceptions are
fair. A timed wait times out, and the clock of the delayed queues goes on. The other modules
state no liveness and no fairness: `QueryProgresses` is a measure that every step lowers, which,
with the absence of deadlock, is termination.

## What the runs show

They hold apart from the two findings. Several properties hold only under a condition, which
is part of the property, or of the inputs, and describes a weakness of the code:

- `PoolIsExecutor`: the capacity of a pool made by the constructor without a handler is not the one it
  was given. `StopTerminates`: a worker between its test of `running_` and its wait misses
  the only wakeup of `stop()`, which then joins for ever; jobs that call `run()` of their own
  bounded pool may block all workers.
- `DelayedJobsComeOut`: moving a job forward in a `CoalescingDelayedQueue` also erases other jobs of
  the same time (`struck`), and counts the job twice, so that a bounded queue fills up.
- `RequestsSettle`: a job that is cancelled and returns all the same is finished twice;
  callbacks may then be called twice, or reset while they are being called.
- `ClientsHear`: a second client of a future takes the slot of the first, which then hears
  nothing if the result comes later.
- `QueryTerminates`: sources with nested merges hold their slots. As many of them as there
  are slots (32 by default) block each other for ever.
- `EmitsCompleteGroups`: an exception with an empty message passes for success.
- `CacheRight`: with encodings longer than the output buffer, two writers share an inode, and a
  reader may meet a file with holes; concurrent queries may fail because the temporary file has
  been renamed by another one, and after a crash the truncated cache file makes every later query
  with that key fail, until it is deleted.
- `LifetimesRight`, `BytesInOrder`: a service that answers before the body is read is
  refused; one that throws after it has finished makes the catch clause use a freed stream;
  and the last piece of a body that arrives between the two critical sections of
  `readRequestBody()` is announced twice.
- `NoLockCycle`, `ResponseCompletes`: a "pull" service that throws once its callback is set can
  block loop and thread on each other's mutex (`TwoWriters`).
- `CallsSettle`, `CallsReturn`: `error()` of a client connection uses the connection after the pool
  has deleted it (`crashed`). `CallbacksOwned`: `num_fds_` is counted down twice for a descriptor that
  a callback of the same round cancels.
- `RowsRight`, `AccumulatedOnce`: a value of an outer record is lost once the WHERE clause has
  rejected an inner row beside it. What is taken is taken once and in order, and a constant is
  counted once for every record with an accepted row. With aggregation WITHIN RECORD a record
  whose last row is rejected gets no row of its own, and what its aggregates have taken goes
  into the next record's (`Emit`), although `csql/qtree/SequentialScanNode.h` promises a row
  per record; a query WITHIN RECORD without columns raises.
- `QueryAnswered`: a merged sum is a float, and the merged sum of no values is 0 where a sum
  over one part is NULL; an aggregate over no rows gives no row; DESC belongs to the last key; `sum(b) + a`
  raises only when it is evaluated. Group keys are the texts of values put together without a
  separator (`svalue.cc:289`), so that ("1", "23") and ("12", "3") are one group: the values of
  the run do not collide. With two sort keys NULL and 0 are equal to some and not to others (`orderby.cc:64`).
- `TextsReadBack`: a unary operator takes everything to its right; a TITLE directly after AXIS or
  LEGEND is theirs; calls of `mod()` and strings with backslashes do not survive the way to
  another server.
- `ChartShowsRows`, `MarksWhereAxesSay`: a row whose y is NULL passes its colour and label on to
  the previous point; names of 2D bar, area and point series are lost; stacked bars of three dimensions may leave the
  plot; a logarithmic domain whose largest value is below 1 has no places. `NothingOverlaps` too: a mark
  is compared by the places of its ends. With INVERT on the domain of a bar chart these come in reverse,
  and the code passes negative widths or heights to `drawRect()` (`barchart.h:395`, `455-456`),
  which no property excludes.
- `ExchangesRight`: a message that breaks off is noticed if and only if the parser has read the length
  of a body that is not all there (`CutMessagesRight`). Inside its headers, or in a body without a
  length, its beginning passes for a whole one (`httpparser.cc:143-149`): a client hears of an empty
  answer, with status 404 if the status line had not come; a server has not dispatched the request and
  just closes. The checks for an "incomplete HTTP response" behind `eof()` (`httpresponse.cc:52`,
  `httprequest.cc:97`) can therefore never apply. A response without a length is complete behind
  its headers; more body than announced, in one portion, never completes.
- `RPCReturns`, `RecordsTravel`: line ends and tabs are lost in JSON; a repeated field is written to
  JSON with its first value only; paths behind an array are wrong; a schema that goes through JSON loses
  nested schemas. `DynamicMessage::fromJSON()` is empty (`DynamicMessage.cc:208`) and is not modelled.
- `ConversionsRight`, `CSVFilesRight`: a date without a day is the day before; `UnixTime::operator==` is `<`;
  Base64 cannot encode fewer than two bytes; decimal numbers are text; short rows put columns
  out of step; a byte order mark comes back with the second scan if there are no headers; a
  last row without a line end is not read. A consumer that stops `executeScan()` early
  (`csvtableref.cc:99`) is not modelled: every scan reads to the end of the file.
- `SetRemembers`: a set whose process died before the first rename leaves an empty file that cannot
  be opened again. `PagesUsable`: a `getPage()` beside `shrinkFile()` may map what is
  cut off (`raced`). `FilesReadBack`: a short write goes unnoticed (`short`).
- `StatsAddUp`: increments in packets that could not be sent, or were lost, are not reported
  again; a packet that ends inside a key repeats the value before it.

Findings:

- `http_leak`: a connection that closes because a write failed is never freed, against the
  comment in `stx/http/httpserverconnection.h`.
- `scan_where`: `scan()` clears outer columns when a row is rejected, and does not read them again,
  against the result that `csql/runtime/Runtime_test.cc` expects.

## What is proved

**ThreadPoolProofs.** For all sets of tasks and finite sets of threads and clients
(`PoolAssumption`), every behaviour of `Spec` satisfies `PoolInv`, the conjunction of `TypeOK`,
`FreeThreadsExact`, `QueueHasThreads`, `NoLostWakeup` and `StartedInOrder`. It is inductive as it
stands, but its parts are not: `Run` keeps `QueueHasThreads` because it compares the queue with
a counter that `FreeThreadsExact` says is right; a notification that finds nobody asleep
keeps `NoLostWakeup` because then all free threads are awake and `QueueHasThreads` bounds the
queue by them; and a thread that goes to sleep does so beside an empty queue. The lemmas
below the invariant say how the number of threads in a state changes when one thread moves,
and what appending and popping do to `submitted = started \o runq`. From the invariant:
`PoolQueueHasThreads`, `PoolNoLostWakeup`, `PoolStartedInOrder`.

**FixedSizeThreadPoolProofs.** For every number of workers, callers, jobs and places and for both
constructors (`PoolAssumption`), `FixedPoolInvariant` gives `PoolInv`: a job that was handed in is in
one place (`OnePlace`: with a blocked `insert()`, in the queue, with one worker, or done), a thread is blocked only in
the call it made (`CallsOK`), and `StopOK` says what each of the four steps of `stop()` has waited for.
`FixedPoolIsExecutor` is the refinement of `JobExecutor`: `Init` maps to its initial states, and each
action of the pool, under `PoolInv`, to one of its actions or to a stutter. The invariant is needed
because a step of the executor that takes a job from the front of the waiting ones must not find it
running already, and because `stop()` returns in the abstract executor only if everything that it found
accepted is done. About `Queue` alone, with any number of threads that insert, pop, poll and wait:
`QueueFirstInFirstOut` (`inserted = taken \o queue`), and `QueueSleepersNotified`: whoever sleeps while the
job, the place or the emptiness that it waits for is there has a `notify_all()` coming, and blocked
producers that are woken together do not overfill the queue.

**SyncProofs.** Four of the objects of the `sync` run, each for any number of threads.
`Future` (`FutureAssumption`): `Spec` implies `[]FutureInv`, with `ProducerInv` (at most one producer is past
the mutex, and none raises before the result is there) and `ClientInv`, the strengthening: a client that
has not registered is in no slot and has not been called, and the client in the slot that a producer
has still to read has not been called. Without the last part a producer about to call a slot
could not be told from one that has. From it: `FutureCalledBackOnce`, `FutureOneProducerWins`,
`FutureWaits`, and the action property `FutureFrozen`, that a ready promise never changes
again, which is what makes it safe that `success()` and `failure()` read the slots without
the mutex. `Wakeup`: `WakeInv` says that a callback which was handed over is in the list, where it waits for
the very next generation, or in what one thread has still to run, and in no second place; so it runs at most once and
not early, and one whose wakeup has come has run or is about to (`WakeupMissesNothing`, which is what
the liveness property `CallbacksRun` lacks but for fairness). `RPCRequest` (`NoneAssumption`): `RequestInv` says that
`run()` lets one thread into the job's function, that one thread finishes the job unless
`returnSuccess()` comes after the end, that the client in the place has not been called before that
thread calls it, and that the job is told of a cancellation through `on_cancel_` or at once and not
both; from it `RequestHeardOnce`, and from the actions `RequestResultFinal`.
`DelayedQueue` (`DelayAssumption`: `MaxTime` is a number, and no thread is both producer and consumer): `DelayInv` says of
both queues that the entries are in the order of time, one per job and at the job's earliest time (`EntriesInv`), that `length_` is at least their
number (moves count twice) and `map_` has the same times (`LengthRight`), that jobs with which producers of the plain queue wait for room are distinct and not
queued (`ArgsRight`), and the two parts of `DelayedNoneForgotten`: a job that is to come out has an entry unless
`erase()` has struck others, and a sleeper has reason to sleep, for no longer than until the first entry is due, or a `notify_all()` is to come. Places in the
ordered queue are bounds by time (`LowerBound`, `UpperBound`), least numbers and no recursion. From it also the
action property `DelayedNoneBeforeDue`. The proof attempt found that the model let two producers wait for room with one job in the
queue that takes each job once; `Insert` has the guard now.

**GroupByProofs.** For every tree of merges, every number of sources and every limit of tasks
(`MergeAssumption`), `GroupByInvariant` gives `MergeInv`. It counts: `sem` of a merge is the number of
its sources that have not been merged (`SemExact`), and `running_tasks_` the number of tasks that hold a slot;
`LocalsRight` says what a task has left in its locals and in `errors`, and `NestedRests` that the merge
inside a source rests until the source's task calls it. Each step
moves one task from one counted set to another, which the lemmas on cardinalities turn into the change
of the counter. From it: `GroupByTasksAccounted` (the property `TasksAccounted`: the counter is exact, and no task comes
back to the stack of an `execute()` that has returned) and `GroupByLosesNoError`, the part of
`EmitsCompleteGroups` that is about errors and sources.

`GroupByEmitsComplete` is all of `EmitsCompleteGroups`: whatever is emitted, at any depth, counts every row of every
source below it once. Its invariant `SumInv` says that the groups of a merge are, key by key, the sum of what the
tasks that have left their critical section had in `tgroups` (`GroupsAddUp`), and that a merge which has returned without errors
has none below it (`ReturnsClean`); every `MergeResult` adds one term. When a merge emits, all
its tasks have left, and by `GroupByLosesNoError` each term is a scan or what the merge inside that source has emitted.
The tree then has to be unrolled: `MergeAssumption` gives every merge a height, lower inside, and the least height at which
a merge emits something else than the rows under it leads to a contradiction. The sums are
the library's fold over a finite set. What it is worth for every set cannot be had by induction here, so the lemmas
(`TableExists`, `TablesAgree`, from which `SumRemoves`, `SumUnion`, `SumByParts`) take the least cardinality at which the claim fails, which
`WFMin` provides, and show that it does not fail there. `StoreProofs` reasons about recursion in the same way.

In the same module, for any number of queries with one key, of flushes per encoding and of
crashes (`CacheAssumption`), `CacheInv` is inductive: as long as nobody was killed, a part that is missing from a file that has a
name is still to be written by a query that has the file open (`PartsComing`), and without
overlapping queries a file has no holes (`NoHoles`). `QueryCacheRight` is the property `CacheRight`.

**HTTPConnectionProofs.** For requests and responses of any length and any size of the write buffer
(`ServerAssumption`), `ConnInv` is inductive. Its parts: where the request is and what of it has been handed over
(`RequestOK`), which of the two threads may move the response on, given `callback_running_`, the
loop's and the service's positions (`TokenOK`), what has happened when the connection is closed
(`CloseOK`) or the service has thrown (`ThrowOK`), how many references each holder has (`RefsOK`), and that wire,
write buffer and stream buffer together are the response so far (`DataOK`). None holds
without the others: a byte goes out of order only if two threads hold the token, and the token is
lost when a reference is. From it the three safety properties of the `http` run: `HTTPNoLockCycle`,
`HTTPLifetimesRight`, `HTTPBytesInOrder`. The proof found an error of the model that TLC could not,
since it broke nothing: a service whose exception had been caught could still ask for the body.

**HTTPClientProofs.** For any number of calls and descriptors, requests of any size and answers of any length that break off
anywhere (`CallsAssumption`, `ResponsesAssumption`, `FdsAssumption`), and both clients, `ClientInv` is inductive. `LoopInv` is
about the loop: a callback that is registered belongs to the socket that has the descriptor (`CallbacksRight`), and so does every task in the run
queue or in the round (`TasksRight`), of which a call has one at most (`OneTask`); a `cancelFD()` that waits has
no task of its descriptor behind its own (`UserRight`); the synchronous client's
loop waits for one descriptor, which is the mutex holder's (`SyncRight`). `CallRight` is about a call: what the parser has seen while the
promise is pending, that the answer was whole when it succeeded, that a socket is there only while it is
pending, and where the thread stands between the promise and its two callbacks. `ResourcesRight` adds, as long as
nothing has crashed, that connection, handler and counts are those of a pending call, or gone. Without `OneTask` a task could outlive
its connection; without `UserRight` a cancelled descriptor could be given to a call and be called back. From it the two
properties of the `client` run: `CallbacksOwnedHolds` and `CallsSettleHolds`. Looking for the invariant
corrected the property: an answer without a length ends with the connection, so that a
client cannot tell when it was cut off; only one that was whole counts as `Delimited`.

**StoreProofs.** `PageManager`, for pages, blocks and files of any size and any number of mappings (`SizesAssumption`):
`PageInv` says that pages that were made, in use or free, are disjoint and end before `end_pos` (`AllocRight`), that `used_bytes_` covers every
page that somebody holds or is about to get, and that the file covers `used_bytes_` as long as `shrinkFile()` and `getPage()`
take turns (`MapRight`). `PagesUsableHolds` follows; the last conjunct of `PagesUsable`, that a page lies inside the
file, is the one that `raced` breaks.

`FileStreams`, for numbers up to any `MaxNumber`, strings of any length, buffers and chunks of any size and any number of passes
(`StreamsAssumption`): `FilesReadBackHolds` is the property `FilesReadBack`. As long as no write was short, the file and
the output buffer together are the encodings of what was written, one behind the other (`LaidOut`, with an
offset for each value as the witness), the input buffer is a piece of the file that ends at the descriptor's position
(`BufferRight`), and the reader stands between two values, inside a number or inside a string (`At`): what it has put together
so far and what the encoding still holds make up the value (`InNumber`, `InString`). `VarUInt` is recursive; that every
number has an encoding in bytes that ends in the first one below 128, and that its bytes, weighted, add up to the number, are
facts about the least number for which they fail.

`PersistentHashSet`, for any hash, any sizes of the first table and of the two buffers, and any number of ids, writers, readers, growths, failing writes
and crashes (`SlotsAssumption`: an id is not the hash of zeros that marks an empty slot, and the first table fills a scan's buffer):
`SlotsInv` is inductive. A slot in use is reached from its id's hash over slots in use only (`Findable`), and a table has an empty slot
(`TableRight`), so that a probe ends, and ends at the id if the id is there. A file only gains ids (`Fills`); a reader may therefore
read it without a lock, and go on reading the old one behind `grow()`: what its probes have passed stays
passed (`LookupRight`), and what it was promised lies ahead of it or is in its set (`ScanRight`). The delicate part is the
empty slot. The last read of a scan calls back for the tail of the read before it, so `grow()` stores some ids twice and does not count
the second ones; `CountRight` says that this excess stays below half of what is free (`Slack`), because the bound on a table
doubles with it. From it `SetRemembersHolds`.

**StatsProofs.** `Statsd`, for any exported statistics, any packets of other programs, well-formed or not, and any number of packets,
repetitions and counts (`StatsAssumption`: a packet of which a meaning is given is in the grammar `WellFormed`). `StatsAddUpHolds`
is the property `StatsAddUp`, whose three conjuncts have an invariant each:

- `StatsSum`: what the agent has taken for reported of a counter is the sum of the numbers in its lines, in its
  packets, in those it dropped and in those it sent. A text holds a number of a path where path, colon and number
  stand, so the proof says first that a line which is appended adds one such place and no
  other (`NumbersOfWritten`, since what comes before ends with a newline), then that a report, a line that moves into a
  packet and a packet that is sent or dropped move a term from one sum to another. The sums
  are the library's fold; `SumUnfolds`, `SumRemoves`, `SumUnion` and `SumOfConcat` say what it is worth, by least sets
  and least lengths, as in `GroupByProofs`.
- `PacketsLimited`, which only `Pack` could break: `BelowLimit` counts the line and two characters, and `WrittenPacket` says that
  a line and its newline are four signs.
- `Delivery`: a packet is on its way, in the hands of one work thread, lost or handled (`EachOnce`: copies have ids of
  their own); nothing was heard of one that is on its way (`OnItsWay`); and a work thread stands at the beginning of the
  n-th sample of its packet, with the n - 1 before it heard (`Reading`). The step is `NextHeard`: wherever `Spells` puts a sample into a
  text, `parseStatsdSample()` finds its key, each label and the number, and stops at the
  next sample. `Labels` is recursive; `LabelsUnfold` gives its value at every place (again by a least place where it might
  fail, from the end of the text), and `LabelsRead` follows the labels backwards. `PacketReads` shows that
  what the agent writes is in the grammar.

The proof attempt rewrote the parser of the model: it went through the text sign by sign and could not be reasoned about; it now says
where each part ends, and gives up a packet at every value that `std::stod()` does not read, not just at an empty one.

Each inductive invariant was checked with TLC on an instance before it was proved (`Delivery`, slow to evaluate, on a part of its states). In modules with theorems a value is
chosen by IF and not by CASE where a proof depends on it: the provers see through the one better than through the other. What is
proved and not listed under a run (types, exact counters, the order of tasks, the single winner, the
frozen result, the notified sleepers) is checked by no run of its own.

Only model-checked:

- all liveness properties, and with them `WakeupCallbacksRunOnce`, `QueuePopsProceed`, `DelayedJobsComeOut` and
  `RequestsSettle`, whose safety parts are the theorems above: fairness and
  ENABLED are out of the prover's reach;
- the modules of queries, charts, column tables and data formats, which follow the recursion of the code with recursive
  operators, and state what such operators compute: both are out of the prover's reach.

## What is not modelled

Status counters and `cancel()` of `ExecutionContext` (the flag is set and never read by the
runtime), keep-alive of the HTTP server and client (disabled in the source), memory
ordering of plain fields (every shared field of the modelled classes is read and written under
a mutex or is atomic, apart from those whose stability `FutureFrozen` shows and those of `RPCRequest`),
use of a destroyed condition variable in the tail of a task, and re-entrant callbacks of futures.
Of the column tables: how values are encoded (a `UINT64` field with the BITPACK hint always raises, and
the branch for LEB128 cannot be reached), CSV rows shorter than the header and tables whose
builder has raised (both leave columns out of step), and fields that occur twice though they are
not repeated. Of SQL: IMPORT, the aggregates that are registered nowhere, functions of time beyond
`from_timestamp`, and the older operators `tablescan` and `groupovertimewindow`, which the planner
does not build. Of charts: grid lines, colours and the SVG text. Of the network: accepting, name
lookup, downloads and SSE streams.

Left out for good: the texts of results, the command line, the web interface, MySQL and the metric
service (their libraries are not in the repository), system calls by themselves, logging and the
vendored libraries.

## Plan

What is left, most important first:

1. Abstract specifications: a one-shot variable that `Future` and `RPCRequest` implement, and an
   atomic "emit the total or raise" that `GroupByMerge` implements.
2. `stx/mdb`: transactions and cursors over LMDB, with the writer's lock that a dropped transaction keeps.
3. Composition: `HTTPServerConnection` on `EventLoop`, in place of the guards that stand for it.
