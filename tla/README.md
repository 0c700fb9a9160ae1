# TLA+ models of the C Comprehensive Template

This directory holds TLA+ specifications of the parts of the library whose correctness depends on
interleavings, failures or long histories of calls; the TLC configurations that check them on small
instances; and proofs, checked by TLAPS, of properties that hold for every instance. Paths such as
`src/src/hpc/spsc.c` are relative to the directory that contains both the repository (`src/`) and
this project (`tla/`).

`PROJECT.json` is the machine-readable index: components, runs, the source lines every definition
models, the hazards the properties are for, and one mutation of the model per property that makes
TLC report that property.

## 1. The system

The library is a set of modules with few dependencies between them. The control that is hard to test
is in `hpc`, `networking`, `containers`, `memory`, `systems` and `cli`; in `math`, `ml`, `simulation`
and `rendering` it is in the loops, buffers and guards around the floating-point arithmetic.

| Component | State | Operations | What is hard | What makes it correct |
|---|---|---|---|---|
| Blocking queue (`hpc/blocking_queue.c`) | ring, `head`, `len`, `closed`, a mutex, two condition variables | init, push, pop, close, destroy | one `pthread_cond_signal` per push or pop, stolen and spurious wake-ups, close against sleepers | a closable bounded FIFO; no sleeper beside work; close releases all |
| SPSC queue (`hpc/spsc.c`) | ring, atomic `head`, `tail` | init, push, pop, len, destroy | stale loads, release/acquire, wrap-around | no data race on slots; FIFO, once; honest full and empty |
| Thread pool (`hpc/thread_pool.c`) | linked task list, `shutdown`, mutex, condition variable, workers | create, submit, worker loop, destroy | freed and reused nodes, tasks that submit, thread creation failing half-way, draining at shutdown | each accepted task is called once; nothing is freed in use; create and destroy return |
| Parallel for and reduce (`hpc/parallel.c`) | chunk arguments, threads, partial results | `parallel_for`, `parallel_reduce` | some thread creations fail, workers finish in any order | what a sequential loop would do |
| Event loop (`networking/event_loop.c`) | parallel arrays `pollfds`/`entries`, tombstones, `dispatching` | create, add, mod, remove, poll_once, run, stop, count, destroy | callbacks change the registrations during the walk over them, half-failed growth | a plain map of registrations; a round calls exactly the ready, still registered ones |
| Hash map (`containers/hashmap.c`) | slots with tombstones, `cap`, `len`, `used` | init, put, get, contains, remove, iterate, destroy | probe chains through tombstones, reuse, rehash, failing copies of keys | behaves as a map; probes end; keys are owned once |
| Arena (`memory/arena.c`) | buffer, `cap`, `pos` | init, alloc, reset, destroy | `size_t` sums that could wrap | disjoint, aligned blocks inside the buffer |
| Pool (`memory/pool.c`) | buffer, free list threaded through it | init, alloc, free, destroy | links live in memory that users write | the free list is exactly the free blocks |
| Leak detector (`memory/leak_detect.c`) | list of records, totals | init, malloc, calloc, realloc, free, report, shutdown | addresses come back; blocks move; no memory for a record | the report is the heap |
| File I/O (`systems/file_io.c`) | the file, its temporary file, descriptors, mappings | write_all, read_all, mmap, munmap, dir_walk | failures at every call, kills, concurrent readers and writers | the file is replaced as a whole or not at all |
| Ring buffer (`containers/ringbuf.c`) | ring, `head`, `len` | init, push, push_overwrite, pop, destroy | wrapping indices and sizes | a bounded queue |
| Growable array, string builder (`containers/vec.c`, `strbuf.c`) | a block, `cap`, `len` | reserve, push, append, take, clear | sizes that wrap, failing growth | nothing outside the block; content kept when growth fails |
| String views (`containers/str.c`) | offset and length | slice, trim, split, compare, to_cstr, parse_long | empty tokens at the ends, clamped bounds, partial numbers | the tokens make up the text; nothing beyond it |
| Sockets (`networking/socket.c`, `udp.c`, `unix_socket.c`) | descriptors, a path | connect, listen, accept, send_all, recv, open, send_to, recv_from, close | partial sends, resets, EINTR, several addresses, stale socket files, lost and cut datagrams | every byte once and in order, or an error; no descriptor lost; the path leads to the newest listener unless a bind fails of itself |
| Processes (`systems/process.c`) | children, a pipe, a growing buffer | exec, run, capture, on_sigint | signals, EINTR, a buffer that is exactly full | the status is the child's; the output is whole |
| Paths (`systems/path.c`) | a string changed in place; directories | normalize, join, dirname, basename, ext, mkdirs | cursors in one string, `..` at the front, races with other processes | the same place; a directory unless a file is in the way or a system call is refused |
| Arguments (`cli/argparse.c`) | tables of arguments and settings | dispatch, parse, load_config, resolve, flag, free | limits of the tables, precedence | argument, then environment, then file, then default |
| SIMD kernels, matrices (`hpc/simd_ops.c`, `math/matx.c`) | arrays | add, mul, scale, dot, sum; the matrix operations | tails, tiles, outputs that share a buffer with an input | the mathematical result and nothing else written |
| Neural network (`ml/nn.c`) | weights, gradients, caches | init, forward, loss, backward, step | caches reused across batches and failures | an update is of one batch |
| Data sets, random numbers (`ml/dataset.c`, `math/rng.c`) | growing array, matrices | load_csv, shuffle, batch, one_hot, accuracy; range | empty fields, doubling, rejection bound | values in their columns, rows with their labels, a fair shuffle |
| Renderer (`rendering/software_renderer.c`) | a framebuffer | create, clear, set_pixel, line, circle, fill_rect, destroy | coordinates outside, loops that must meet their end point | the shape, clipped |
| Simulation (`simulation/numerical.c`) | time and state | rk4_integrate | a last step that is shortened | the state at the end of the interval |

Components interact by calls and by callbacks. The demos compose them: `pipeline_demo` connects
producers and a consumer with a blocking queue; `echo_server_demo` hands sockets to the thread pool;
`evloop_server_demo` runs them under the event loop, whose callbacks call back into it; `ml_demo`
feeds batches of a data set through two layers; `cli_demo` dispatches commands that parse options and
load configuration files. Users of the thread pool submit from inside tasks.

## 2. Modules

| Module | Models | State and actions |
|---|---|---|
| `ClosableFifo` | what the header promises of the blocking queue | a sequence, an open and a closed flag, the call each thread is in |
| `BlockingQueue` | `blocking_queue.c` | `data`, `head`, `len`, `closed` are the C fields; `pc[t]` is where a thread is: about to lock (`push`, `pop`) or asleep on a condition variable (`waitNotFull`, `waitNotEmpty`). A critical section is one step: the mutex makes it one, and `pthread_cond_wait` ends a step. A signal wakes any one sleeper, or nobody if there is none; sleepers may also wake by themselves |
| `SpscQueue` | `spsc.c` | each atomic is the sequence of its stores; a load returns any store not older than what the thread saw before; release stores carry, and acquire loads take over, the slot accesses that happened before. The copy of the element and the publishing store are separate steps |
| `JobExecutor` | what `thread_pool.h` promises | a queue of jobs and the status of each |
| `ThreadPool` | `thread_pool.c` | the list as pointers between heap nodes that are freed and handed out again by malloc; `owner` is the thread in create or destroy, `wpc[w]` a worker, `hand[s]` the node a submitter holds between its malloc and its lock |
| `Parallel` | `parallel.c` | the caller's program counter and locals, the chunk array, one thread per chunk; the user's map returns the sequence of its indices and reduce concatenates |
| `FdRegistry` | what `event_loop.h` promises | a map from descriptors to interest and callback, and who is being called |
| `EventLoop` | `event_loop.c` | the two arrays index by index, tombstones, the walk's index and its snapshot of the length; a callback is any sequence of operations between two steps of the walk. `poll` is external and reports any subset |
| `HashMap` | `hashmap.c` | the slot table; the hash function is any function from keys to `HashValues`, chosen in `Init`; `model` is the map that the calls should have built |
| `RingBuf`, `Vec`, `StrBuf` | `ringbuf.c`, `vec.c`, `strbuf.c` | the C fields in `size_t` of `Width` bits, and `bytes`, the size of the block; `queue` and `text` remember what the calls should have built |
| `Arena`, `Pool`, `LeakDetect` | `arena.c`, `pool.c`, `leak_detect.c` | the fields of the C structures; `blocks`, `held` and `untracked` remember what callers own |
| `StrView` | `str.c` | the text, the rest of it, the tokens handed out; slice, trim, compare and parse are operators |
| `FileIo` | `file_io.c` | two directory entries, inodes, per-process position in `file_write_all` or `file_read_all`, one system call per step; a process may be killed before any of them |
| `Process`, `Capture` | `process.c` | what the kernel knows of each child, the call in progress, SIGINT at any point; the buffer of `process_capture` in a small `size_t` |
| `Path`, `MkDirs` | `path.c` | the string being normalised with both cursors, `comp_start` and `leading_dotdot`; a tree of names changed by several processes, with mkdir and stat that may be refused (`refused` remembers for whom) |
| `Cli` | `argparse.c`, `cli_demo.c` | the two tables of the context, with everything the program was given as history |
| `StreamSocket` | `socket.c`, the connection half of `unix_socket.c` | descriptor tables, connections, the bytes on the way and where each call is |
| `EchoService` | `echo_server_demo.c`, `evloop_server_demo.c`, `echo_client_demo.c` | composes `StreamSocket` with what `JobExecutor` and `FdRegistry` promise; `mode` says which server runs; the registrations of the loop and those left in its round are sets, served in any order |
| `UnixListen`, `Udp` | `unix_socket.c`, `udp.c` | the path and the sockets bound to it, one system call per step, each of which may fail; `faults` remembers a failed bind of the free path and a failed chmod since the newest socket was bound; the datagrams in flight |
| `Pipeline` | `pipeline_demo.c` | composes producers and a consumer with what `ClosableFifo` promises: its queue is an instance of that specification |
| `Simd`, `Matrix` | `simd_ops.c`, `matx.c` | the loops with their index; flat buffers that the three arguments may share, read and written in the code's order |
| `Training` | `nn.c` under `ml_demo.c` | each matrix is known by its rows and the batches its contents come from |
| `Dataset` | `dataset.c`, `rng_range_u32` | the CSV loop with its array, the matrices as rows, the shuffle index |
| `Canvas` | `software_renderer.c` | the locals of the drawing loops and the set of pixels written |
| `Solver` | `numerical_rk4_integrate` | time and state in ticks |

The theorems of section 5 are in `BlockingQueueProofs`, `SpscQueueProofs` and `EventLoopProofs`, which
extend the module they are named after, and in `HpcProofs`, `SystemProofs`, `NetworkProofs`,
`ContainerProofs` and `LibraryProofs`, which extend `MCHpc`, `MCSystem`, `MCNetwork` and `MCLibrary` and
prove about each component that those put together: the containers of the library in `ContainerProofs`,
its other parts in `LibraryProofs`. No other module needs them.

`MCQueues`, `MCHpc`, `MCLibrary`, `MCSystem` and `MCNetwork` put components that share no state into one
model: `subject` is chosen in the initial state and says which of them a behaviour exercises, so one
run answers for all of them without multiplying their state spaces.

A definition whose comment begins with "Mutant:" is a plausible mistake in the definition that
follows it. No specification uses it.

Failures are modelled wherever the code tests for them: `malloc`, `realloc`, `strdup` and
`pthread_create` may fail at every call, and so may the calls of stdio, of the file system and of
sockets, for reasons of their own (no permission, no space, no descriptors) as well as for what the
model knows of. Where the code ignores a failure (`lstat`, `unlink` and `chmod` in `unix_listen`), it
goes on without the effect. An operation that only returns an error and changes nothing is a
stuttering step and has no action.

## 3. Runs

| Run | Bounds | Shows |
|---|---|---|
| `bq_safety` | 3 threads, 2 values, capacity 2 | `TypeOK`, `NoLostWakeups`, and that the queue implements `ClosableFifo` |
| `queues` | ring: capacity 3, 9 pushes; blocking queue: 3 threads, 1 value, capacity 2 | `NoDataRace`, `FifoDelivery`, `HonestAnswers`, `EverythingDelivered`; `CloseReleasesAll`, `CallsProgress` |
| `loop` | 2 descriptors, 2 masks, capacity 1 to 4 | `WalkIsSound` (bounds, lockstep, complete rounds, count between rounds), implements `FdRegistry`, `StopReturns` |
| `hpc` | pool: 2 workers, 2 clients, 3 jobs, 3 nodes; loops: 0 to 7 iterations, 0 to 4 threads; pipeline: 3 producers, 2 items each, queue of 2 | `NodesAreOwned`, `NoLostWakeup`, implements `JobExecutor`, `PoolProgresses`; `ParallelIsSequential`, `CallReturns`; `PipelineIsExact` |
| `library` | 4 keys, 2 values, hash values 0, 3, 7, table of 4 to 8; 4-bit `size_t`, element sizes 1 to 3, ring capacities 1, 2, 5, 9; texts of up to 5 characters; 4 arena sizes, 4 pool blocks, 3 addresses and 4 records; 4 lanes, lengths 0 to 9; matrices up to 3 by 3, blocks 0 to 4; 3 batches of 2 sizes; files of up to 4 of 13 kinds of line; a framebuffer of 3 by 2, coordinates -1 to 5, radii to 9 | `MapIsExact`, `RingBufIsQueue`, `GrowthIsSound`, `SplitIsExact`, `AllocatorsAreSound`, `KernelsAreExact`, `UpdateIsOfTheBatch`, `DatasetIsExact`, `ShapesAreExact` |
| `system` | 2 writers in turn, 1 reader, versions of 0 to 2 chunks, 3 inodes; 3 children, 2 signals; outputs of 0 to 9 bytes, first buffer of 2; paths of up to 6 characters, 2 components; 3 makers of 2 or 3 directories; 2 options, 3 arguments, 3 lines, tables of 2 | `ReadersSeeOneVersion`, `NothingIsLeft`, `OnlySuccessReplaces`; `ChildrenAreHeard`; `PathsKeepTheirPlace`, `MkdirsIsExact`; `ResolutionIsLayered` |
| `network` | 2 clients with messages of 3 and 2 bytes, 1 worker, kernel buffers of 1 byte, 2 addresses, 3 descriptors; 3 listening processes; 2 requests and an unlimited number of copies | `EchoIsExact`, `NoDescriptorLost`, `EveryClientFinishes`; `UnixPathIsSound`; `DatagramsAreWhole` |
| `file_shared_tmp` | 2 writers at once | violates `PathIsWhole` |
| `leak_realloc_zero` | sizes 0 and 1 | violates `TrackedIsLive` |
| `exec_interrupted` | 2 children, 1 signal | violates `ParentWaits` |
| `normalize_empty` | paths of up to 4 characters | violates `NeverLonger` |
| `rk4_stops_short` | ends to 9, steps to 4 | violates `ReachesEnd` |

Why the bounds are enough for the cases that matter:

* Three threads on the queue give a signaller, a sleeper and a thief. Two values tell elements
  apart, and capacity 2 has empty, partly filled and full states and a wrapping `head`.
* Nine pushes into four slots go round the SPSC ring twice, so every slot is reused after its index
  wrapped, with loads as stale as the ring permits.
* Two workers give one that sleeps or exits while the other runs a task that submits. Three jobs
  make a list with a head, a middle and a tail, and three nodes are few enough to be reused.
* Seven iterations over up to four threads include every kind of remainder and more threads than
  iterations.
* Two descriptors are enough for a callback that removes, modifies or re-adds itself or the other
  one; growth from 1 to 2 to 4 fails at either `realloc`. Capacities above 2 are reached because
  tombstones occupy slots until the round ends.
* Four keys over hash values 0, 3 and 7 collide in every pattern, at the end of the table and
  across its wrap-around, in the small table and after a rehash.
* A 4-bit `size_t` lets TLC try every size and alignment of the arena, every `vec_reserve` and every
  length appended, all sums and products that wrap included. `ringbuf_init` refuses 9 elements of 2
  bytes, whose product wraps to 2.
* A pool of four blocks has lists of every length from 0 to 4.
* A chunk is what one flush writes; two chunks make a partly written file.
* Texts of five characters over a letter, the delimiter and a space have empty, blank and adjacent
  tokens at both ends; every pair of slice bounds is tried on each. With a buffer of 5 and two digits
  for a `long`, numbers that are too long for either are among them.
* Nine elements are two vectors and a tail; matrices of up to 3 by 3 with blocks from 0 (the default)
  to 4 have tiles that divide a side, do not, and exceed it. Every sharing of buffers by arguments of
  one size is an initial state.
* Three rounds of two batch sizes let a cache survive a failure, be reused and be replaced.
* The framebuffer is smaller than the shapes on every side; lines have every octant and the circles
  every start of the midpoint error up to radius 9.
* Six characters over `/`, `.` and a letter contain two components with `..` behind or before them,
  repeated and trailing slashes; `comp_start` of size 2 overflows.
* The echo client's message is as long as the buffers on the way together allow: one more byte and
  client and server would wait for each other, which is a limit of the demo (see section 4).
* Three processes on a Unix path give one that listens, one that has unlinked and not yet bound, and
  one that binds in between.
* Three producers on a queue of two: one at least is blocked whenever the queue is full.

For the safety properties that section 5 proves, the bounds do not matter: the theorems hold for every
value of the constants. There the runs still fire every action, and check the liveness that the
theorems leave out.

### Fairness

Safety runs assume none. The liveness runs assume:

* `queues`, blocking queue: weak fairness of each thread's critical sections. A thread that waits for the mutex
  gets it at some time; nobody has to make a call or wake up spuriously.
* `queues`, ring: weak fairness of the copy and the store of a push or pop that was begun, and of a
  call whose load returns the newest store, which says that callers retry, and that a store is visible
  in a finite time (C11 7.17.3 paragraph 16).
* `hpc`, pool: weak fairness of the owner, of submissions that hold a node, and of workers. It
  includes that tasks return. Nobody has to submit or to destroy.
* `hpc`, loops: weak fairness of the caller and of each thread, including that the user's functions
  return. The pipeline needs none: its steps are counted, so it ends unless it deadlocks, and TLC
  checks every run for deadlock.
* `loop`: weak fairness of the loop's own steps inside `event_loop_run`: `poll` returns, because
  `event_loop_run` gives it a timeout of 100 ms, and callbacks return.
* `network`: weak fairness of each client, worker and of the server's main thread, since the kernel
  schedules them and delivers or resets what was sent; strong fairness of a successful `accept`,
  which the server repeats after every failure. Nothing is assumed of resets.

## 4. Findings and observations

Five runs show a disagreement between the code and what the repository says about it.

* `file_shared_tmp`: `file_write_all` always uses `path.tmp`, so two writers of one path share it and
  a truncated file may be published, although `file_io.h:24` says "atomically". With writers that
  take turns, the run `system` shows that it is atomic, kills included.
* `leak_realloc_zero`: `leak_detect.c:99` takes every NULL from `realloc` for a failure ("original
  pointer stays live and tracked"). With glibc `realloc(p, 0)` frees `p`, and the report counts a
  leak that is none.
* `exec_interrupted`: `process_exec` calls `waitpid` once (`process.c:87`) and the handler of
  `process_on_sigint` does not restart it: after a caught SIGINT the call has returned and the child
  still runs, although `process.h` says "Parent waits for the child." A later call still returns the
  status of its own child (`ChildrenAreHeard`).
* `normalize_empty`: an empty path becomes `.` (`path.c:67`), against "result is never longer than
  the input" (`path.h:31`).
* `rk4_stops_short`: `numerical_rk4_integrate` stops up to half a step before the end of the interval
  (`numerical.c:92`), against "Integrate ODE from t0 to t1" (`numerical.h:70`).

Noted while reading; none of them has a run:

* `event_loop_count` (`event_loop.c:179`) counts tombstones when a callback asks, against
  `event_loop.h:78`. `CountBetweenRounds`, a part of `WalkIsSound`, states
  what does hold.
* `arena_alloc` (`arena.c:24`) aligns the offset, not the address: an alignment above `malloc`'s is
  accepted and may not be honoured. `AlignedUpToMalloc` states what does hold.
* `spsc_init` (`spsc.c:13`) computes `capacity + 1` before its overflow guard.
* `tail_index` (`ringbuf.c:35`) and `bq_push` add `head + len` before they take the remainder; the
  sum fits only because no allocator gives out more than `PTRDIFF_MAX` bytes, which `RingBuf` states.
* `hashmap_put` always doubles the table, so putting and removing fresh keys in turn grows it without
  bound.
* `file_write_all` does not fsync: what a loss of power leaves is up to the file system.
* `pool_free` of a block that is already free corrupts the list; `pool.h` excludes it.
* `unix_listen` (`unix_socket.c:42`) may unlink a socket on which another process has just begun to
  listen; `UnixPathIsSound` states what is left: the path leads to the newest socket, and files that
  are no sockets are spared. If the `bind` behind the `unlink` then fails (`unix_socket.c:44`), the
  process that listened has no path any more and is not told; and a `chmod` that fails
  (`unix_socket.c:48`) leaves a listener that others than its owner may be able to connect to, with
  `ERR_OK`. These are the two exceptions in `UnixPathIsSound`.
* `sv_parse_long` copies the view into 24 bytes (`str.c:87`) and returns `ERR_OVERFLOW` for every
  longer one, an in-range number behind spaces or zeros included, against `str.h:68` ("Parse the
  entire view", "ERR_OVERFLOW if out of range"). `ParseIsExact` leaves such views out (`TooLong`)
  and is exact for the others.
* `dataset_load_csv` counts commas but skips runs of commas and spaces between numbers
  (`dataset.c:91`): a row such as `1 2,,3` has three fields and three numbers and is loaded, its second
  number in the second column. `dataset.h:21` promises `ERR_IO` "on malformed rows (inconsistent
  column counts)". `CsvIsExact` says that a row is the first numbers of its line in order, and that
  each is from its own field when no field holds two.
* `udp_recv_from` cuts a datagram that is longer than the buffer and reads the sender of an IPv6
  datagram as an IPv4 address; `DatagramsAreWhole` states what holds of the others.
* A message longer than all buffers between the echo client and the server would block both: the
  client reads nothing before it has sent everything.
* `ml_demo` looks at no result of its training calls; a round in which one failed moves the weights by
  older gradients. `UpdateIsOfTheBatch` is about rounds in which all succeeded.
* Arguments beyond 64 and configuration lines beyond 128 are dropped without an error
  (`argparse.c:22`).

## 5. Proofs

A theorem holds for every value of the constants that the `ASSUME`s of its module allow: any number
of threads, clients, processes, descriptors, keys or pushes, any length of a message, any width of
`size_t`. The assumptions are named, TLC evaluates each of them, and they say only this:

* Sizes and numbers of things are numbers (`CapacityAssumption`, `SizesAssumption`, `SocketAssumption`,
  `LoopsAssumption`, `PipelineAssumption`, `CaptureAssumption`, `SizeAssumption`, `ArraysAssumption` and
  their like). Those the code refuses when 0, divides by or starts to double from are above 0:
  capacities, element and block sizes, the client's buffer, the first buffers of `strbuf.c` and
  `process_capture`. `2 ^ Width` is a number above 0, which the prover cannot compute.
* Special values (`NULL`, `Garbage`, `Nobody`, `NoSocket`, the main thread) are none of the ordinary ones
  (`NullAssumption`, `NamesAssumption`, `NobodyAssumption`, `DatagramsAssumption`, `StringsAssumption`,
  `TrainingAssumption`, `ViewsAssumption`).
* The buffer of `sv_parse_long` is longer than the digits of a `long` (`ViewsAssumption`).
* A path is a sequence of names (`PathsAssumption`).
* The arrays of the vector kernels and their scalar are integers, and a vector has at least one lane
  (`KernelsAssumption`).
* The options of a table differ in their names and in what `getopt_long` returns for them, which is
  never its `?`; a configuration line with a key has a value, as the copy of `cli_load_config` has
  (`OptionsAssumption`).
* The alignment of `malloc` is a multiple of every power of two that does not exceed it
  (`AllocatorsAssumption`).
* The blocking queue has finitely many threads (`ThreadsAssumption`).

Some theorems also rest on what the actions allow other programs, which is in no `ASSUME`:

* `Directories`: nobody removes or renames a directory or a file while `path_mkdirs` runs. Other
  programs may create files, and every `mkdir` and `stat` may be refused.
* `Path`: a file that is no socket is at the path from the start or never, and only `unix_listen`
  changes what the path names.
* `AtomicWrite`, `OneVersion` and `OnlySuccess`: only `file_write_all` changes the file and its
  temporary file.

Bounds such as `MaxPush`, `MaxRounds` and `MaxAllocs` are any number; `calloc` and `realloc` may fail
anyway. TLC checked every inductive invariant below on its component's run, except the pool's,
which quantifies over all sequences.

| Theorem | States | Inductive invariant and argument |
|---|---|---|
| `BlockingQueueProofs!TypeCorrect` | `[]TypeOK` | `TypeInv`. `TypeOK` alone is not inductive: a push writes through `q->data` and stores the element of its caller, so `Carrying` (who is inside a push holds an element) and `StorageInUse` (a queue without storage has nobody inside a call) are added |
| `BlockingQueueProofs!NoLostWakeup` | `[]NoLostWakeups` | each half is inductive with `TypeInv`. The argument counts threads: a push adds one element and its signal one awake consumer if any sleeps; a pop takes one of each; a consumer sleeps only when there is no element; a spurious wake-up only adds; a close wakes everyone |
| `BlockingQueueProofs!Refinement` | implements `ClosableFifo` | the ring read from `head` on is the abstract queue; a push appends to it and a pop removes its first element, also where the index wraps |
| `SpscQueueProofs!RaceFree`, `!Delivery`, `!Answers` | `[]NoDataRace`, `[]FifoDelivery`, `[]HonestAnswers` | `RingInv`. `Histories`: the k-th store of an index is made by the (k-1)-th operation, and its clock says so. `Knowledge`: how far what a thread has seen of the other index may lag. `Contents`: the slots between `head` and `tail` hold their elements. Two numbers less than a lap apart have the same remainder only if they are equal, which is why one empty slot is enough |
| `HpcProofs!Ownership` | `[]NodesAreOwned` | `PoolInv`. `Control` says which workers exist at each point of create and destroy, and when the list is certainly empty; `Distinct` and `Accounted`, that each allocated node is in the list once, or with one worker or one submitter; `JobsOfNodes`, `NodesOfJobs` and `CallsOfJobs` tie nodes to tasks. Freed nodes come back from `malloc`, so none of these holds alone |
| `HpcProofs!WakeupsSuffice` | `[]NoLostWakeup` | with `PoolInv`, by counting workers as for the queue |
| `HpcProofs!Refinement` | implements `JobExecutor` | the tasks of the list, in its order, are the abstract queue; a submission that holds a node is not yet visible |
| `EventLoopProofs!Walk` | `[]WalkIsSound` | `LoopInv`. During a walk the entries that `poll` looked at keep their index (`Walking`, `Lockstep`), which is why a removal leaves a tombstone; tombstones exist only during the walk (`Tidy`); a descriptor is registered once (`Unique`); both allocations hold what the arrays need, also when only one of the two `realloc`s succeeded (`Room`) |
| `EventLoopProofs!Refinement` | implements `FdRegistry` | the entries that are no tombstones are the abstract map; swap-with-last, compaction and growth leave it unchanged |
| `SystemProofs!CleanUp` | `[]NothingIsLeft` | `HandleInv`: which points of a call hold a descriptor, a buffer, a temporary file. No assumption about writers |
| `SystemProofs!AtomicWrite`, `!OneVersion`, `!OnlySuccess` | `[]PathIsWhole`, `[]ReadersSeeOneVersion`, `OnlySuccessReplaces` | `FileInv`, under the hypothesis `Exclusive`: writers take turns. Nobody else knows the inode of the temporary file (`Aside`); it holds what its writer has written so far (`Progress`); an open descriptor leads to what the path held at some moment since (`Following`). Kills may leave a temporary file, which the next writer truncates. Without the hypothesis `PathIsWhole` is false (run `file_shared_tmp`) |
| `HpcProofs!Sequential` | `[]ParallelIsSequential` | `LoopInv`. `LoopPlaces` says which threads run at each point of the caller, also when a `pthread_create` failed and the caller runs the chunk itself; `HandedOutChunks`, that the chunks given out so far are consecutive and end at the next start; `Work`, what each chunk has called and which partial results are final. The division `n / nthreads` and its remainder make the chunks end exactly at `n` |
| `HpcProofs!Pipelined` | `[]PipelineIsExact` | `PipeInv`, over the abstract queue that `BlockingQueueProofs!Refinement` shows the C queue to implement. `PipePlaces`: main closes the queue only after it joined every producer, so no push is refused. `PipeStream`: what was popped and what is queued, read together, are the first `sent[p]` items of each producer in its order. At the end `Len(got)` is counted through the bijection with the items |
| `SystemProofs!Directories` | `[]MkdirsIsExact` | `MkInv`. `Rooted`: what exists lies in directories. `MadeSoFar`: every prefix a call has passed exists. `EEXIST` says neither "directory" nor "file", so the answer rests on the last `stat`, which `Rooted` makes a statement about every prefix. `Answers`: a call that returned `ERR_IO` had a file in its way or was refused, and one that was refused returned `ERR_IO` |
| `SystemProofs!Heard` | `[]ChildrenAreHeard` | `ProcInv` is inductive as it stands with its types. `CaptureInv`: `fread` is always asked for at least one byte, so a full buffer never looks like the end of the output, and the byte for the NUL is never read into |
| `SystemProofs!Layered` | `[]ResolutionIsLayered` | `CliInv`. `Kept`: a table with room for `limit` entries holds the settings of the first `limit` arguments (or lines) that set something, each at the index that counts those up to it. An index that counts grows with what it counts (`RankIncreases`), so the last entry with a key, which `find_entry` returns, is the last setting of it (`LastKept`); at most one option has the value `getopt_long` returned (`MatchedIs`) |
| `NetworkProofs!EchoExact` | `[]EchoIsExact` | `EchoInv`. `ClientSide` and `Connections` say what a client's descriptor leads to at each point of its program; `ServerSide` and `Handlers` the same of the server's threads; `Streams`, that what the client has read, what is on the way in either direction and what the server has in hand are together the bytes sent. It needs all of the invariant: a byte keeps its place only because at most one thread serves a connection |
| `NetworkProofs!EchoHolds` | `[]NoDescriptorLost` | the same `EchoInv`. `PoolOwns`: each accepted descriptor is with the main thread, with exactly one queued job, or with one worker; `LoopOwns`: with the main thread or with exactly one registration |
| `NetworkProofs!Path` | `[]UnixPathIsSound` | `PathInv`. `Displaced`: once a server was bound, the path names the newest one's socket, or nothing while somebody who unlinked it is about to bind or after such a bind failed; so when no call is in progress and none failed it is not empty. `Private`: chmod is by path, so it makes the newest socket private whoever calls it, and the newest server calls it before it returns |
| `NetworkProofs!Datagrams` | `[]DatagramsAreWhole` | `UdpInv`. `FlightIs`: every datagram on the way was sent as a whole by the host it names, and an answer of the server to a client is the beginning of a request of that client. A beginning of a beginning is a beginning, whichever of the two was cut |
| `ContainerProofs!Exact` | `[]MapIsExact` | `MapInv`. `Sound`: a key is in one live slot at most, and the walk from its home slot meets no empty slot before it, which tombstones preserve. With the load at most 3/4 there is an empty slot, so every probe ends, and ends at the key's slot if it has one. A rehash moves the live slots one by one into a table that stays sound. `Walked` says what an iterator has yielded |
| `ContainerProofs!Ring` | `[]RingBufIsQueue` | `RingInv`: the block is no shorter than `capacity * elem_size`, a product that did not wrap; because of `PTRDIFF_MAX`, `head + len` does not wrap either; and the slots from `head` on hold the queue |
| `ContainerProofs!Growth` | `[]GrowthIsSound` | `FitsItsBlock` is inductive by itself: the guards refuse every doubling and every sum that wraps. `TextInv`: the block holds the text and its NUL, also after a failed growth and after `strbuf_take` |
| `ContainerProofs!Split` | `[]SplitIsExact` | `SplitInv`: the tokens lie one behind the other, each one delimiter after the one before, and the rest begins after the last. `memchr`, the two loops of `sv_trim` and the scan of `strtol` each find a least index; `LeastOfSet` says that what lies before it is of one kind, and the number parsed has as many digits as the text left behind the spaces, or too many exactly if more digits than fit follow the spaces |
| `LibraryProofs!Kernels` | `[]KernelIsExact`, the kernels' half of `KernelsAreExact` | `KernelInv`. What the first `idx` elements contribute is stored (`StoredTo`), or is in the lanes while the vector loop runs and in `sum` after it. The sum over a prefix is a recursive function; that it depends on the elements only and that a vector may be added lane by lane are lemmas by least counterexample |
| `LibraryProofs!Trained` | `[]UpdateIsOfTheBatch` | `TrainInv`. `CacheInv`: a layer's gradients come from one backward pass together. `RoundInv`: how far, at each step of a round in which nothing failed yet, caches, matrices and gradients are those of this round's batch. `StepInv` orders the calls |
| `LibraryProofs!Allocated` | `[]AllocatorsAreSound` | `ArenaInv`: every block ends at or before `pos`, and two blocks do not overlap; the new offset is `pos` rounded up, computed without a wrap. `PoolInv`: there is a chain of links from `free_list` that visits exactly the blocks nobody holds; that the recursive walk `Chain` of the model is this chain is proved by least counterexample. `LeakInv`: the records name different addresses, and exactly those of the blocks that were recorded and are alive, with their sizes. `realloc(p, 0)` is excluded, see `leak_realloc_zero` |
| `LibraryProofs!Drawn` | `[]ShapesAreExact` | `CanvasInv`. `PixelsAre`: the offsets written are those of the visible points plotted, and `row * Width + col` stays below `Width * Height`; the coordinates are integers without a width, so this is about pictures whose coordinates stay well inside `int`. `LineInv`: the pen is `i` steps along and `j` down with `err` that belongs to them, `ax * (j + 1) - ay * (i + 1)`; lemma `Bresenham` keeps twice the distance within the longer axis, so the pen advances on that axis in each step and reaches both end coordinates at once. `CircleInv`: `d` is `x * x + y * y - r * r + 2 * y + 1 - x` and, until the pen passes the diagonal, the pen is within `x` of the radius (`Midpoint`) |

Facts about data that the proofs need are lemmas of their own. The library's induction rules take an
operator as a parameter and cannot be used with the installed provers. Where a fact needs induction
over numbers the proof takes a least counterexample instead: `LeastIs` (`Least` in `EventLoopProofs`)
gives the least member of a set of numbers, from `WFMin` and `NatLessThanWellFounded`. That a
recursive function (`Compact` of the event loop, the rehash of the hash map) equals its defining
expression is proved in the same way, from partial functions that agree with each other.

Only model-checked, and why:

* liveness (`EverythingDelivered`, `CloseReleasesAll`, `CallsProgress`, `PoolProgresses`, `CallReturns`,
  `StopReturns`, `EveryClientFinishes`): the prover has no rules for fairness and `ENABLED`;
* the matrices' half of `KernelsAreExact`, `DatasetIsExact` and `PathsKeepTheirPlace`: they compare loops with
  nested sums, folds or a recursive definition over the data (the entries of a product, the lines of a
  file, the meaning of a path), and every proof would be an induction over it;
* the disagreements of section 4, which are false.

## 6. What is not modelled

* Numbers: rounding, and formulas without control. `math/mat.c`, `quat.c`, `vec.c`, `stats.c`, the
  physics, root finding and quadrature of `simulation/`, the values inside `nn.c` and the
  normalisation of `dataset.c`. Their correctness is a question of numerical error.
* Bit mixing: FNV-1a (the hash map is checked for any hash function instead) and the PCG state.
* `core/` (error strings, logging, clocks), `cli/output.c`: formatting and tables.
* `rendering/gl_pipeline.c`, `vk_pipeline.c`: wrappers of graphics interfaces, off by default; the
  PPM writer.
* `dir_walk` of `file_io.c` and `tcp_local_port`, `udp_local_port` keep no state; the Windows branches
  repeat what the POSIX ones do.
* The bytes of elements, keys and files, and all text that is printed.
* The demo programs that print results of single calls.

## 7. Plan

Every safety property that the runs check is proved, except those listed in section 5 as needing
induction over data. A next proof would be of parts of them that need none.

Models worth adding: the size guards of `spsc_init` and `bq_init` at `SIZE_MAX`; `dir_walk` against
concurrent changes; the resources of `gl_pipeline.c`; a `Process` with the descriptors of its children.
