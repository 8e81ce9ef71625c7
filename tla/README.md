# A formal model of dotnet-pal-rs

dotnet-pal-rs is the platform layer of a .NET NativeAOT program: a table of
operations that a *port* offers and the runtime calls. These modules model its
stateful and concurrent parts in TLA+. TLC checks them on small instances, and
TLAPS proves the main safety properties of most of them for every instance.
`PROJECT.json` lists the components, the runs, the hazards and which lines of
the code each definition stands for.

## The system

| Part | Where | Kept state |
|---|---|---|
| Table and negotiation | `src/lib.rs`, one front end per group in `src/*.rs` | the slot; installed handlers; counters |
| Boundary traits | `src/port.rs` | none: what a port promises |
| Providers | `crates/dotnet-pal-linux`, `-linux-std`, `-macos`, `-windows`, `-host`, `-wasm`, `-wasip1`, `-posix` | events, mutexes, threads, handlers, processes, watches |
| Storage | `crates/dotnet-pal-storage`, `-memfs` | arena, ledger, file nodes |
| System.Native in C | `crates/dotnet-pal-build/native` | descriptors, event ports, children, pipe readers, monitors, signals, terminal |
| Freestanding C runtime | `native/freestanding` | a heap |
| Ports in the examples | `examples/baremetal-aarch64`, `examples/browser-port` | a scheduler and its objects; pages |

A program calls System.Native, which calls the table, whose front ends check the
arguments and call the provider. The modules follow that stack:
`LowLevelMonitor` is a client of `Events` and `Mutexes`, which `LinuxEvent`,
`LinuxMutex` and `BareMetal` implement; `EventPort`, `PipeReader` and `Children`
live in the table of `Descriptors`; `LinearHeap` is the GC's adapter over
`Ledger` over `memory.grow`; `Consumers` calls the handlers of the front ends, and
`HostPort` is a provider below them.

Two conventions hold throughout. A section of code under a lock is one step, and
a call across the boundary outside the lock is a step of its own. The calls of
the boundary are modelled by what the code relies on, with their failures where
the code handles them.

A run usually checks several components: a *sum* module (`Objects`, `Providers`,
`Storage`, `Files`, `Table`) chooses one of them at the start of a behaviour and
leaves the others alone. It extends the modules of most of its components, so
that what is proved of a component is the very formula the run checks.

## The modules

### The table

**Negotiation** (`negotiate`, `Slot`, `build` in `src/lib.rs`). The state of the
slot, its table, and for each caller where it is in the loop. The load, the
compare_exchange, the write of the table and the store of the outcome are four
steps. A table is the set of its capabilities; only the groups that can reject
the negotiation, or be dropped although provided, are told apart.

**Boundary**, **CoreGroups**, **SystemGroups** (the front ends, `src/*.rs`, one
section per group). A handler is an operator from its arguments and the provider's
`Result` to a reply: the status, the outputs, the provider's call if there was one.
Pointers are good or not, sizes are small numbers on either side of each limit,
texts are lengths. `CoreGroups` has the groups the runtime itself stands on, the
virtual and the linear memory of `src/lib.rs` among them, whose ranges are checked
in an address space of 15 with pages of 2 (`Geometry`); `SystemGroups` has the
processes, the system, files, watches, sockets and the network. `Calls` of `Table`
lists the handlers with all the arguments that are told apart.

**Counters** (`src/counter.rs`). Threads add by a weak compare-and-exchange while
a reader takes the values one after the other.

**HostPort** (`crates/dotnet-pal-host`). `validate` over the C tables of every
enabled group, in order, and the adapter of each callback over whatever the host
answers.

**Consumers** (`CopyFile`, the texts of the system group, `GetEnviron`). Three
loops over handlers of the front ends, with short transfers, an environment that
changes, and a heap that fails.

**PipeReader** (`sn_pipe_*` in `system_native_proc.c`). The reader's record with
its buffer and two auto-reset events, the thread that fills it, and clients that
read, switch the mode, poll and close. The failing start of the thread is there;
where it leaves a Read with a freed record the model stops (`astray`).

**Table** is the sum of these, and the consumer that calls the front ends through
a table some port fills: one with every trait, with all but one kind of memory,
with a single trait or with none.

### What threads share

**Events**, **Mutexes** (`src/port.rs`). What the boundary promises: a Boolean
with waiting threads, and a lock with a holder and a depth. **Threads** declares
the threads that use them.

**LinuxEvent** (`impl port::Events for Linux`). A critical section under the
event's pthread mutex is one step. Falling asleep, being woken (by a signal, by
the deadline, for no reason) and having the mutex again are separate.

**LinuxMutex** (`impl port::Mutexes for Linux`). The counter `users`, the words
`owner` and `depth` and the pthread mutex change in separate steps, as in the
code. `UsizeMax` and `NativeMax` are the limits of the words and of glibc.

**LinuxSlots** (`linux.rs`, `linux_sockets.rs`). Three words that whoever comes
first fills for the whole process: the cached mode of `membarrier`; the slot of a
signal that may arrive while it is being filled; the eventfd of a wake channel,
with the poll that drains it.

**Objects** is the sum of these and of what callers of the in-memory file system
wait for, `MemWaits`.

**LowLevelMonitor** (`SystemNative_LowLevelMonitor_*` in `system_native_pal.c`).
A queue of waiters under a mutex, and one auto-reset event per thread that every
monitor uses.

### Providers that meet signals, children and threads

**LinuxProcesses** (`linux_processes.rs`). Launches by `posix_spawn` and, under
another identity, by a fork that reports through a pipe; wait, terminate, release.
Descriptors, masks, identities and ids are modelled; somebody else in the process
may reap a child and the kernel may reuse its id.

**Notifications** (`src/notifications.rs` over `linux_notifications.rs`). Install,
enable, disable, default action; the signal handler, the pipe with its limit, the
dispatcher, and a consumer's handler. How many calls there are, about which kinds
of requests, and whether the provider may fail is a use chosen at the start.

**Faults** (`src/faults.rs` over `linux-std/src/faults.rs`). Installs against the
delivery of a fault, whose handler takes no lock.

**BareMetal** (`thread.rs`, `objects.rs`). Cooperative threads on one core; a step
is what the running thread does up to the next moment the CPU may change hands.

**Providers** is the sum of these.

### Storage

**Geometry**, **LinearStorage** (`round_size` and `geometry` in `src/lib.rs`,
`port::LinearStorage`). The arithmetic of sizes with the width of `usize`, and
what storage promises: regions that are aligned and disjoint, zeroed where asked
and nowhere else. What the storage holds is one bit per watched byte.

**Arena**, **Ledger** (storage crate). The block map with its two loops, each turn
a step; the table of regions over a backing that may answer anything: an error,
null, misaligned or already owned storage.

**LinearHeap** (`dotnet-pal-wasm`, `gc_linear_adapter.h`). The free list over
`memory.grow`, and the stack the WebAssembly GC stands on: the adapter's table, the
front end, the ledger, the free list. Memory grown by another party, which the
crate excludes, is left out.

**BarePages**, **BareHeap** (`memory.rs`, `memory/pages.rs`). The free list of the
region with the page descriptors that grant and revoke access; the native heap as
an implicit list of blocks, with the Rust allocator over it.

**Storage** is the sum of these.

### What a process holds by handle

**Descriptors** (`system_native_io.c`, and the calls of `system_native_net.c` on
sockets). A table of small integers that name shared objects, with a count of
descriptors and a count of users for each. Every call is: look up and pin under
the lock, work on the handle, let go under the lock, and close the handle after
the lock if this was the last use. The calls that do more (accept, copy and
send a file, read a change watcher in slices, duplicate, close) have actions of
their own.

**EventPort** (`system_native_net.c`, with what it sees of a pipe reader). The
port turns a level-triggered poll into edges. The waiter takes a snapshot under
the lock with a pin on every socket, polls, applies the answers one by one under
the lock and starts again; `port_reported` holds what was told. It extends
`Descriptors`: its objects are in that table, and its calls look up, pin and let go
with the same steps.

**Children** (`system_native_proc.c`). The list of records, the thread that
watches each child, and callers that start, collect and signal. A process keeps
its id until the boundary's wait takes it; then the system may give it away again.

**MemFs** (`crates/dotnet-pal-memfs`). The tree with hard and symbolic links, the
walk of a path with its four treatments of a final link, handles, sizes against
the capacity, renames, the current directory, and watchers with bounded queues.
One lock guards everything, so a call is one step; `fs` is the `State` of the
code and `walk`, `report`, `unlinked`, `create`... are its methods. `view` is
history: what a reader that listed a directory when it began to watch it has made
of the events it read since. **MemContent** is one file byte by byte, a vector or
pinned pages, with its mappings; **MemWaits** the locks of a file, whole and by
range, and the wait of a watcher's read.

**LinuxWatches** (`linux_watches.rs`). The reader of an inotify instance with its
buffer and its deadline.

**Files** is the sum of `MemFs`, `MemContent`, `Descriptors`, `Children` and
`LinuxWatches`.

## What the runs check

| Run | Instance | Shows |
|---|---|---|
| `objects` | 3 threads on an event, on a mutex with limits 4 and 2, at a barrier; 2 wakers; 2 installers and 2 takers of a signal; 2 handles that lock up to 3 bytes; a read of a watcher in memory | no stranded signal, a late signal beats the time-out, the counter is exact; `Events` and `Mutexes` are implemented; wakes, barriers, callbacks, file locks and waits in memory are whole; whoever may get on does |
| `monitor` | 3 threads, or 2 threads on 2 monitors | the queue holds the waiters, no lost or spurious wake-up, the boundary is used as its contracts ask; a signalled or timed wait returns |
| `storage` | arena of 4 blocks; ledger of 3 entries; heap of 7 pages with a free list of 2; 4 bare-metal pages with a list of 2 or 3 with a list of 1; a native heap of 26 words | regions tile the map, the search misses no fit, budgets and tables agree when the backing fails, no byte is lost or owned twice, pages have the content they were promised; arena and ledger implement `LinearStorage` |
| `table` | 3 callers; every handler with every kind of argument and answer; 2 threads that count twice in a counter of maximum 2; 2 clients of a pipe of 2 bytes with a buffer of 1 | one outcome, a readable table; answers keep what the header promises; no call is lost to the counters; results are whole; calls, loops and waits end |
| `providers` | 2 launching threads and 2 ids, 6 plans; TERMINATE with 4 calls or CONTINUE with 3, and 2 signals; 2 installers with 3 installs, 2 faults; 3 bare-metal threads in memory for 5 stacks and blocks | launches are whole, one verdict per child, earlier actions are kept, stacks are owned and slots of a key are fresh, the cooperative objects implement `Events` and `Mutexes`; what has begun ends |
| `files` | up to 4 nodes, 5 paths, a handle, a watcher with a queue of 2; a file of 3 bytes in pages of 2; 2 threads on a file, two sockets and a watcher, 3 on the watcher, 3 slots; 2 threads, 2 records, 2 ids; an inotify instance on 2 nodes with a queue of 3 | the tree, its counts and its bytes are exact, spelled paths lead back, events tell the tree; a handle is open while used and closed once, a record is freed once; ends are seen |
| `event_port` | 2 clients and a waiter on 1 port, or 1 client on 2 ports | counts and handles with the pins of a snapshot |
| `event_port_edges` | a socket, a pipe with its reader, or two ports; one channel | an armed condition that is there is told |
| `event_port_wake` | 2 clients, 1 port | *violated*: a closing socket wakes a port that may be gone |
| `children_id` | 2 threads, 2 records, 2 ids | *violated*: an ended child may be hidden by a new one with its id |
| `faults_data` | 2 installers, 3 installs, 2 faults | *violated*: a fault may call a handler with the data of another |
| `pipe_closing` | 2 clients of a pipe | *violated*: a reader of a closed pipe may wait for room for ever |

**Bounds.** Three threads are the smallest number with a signaller and two
competing waiters; two monitors the smallest with an event left over from another
one; three descriptors the smallest table that fills up with a duplicate in it.
The limits of counters are small enough to be reached and different enough to be
reached in both orders. The storage instances have a request for every outcome:
sizes and alignments that overflow, do not divide, fit only after a skip, or leave
two remainders while the free list is full. The file system has two names and
paths of two levels, a relative and a trailing-slash form, and links to a name and
to `..`; the limit of two links makes a loop fail. A pipe of one byte is full after
one write, so a second signal finds it full; a pipe reader with room for one byte
waits for room before the second. The handlers of the front ends are checked one
call at a time, which is all there is to them: they keep nothing but counters.

**Scenarios.** `LowLevelMonitor`, `EventPort` and, for `Descriptors` and `MemFs`,
`Files` choose at the start which threads, objects or features a behaviour does without;
`LinuxProcesses` and `PipeReader` choose one of several plans of calls. A run then
covers several instances that are small in different ways; a behaviour of a
scenario is one of the whole specification. `EventPort.cfg` uses symmetry of
clients, ports and channels, which every scenario keeps; it checks safety only.

**Deadlock** is not checked where the program may really stop: all threads may
wait for a monitor, an event of the bare-metal port or a pipe that no one is left
to signal, and a fault that ends the process, the end of a loop or the last of a
bounded number of calls leaves nothing to do (`monitor`, `table`, `providers`,
`faults_data`, `pipe_closing`).

**Fairness.** Weak fairness of a thread in the middle of a call, throughout: it
is scheduled, and the calls of the boundary it makes return. Beyond that:

- `LinuxEvent`, `LinuxWatches`, `MemWaits`: of time, and of the kernel ending an
  expired sleep. That a sleep is interrupted is never assumed.
- `LowLevelMonitor`: strong fairness of taking the monitor again, which says that
  its mutex does not starve a thread, and weak fairness of releasing it.
- `MemWaits`: of the handles that wait for a lock, taken together: one of those
  that may have it tries again. Which one it is, nothing says.
- `Descriptors`: a slice of a wait on a watcher ends, as its time-out says.
- `EventPort`: the engine's thread waits again after it has handled what it got,
  as the loop of the BCL's socket engine does.
- `Children`, `LinuxProcesses`: the watcher's thread is scheduled once its child
  has ended, and a forked child is scheduled.
- `Notifications`, `Faults`: a signal that was caught is handled.
- `PipeReader`: `pipe_read` returns when there are bytes or the end; that it fails
  is possible and never assumed.
- `BareMetal`: a thread that runs comes to a call that yields sooner or later,
  which cooperative scheduling asks of it.

Nothing is assumed of the threads that might set, signal, register or collect,
nor of what sockets and children do.

**Assumptions.** Atomic operations are sequentially consistent. pthread calls on
valid objects succeed, except the time-out and the limit on recursion. An
allocation that fails in a `create` leaves nothing behind and is not shown. A
trap ends the process and is not modelled. As `docs/kernel.md` asks, no thread
enters a mutex that is being destroyed. On bare metal, a thread gives its locks
back before it ends, a handle is joined or detached by whoever owns it, and the
destructors of a thread run without a wait. In `LinuxSlots` the answer for a
trampoline that is already installed is never reached: the claim of the slot
excludes it.

**Mutants.** A definition with the comment *Mutant* is the definition that follows
it with a plausible mistake; `PROJECT.json` says which property rejects it.

## What is proved

Every theorem is about the specification of a component, which its sum module
extends, and says that a property of a run holds for all values of the constants.
The proofs of one invariant are laid out alike: an inductive invariant, a lemma that
it holds at first, one lemma per action that the action keeps it, and a last step
that puts them together. The module of the proofs has the name of what it is about.

**SharedProofs**, what threads share without one lock around it.

- `Ownership`, `Readable`, `Final`, `OneWrite` (`negotiate`): `SlotIsOwned` is
  inductive together with the types. The compare_exchange lets one caller in, and
  the state of the slot tells the others what that caller has written.
- `CountersAreExact`: any number of threads and calls, any width. The invariant adds
  that a counter has not fallen since the reader of the statistics began, and that
  a thread about to exchange has a call left to count.
- `FaultsEndAsWithout`: any number of installs and faults. The invariant says what
  the lock of `enable` protects and which actions are kept while it is held, as a
  handler that runs meanwhile takes no lock.
- `RecordsStayOwned` (`Children`): between two steps a record belongs to the starter
  that has not listed it, to the list, or to the one that took it off the list
  (`CallIsSound`, `RecordIsSound`), and no two calls have the same one.

**ObjectsProofs**, what threads share through a provider.

- `EventTyped`, `EventCounted`, `NotStranded`, `LateSignal`, and `EventRefinement`:
  `LinuxEvent` implements the safety part of `Events`. The invariant adds
  `DeadlinesMatch`: only a thread inside `wait` has a deadline, and `ETIMEDOUT` is
  answered only after it. Without it a step that times out could not be matched
  with `Expired`.
- `MutexTyped`, `MutexCounted`, `MutexHeld`, and `MutexRefinement`: `LinuxMutex`
  implements `Mutexes`. The invariant adds `WordsFollow`: `depth` is the native count
  but for one level in flight, and `owner` is the native holder when `depth` is not
  zero. It bounds `depth` by `users`, so the unchecked `depth += 1` cannot overflow.
- `SharedStaysWhole`: the whole of `SharedIsWhole`, for `ObjectsSpec` itself. Five
  inductive invariants, one per kind. `BarrierInv`: a mode other than unknown is one
  the kernel has and the process is registered for, and it is never replaced.
  `ContextInv`: one installer is past the claim, what it stores is in place before
  the trampoline is, and a signal in flight has loaded nothing of another install.
  `WakeInv`: the descriptor of the slot is open and never replaced, and a wake that
  is owed is in its counter. `LocksInv`: locks that meet are of different owners and
  shared, and cover exactly the bytes their owners were told of; the lemmas about
  `pieces` say what a range lock leaves of those it cuts. `ReadsInv`: what a read has
  waited and what is left is what was asked.

**StorageProofs**.

- `Typed`, `Tiled`, `Complete`, and `Refinement`: `Arena` implements `LinearStorage`,
  for every capacity, granularity and base. The invariant adds `Searched` (no run that
  starts before the cursor fits) and `Walked` (the blocks from the cursor of `zero`
  on belong to one region).
- `BudgetStaysExact`, and `LedgerRefinement`: `Ledger` implements `LinearStorage` over
  a backing that may answer anything. Both need `EntriesLieApart`: a byte that two
  entries held would be charged twice, and a region given out twice is what the
  abstract storage rules out. `BudgetIsExact` counts bytes as a set (`Held`), so that
  it says by itself that no byte is charged twice.

**DescriptorsProofs**, **EventPortProofs**.

- `LifetimesStayExact`: any threads, objects and size of the table. `TableInv` is kept
  by each primitive (pin, let go, install, drop...), whoever calls it: it adds to the
  property that an object being made has one reference, its maker's (`NewIsSole`),
  and that the standard streams keep their descriptors. The calls add where a thread
  may still have an object to close (`DoomedFirst`).
- `PortLifetimesStayExact`, `PortHasOneWaiter`: the same table under the event port.
  What is registered, or about to be, has a descriptor (`RegisteredIsNamed`), and a
  wait holds its port and the pins of its snapshot (`WaitInv`). The first rests on the
  second: the snapshot's pins are given back by the thread that took them.

**MonitorProofs**.

- `WakeupsStayExact`, `MonitorsKeepContracts` (`LowLevelMonitor`): any threads and
  monitors. `MonitorInv` adds to the property that who is inside a monitor holds its
  mutex and nobody else does (`HoldersAreInside`), which is what makes a queue change
  under one thread at a time; that a wait which came back without its event has a
  limit; and that a thread in a wait has an event in the slot all threads use
  (`ThreadIsSound`). The lemmas `Appended`, `Headed` and `Unlinked` say what the three
  changes of a queue do to it. The second theorem is a refinement: each event
  implements `Events` and each mutex `Mutexes`, and a step of a monitor is one of their
  actions or a stutter.

**ProvidersProofs**, **BareProofs**.

- `LaunchesAreWhole`, `VerdictIsOne` (`LinuxProcesses`): any plan of launches, any
  identities, pipes and ids, another reaper or none. `ProcessesInv` says where each
  call is (`CallsArePlaced`), that a process is owned by one child record or is
  somebody else's (`ProcessesAreOwned`), that a verdict is not changed
  (`VerdictIsFinal`) and that a signal is sent only while the id is held
  (`SignalsAreGuarded`).
- `RequestsStayKept` (`Notifications`): any kinds, calls and signals.
  `RequestsInv` adds who is inside which call, and that one install is under way.
- `StacksStayOwned` (`BareMetal`): `BareInv` says that free memory and what the table
  of threads owns make up the memory, that an entry somebody may join is kept, and
  that a slot of a key in use holds nothing or a value of this use.
- `BareRefinement`: the cooperative event and mutex implement `Events` and `Mutexes`.
  `EventInv` and `MutexInv` say that `waiters` and `users` are the threads that wait
  and the levels held.

**Assumed** of the constants, each in the module that declares them: the set of threads
is finite (`ThreadsFinite`); values that stand for nothing are not members
(`NobodyIsNoThread`, `NoThreadIsNoThread`, `NullIsNoRecord`, `NobodyHasNoPid`,
`NoneIsNothing`, `DispatcherIsNoThread`, `NoThreadIsNone`), and the thread that polls
does not wake itself (`PollerWakesNobody`); limits, counts and sizes are numbers, and
positive where the code has at least one of them (`Limits`, `WidthAssumption`,
`CounterHolds`, `FilesHaveBytes`, `WaitsAreNumbers`, `TableHasEntries`, `BootFits`,
`LocksHaveLevels`); the base of the arena is aligned and its blocks can be numbered
(`ArenaAssumption`), the entries of the ledger lie in its addresses
(`LedgerAssumption`); the standard streams fit the table of descriptors
(`DescriptorsAssumption`); the objects of the event port are sockets, pipes and ports
(`EventPortAssumption`); plans and uses are well formed (`PlansMakeSense`,
`UsesOfKinds`). TLC evaluates each of them.

**Only model-checked:**

- every liveness property: the prover has no fairness and no `ENABLED`;
- `FilesAreSound` and `ReadersSeeTheTree`: the walk of a path is recursive, and what
  a recursive definition computes needs induction over data; the bytes of a file and
  the events of a watcher are sequences that are cut and joined;
- `BareMemoryIsOwned` and `ContentsAreExact`: the native heap is a list that is walked
  recursively, and the free lists of the pages are sequences from which entries in
  the middle are taken, split and joined;
- `MemoryIsConserved`: the same surgery on the free list of `LinearHeap`;
- `AnswersKeepTheContract`: every handler with every kind of argument. The handlers
  keep no state and the arguments are finitely many, so the run is exhaustive and a
  proof would repeat its enumeration;
- `ResultsAreWhole` and `PipesAreWhole`: the loops build their results from sequences
  a step at a time, and the pipe is said to be whole by concatenating what is in the
  pipe, in the buffer and in the hands of its readers.

## Where the code and its words differ

- `event_port_wake`. "An operation pins the object for its duration, so a Close
  from another thread never frees a handle the boundary is still working on"
  (`system_native_internal.h:101`). `SystemNative_Close` reads the port of a
  closing socket under the lock and wakes it after the lock is released, without a
  pin (`system_native_io.c:117`). If the port is closed in between, it is freed
  first.
- `children_id`. `WaitPidExitedNoHang` "collects the exit code: the id when the
  child has ended, 0 while it runs" (`system_native_proc.c:133`). The boundary's
  wait takes the ended process, so the system may reuse its id before the code is
  collected. The list is searched newest first and the search stops at the first
  child with the id: the ended one is answered 0 for as long as the new one runs.
- `faults_data`. "The data pointer is published before the handler, so a fault
  never sees one without the other" (`src/faults.rs:133`). An install whose
  `enable` fails takes its handler back (line 138). A fault that has loaded that
  handler loads the data afterwards, and the next install may have stored its own.
- `pipe_closing`. "When the last descriptor closes: a reader waiting for room is
  told to stop" (`system_native_proc.c:260`). `sn_pipe_watch` publishes a reader
  without looking whether the pipe was closed since it was pinned (line 227). Such
  a reader was told nothing: with a full buffer it waits for ever, and the pipe
  stays open.

More, which no run checks:

- `Backing::allocate` "fails before side effects"
  (`crates/dotnet-pal-storage/src/lib.rs:112`). `Grow::allocate` may grow the
  memory and then refuse with `Os`, when the new pages have taken the last record
  of the free list and the request would leave two remainders. Nothing is lost:
  the pages serve a later request (`MemoryIsConserved`).
- "Groups that predate these statuses never return them"
  (`include/dotnet_pal.h:338`). The groups of virtual memory and linear storage are
  the oldest, and their `record` passes on whatever the provider answered, where
  that of every other early group folds what it does not know. `Legacy` of `Table`
  leaves the two out.
- The waiter of an event port skips a socket only when both an error and a hang-up
  were reported (`system_native_net.c:964`). A socket that has hung up and has no
  error stays in the poll with nothing wanted, and the poll reports the hang-up
  at once each time: the waiter goes round without news until the socket is closed
  or armed. Edges are still delivered.
- "Destroying an object other threads are still inside is `Error::Busy`"
  (`examples/baremetal-aarch64/src/objects.rs:9`). The reader-writer lock looks
  only at its holders (line 273): a thread may wait for it while the holder gives
  it back and destroys it.
- A reader of a pipe whose thread cannot be made is taken back and freed
  (`system_native_proc.c:230`) although a Read may have it already. Two Reads that
  wait for the end of a pipe are released by an auto-reset event that is set once
  (line 257), so one of them waits on. A Read that waits when the last descriptor
  is closed is not woken: a reader that is told to stop does not set `arrived`
  (line 196). `PipeReadsEnd` is about a lone reader of an open pipe.
- `enable` of the notifications front end sets its bit before it calls the provider
  and takes it back when that fails (`src/notifications.rs:100`). A second enable
  that succeeds in between loses its bit. `EnabledIsHeard` is therefore checked for
  a provider that does not fail.
- `DisablePosixSignalHandling` reads `console_listens` and then disables
  (`system_native_sys.c:368`): the console may start to listen in between and is
  switched off. `restore_terminal` at exit (line 397) may be overtaken by a
  continuation that applies the raw mode again.
- A host that answers `BUFFER_TOO_SMALL` with a length that would have fitted is
  passed on as a success with a cleared buffer by `process_affinity` and `build_id`
  (`crates/dotnet-pal-host/src/lib.rs:443`, `:534`).
- "A wake that arrives after ppoll returned is left for the channel's next poll"
  (`linux_sockets.rs:263`). A wake between a `ppoll` that said `POLLIN` and the
  `read` is taken by that read. It falls to the poll that is returning, so nothing
  is lost.

## Not modelled

- Signals and terminal of `system_native_sys.c`: flags that are read and written
  one by one; the races named above settle at the next call, and the code makes no
  promise at rest that could be checked.
- Pipe ends and priorities of `linux_processes.rs`; accounts, volumes, network and
  the socket calls of the Linux provider: one system call and a conversion each.
- The check of the owner in the signal handler of the notifications: it is for a
  forked child, which the model of the notifications does not have.
- Listings of open directories, times and modes of the in-memory file system.
- The standard-library providers, `wasip1`, the browser port and the adapters for
  the runtime: calls handed on without state of their own.
- The freestanding C runtime: sequential functions with a self test.
- Build scripts and generated code.

Each part is listed in `PROJECT.json` with the reason.
