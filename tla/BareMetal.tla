----------------------------- MODULE BareMetal -------------------------------
(***************************************************************************)
(* The cooperative threads of examples/baremetal-aarch64 (thread.rs) and   *)
(* the objects they wait for (objects.rs): one core, no interrupts.  A     *)
(* thread runs until it calls something that waits or yields; a wait polls *)
(* and hands the CPU to the next live thread of the table.                 *)
(*                                                                         *)
(* A step is what the running thread does up to the next moment the CPU    *)
(* may change hands.  One event, one mutex, one reader-writer lock and one *)
(* TLS slot stand for the tables of them.                                  *)
(***************************************************************************)
EXTENDS Integers, FiniteSets, FiniteSetsExt

CONSTANTS
    MAX_THREADS,    \* entries of the table
    MEMORY,         \* pieces of memory for stacks and TLS blocks
    DEPTH,          \* limit on the levels of a lock
    GENERATIONS     \* keys that are made in the slot

ASSUME TableHasEntries == MAX_THREADS \in Nat \ {0}
ASSUME BootFits == MEMORY \in Nat \ {0}
ASSUME LocksHaveLevels == DEPTH \in Nat \ {0} /\ GENERATIONS \in Nat

Indices == 0..MAX_THREADS - 1
NOBODY == MAX_THREADS

VARIABLES
    THREADS,    \* per entry: [state, detached, reclaim, stack, tls]
    CURRENT,    \* the running entry
    where,      \* per entry: what the thread is inside of, [op, about, limit]
    handles,    \* entries whose handle nobody has joined or detached yet
    region,     \* pieces of memory that are free
    event, bare_mutex, rwlock,
    KEYS, slots,        \* the key of the slot; the value per entry, by key
    generation  \* keys made so far

sched == <<THREADS, CURRENT, where, handles, region>>
tls == <<KEYS, slots, generation>>
bare == <<sched, event, bare_mutex, rwlock, tls>>

EMPTY == [state |-> "Free", detached |-> FALSE, reclaim |-> FALSE, stack |-> 0, tls |-> 0]
Started(stack) == [state |-> "Live", detached |-> FALSE, reclaim |-> FALSE, stack |-> stack, tls |-> 1]
Runs == [op |-> "run", about |-> 0, limit |-> "none"]
NoEvent == [used |-> FALSE, manual |-> FALSE, signaled |-> FALSE, waiters |-> 0]
FREE_MUTEX == [used |-> FALSE, recursive |-> FALSE, owner |-> NOBODY, depth |-> 0, users |-> 0]
FREE_RWLOCK == [used |-> FALSE, writer |-> NOBODY, readers |-> 0, held |-> [i \in Indices |-> 0]]
NoKey == [used |-> FALSE, destructor |-> FALSE]

\* The boot thread stands on the linker's stack and has a TLS block.
init_boot_thread ==
    /\ THREADS = [i \in Indices |-> IF i = 0 THEN Started(0) ELSE EMPTY]
    /\ region = MEMORY - 1 /\ CURRENT = 0
BareInit ==
    /\ init_boot_thread
    /\ where = [i \in Indices |-> Runs] /\ handles = {}
    /\ event = NoEvent /\ bare_mutex = FREE_MUTEX /\ rwlock = FREE_RWLOCK
    /\ KEYS = NoKey /\ slots = [i \in Indices |-> 0] /\ generation = 0

-----------------------------------------------------------------------------
\* The entries that own a stack and a TLS block, each one piece of memory.
Stacks(threads) == {i \in Indices : threads[i].stack = 1}
Blocks(threads) == {i \in Indices : threads[i].tls = 1}

\* The table after `reclaim_finished`, which spares the running entry.
goes(threads, i) == i # CURRENT /\ threads[i].state = "Finished" /\ threads[i].reclaim
reclaimed(threads) == [i \in Indices |-> IF goes(threads, i) THEN EMPTY ELSE threads[i]]
given(threads) ==
    Cardinality({i \in Stacks(threads) : goes(threads, i)}) + Cardinality({i \in Blocks(threads) : goes(threads, i)})
reclaim_finished(threads) ==
    /\ THREADS' = reclaimed(threads)
    /\ region' = region + given(threads)
    /\ slots' = [i \in Indices |-> IF goes(threads, i) THEN 0 ELSE slots[i]]

\* Mutant: the search for the next thread starts at the first entry.
next_live_First(threads) ==
    LET live == {i \in Indices \ {CURRENT} : threads[i].state = "Live"} IN IF live = {} THEN CURRENT ELSE Min(live)
\* The next live entry after the running one, round the table.
next_live(threads) ==
    LET live == {s \in 1..MAX_THREADS - 1 : threads[(CURRENT + s) % MAX_THREADS].state = "Live"}
    IN IF live = {} THEN CURRENT ELSE (CURRENT + Min(live)) % MAX_THREADS
schedule(threads) == reclaim_finished(threads) /\ CURRENT' = next_live(threads)

returns == where' = [where EXCEPT ![CURRENT] = Runs]
stays == UNCHANGED <<THREADS, CURRENT, region, slots>>
me == CURRENT
Running == where[CURRENT].op = "run"
\* `block_until`: who is not ready, and whose time is not up, hands the CPU over
\* and asks again when it comes back.
waits(op, about, limit) ==
    /\ where' = [where EXCEPT ![CURRENT] = [op |-> op, about |-> about, limit |-> limit]]
    /\ schedule(THREADS)
Poll(op) == where[CURRENT].op = op
poll_again == schedule(THREADS) /\ UNCHANGED where
expired == where[CURRENT].limit = "past"
\* The deadline of a wait comes, whoever runs.
Tick(i) ==
    /\ where[i].limit = "ahead" /\ where' = [where EXCEPT ![i].limit = "past"]
    /\ UNCHANGED <<THREADS, CURRENT, handles, region, event, bare_mutex, rwlock, tls>>

-----------------------------------------------------------------------------
\* An entry, a stack and a TLS block, or nothing.
create ==
    /\ Running
    /\ \E i \in Indices :
         /\ THREADS[i].state = "Free" /\ \A j \in 0..i - 1 : THREADS[j].state # "Free"
         /\ region >= 2
         /\ THREADS' = [THREADS EXCEPT ![i] = Started(1)]
         /\ slots' = [slots EXCEPT ![i] = 0] /\ where' = [where EXCEPT ![i] = Runs]
         /\ handles' = handles \union {i} /\ region' = region - 2
    /\ UNCHANGED <<CURRENT, event, bare_mutex, rwlock, KEYS, generation>>

\* The destructor of a value may set the slot again; the sweep gives up in the end.
run_destructors(v, sets) == IF v # 0 /\ KEYS.used /\ KEYS.destructor /\ sets >= 4 THEN generation ELSE 0
\* Mutant: a stack is taken back while its thread runs on it.
reclaim_Always(thread) == TRUE
reclaim(thread) == thread.detached
\* A thread of the consumer's releases its locks before it returns.
pal_thread_main ==
    /\ Running /\ CURRENT # 0 /\ bare_mutex.owner # me /\ rwlock.writer # me /\ rwlock.held[me] = 0
    /\ \E sets \in {0, 4} :
         LET ended == [THREADS EXCEPT ![me] = [@ EXCEPT !.state = "Finished", !.reclaim = reclaim(THREADS[me])]]
         IN /\ THREADS' = reclaimed(ended) /\ region' = region + given(ended) /\ CURRENT' = next_live(ended)
            /\ slots' = [i \in Indices |-> IF goes(ended, i) THEN 0 ELSE IF i = me THEN run_destructors(slots[i], sets) ELSE slots[i]]
    /\ UNCHANGED <<where, handles, event, bare_mutex, rwlock, KEYS, generation>>

yield_now ==
    /\ Running /\ poll_again /\ UNCHANGED <<handles, event, bare_mutex, rwlock, KEYS, generation>>
sleep_ns ==
    /\ Running /\ waits("sleep", 0, "ahead")
    /\ UNCHANGED <<handles, event, bare_mutex, rwlock, KEYS, generation>>
sleep_poll ==
    /\ Poll("sleep") /\ IF expired THEN returns /\ stays ELSE poll_again
    /\ UNCHANGED <<handles, event, bare_mutex, rwlock, KEYS, generation>>

\* The memory of the joined thread goes with the join.
joined(i) == reclaim_finished([THREADS EXCEPT ![i].reclaim = TRUE]) /\ UNCHANGED CURRENT
\* A handle is joined or detached by the one who owns it.
join ==
    /\ Running
    /\ \E i \in handles \ {me} :
         /\ THREADS[i].state # "Free" /\ ~THREADS[i].detached
         /\ handles' = handles \ {i}
         /\ IF THREADS[i].state = "Finished" THEN joined(i) /\ UNCHANGED where ELSE waits("join", i, "none")
    /\ UNCHANGED <<event, bare_mutex, rwlock, KEYS, generation>>
join_poll ==
    /\ Poll("join")
    /\ LET i == where[me].about
       IN IF THREADS[i].state = "Finished" THEN returns /\ joined(i) ELSE poll_again
    /\ UNCHANGED <<handles, event, bare_mutex, rwlock, KEYS, generation>>
detach ==
    /\ Running
    /\ \E i \in handles :
         /\ handles' = handles \ {i}
         /\ LET ended == THREADS[i].state = "Finished"
                detached == [THREADS EXCEPT ![i] = [@ EXCEPT !.detached = TRUE, !.reclaim = ended]]
            IN IF ended THEN reclaim_finished(detached) ELSE THREADS' = detached /\ UNCHANGED <<region, slots>>
    /\ UNCHANGED <<CURRENT, where, event, bare_mutex, rwlock, KEYS, generation>>

-----------------------------------------------------------------------------
objects == <<handles, KEYS, generation>>
event_create ==
    /\ Running /\ ~event.used
    /\ \E manual \in BOOLEAN, set \in BOOLEAN : event' = [used |-> TRUE, manual |-> manual, signaled |-> set, waiters |-> 0]
    /\ stays /\ UNCHANGED <<where, bare_mutex, rwlock, objects>>
\* What else a free entry says is overwritten before anyone reads it.
event_destroy ==
    /\ Running /\ event.used /\ event.waiters = 0 /\ event' = [event EXCEPT !.used = FALSE]
    /\ stays /\ UNCHANGED <<where, bare_mutex, rwlock, objects>>
event_set ==
    /\ Running /\ event.used /\ event' = [event EXCEPT !.signaled = TRUE]
    /\ stays /\ UNCHANGED <<where, bare_mutex, rwlock, objects>>
event_reset ==
    /\ Running /\ event.used /\ event' = [event EXCEPT !.signaled = FALSE]
    /\ stays /\ UNCHANGED <<where, bare_mutex, rwlock, objects>>
\* Mutant: a wait leaves an auto-reset event set.
taken_Not(e) == e
\* An auto-reset event is consumed by the first who sees it.
taken(e) == [e EXCEPT !.signaled = e.manual]
event_wait ==
    /\ Running /\ event.used
    /\ IF event.signaled THEN event' = taken(event) /\ UNCHANGED where /\ stays
       ELSE event' = [event EXCEPT !.waiters = @ + 1] /\ \E limit \in {"none", "ahead"} : waits("wait", 0, limit)
    /\ UNCHANGED <<bare_mutex, rwlock, objects>>
wait_ends(e) == event' = [e EXCEPT !.waiters = @ - 1] /\ returns /\ stays
event_poll ==
    /\ Poll("wait")
    /\ IF event.signaled THEN wait_ends(taken(event))
       ELSE IF expired THEN wait_ends(event)
       ELSE poll_again /\ UNCHANGED event
    /\ UNCHANGED <<bare_mutex, rwlock, objects>>

mutex_create ==
    /\ Running /\ ~bare_mutex.used /\ \E recursive \in BOOLEAN : bare_mutex' = [FREE_MUTEX EXCEPT !.used = TRUE, !.recursive = recursive]
    /\ stays /\ UNCHANGED <<where, event, rwlock, objects>>
mutex_destroy ==
    /\ Running /\ bare_mutex.used /\ bare_mutex.users = 0 /\ bare_mutex' = [bare_mutex EXCEPT !.used = FALSE]
    /\ stays /\ UNCHANGED <<where, event, rwlock, objects>>
owned(m) == [m EXCEPT !.owner = me, !.depth = 1]
mutex_lock ==
    /\ Running /\ bare_mutex.used
    /\ LET used == [bare_mutex EXCEPT !.users = @ + 1]
       IN \/ /\ bare_mutex.owner = me /\ bare_mutex.recursive /\ bare_mutex.depth < DEPTH
             /\ bare_mutex' = [used EXCEPT !.depth = @ + 1] /\ UNCHANGED where /\ stays
          \/ bare_mutex.owner = NOBODY /\ bare_mutex' = owned(used) /\ UNCHANGED where /\ stays
          \/ bare_mutex.owner \notin {me, NOBODY} /\ bare_mutex' = used /\ waits("lock", 0, "none")
    /\ UNCHANGED <<event, rwlock, objects>>
mutex_poll ==
    /\ Poll("lock")
    /\ IF bare_mutex.owner = NOBODY THEN bare_mutex' = owned(bare_mutex) /\ returns /\ stays ELSE poll_again /\ UNCHANGED bare_mutex
    /\ UNCHANGED <<event, rwlock, objects>>
mutex_unlock ==
    /\ Running /\ bare_mutex.used /\ bare_mutex.owner = me
    /\ bare_mutex' = [bare_mutex EXCEPT !.depth = @ - 1, !.users = @ - 1, !.owner = IF bare_mutex.depth = 1 THEN NOBODY ELSE me]
    /\ stays /\ UNCHANGED <<where, event, rwlock, objects>>

rw_create ==
    /\ Running /\ ~rwlock.used /\ rwlock' = [FREE_RWLOCK EXCEPT !.used = TRUE]
    /\ stays /\ UNCHANGED <<where, event, bare_mutex, objects>>
rw_destroy ==
    /\ Running /\ rwlock.used /\ rwlock.writer = NOBODY /\ rwlock.readers = 0 /\ rwlock' = FREE_RWLOCK
    /\ stays /\ UNCHANGED <<where, event, bare_mutex, objects>>
\* A reader waits for a writer only; a writer for everybody.
rw_ready(op) == rwlock.writer = NOBODY /\ (op = "write" => rwlock.readers = 0)
rw_taken(op) ==
    IF op = "write" THEN [rwlock EXCEPT !.writer = me]
    ELSE [rwlock EXCEPT !.readers = @ + 1, !.held = [@ EXCEPT ![me] = @ + 1]]
rw_lock(op) ==
    /\ Running /\ rwlock.used /\ rwlock.held[me] < DEPTH
    /\ IF rw_ready(op) THEN rwlock' = rw_taken(op) /\ UNCHANGED where /\ stays
       ELSE waits(op, 0, "none") /\ UNCHANGED rwlock
    /\ UNCHANGED <<event, bare_mutex, objects>>
rw_poll(op) ==
    /\ Poll(op)
    /\ IF rw_ready(op) THEN rwlock' = rw_taken(op) /\ returns /\ stays ELSE poll_again /\ UNCHANGED rwlock
    /\ UNCHANGED <<event, bare_mutex, objects>>
read == rw_lock("read") \/ rw_poll("read")
write == rw_lock("write") \/ rw_poll("write")
rw_unlock ==
    /\ Running /\ rwlock.used
    /\ IF rwlock.writer = me THEN rwlock' = [rwlock EXCEPT !.writer = NOBODY]
       ELSE rwlock.held[me] # 0 /\ rwlock' = [rwlock EXCEPT !.readers = @ - 1, !.held = [@ EXCEPT ![me] = @ - 1]]
    /\ stays /\ UNCHANGED <<where, event, bare_mutex, objects>>

-----------------------------------------------------------------------------
\* Mutant: a new key finds the values of the earlier one.
cleared_Not == slots
\* A key made in the slot of an earlier one starts with no value in any thread.
cleared == [i \in Indices |-> 0]
tls_create ==
    /\ Running /\ ~KEYS.used /\ generation < GENERATIONS
    /\ \E destructor \in BOOLEAN : KEYS' = [used |-> TRUE, destructor |-> destructor]
    /\ generation' = generation + 1 /\ slots' = cleared
    /\ UNCHANGED <<sched, event, bare_mutex, rwlock>>
tls_destroy ==
    /\ Running /\ KEYS.used /\ KEYS' = NoKey
    /\ UNCHANGED <<sched, event, bare_mutex, rwlock, slots, generation>>
tls_set ==
    /\ Running /\ KEYS.used /\ \E v \in {0, generation} : slots' = [slots EXCEPT ![me] = v]
    /\ UNCHANGED <<sched, event, bare_mutex, rwlock, KEYS, generation>>

ThreadSteps == create \/ pal_thread_main \/ join \/ join_poll \/ detach \/ yield_now
SleepSteps == sleep_ns \/ sleep_poll
EventSteps == event_create \/ event_destroy \/ event_set \/ event_reset \/ event_wait \/ event_poll
MutexSteps == mutex_create \/ mutex_destroy \/ mutex_lock \/ mutex_poll \/ mutex_unlock
RwLockSteps == rw_create \/ rw_destroy \/ read \/ write \/ rw_unlock
KeySteps == tls_create \/ tls_destroy \/ tls_set
BareNext ==
    \/ ThreadSteps \/ SleepSteps \/ EventSteps \/ MutexSteps \/ RwLockSteps \/ KeySteps
    \/ \E i \in Indices : Tick(i)

\* A thread that waits polls, a deadline comes, and nobody keeps the CPU for ever:
\* the last is a rule the port puts on its consumers, having no means to take it.
Polls == join_poll \/ sleep_poll \/ event_poll \/ mutex_poll \/ rw_poll("read") \/ rw_poll("write")
Yields(i) == CURRENT = i /\ yield_now
BareFairness == WF_bare(Polls) /\ \A i \in Indices : WF_bare(Tick(i)) /\ WF_bare(Yields(i))
BareSpec == BareInit /\ [][BareNext]_bare /\ BareFairness

-----------------------------------------------------------------------------
Waiting(op) == {i \in Indices : where[i].op = op}
Held == Cardinality(Stacks(THREADS)) + Cardinality(Blocks(THREADS))

BareTypeOK ==
    /\ THREADS \in [Indices -> [state : {"Free", "Live", "Finished"}, detached : BOOLEAN, reclaim : BOOLEAN,
                                stack : 0..1, tls : 0..1]]
    /\ CURRENT \in Indices /\ handles \subseteq Indices /\ region \in 0..MEMORY
    /\ where \in [Indices -> [op : {"run", "sleep", "join", "wait", "lock", "read", "write"}, about : Indices, limit : {"none", "ahead", "past"}]]
    /\ event.waiters \in 0..MAX_THREADS /\ bare_mutex.owner \in Indices \union {NOBODY} /\ bare_mutex.users \in Nat
    /\ rwlock.writer \in Indices \union {NOBODY} /\ slots \in [Indices -> 0..GENERATIONS]

\* A stack and a TLS block belong to an entry or to the allocator, never to both
\* and never to neither; no thread that will run again has lost them; and no thread
\* finds in a slot the value a predecessor of its key, or of itself, left there
\* (`reclaim_finished`, `leave`, `join`, `detach`, `tls_create`, `run_destructors`).
StacksAreOwned ==
    /\ region + Held = MEMORY
    /\ \A i \in Indices :
         /\ (i = CURRENT \/ where[i].op # "run") => THREADS[i].state = "Live"
         /\ THREADS[i].state # "Free" => THREADS[i].tls = 1 /\ (i # 0 => THREADS[i].stack = 1)
         /\ where[i].op = "join" => LET j == THREADS[where[i].about] IN j.state # "Free" /\ ~j.detached
         /\ KEYS.used => slots[i] \in {0, generation}

AbstractEvent == INSTANCE Events WITH Threads <- Indices, exists <- event.used, manual <- event.manual, signaled <- event.signaled,
    waiting <- Waiting("wait"), limited <- {i \in Waiting("wait") : where[i].limit # "none"}
AbstractMutex == INSTANCE Mutexes WITH Threads <- Indices, NoThread <- NOBODY, exists <- bare_mutex.used, recursive <- bare_mutex.recursive,
    holder <- bare_mutex.owner, depth <- bare_mutex.depth

\* The events and mutexes of the port keep what the boundary promises of them.
ImplementsTheBoundary == AbstractEvent!SafeSpec /\ AbstractMutex!SafeSpec

\* Polling loses nobody: a join of a finished thread returns, a set event is
\* consumed by those who wait for it, and a limited wait ends (`block_until`).
PollsEnd ==
    /\ \A i \in Indices : []<>~(where[i].op = "join" /\ THREADS[where[i].about].state = "Finished")
    /\ \A i \in Indices : []<>~(where[i].op = "wait" /\ where[i].limit # "none")
    /\ []<>~(event.signaled /\ Waiting("wait") # {})
=============================================================================
