-------------------------- MODULE LowLevelMonitor ---------------------------
(***************************************************************************)
(* SystemNative_LowLevelMonitor_*: the monitor the BCL's thread pool and   *)
(* wait subsystem are built on, made of one boundary mutex, a queue of     *)
(* waiters, and one auto-reset event per thread that every wait of that    *)
(* thread uses, on whatever monitor.                                       *)
(*                                                                         *)
(* What a wait and a signal do to the queue they do with the monitor held; *)
(* what can go wrong is between: a wait times out while it is signalled,   *)
(* an event keeps a wake-up its wait did not take, two threads create the  *)
(* slot the events are kept in.  The mutex and the events are used through *)
(* the boundary, so they behave as Mutexes and Events say, and the run     *)
(* checks that this module uses them within those contracts.               *)
(***************************************************************************)
EXTENDS Integers, Sequences, Functions

CONSTANTS Threads, Monitors, NoThread

ASSUME NoThreadIsNone == NoThread \notin Threads

VARIABLES
    exists,       \* exists[m]: the monitor is live
    holder,       \* holder[m]: the thread that holds its mutex
    queue,        \* queue[m]: the waiters, oldest first (head .. tail)
    waiter_slot,  \* the TLS slot of the events: the thread that created it
    tls,          \* tls[t]: the slots in which t has an event
    event,        \* event[t]: t's event is set
    signaled,     \* signaled[t]: the `signaled` of t's Waiter
    status,       \* status[t]: what t's event_wait returned
    timeout,      \* timeout[t]: "INFINITE", "finite" or "zero"
    mon,          \* mon[t]: the monitor t is using
    pc,           \* pc[t]: see Places
    answer        \* what the last wait to return returned

vars == <<exists, holder, queue, waiter_slot, tls, event, signaled, status,
          timeout, mon, pc, answer>>

Places == {"exited", "outside", "held", "slot_create", "slot_get", "enqueue",
           "event_wait", "reacquire", "release"}

Timeouts == {"INFINITE", "finite", "zero"}

Init ==
    /\ exists = [m \in Monitors |-> FALSE]
    /\ holder = [m \in Monitors |-> NoThread]
    /\ queue = [m \in Monitors |-> <<>>]
    /\ waiter_slot = NoThread
    /\ tls = [t \in Threads |-> {}]
    /\ event = [t \in Threads |-> FALSE]
    /\ signaled = [t \in Threads |-> FALSE]
    /\ status = [t \in Threads |-> "OK"]
    /\ timeout = [t \in Threads |-> "INFINITE"]
    /\ mon \in [Threads -> Monitors]
    /\ pc = [t \in Threads |-> "outside"]
    /\ answer = 0

Goto(t, place) == pc' = [pc EXCEPT ![t] = place]

waits == <<waiter_slot, tls, event, signaled, status, timeout, answer>>

Create(t, m) ==
    /\ pc[t] = "outside"
    /\ ~exists[m]
    /\ exists' = [exists EXCEPT ![m] = TRUE]
    /\ UNCHANGED <<holder, queue, waits, mon, pc>>

\* The caller's part of the contract: nobody uses a monitor that is destroyed.
Destroy(t, m) ==
    /\ pc[t] = "outside"
    /\ exists[m]
    /\ \A u \in Threads : mon[u] = m => pc[u] \in {"outside", "exited"}
    /\ exists' = [exists EXCEPT ![m] = FALSE]
    /\ UNCHANGED <<holder, queue, waits, mon, pc>>

Acquire(t, m) ==
    /\ pc[t] = "outside"
    /\ exists[m]
    /\ holder[m] = NoThread
    /\ holder' = [holder EXCEPT ![m] = t]
    /\ mon' = [mon EXCEPT ![t] = m]
    /\ Goto(t, "held")
    /\ UNCHANGED <<exists, queue, waits>>

Unlock(t) == holder' = [holder EXCEPT ![mon[t]] = NoThread]

\* Release, and the end of Signal_Release.
Release(t) ==
    /\ pc[t] \in {"held", "release"}
    /\ Unlock(t)
    /\ Goto(t, "outside")
    /\ UNCHANGED <<exists, queue, waits, mon>>

-----------------------------------------------------------------------------
Wait(t, ns) ==
    /\ pc[t] = "held"
    /\ timeout' = [timeout EXCEPT ![t] = ns]
    /\ Goto(t, IF waiter_slot = NoThread THEN "slot_create" ELSE "slot_get")
    /\ UNCHANGED <<exists, holder, queue, waiter_slot, tls, event, signaled,
                   status, mon, answer>>

\* The compare-and-swap: the loser destroys its slot and uses the winner's.
publish_slot(t) ==
    /\ pc[t] = "slot_create"
    /\ waiter_slot' = IF waiter_slot = NoThread THEN t ELSE waiter_slot
    /\ Goto(t, "slot_get")
    /\ UNCHANGED <<exists, holder, queue, tls, event, signaled, status, timeout,
                   mon, answer>>

\* tls_get finds the thread's event, or the thread creates one, unset.
get_event(t) ==
    /\ pc[t] = "slot_get"
    /\ IF waiter_slot \in tls[t]
       THEN UNCHANGED <<tls, event>>
       ELSE /\ tls' = [tls EXCEPT ![t] = @ \union {waiter_slot}]
            /\ event' = [event EXCEPT ![t] = FALSE]
    /\ Goto(t, "enqueue")
    /\ UNCHANGED <<exists, holder, queue, waiter_slot, signaled, status, timeout,
                   mon, answer>>

\* The waiter is appended to the queue and the monitor is released.
enqueue(t) ==
    /\ pc[t] = "enqueue"
    /\ queue' = [queue EXCEPT ![mon[t]] = Append(@, t)]
    /\ signaled' = [signaled EXCEPT ![t] = FALSE]
    /\ Unlock(t)
    /\ Goto(t, "event_wait")
    /\ UNCHANGED <<exists, waiter_slot, tls, event, status, timeout, mon, answer>>

event_wait(t) ==
    /\ pc[t] = "event_wait"
    /\ \/ /\ event[t]
          /\ event' = [event EXCEPT ![t] = FALSE]
          /\ status' = [status EXCEPT ![t] = "OK"]
       \/ /\ ~event[t]
          /\ timeout[t] # "INFINITE"
          /\ status' = [status EXCEPT ![t] = "TIMEOUT"]
          /\ UNCHANGED event
    /\ Goto(t, "reacquire")
    /\ UNCHANGED <<exists, holder, queue, waiter_slot, tls, signaled, timeout,
                   mon, answer>>

\* The walk along the links to the waiter, which the link before it then skips.
unlink(q, t) ==
    LET places == {i \in DOMAIN q : q[i] = t}
        first == CHOOSE i \in places : \A j \in places : i <= j
    IN  IF places = {} THEN q
        ELSE [j \in 1 .. Len(q) - 1 |-> IF j < first THEN q[j] ELSE q[j + 1]]

\* Back from the wait with the monitor held; the Waiter was a local.
Return(t, value) ==
    /\ answer' = value
    /\ signaled' = [signaled EXCEPT ![t] = FALSE]
    /\ status' = [status EXCEPT ![t] = "OK"]
    /\ timeout' = [timeout EXCEPT ![t] = "INFINITE"]
    /\ Goto(t, "held")

\* Mutant: a wait that timed out while it was signalled leaves its event set.
reacquire_KeepsEvent(t) ==
    /\ pc[t] = "reacquire"
    /\ holder[mon[t]] = NoThread
    /\ holder' = [holder EXCEPT ![mon[t]] = t]
    /\ queue' = [queue EXCEPT ![mon[t]] = unlink(@, t)]
    /\ Return(t, IF signaled[t] THEN 1 ELSE 0)
    /\ UNCHANGED <<exists, waiter_slot, tls, event, mon>>

\* Mutant: a wait that timed out does not unlink itself.
reacquire_StaysQueued(t) ==
    /\ pc[t] = "reacquire"
    /\ holder[mon[t]] = NoThread
    /\ holder' = [holder EXCEPT ![mon[t]] = t]
    /\ event' = [event EXCEPT ![t] = IF signaled[t] THEN FALSE ELSE @]
    /\ Return(t, IF signaled[t] THEN 1 ELSE 0)
    /\ UNCHANGED <<exists, queue, waiter_slot, tls, mon>>

\* The rest of monitor_wait, with the monitor held again.  A signalled waiter
\* whose event_wait timed out takes the event now; an unsignalled one unlinks
\* itself from the queue.
reacquire(t) ==
    /\ pc[t] = "reacquire"
    /\ holder[mon[t]] = NoThread
    /\ holder' = [holder EXCEPT ![mon[t]] = t]
    /\ IF signaled[t]
       THEN /\ event' = [event EXCEPT ![t] = IF status[t] # "OK" THEN FALSE ELSE @]
            /\ Return(t, 1)
            /\ UNCHANGED queue
       ELSE /\ queue' = [queue EXCEPT ![mon[t]] = unlink(@, t)]
            /\ Return(t, 0)
            /\ UNCHANGED event
    /\ UNCHANGED <<exists, waiter_slot, tls, mon>>

-----------------------------------------------------------------------------
\* Mutant: the signal takes the waiter off the queue and does not set its event.
Signal_Silently(t) ==
    /\ pc[t] = "held"
    /\ queue[mon[t]] # <<>>
    /\ queue' = [queue EXCEPT ![mon[t]] = Tail(@)]
    /\ signaled' = [signaled EXCEPT ![Head(queue[mon[t]])] = TRUE]
    /\ Goto(t, "release")
    /\ UNCHANGED <<exists, holder, waiter_slot, tls, event, status, timeout, mon, answer>>

\* Signal_Release up to its Release: the oldest waiter is taken off the queue,
\* marked, and woken.
Signal(t) ==
    /\ pc[t] = "held"
    /\ LET m == mon[t] IN
       IF queue[m] = <<>>
       THEN UNCHANGED <<queue, signaled, event>>
       ELSE /\ queue' = [queue EXCEPT ![m] = Tail(@)]
            /\ signaled' = [signaled EXCEPT ![Head(queue[m])] = TRUE]
            /\ event' = [event EXCEPT ![Head(queue[m])] = TRUE]
    /\ Goto(t, "release")
    /\ UNCHANGED <<exists, holder, waiter_slot, tls, status, timeout, mon, answer>>

\* A thread that ends releases its event (the slot's destructor), and another
\* one is started in its place.
Exit(t) ==
    /\ pc[t] = "outside"
    /\ tls' = [tls EXCEPT ![t] = {}]
    /\ Goto(t, "exited")
    /\ UNCHANGED <<exists, holder, queue, waiter_slot, event, signaled, status,
                   timeout, mon, answer>>

Start(t) ==
    /\ pc[t] = "exited"
    /\ Goto(t, "outside")
    /\ UNCHANGED <<exists, holder, queue, waits, mon>>

Next ==
    \E t \in Threads :
        \/ \E m \in Monitors : Create(t, m) \/ Destroy(t, m) \/ Acquire(t, m)
        \/ Release(t)
        \/ \E ns \in Timeouts : Wait(t, ns)
        \/ publish_slot(t)
        \/ get_event(t)
        \/ enqueue(t)
        \/ event_wait(t)
        \/ reacquire(t)
        \/ Signal(t)
        \/ Exit(t)
        \/ Start(t)

\* A thread in the middle of a call goes on with it, a thread that holds the
\* monitor gives it back (clients hold it for a few instructions), time passes,
\* and the mutex starves no thread that keeps asking for it.
Fairness ==
    \A t \in Threads :
        /\ WF_vars(Release(t))
        /\ WF_vars(publish_slot(t))
        /\ WF_vars(get_event(t))
        /\ WF_vars(enqueue(t))
        /\ WF_vars(event_wait(t))
        /\ SF_vars(reacquire(t))

Spec == Init /\ [][Next]_vars /\ Fairness

-----------------------------------------------------------------------------
Waiting(t) == pc[t] \in {"event_wait", "reacquire"}
Inside(t) == pc[t] \in {"held", "slot_create", "slot_get", "enqueue", "release"}

\* Every field keeps its type.
TypeOK ==
    /\ exists \in [Monitors -> BOOLEAN]
    /\ holder \in [Monitors -> Threads \union {NoThread}]
    /\ queue \in [Monitors -> Seq(Threads)]
    /\ waiter_slot \in Threads \union {NoThread}
    /\ tls \in [Threads -> SUBSET Threads]
    /\ event \in [Threads -> BOOLEAN]
    /\ signaled \in [Threads -> BOOLEAN]
    /\ status \in [Threads -> {"OK", "TIMEOUT"}]
    /\ timeout \in [Threads -> Timeouts]
    /\ mon \in [Threads -> Monitors]
    /\ pc \in [Threads -> Places]
    /\ answer \in {0, 1}

\* A queue links exactly the waiters that still wait for a signal on that
\* monitor, each once: it never links the stack of a thread that has returned.
QueueHoldsWaiters ==
    /\ TypeOK
    /\ \A m \in Monitors :
        /\ IsInjective(queue[m])
        /\ Range(queue[m]) = {t \in Threads : mon[t] = m /\ Waiting(t) /\ ~signaled[t]}

\* No wake-up is lost, spurious or left over: the queues are as above; an event is
\* set only for a waiter that a signal chose and that has not returned, and it is
\* set as long as that waiter sleeps; a wait without a limit comes back only when
\* signalled; a thread has one event however the threads race for the slot; and a
\* wait answers 1 if and only if a signal took its waiter off the queue, even if
\* its time was up (`monitor_wait`, `thread_event`, `Signal_Release`).
WakeupsAreExact ==
    /\ []QueueHoldsWaiters
    /\ [](\A t \in Threads :
             /\ event[t] => Waiting(t) /\ signaled[t]
             /\ pc[t] = "event_wait" /\ signaled[t] => event[t]
             /\ pc[t] = "reacquire" /\ timeout[t] = "INFINITE" => signaled[t]
             /\ tls[t] \subseteq {waiter_slot})
    /\ [][\A t \in Threads :
             pc[t] = "reacquire" /\ pc'[t] = "held" =>
                 (answer' = 1 <=> t \notin Range(queue[mon[t]]))]_vars

EventOf(t) == INSTANCE Events
    WITH exists <- tls[t] # {}, manual <- FALSE, signaled <- event[t],
         waiting <- {u \in {t} : pc[t] = "event_wait"},
         limited <- {u \in {t} : pc[t] = "event_wait" /\ timeout[t] # "INFINITE"}

MutexOf(m) == INSTANCE Mutexes
    WITH exists <- exists[m], recursive <- FALSE, holder <- holder[m],
         depth <- IF holder[m] = NoThread THEN 0 ELSE 1

\* The monitor uses its events and its mutexes as the boundary's contracts
\* allow: an event is destroyed only when no thread waits for it, a mutex is
\* given back only by its holder.
BoundaryContracts ==
    /\ \A t \in Threads : EventOf(t)!Init
    /\ \A m \in Monitors : MutexOf(m)!Init
    /\ [][/\ \A t \in Threads : [EventOf(t)!Next]_(EventOf(t)!vars)
          /\ \A m \in Monitors : [MutexOf(m)!Next]_(MutexOf(m)!vars)]_vars

\* A thread that a signal chose returns from its wait, and so does a thread whose
\* wait has a limit.
WaitsReturn ==
    \A t \in Threads :
        (Waiting(t) /\ (signaled[t] \/ timeout[t] # "INFINITE")) ~> (pc[t] = "held")

-----------------------------------------------------------------------------
\* Scenarios: three threads on one monitor, or two threads on two.  A behaviour has
\* those threads and monitors outside `absent`.
CONSTANT Absent   \* the sets of threads and monitors that take no part

VARIABLE absent

ScenarioInit ==
    /\ Init
    /\ absent \in Absent
    /\ \A t \in Threads : mon[t] \notin absent /\ (\A u \in Threads : mon[t] = mon[u])

ScenarioNext ==
    /\ Next
    /\ \A t \in Threads \intersect absent : pc'[t] = pc[t]
    /\ \A m \in Monitors \intersect absent : exists'[m] = exists[m]
    /\ UNCHANGED absent

ScenarioSpec == ScenarioInit /\ [][ScenarioNext]_<<vars, absent>> /\ Fairness
=============================================================================
