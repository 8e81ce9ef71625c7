----------------------------- MODULE LinuxSlots -----------------------------
(***************************************************************************)
(* Words of the Linux provider that whoever comes first fills for the whole*)
(* process, and what hangs on them: the mode of the barrier and the slots of*)
(* the context group (linux.rs), and the eventfds of the wake channels     *)
(* (linux_sockets.rs).                                                     *)
(***************************************************************************)
EXTENDS Integers, FiniteSets, Functions

-----------------------------------------------------------------------------
\* The process-wide barrier: what membarrier can do is asked by whoever needs it
\* first, and kept.  The registration may fail for one thread and not for another.
CONSTANT Askers

VARIABLES
    commands,      \* what the kernel answers to QUERY; {} is also an error
    registered,    \* has REGISTER_PRIVATE_EXPEDITED succeeded
    mode,          \* BARRIER_MODE
    step, own,     \* where each thread is, and the mode it has found
    modes, failed  \* history: the modes callers were told, and a command the kernel refused

barrier_vars == <<commands, registered, mode, step, own, modes, failed>>

unknown == 0
unavailable == 1
private == 2
global == 3

BarrierInit ==
    /\ commands \in {{}, {"GLOBAL"}, {"PRIVATE"}, {"GLOBAL", "PRIVATE"}}
    /\ registered = FALSE /\ mode = unknown
    /\ step = [t \in Askers |-> "load"] /\ own = [t \in Askers |-> unknown]
    /\ modes = {} /\ failed = FALSE

Has(t, found, to) == own' = [own EXCEPT ![t] = found] /\ step' = [step EXCEPT ![t] = to]
Without == IF "GLOBAL" \in commands THEN global ELSE unavailable

\* barrier_mode: the load, QUERY, REGISTER_PRIVATE_EXPEDITED, and the exchange.
load(t) ==
    /\ step[t] = "load"
    /\ Has(t, mode, IF mode = unknown THEN "query" ELSE "use")
    /\ UNCHANGED <<commands, registered, mode, modes, failed>>

query(t) ==
    /\ step[t] = "query"
    /\ IF "PRIVATE" \in commands THEN Has(t, unknown, "register") ELSE Has(t, Without, "exchange")
    /\ UNCHANGED <<commands, registered, mode, modes, failed>>

register(t) ==
    /\ step[t] = "register"
    /\ \/ registered' = TRUE /\ Has(t, private, "exchange")
       \/ UNCHANGED registered /\ Has(t, Without, "exchange")
    /\ UNCHANGED <<commands, mode, modes, failed>>

\* Mutant: who comes second has it its own way.
exchange_Last(current, found) == found
exchange(current, found) == IF current = unknown THEN found ELSE current

settle(t) ==
    /\ step[t] = "exchange"
    /\ mode' = exchange(mode, own[t])
    /\ Has(t, mode', "use")
    /\ UNCHANGED <<commands, registered, modes, failed>>

\* available tells the caller the mode, and barrier gives the command of it.
barrier(t) ==
    /\ step[t] = "use"
    /\ modes' = modes \union {own[t]}
    /\ failed' = (failed \/ ~ CASE own[t] = private -> "PRIVATE" \in commands /\ registered
                               [] own[t] = global -> "GLOBAL" \in commands
                               [] OTHER -> TRUE)
    /\ Has(t, own[t], "load")
    /\ UNCHANGED <<commands, registered, mode>>

BarrierNext == \E t \in Askers : load(t) \/ query(t) \/ register(t) \/ settle(t) \/ barrier(t)

-----------------------------------------------------------------------------
\* Whichever thread settles it, all callers are told the same for as long as the
\* process lives, and the command that goes with it is one the kernel has and the
\* process is registered for: a barrier that is "available" works (barrier_mode).
BarriersWork == Cardinality(modes) <= 1 /\ unknown \notin modes /\ ~failed

-----------------------------------------------------------------------------
\* A slot of the context provider: the callback of one signal, installed once for
\* the life of the process, and the signals that arrive meanwhile.  A callback and
\* its data are named by who gave them.
CONSTANTS Installers, Takers, None

ASSUME NoneIsNothing == None \notin Installers \union {"earlier", "trampoline"}

VARIABLES
    claimed, signal, callback, data,   \* Slot; signal: is the number stored
    action,                            \* the kernel's action of the signal
    previous,                          \* what each installer was given back
    stage, phase,                      \* where each installer is, and each thread in the trampoline
    called                             \* the callback each of these has loaded, and its data

context_vars == <<claimed, signal, callback, data, action, previous, stage, phase, called>>
slot_vars == <<claimed, signal, callback, data>>
taker_vars == <<phase, called>>

NoCall == [callback |-> None, data |-> None]

ContextInit ==
    /\ claimed = FALSE /\ signal = FALSE /\ callback = None /\ data = None
    /\ action = "earlier"
    /\ previous = [i \in Installers |-> None]
    /\ stage = [i \in Installers |-> "idle"]
    /\ phase = [t \in Takers |-> "idle"] /\ called = [t \in Takers |-> NoCall]

Moves(i, from, to) == stage[i] = from /\ stage' = [stage EXCEPT ![i] = to]

\* install, store by store.  A slot that is claimed refuses it.
claim(i) ==
    /\ Moves(i, "idle", IF claimed THEN "idle" ELSE "save")
    /\ claimed' = TRUE
    /\ UNCHANGED <<signal, callback, data, action, previous, taker_vars>>

\* The action in place is handed out "BEFORE enabling the callback".  An error, and
\* a trampoline that is there already, give the slot back.
save(i) ==
    /\ \/ /\ previous' = [previous EXCEPT ![i] = action]
          /\ IF action = "trampoline" THEN Moves(i, "save", "idle") /\ claimed' = FALSE
             ELSE Moves(i, "save", "data") /\ UNCHANGED claimed
       \/ Moves(i, "save", "idle") /\ claimed' = FALSE /\ UNCHANGED previous
    /\ UNCHANGED <<signal, callback, data, action, taker_vars>>

store_data(i) ==
    /\ Moves(i, "data", "callback")
    /\ data' = i
    /\ UNCHANGED <<claimed, signal, callback, action, previous, taker_vars>>

store_callback(i) ==
    /\ Moves(i, "callback", "signal")
    /\ callback' = i
    /\ UNCHANGED <<claimed, signal, data, action, previous, taker_vars>>

store_signal(i) ==
    /\ Moves(i, "signal", "enable")
    /\ signal' = TRUE
    /\ UNCHANGED <<claimed, callback, data, action, previous, taker_vars>>

enable(i) ==
    /\ \/ Moves(i, "enable", "installed") /\ action' = "trampoline"
       \/ Moves(i, "enable", "undo_signal") /\ UNCHANGED action
    /\ UNCHANGED <<slot_vars, previous, taker_vars>>

\* The stores that undo an install the kernel refused.
undo(i) ==
    /\ \/ Moves(i, "undo_signal", "undo_callback") /\ signal' = FALSE /\ UNCHANGED <<callback, claimed>>
       \/ Moves(i, "undo_callback", "undo_claim") /\ callback' = None /\ UNCHANGED <<signal, claimed>>
       \/ Moves(i, "undo_claim", "idle") /\ claimed' = FALSE /\ UNCHANGED <<signal, callback>>
    /\ UNCHANGED <<data, action, previous, taker_vars>>

\* Mutant: a slot that was restored may be installed again.
kept_Never(was) == FALSE
kept(was) == was

\* restore, by the installer and with what it was given; "restoration does not make
\* the slot reusable".
restore(i) ==
    /\ claimed
    /\ \/ Moves(i, "installed", "restored") /\ action' = previous[i]
       \/ Moves(i, "installed", "installed") /\ UNCHANGED action
    /\ claimed' = kept(claimed)
    /\ UNCHANGED <<signal, callback, data, previous, taker_vars>>

\* trampoline, load by load, on whatever thread took the signal.
Enters(t, from, to) == phase[t] = from /\ phase' = [phase EXCEPT ![t] = to]

arrive(t) ==
    /\ action = "trampoline"
    /\ Enters(t, "idle", IF signal THEN "callback" ELSE "idle")
    /\ UNCHANGED <<slot_vars, action, previous, stage, called>>

load_callback(t) ==
    /\ Enters(t, "callback", IF callback = None THEN "idle" ELSE "data")
    /\ called' = [called EXCEPT ![t].callback = callback]
    /\ UNCHANGED <<slot_vars, action, previous, stage>>

load_data(t) ==
    /\ Enters(t, "data", "inside")
    /\ called' = [called EXCEPT ![t].data = data]
    /\ UNCHANGED <<slot_vars, action, previous, stage>>

leave(t) ==
    /\ Enters(t, "inside", "idle")
    /\ called' = [called EXCEPT ![t] = NoCall]
    /\ UNCHANGED <<slot_vars, action, previous, stage>>

ContextNext ==
    \/ \E i \in Installers :
          \/ claim(i) \/ save(i) \/ store_data(i) \/ store_callback(i) \/ store_signal(i)
          \/ enable(i) \/ undo(i) \/ restore(i)
    \/ \E t \in Takers : arrive(t) \/ load_callback(t) \/ load_data(t) \/ leave(t)

-----------------------------------------------------------------------------
\* A callback runs with the data it was installed with and finds the earlier action
\* already saved (`install`: "it may run immediately"); a signal never comes to a
\* trampoline without a callback, no installer is told that the trampoline was the
\* action before it, and once restored the earlier action is back.
CallbacksAreWhole ==
    /\ \A t \in Takers : phase[t] = "inside" =>
          called[t].callback = called[t].data /\ previous[called[t].data] = "earlier"
    /\ action = "trampoline" => signal /\ callback # None
    /\ \A i \in Installers :
          /\ previous[i] # "trampoline"
          /\ stage[i] = "restored" => action = "earlier"

-----------------------------------------------------------------------------
\* A wake channel: an eventfd that the first poll or wake makes, the poll that
\* waits on it with its sockets, and the wakes of other threads.  The sockets are
\* ready, or not, as they like.
CONSTANTS
    Poller,        \* "At most one poll at a time names a given channel"
    Wakers,
    CounterMax     \* what an eventfd holds at most: u64::MAX - 1

ASSUME PollerWakesNobody == Poller \notin Wakers
ASSUME CounterHolds == CounterMax \in Nat \ {0}

VARIABLES
    slot,          \* WAKE[channel]
    counters,      \* the open eventfds and their counters
    where, fd,     \* where each thread is, and the descriptor it has
    revents,       \* did ppoll say POLLIN of the eventfd
    owed           \* history: a wake has been made and no poll was woken since

wake_vars == <<slot, counters, where, fd, revents, owed>>

Callers == {Poller} \union Wakers
\* One more than the callers, so that a number is free.
Numbers == 1 .. Cardinality(Callers) + 1
Lasts == {"timed", "forever"}

NoFd == -1

WakeInit ==
    /\ slot = NoFd /\ counters = <<>>
    /\ where = [t \in Callers |-> "idle"] /\ fd = [t \in Callers |-> NoFd]
    /\ revents = FALSE /\ owed = FALSE

Goes(t, to) == where' = [where EXCEPT ![t] = to]
Loaded == IF slot = NoFd THEN "create" ELSE "has"

\* wake_descriptor, in the three steps another thread can come between.
wake_load(t) ==
    /\ where[t] = "idle"
    /\ Goes(t, Loaded)
    /\ fd' = [fd EXCEPT ![t] = slot]
    /\ UNCHANGED <<slot, counters, revents, owed>>

eventfd(t) ==
    /\ where[t] = "create"
    /\ \/ \E new \in Numbers \ DOMAIN counters :
             /\ counters' = [f \in DOMAIN counters \union {new} |-> IF f = new THEN 0 ELSE counters[f]]
             /\ fd' = [fd EXCEPT ![t] = new]
             /\ Goes(t, "publish")
       \/ Goes(t, "idle") /\ UNCHANGED <<counters, fd>>
    /\ UNCHANGED <<slot, revents, owed>>

\* Mutant: who comes second replaces the descriptor of the first.
published_Last(current, created) == created
\* The compare_exchange, for the descriptor that is then in the slot.
published(current, created) == IF current = NoFd THEN created ELSE current

publish(t) ==
    /\ where[t] = "publish"
    /\ slot' = published(slot, fd[t])
    /\ fd' = [fd EXCEPT ![t] = slot']
    /\ counters' = IF slot' = fd[t] THEN counters ELSE Restrict(counters, DOMAIN counters \ {fd[t]})
    /\ Goes(t, "has")
    /\ UNCHANGED <<revents, owed>>

\* The write of wake; EAGAIN of a full counter is as good.
wake(t) ==
    /\ t \in Wakers /\ where[t] = "has"
    /\ counters' = [f \in DOMAIN counters |->
                       IF f = fd[t] /\ counters[f] < CounterMax THEN counters[f] + 1 ELSE counters[f]]
    /\ owed' = TRUE
    /\ Goes(t, "idle")
    /\ UNCHANGED <<slot, fd, revents>>

Readable == counters[fd[Poller]] > 0

\* poll has its descriptor and begins to wait, or has no memory for its set.
poll(last) ==
    /\ where[Poller] = "has"
    /\ Goes(Poller, last)
    /\ UNCHANGED <<slot, counters, fd, revents, owed>>

\* ppoll returns: for the eventfd, for a socket, for the time that is up, or fails.
ppoll ==
    /\ where[Poller] \in Lasts
    /\ \/ revents' = Readable /\ Goes(Poller, "drain")
       \/ UNCHANGED revents /\ Goes(Poller, "idle")
    /\ UNCHANGED <<slot, counters, fd, owed>>

\* Mutant: every poll drains the channel.
drains_Always(pollin) == TRUE
drains(pollin) == pollin

\* The rest of wait: "One read takes every wake so far."
drain ==
    /\ where[Poller] = "drain"
    /\ counters' = IF drains(revents) THEN [counters EXCEPT ![fd[Poller]] = 0] ELSE counters
    /\ owed' = (owed /\ ~revents)
    /\ Goes(Poller, "idle")
    /\ UNCHANGED <<slot, fd, revents>>

WakeNext ==
    \/ \E t \in Callers : wake_load(t) \/ eventfd(t) \/ publish(t) \/ wake(t)
    \/ \E last \in Lasts \union {"idle"} : poll(last)
    \/ ppoll \/ drain

\* The poll runs on, and ppoll returns when the channel is readable.
WakeStep == drain \/ (where[Poller] \in Lasts /\ Readable /\ ppoll)

-----------------------------------------------------------------------------
\* "a wake with no poll in progress reach[es] the channel's next poll": as long as
\* no poll was woken since, the eventfd of the channel is readable, whoever made it
\* (wake_descriptor), and the loser of that race leaves no descriptor open.
WakesAreKept ==
    /\ owed => slot # NoFd /\ counters[slot] > 0
    /\ DOMAIN counters = ({slot} \ {NoFd}) \union {fd[t] : t \in {u \in Callers : where[u] = "publish"}}

\* A poll does not wait on while a wake is owed to it (`wait`).
WakesEnd == []<>~(where[Poller] \in Lasts /\ owed)
=============================================================================
