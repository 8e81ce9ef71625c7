------------------------------ MODULE EventPort ------------------------------
(* The socket event port of System.Native (system_native_net.c): it turns the   *)
(* level-triggered poll of the boundary into the edges the socket engine of the *)
(* BCL works with.  One thread of the engine waits on the port; others register *)
(* sockets and child pipes, read them until they would block, and close them.   *)
(* The objects are those of Descriptors and a section under the table lock is   *)
(* one step.  A port of a boundary without sockets sleeps on an event of its    *)
(* own, which is a channel here.  The poll and the memory of the snapshot do    *)
(* not fail.                                                                    *)
EXTENDS TLC, Descriptors

CONSTANTS
    Waiters, Clients, Readers,          \* the threads, by what they do
    Ports, Pipes,                       \* the other objects of Descriptors
    Channels,                           \* DOTNET_PAL_POLL_CHANNELS
    Room,                               \* *count: events one wait can carry
    Raised                              \* the conditions the boundary raises

Directions == {"READ", "WRITE"}
Failures == {"ERROR", "HANGUP"}

ASSUME EventPortAssumption ==
    /\ Threads = Waiters \union Clients \union Readers
    /\ Others = Ports \union Pipes
    /\ Streams = {} /\ Files = {} /\ Watches = {}
    /\ IsFiniteSet(Sockets)
    /\ Room \in Nat \ {0}
    /\ Raised \subseteq Directions \union Failures
    /\ NULL \notin Channels

VARIABLES
    channel,       \* channel[p], or NULL
    waiting,       \* the ports with a waiter
    port,          \* port[o]: the port o is registered with, or NULL
    events,        \* port_events: the directions the engine asked for
    reported,      \* port_reported: delivered and not re-armed since
    watched,       \* the pipes that have a reader
    entries,       \* entries[p]: the snapshot of the waiter
    produced,      \* produced[p]: the events of this wait
    target,        \* target[t]: the port t is about to wake
    level,         \* what the boundary would say of o now
    pending        \* the channels with a wake that no poll has taken

registration == <<port, events, reported>>
waiter == <<waiting, entries, produced>>
boundary == <<level, pending>>
port_vars == <<objects, op, channel, registration, watched, waiter, target, boundary>>

PortInit ==
    /\ DescriptorsInit
    /\ channel = [p \in Ports |-> NULL]
    /\ waiting = {}
    /\ port = [o \in Objects |-> NULL]
    /\ events = [o \in Objects |-> {}]
    /\ reported = [o \in Objects |-> {}]
    /\ watched = {}
    /\ entries = [p \in Ports |-> <<>>]
    /\ produced = [p \in Ports |-> 0]
    /\ target = [t \in Threads |-> NULL]
    /\ level = [o \in Objects |-> {}]
    /\ pending = {}

At(t, call) == op[t] = call /\ doomed[t] = NULL
Unlink(S) ==
    /\ port' = [o \in Objects |-> IF o \in S THEN NULL ELSE port[o]]
    /\ events' = [o \in Objects |-> IF o \in S THEN {} ELSE events[o]]
    /\ reported' = [o \in Objects |-> IF o \in S THEN {} ELSE reported[o]]

-----------------------------------------------------------------------------
\* Making objects.  A port takes a free channel, or is dropped again.
CreateSocketEventPort(t) ==
    /\ At(t, "none")
    /\ \E p \in Ports : sn_new(t, p)
    /\ Goto(t, "channel")
    /\ UNCHANGED <<channel, registration, watched, waiter, target, boundary>>

channels_in_use == {channel[p] : p \in Ports}

TakeChannel(t) ==
    LET p == Latest(t) IN
    /\ At(t, "channel")
    /\ \/ /\ \E c \in Channels \ channels_in_use : channel' = [channel EXCEPT ![p] = c]
          /\ Goto(t, "open")
          /\ UNCHANGED objects
       \/ /\ Channels \subseteq channels_in_use
          /\ open' = open \ {p}
          /\ references' = [references EXCEPT ![p] = 0]
          /\ descriptors' = [descriptors EXCEPT ![p] = 0]
          /\ LetGo(t)
          /\ Goto(t, "none")
          /\ UNCHANGED <<table, doomed, channel>>
    /\ UNCHANGED <<registration, watched, waiter, target, boundary>>

\* A socket, or the end of a child's pipe.
Create(t) ==
    /\ At(t, "none")
    /\ \E o \in Sockets \union Pipes :
          /\ sn_new(t, o)
          /\ level' = [level EXCEPT ![o] = {}]
    /\ Goto(t, "open")
    /\ UNCHANGED <<channel, registration, watched, waiter, target, pending>>

InstallObject(t) ==
    /\ At(t, "open")
    /\ sn_install(t)
    /\ Goto(t, "none")
    /\ UNCHANGED <<channel, registration, watched, waiter, target, boundary>>

-----------------------------------------------------------------------------
\* TryChangeSocketEventRegistration pins the port, then the object.
Register(t, fd) ==
    /\ At(t, "none")
    /\ sn_pin(t, fd, Ports)
    /\ Goto(t, "register")
    /\ UNCHANGED <<channel, registration, watched, waiter, target, boundary>>

RegisterObject(t, fd) ==
    /\ At(t, "register")
    /\ \/ /\ sn_pin(t, fd, Objects)
          /\ Goto(t, IF table[fd] \in Ports THEN "leave" ELSE "watch")
       \/ table[fd] = NULL /\ UNCHANGED objects /\ Goto(t, "leave")
    /\ UNCHANGED <<channel, registration, watched, waiter, target, boundary>>

\* sn_pipe_watch: a pipe gets a reader thread, which pins it, once.
PipeWatch(t) ==
    LET o == Latest(t) IN
    /\ At(t, "watch")
    /\ \/ /\ o \in watched \union Sockets
          /\ Goto(t, "change")
          /\ UNCHANGED <<objects, watched>>
       \/ \E r \in Readers :
             /\ o \in Pipes \ watched
             /\ At(r, "none")
             /\ watched' = watched \union {o}
             /\ held' = [held EXCEPT ![r] = Append(@, o)]
             /\ op' = [op EXCEPT ![t] = "change", ![r] = "read"]
             /\ references' = [references EXCEPT ![o] = @ + 1]
             /\ UNCHANGED <<table, descriptors, open, doomed>>
    /\ UNCHANGED <<channel, registration, waiter, target, boundary>>

\* A direction that is newly asked for reports its current state.
Reported(o, newEvents) ==
    IF port[o] = NULL THEN {} ELSE reported[o] \ (newEvents \ events[o])

ChangeRegistration(t, newEvents) ==
    LET p == held[t][1]
        o == held[t][2] IN
    /\ At(t, "change")
    /\ newEvents # events[o]
    /\ \/ /\ port[o] \notin {NULL, p}
          /\ Goto(t, "leave")
          /\ UNCHANGED <<registration, target>>
       \/ /\ port[o] \in {NULL, p}
          /\ IF newEvents = {}
             THEN Unlink({o})
             ELSE /\ port' = [port EXCEPT ![o] = p]
                  /\ reported' = [reported EXCEPT ![o] = Reported(o, newEvents)]
                  /\ events' = [events EXCEPT ![o] = newEvents]
          /\ target' = [target EXCEPT ![t] = p]
          /\ Goto(t, "wake")
    /\ UNCHANGED <<objects, channel, watched, waiter, boundary>>

\* The engine does not ask for what it has.
SameRegistration(t) ==
    /\ At(t, "change")
    /\ Goto(t, "leave")
    /\ UNCHANGED <<objects, channel, registration, watched, waiter, target, boundary>>

\* sn_port_wake: the channel's poll, or its next one, ends.  The port was read
\* under the lock and is used after it: a port that is gone by now names any
\* channel or none.  A reader goes on with its pipe; any other call ends.
sn_port_wake(t) ==
    LET p == target[t] IN
    /\ op[t] = "wake"
    /\ IF p \in open
       THEN pending' = pending \union {channel[p]}
       ELSE \E c \in Channels : pending' \in {pending, pending \union {c}}
    /\ target' = [target EXCEPT ![t] = NULL]
    /\ Goto(t, IF t \in Readers THEN "read" ELSE "leave")
    /\ UNCHANGED <<objects, channel, registration, watched, waiter, level>>

\* The end of every call: it lets go of what it pinned, and the last user of an
\* object destroys it.
Leave(t) ==
    /\ At(t, "leave")
    /\ IF held[t] = <<>>
       THEN Goto(t, "none") /\ UNCHANGED objects
       ELSE sn_unpin(t) /\ UNCHANGED op
    /\ UNCHANGED <<channel, registration, watched, waiter, target, boundary>>

\* With a port goes its channel, and what was still registered with it.
DestroyObject(t) ==
    /\ op[t] # "wake"
    /\ destroy(t)
    /\ Unlink({o \in Objects : port[o] = doomed[t]})
    /\ channel' = [p \in Ports |-> IF p = doomed[t] THEN NULL ELSE channel[p]]
    /\ watched' = watched \ {doomed[t]}
    /\ UNCHANGED <<op, waiter, target, boundary>>

-----------------------------------------------------------------------------
\* A non-blocking receive, or the read of a watched pipe.
Receive(t, fd) ==
    /\ At(t, "none")
    /\ sn_pin(t, fd, Sockets \union watched)
    /\ Goto(t, "io")
    /\ UNCHANGED <<channel, registration, watched, waiter, target, boundary>>

Io(t) ==
    LET o == Latest(t)
        found == level[o] \intersect ({"READ"} \union Failures) IN
    /\ At(t, "io")
    /\ \/ /\ found # {}
          /\ level' \in {level, [level EXCEPT ![o] = @ \ {"READ"}]}
          /\ Goto(t, "leave")
       \/ /\ found = {}
          /\ Goto(t, "blocked")
          /\ UNCHANGED level
    /\ UNCHANGED <<objects, channel, registration, watched, waiter, target, pending>>

\* Mutant: the direction is armed again and the waiter is not told.
Rearm_Silent(o) == FALSE

Rearm(o) == port[o] # NULL /\ "READ" \in reported[o]

\* The engine has read until it would block: the direction is armed again.
sn_socket_would_block(t) ==
    LET o == Latest(t) IN
    /\ At(t, "blocked")
    /\ reported' = [reported EXCEPT ![o] = @ \ {"READ"}]
    /\ target' = [target EXCEPT ![t] = IF Rearm(o) THEN port[o] ELSE NULL]
    /\ Goto(t, IF Rearm(o) THEN "wake" ELSE "leave")
    /\ UNCHANGED <<objects, channel, port, events, watched, waiter, boundary>>

\* The BCL names a descriptor by a SafeHandle, which is not closed while a call
\* has it.  The waiter and the readers hold their objects without one.
Unused(o) == \A t \in Clients : \A i \in DOMAIN held[t] : held[t][i] # o

\* Mutant: a socket that a waiter has in its snapshot stays registered.
Closing_LastUser(o) == references[o] = 1 /\ port[o] # NULL

Closing(o) == descriptors[o] = 1 /\ port[o] # NULL

\* Close of a socket or a pipe, with sn_socket_closing.
CloseObject(t, fd) ==
    LET o == table[fd] IN
    /\ At(t, "none")
    /\ o \in Sockets \union Pipes
    /\ Unused(o)
    /\ close_descriptor(t, fd)
    /\ IF Closing(o) THEN Unlink({o}) ELSE UNCHANGED registration
    /\ target' = [target EXCEPT ![t] = IF Closing(o) THEN port[o] ELSE NULL]
    /\ Goto(t, IF Closing(o) THEN "wake" ELSE "leave")
    /\ UNCHANGED <<channel, watched, waiter, boundary>>

CloseSocketEventPort(t, fd) ==
    /\ At(t, "none")
    /\ sn_pin(t, fd, Ports)
    /\ Goto(t, "closeport")
    /\ UNCHANGED <<channel, registration, watched, waiter, target, boundary>>

\* Its Close finds the descriptor, unless another thread has closed it since.
ClosePort(t) ==
    LET p == Latest(t) IN
    /\ At(t, "closeport")
    /\ \/ \E fd \in Fds : table[fd] = p /\ close_descriptor(t, fd)
       \/ p \notin {table[fd] : fd \in Fds} /\ UNCHANGED objects
    /\ target' = [target EXCEPT ![t] = p]
    /\ Goto(t, "wake")
    /\ UNCHANGED <<channel, registration, watched, waiter, boundary>>

-----------------------------------------------------------------------------
\* The reader thread of a pipe stores what the boundary's blocking read gives,
\* or that the pipe has ended, and tells the port the pipe is registered with.
PipeReader(t) ==
    LET o == Latest(t) IN
    /\ At(t, "read")
    /\ IF descriptors[o] = 0 \/ "HANGUP" \in level[o]
       THEN Goto(t, "leave") /\ UNCHANGED level
       ELSE /\ \E c \in {"READ", "HANGUP"} : level' = [level EXCEPT ![o] = @ \union {c}]
            /\ Goto(t, "notify")
    /\ UNCHANGED <<objects, channel, registration, watched, waiter, target, pending>>

Notified(o) == port[o]

sn_port_notify(t) ==
    LET p == Notified(Latest(t)) IN
    /\ At(t, "notify")
    /\ target' = [target EXCEPT ![t] = p]
    /\ Goto(t, IF p = NULL THEN "read" ELSE "wake")
    /\ UNCHANGED <<objects, channel, registration, watched, waiter, boundary>>

\* What happens to a socket outside: a condition comes up.
Raise(o, c) ==
    /\ o \in open \intersect Sockets
    /\ c \in Raised \ level[o]
    /\ level' = [level EXCEPT ![o] = @ \union {c}]
    /\ UNCHANGED <<objects, op, channel, registration, watched, waiter, target, pending>>

-----------------------------------------------------------------------------
\* WaitForSocketEvents.  It pins the port; a second waiter is turned away.
WaitForSocketEvents(t, fd) ==
    /\ At(t, "none")
    /\ sn_pin(t, fd, Ports)
    /\ Goto(t, "begin")
    /\ UNCHANGED <<channel, registration, watched, waiter, target, boundary>>

Begin(t) ==
    LET p == held[t][1] IN
    /\ At(t, "begin")
    /\ waiting' = waiting \union {p}
    /\ Goto(t, IF p \in waiting THEN "leave" ELSE "round")
    /\ produced' = IF p \in waiting THEN produced ELSE [produced EXCEPT ![p] = 0]
    /\ UNCHANGED <<objects, channel, registration, watched, entries, target, boundary>>

\* The head of the loop: events in hand, or a closed port, end the wait.
Round(t) ==
    LET p == held[t][1] IN
    /\ At(t, "round")
    /\ Goto(t, IF produced[p] > 0 \/ descriptors[p] = 0 THEN "end" ELSE "snapshot")
    /\ UNCHANGED <<objects, channel, registration, watched, waiter, target, boundary>>

Registered(p) == {o \in Objects : port[o] = p}
\* A pipe is ready with buffered bytes or at its end, and is not polled.
Ready(o) == IF level[o] = {} THEN {} ELSE {"READ"}
Fresh(o) == (Ready(o) \intersect events[o]) \ reported[o]
wanted(o) == events[o] \ reported[o]
\* Nothing is left to learn about a socket whose every condition was delivered.
Exhausted(o) == wanted(o) = {} /\ Failures \subseteq reported[o]

Orders(S) == {s \in [1 .. Cardinality(S) -> S] : \A i, j \in DOMAIN s : s[i] = s[j] => i = j}

\* Pipe events are delivered at once; the sockets are pinned for the poll.
Snapshot(t) ==
    LET p == held[t][1]
        fresh == {o \in Registered(p) \intersect Pipes : Fresh(o) # {}}
        polled == {o \in Registered(p) \intersect Sockets : ~Exhausted(o)} IN
    /\ At(t, "snapshot")
    /\ \E told \in SUBSET fresh :
          /\ Cardinality(told) = Room \/ (told = fresh /\ Cardinality(told) < Room)
          /\ reported' = [o \in Objects |->
                            IF o \in told THEN reported[o] \union Fresh(o) ELSE reported[o]]
          /\ produced' = [produced EXCEPT ![p] = Cardinality(told)]
    /\ \E s \in Orders(polled) :
          /\ entries' = [entries EXCEPT ![p] =
                [i \in DOMAIN s |-> [wanted |-> wanted(s[i]), triggered |-> {}]]]
          /\ held' = [held EXCEPT ![t] = @ \o s]
    /\ references' = [o \in Objects |-> references[o] + (IF o \in polled THEN 1 ELSE 0)]
    /\ Goto(t, "poll")
    /\ UNCHANGED <<table, descriptors, open, doomed, channel, port, events,
                   watched, waiting, target, boundary>>

\* The level-triggered poll.  An error or a hang-up needs no asking for.
Triggered(t, i) ==
    level[held[t][i + 1]] \intersect (entries[held[t][1]][i].wanted \union Failures)

\* With pipe events in hand the sockets are only looked at; otherwise the waiter
\* sleeps here.  The poll takes every wake there has been.
Poll(t) ==
    LET p == held[t][1] IN
    /\ At(t, "poll")
    /\ \/ produced[p] > 0
       \/ channel[p] \in pending
       \/ \E i \in DOMAIN entries[p] : Triggered(t, i) # {}
    /\ entries' = [entries EXCEPT ![p] =
          [i \in DOMAIN @ |-> [@[i] EXCEPT !.triggered = Triggered(t, i)]]]
    /\ pending' = pending \ {channel[p]}
    /\ Goto(t, "deliver")
    /\ UNCHANGED <<objects, channel, registration, watched, waiting, produced, target, level>>

\* Levels become edges: what was reported already is left out.  A hang-up is
\* handled by the ordinary read and write paths.
Deliver(t) ==
    LET p == held[t][1]
        o == Latest(t)
        new == entries[p][Len(entries[p])].triggered \ reported[o]
        all == IF "HANGUP" \in new THEN (new \ {"HANGUP"}) \union Directions ELSE new
        told == all \intersect (events[o] \union {"ERROR"}) IN
    /\ At(t, "deliver")
    /\ entries[p] # <<>>
    /\ IF port[o] = p /\ produced[p] < Room
       THEN /\ reported' = [reported EXCEPT ![o] = @ \union new]
            /\ produced' = [produced EXCEPT ![p] = @ + (IF told = {} THEN 0 ELSE 1)]
       ELSE UNCHANGED <<reported, produced>>
    /\ Goto(t, "release")
    /\ UNCHANGED <<objects, channel, port, events, watched, waiting, entries, target, boundary>>

Release(t) ==
    LET p == held[t][1] IN
    /\ At(t, "release")
    /\ sn_unpin(t)
    /\ entries' = [entries EXCEPT ![p] = SubSeq(@, 1, Len(@) - 1)]
    /\ Goto(t, "deliver")
    /\ UNCHANGED <<channel, registration, watched, waiting, produced, target, boundary>>

Delivered(t) ==
    /\ At(t, "deliver")
    /\ entries[held[t][1]] = <<>>
    /\ Goto(t, "round")
    /\ UNCHANGED <<objects, channel, registration, watched, waiter, target, boundary>>

EndWait(t) ==
    /\ At(t, "end")
    /\ waiting' = waiting \ {held[t][1]}
    /\ Goto(t, "leave")
    /\ UNCHANGED <<objects, channel, registration, watched, entries, produced, target, boundary>>

-----------------------------------------------------------------------------
\* The steps of a call that is under way.
Continue(t) ==
    \/ TakeChannel(t) \/ InstallObject(t)
    \/ \E fd \in Fds : RegisterObject(t, fd)
    \/ PipeWatch(t) \/ SameRegistration(t)
    \/ \E newEvents \in SUBSET Directions : ChangeRegistration(t, newEvents)
    \/ sn_port_wake(t) \/ Leave(t) \/ DestroyObject(t)
    \/ Io(t) \/ sn_socket_would_block(t) \/ ClosePort(t)
    \/ sn_port_notify(t)
    \/ Begin(t) \/ Round(t) \/ Snapshot(t) \/ Poll(t)
    \/ Deliver(t) \/ Release(t) \/ Delivered(t) \/ EndWait(t)

Waits(t) == \E fd \in Fds : WaitForSocketEvents(t, fd)

PortNext ==
    \/ \E t \in Threads : Continue(t)
    \/ \E t \in Readers : PipeReader(t)
    \/ \E t \in Waiters : Waits(t)
    \/ \E t \in Clients : CreateSocketEventPort(t) \/ Create(t)
    \/ \E t \in Clients, fd \in Fds :
          \/ Register(t, fd) \/ Receive(t, fd)
          \/ CloseObject(t, fd) \/ CloseSocketEventPort(t, fd)
    \/ \E o \in Sockets, c \in Raised : Raise(o, c)

\* A thread in the middle of a call goes on with it, and the engine's thread
\* waits again.  What the program asks for and what happens outside need not.
PortFairness ==
    /\ \A t \in Threads : WF_port_vars(Continue(t))
    /\ \A t \in Waiters : WF_port_vars(Waits(t))

PortSpec == PortInit /\ [][PortNext]_port_vars /\ PortFairness

-----------------------------------------------------------------------------
\* A condition that a registration waits for: asked for, there, and not told.
Armed(o, c) ==
    /\ port[o] # NULL
    /\ c \in (events[o] \union (IF o \in Sockets THEN Failures ELSE {})) \ reported[o]
    /\ c \in level[o]

\* "Turns what the level-triggered poll says into edges": a condition that the
\* engine has armed and that is there does not stay untold, whatever registers,
\* re-arms and closes meanwhile; a wake is never lost between two rounds.
EdgesAreDelivered ==
    /\ \A o \in Sockets, c \in Raised : Armed(o, c) ~> ~Armed(o, c)
    /\ \A o \in Pipes : Armed(o, "READ") ~> ~Armed(o, "READ")

\* "An operation pins the object for its duration, so a Close from another thread
\* never frees a handle the boundary is still working on"
\* (system_native_internal.h): the port a thread wakes is there.
PortOutlivesItsWake == \A t \in Threads : op[t] = "wake" => target[t] \in open


-----------------------------------------------------------------------------
\* Scenarios: a behaviour has the threads, objects, channels and conditions outside
\* `absent`.
CONSTANT Absent   \* the sets of those that take no part

VARIABLE absent

ScenarioInit == PortInit /\ absent \in Absent

ScenarioNext ==
    /\ PortNext
    /\ \A t \in Threads \intersect absent : op'[t] = op[t] /\ doomed'[t] = doomed[t]
    /\ \A o \in Objects \intersect absent : o \notin open'
    /\ \A o \in Sockets : level'[o] \intersect absent = {}
    /\ \A o \in Objects : events'[o] \intersect absent = {}
    /\ pending' \intersect absent = {}
    /\ \A p \in Ports : channel'[p] \notin absent
    /\ UNCHANGED absent

ScenarioSpec == ScenarioInit /\ [][ScenarioNext]_<<port_vars, absent>> /\ PortFairness

\* ScenarioNext asks of nobody who they are; only ScenarioInit tells who takes part.
Symmetry == Permutations(Clients) \union Permutations(Ports) \union Permutations(Channels)
=============================================================================
