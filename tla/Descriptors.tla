----------------------------- MODULE Descriptors -----------------------------
(* The descriptor table of System.Native (system_native_io.c): small integers  *)
(* that name shared objects, and threads that pin an object while the boundary *)
(* works on its handle.  A section under the table lock is one step; closing   *)
(* the handle of a dead object happens after the lock is released, in a step   *)
(* of its own.  What the boundary does with a handle is not followed, only     *)
(* that it has one.                                                            *)
EXTENDS Threads, Sequences

CONSTANTS
    Streams, Files, Sockets, Watches,   \* the objects by sn_kind
    Others,                             \* pipes and ports, which other units make
    MaxFd                               \* SN_MAX_FD

Standard == Cardinality(Streams)        \* 3 in the code
Objects == Streams \union Files \union Sockets \union Watches \union Others
Fds == 0 .. MaxFd - 1

ASSUME DescriptorsAssumption ==
    /\ MaxFd \in Nat
    /\ IsFiniteSet(Streams) /\ Standard <= MaxFd
    /\ NULL \notin Objects

VARIABLES
    table,         \* table[fd]
    references,    \* of each object
    descriptors,
    open,          \* the objects whose handle is open
    held,          \* held[t]: the objects t has pinned, or is making
    doomed,        \* doomed[t]: the object t found it was the last user of
    op             \* op[t]: the call t is in

objects == <<table, references, descriptors, open, held, doomed>>
descriptor_table == <<objects, op>>

\* The three standard streams exist from the start.
DescriptorsInit ==
    /\ table \in [Fds -> Streams \union {NULL}]
    /\ \A fd \in Fds : table[fd] = NULL <=> fd >= Standard
    /\ \A o \in Streams : \E fd \in Fds : table[fd] = o
    /\ references = [o \in Objects |-> IF o \in Streams THEN 1 ELSE 0]
    /\ descriptors = references
    /\ open = Streams
    /\ held = [t \in Threads |-> <<>>]
    /\ doomed = [t \in Threads |-> NULL]
    /\ op = [t \in Threads |-> "none"]

Goto(t, call) == op' = [op EXCEPT ![t] = call]
Latest(t) == held[t][Len(held[t])]
LetGo(t) == held' = [held EXCEPT ![t] = SubSeq(@, 1, Len(@) - 1)]

-----------------------------------------------------------------------------
\* The primitives, which the other units use too.
\* sn_new, for a handle that the boundary has just made.
sn_new(t, o) ==
    /\ o \notin open
    /\ open' = open \union {o}
    /\ references' = [references EXCEPT ![o] = 1]
    /\ descriptors' = [descriptors EXCEPT ![o] = 1]
    /\ held' = [held EXCEPT ![t] = Append(@, o)]
    /\ UNCHANGED <<table, doomed>>

FreeFds == {fd \in Fds : fd >= Standard /\ table[fd] = NULL}
LowestFree(fd) == fd \in FreeFds /\ \A other \in FreeFds : fd <= other

\* sn_install: the new object goes into the table, or is destroyed.
sn_install(t) ==
    LET o == Latest(t) IN
    /\ IF FreeFds = {}
       THEN /\ doomed' = [doomed EXCEPT ![t] = o]
            /\ references' = [references EXCEPT ![o] = 0]
            /\ descriptors' = [descriptors EXCEPT ![o] = 0]
            /\ UNCHANGED table
       ELSE /\ \E fd \in Fds : LowestFree(fd) /\ table' = [table EXCEPT ![fd] = o]
            /\ UNCHANGED <<references, descriptors, doomed>>
    /\ LetGo(t)
    /\ UNCHANGED open

sn_pin(t, fd, kinds) ==
    /\ table[fd] \in kinds
    /\ references' = [references EXCEPT ![table[fd]] = @ + 1]
    /\ held' = [held EXCEPT ![t] = Append(@, table[fd])]
    /\ UNCHANGED <<table, descriptors, open, doomed>>

sn_unpin(t) ==
    LET o == Latest(t) IN
    /\ held[t] # <<>>
    /\ doomed[t] = NULL
    /\ LetGo(t)
    /\ references' = [references EXCEPT ![o] = @ - 1]
    /\ doomed' = [doomed EXCEPT ![t] = IF references[o] = 1 THEN o ELSE NULL]
    /\ UNCHANGED <<table, descriptors, open>>

\* destroy, outside the lock: the handle is closed.  A stream has none.
destroy(t) ==
    /\ doomed[t] # NULL
    /\ open' = open \ ({doomed[t]} \ Streams)
    /\ doomed' = [doomed EXCEPT ![t] = NULL]
    /\ UNCHANGED <<table, references, descriptors, held>>

dup(fd) ==
    LET o == table[fd] IN
    /\ o # NULL
    /\ \E new \in Fds : LowestFree(new) /\ table' = [table EXCEPT ![new] = o]
    /\ references' = [references EXCEPT ![o] = @ + 1]
    /\ descriptors' = [descriptors EXCEPT ![o] = @ + 1]
    /\ UNCHANGED <<open, held, doomed>>

\* Mutant: the handle goes with the last descriptor.
Last_Descriptor(o) == descriptors[o] = 1

LastUser(o) == references[o] = 1

close_descriptor(t, fd) ==
    LET o == table[fd] IN
    /\ o # NULL
    /\ fd >= Standard
    /\ table' = [table EXCEPT ![fd] = NULL]
    /\ descriptors' = [descriptors EXCEPT ![o] = @ - 1]
    /\ references' = [references EXCEPT ![o] = @ - 1]
    /\ doomed' = [doomed EXCEPT ![t] = IF LastUser(o) THEN o ELSE NULL]
    /\ UNCHANGED <<open, held>>

-----------------------------------------------------------------------------
\* The calls.  Each fails without a trace when its descriptor is not there or
\* has the wrong kind.
Calls(t, call) == op[t] = "none" /\ doomed[t] = NULL /\ Goto(t, call)

Open(t) == \E o \in Files : sn_new(t, o) /\ Calls(t, "open")
INotifyInit(t) == \E o \in Watches : sn_new(t, o) /\ Calls(t, "open")
Socket(t) == \E o \in Sockets : sn_new(t, o) /\ Calls(t, "open")
Install(t) ==
    /\ op[t] \in {"open", "adopt"}
    /\ sn_install(t)
    /\ Goto(t, IF op[t] = "open" THEN "none" ELSE "use")

Dup(t, fd) == dup(fd) /\ Calls(t, "none")
Close(t, fd) == close_descriptor(t, fd) /\ Calls(t, "none")

\* Read, Write, IsATty, PRead and PWrite ask for the kind after they have pinned.
Transfer(t, fd) == sn_pin(t, fd, Objects) /\ Calls(t, "use")
Vectored(t, fd) == sn_pin(t, fd, Files) /\ Calls(t, "use")
FStat(t, fd) == sn_pin(t, fd, Objects) /\ Calls(t, "use")
\* LSeek and FTruncate; then FSync, FLock and the advice; then locks and FChMod.
Resize(t, fd) == sn_pin(t, fd, Files) /\ Calls(t, "use")
Advise(t, fd) == sn_pin(t, fd, Objects) /\ Calls(t, "use")
ChangeFile(t, fd) == sn_pin(t, fd, Files) /\ Calls(t, "use")
INotifyWatch(t, fd) == sn_pin(t, fd, Watches) /\ Calls(t, "use")
\* A call on a socket: its names, its transfers, its options, its groups.
SocketBind(t, fd) == sn_pin(t, fd, Sockets) /\ Calls(t, "use")
SocketName(t, fd) == sn_pin(t, fd, Sockets) /\ Calls(t, "use")
SocketTransfer(t, fd) == sn_pin(t, fd, Sockets) /\ Calls(t, "use")
SocketOption(t, fd) == sn_pin(t, fd, Sockets) /\ Calls(t, "use")
Multicast(t, fd) == sn_pin(t, fd, Sockets) /\ Calls(t, "use")
SetBlocking(t, fd) == sn_pin(t, fd, Objects) /\ Calls(t, "use")

\* Accept makes a socket while it has the listening one pinned.
Accept(t, fd) == sn_pin(t, fd, Sockets) /\ Calls(t, "accept")
Accepted(t) ==
    /\ op[t] = "accept"
    /\ \/ \E o \in Sockets : sn_new(t, o) /\ Goto(t, "adopt")
       \/ UNCHANGED objects /\ Goto(t, "use")

\* SendFile reads from one descriptor and sends to another, a part at a time, and
\* has each pinned only while it uses it.
SendFile(t, fd) == sn_pin(t, fd, Objects) /\ Calls(t, "part")
SendPart(t) == op[t] = "part" /\ sn_unpin(t) /\ Goto(t, "next")
SendNext(t, fd) ==
    /\ op[t] = "next"
    /\ doomed[t] = NULL
    /\ \/ sn_pin(t, fd, Files \union Sockets) /\ Goto(t, "part")
       \/ UNCHANGED objects /\ Goto(t, "none")

\* CopyFile pins two, and lets go of the first when there is no second.
CopyFile(t, fd) == sn_pin(t, fd, Files) /\ Calls(t, "copy")
CopyFileTo(t, fd) ==
    /\ op[t] = "copy"
    /\ Goto(t, "use")
    /\ \/ sn_pin(t, fd, Files)
       \/ table[fd] \notin Files /\ UNCHANGED objects

\* Read and Poll of a change watcher wait in slices of a second; after each they
\* look whether an event has come or the descriptor was closed under them.
\* Mutant: the reader asks whether it is the last user, which it never is.
watch_closed_LastUser(o) == references[o] = 0

watch_closed(o) == descriptors[o] = 0

WatchRead(t, fd) == sn_pin(t, fd, Watches) /\ Calls(t, "watch")
watch_fill(t, event) ==
    /\ op[t] = "watch"
    /\ Goto(t, IF event \/ watch_closed(Latest(t)) THEN "use" ELSE "watch")
    /\ UNCHANGED objects

\* The boundary is through with the handle.
Finish(t) ==
    /\ op[t] = "use"
    /\ IF held[t] = <<>>
       THEN doomed[t] = NULL /\ Goto(t, "none") /\ UNCHANGED objects
       ELSE sn_unpin(t) /\ UNCHANGED op

Destroy(t) == destroy(t) /\ UNCHANGED op

DescriptorsNext ==
    \E t \in Threads :
        \/ Open(t) \/ INotifyInit(t) \/ Socket(t) \/ Install(t)
        \/ \E fd \in Fds :
              \/ Dup(t, fd) \/ Close(t, fd)
              \/ Transfer(t, fd) \/ Vectored(t, fd) \/ FStat(t, fd)
              \/ Resize(t, fd) \/ Advise(t, fd) \/ ChangeFile(t, fd)
              \/ INotifyWatch(t, fd) \/ Accept(t, fd)
              \/ SocketBind(t, fd) \/ SocketName(t, fd)
              \/ SocketTransfer(t, fd) \/ SocketOption(t, fd)
              \/ Multicast(t, fd) \/ SetBlocking(t, fd)
              \/ SendFile(t, fd) \/ SendNext(t, fd)
              \/ CopyFile(t, fd) \/ CopyFileTo(t, fd)
              \/ WatchRead(t, fd)
        \/ \E event \in BOOLEAN : watch_fill(t, event)
        \/ Accepted(t) \/ SendPart(t)
        \/ Finish(t)
        \/ Destroy(t)

\* A thread in the middle of a call goes on with it; a slice ends.
DescriptorsFairness ==
    \A t \in Threads :
        WF_descriptor_table(\/ Install(t) \/ Accepted(t) \/ SendPart(t)
                            \/ watch_fill(t, FALSE)
                            \/ Finish(t) \/ Destroy(t))

DescriptorsSpec == DescriptorsInit /\ [][DescriptorsNext]_descriptor_table /\ DescriptorsFairness

-----------------------------------------------------------------------------
\* Every field keeps its type.
ObjectsTypeOK ==
    /\ table \in [Fds -> Objects \union {NULL}]
    /\ references \in [Objects -> Nat]
    /\ descriptors \in [Objects -> Nat]
    /\ open \subseteq Objects
    /\ held \in [Threads -> Seq(Objects)]
    /\ doomed \in [Threads -> Objects \union {NULL}]

DescriptorsTypeOK ==
    /\ ObjectsTypeOK
    /\ op \in [Threads -> {"none", "open", "use", "copy", "watch", "accept",
                            "adopt", "part", "next"}]

Named(o) == {fd \in Fds : table[fd] = o}
Makers == {t \in Threads : op[t] \in {"open", "adopt", "channel"}}   \* a port takes its channel first
Making(o) == {t \in Makers : Latest(t) = o}
\* Where in held[t] thread t has a pin of o: the last is no pin while t makes it.
Pinned(t, o) == {i \in DOMAIN held[t] : held[t][i] = o /\ (t \in Makers => i < Len(held[t]))}
Pins(o) == UNION {{t} \X Pinned(t, o) : t \in Threads}
Doomed(o) == {t \in Threads : doomed[t] = o}

Exact(o) ==
    /\ descriptors[o] = Cardinality(Named(o)) + Cardinality(Making(o))
    /\ references[o] = descriptors[o] + Cardinality(Pins(o))
    /\ o \in open <=> references[o] > 0 \/ Doomed(o) # {}
    /\ references[o] > 0 => Doomed(o) = {}
    /\ Cardinality(Doomed(o)) <= 1

\* "An object lives until its last descriptor is closed and its last user has let
\* go": the counts are exact at every moment, the handle is open as long as they
\* are not zero, and when they are, exactly one thread is about to close it.  So no
\* thread works on a closed handle, none is closed twice and none is forgotten.
LifetimesAreExact == \A o \in Objects : Exact(o)

\* A reader of a change watcher learns that its descriptor was closed under it,
\* although it is the one that keeps the watcher alive: the read ends and the
\* watcher is closed.
ClosedWatchEnds ==
    \A o \in Watches :
        []<>~(o \in open /\ descriptors[o] = 0)
=============================================================================
