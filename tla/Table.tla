------------------------------- MODULE Table --------------------------------
(***************************************************************************)
(* The table from six sides, one per behaviour: how callers get it         *)
(* (Negotiation), the calls of a consumer, the loops and the pipe reader   *)
(* that are built on them (Consumers, PipeReader), the provider whose      *)
(* callbacks are a C host's (HostPort), and the counters that all of its   *)
(* calls end in (Counters).                                                *)
(***************************************************************************)
EXTENDS Negotiation, Counters, CoreGroups, SystemGroups

VARIABLES
    side,                                                            \* the side a behaviour shows
    provided,                                                        \* the traits the port provides
    barrier_works,                                                   \* whether a provided barrier works on this machine
    has_ops,                                                         \* whether a provided signal context has its table
    reply,                                                           \* the answer to the call being made
    job, at, source, read_to, target, chunk, needed, capacity,
    heap, skipped, result,                                           \* of the loops
    enabled, subject, given, place, cached, port, answer,            \* of the host
    references, descriptors, nonblocking, reader, record, stage, piece, doing, own, purpose,
    pipe, writing, written, readers, handed, astray                     \* of the pipe

\* Every call of the table with every kind of argument and every answer of a
\* provider, as the replies the consumer gets.
Calls ==
    {q : q \in UNION {vm_Calls, linear_Calls, services_Calls, kernel_Calls, runtime_Calls, support_Calls, streams_Calls, terminal_Calls, topology_Calls,
           image_Calls, process_Calls, processes_Calls, spawn_as_Calls, system_Calls, accounts_Calls, priority_Calls,
           volumes_Calls, context_Calls, files_Calls, mappings_Calls, watches_Calls, sockets_Calls, local_sockets_Calls,
           packets_Calls, network_Calls, wasi_Calls}}

\* The calls.  A port provides some of the traits; `negotiate` of every group gives
\* the callbacks for them; a consumer calls what is not NULL with arguments of any
\* kind, and the provider answers as it likes.
callbacks ==
    [vm |-> vm_negotiate(provided), linear |-> linear_negotiate(provided),
     services |-> services_negotiate(provided), kernel |-> kernel_negotiate(provided, barrier_works),
     runtime |-> runtime_negotiate(provided), support |-> support_negotiate(provided),
     streams |-> streams_negotiate(provided), terminal |-> terminal_negotiate(provided),
     topology |-> topology_negotiate(provided), image |-> image_negotiate(provided),
     process |-> process_negotiate(provided), processes |-> processes_negotiate(provided),
     spawn_as |-> spawn_as_negotiate(provided), system |-> system_negotiate(provided),
     accounts |-> accounts_negotiate(provided), priority |-> priority_negotiate(provided),
     volumes |-> volumes_negotiate(provided), context |-> context_negotiate(provided, has_ops),
     files |-> files_negotiate(provided), mappings |-> mappings_negotiate(provided),
     watches |-> watches_negotiate(provided), sockets |-> sockets_negotiate(provided),
     local_sockets |-> local_sockets_negotiate(provided), packets |-> packets_negotiate(provided),
     network |-> network_negotiate(provided), wasi |-> wasi_negotiate(provided)]
\* Two kinds of memory, and a group that cannot be negotiated, reject the whole table.
negotiated == ~({"VirtualMemory", "Linear"} \subseteq provided) /\ callbacks.context # {}

\* The order in which read_stats of a group tells its counters, and the callbacks
\* of the groups that several traits share.
statistics ==
    [vm |-> vm_read_stats, linear |-> linear_read_stats, services |-> services_read_stats, kernel |-> kernel_read_stats, runtime |-> runtime_read_stats,
     support |-> support_read_stats, streams |-> streams_read_stats, terminal |-> terminal_read_stats,
     topology |-> topology_read_stats, image |-> image_read_stats, process |-> process_read_stats,
     processes |-> processes_read_stats, spawn_as |-> spawn_as_read_stats, system |-> system_read_stats,
     accounts |-> accounts_read_stats, priority |-> priority_read_stats, volumes |-> volumes_read_stats,
     context |-> context_read_stats, files |-> files_read_stats, mappings |-> mappings_read_stats,
     watches |-> watches_read_stats, sockets |-> sockets_read_stats, local_sockets |-> local_sockets_read_stats,
     packets |-> packets_read_stats, network |-> network_read_stats, wasi |-> wasi_read_stats]
Shared == [services |-> services_Ops, kernel |-> kernel_Ops, runtime |-> runtime_Ops, support |-> support_Ops]

Providers == {q.id[2] : q \in Calls}
Nothing == [id |-> <<"", "", "", UNCOUNTED>>, size |-> 0, check |-> "unready", status |-> OK, out |-> <<>>]
FrontInit ==
    /\ provided \in {Providers, Providers \ {"VirtualMemory"}, Providers \ {"Linear"}, {}} \union {{t} : t \in Providers}
    /\ barrier_works \in BOOLEAN /\ has_ops \in BOOLEAN
    /\ reply = Nothing

Call ==
    /\ reply = Nothing /\ negotiated
    /\ LET table == callbacks
       IN \E q \in Calls : q.id[3] \in table[q.id[1]] /\ reply' = q
    /\ UNCHANGED <<provided, barrier_works, has_ops>>
Returned ==
    /\ reply # Nothing /\ reply' = Nothing
    /\ UNCHANGED <<provided, barrier_works, has_ops>>

FrontNext == Call \/ Returned

-----------------------------------------------------------------------------
Loop == INSTANCE Consumers WITH pc <- at
Host == INSTANCE HostPort
Reader == INSTANCE PipeReader
    WITH Clients <- {"c1", "c2"}, Records <- {"r1", "r2"}, CAPACITY <- 1, Written <- 2,
         Plans <- {{"c1"}, {"c1", "c2"}}, None <- "none", chunk <- piece, place <- doing, got <- handed

front == <<provided, barrier_works, has_ops, reply>>
loop == <<job, at, source, read_to, target, chunk, needed, capacity, heap, skipped, result>>
host == <<enabled, subject, given, place, cached, port, answer>>
piped == <<references, descriptors, nonblocking, reader, record, stage, piece, doing, own, purpose,
           pipe, writing, written, readers, handed, astray>>
all == <<side, vars, counters, front, loop, host, piped>>

TableInit ==
    /\ side \in {"negotiation", "counters", "calls", "loops", "host", "pipe"}
    /\ Init /\ CountersInit
    /\ IF side = "calls" THEN FrontInit
       ELSE provided = {} /\ barrier_works = FALSE /\ has_ops = FALSE /\ reply = Nothing
    /\ IF side = "loops" THEN Loop!Init
       ELSE /\ job = "none" /\ at = "done" /\ source = <<>> /\ read_to = 0 /\ target = <<>> /\ chunk = <<>>
            /\ needed = 0 /\ capacity = 0 /\ heap = 0 /\ skipped = {} /\ result = "none"
    /\ IF side = "host" THEN Host!Init
       ELSE /\ enabled = {} /\ subject = "vm" /\ given = Host!Fine("vm") /\ place = 1 /\ cached = {}
            /\ port = "rejected" /\ answer = Host!NoAnswer
    /\ Reader!PipeInit /\ (side # "pipe" => readers = {"c1"})

TableNext ==
    /\ UNCHANGED side
    /\ \/ side = "negotiation" /\ Next /\ UNCHANGED <<counters, front, loop, host, piped>>
       \/ side = "counters" /\ CountersNext /\ UNCHANGED <<vars, front, loop, host, piped>>
       \/ side = "calls" /\ FrontNext /\ UNCHANGED <<vars, counters, loop, host, piped>>
       \/ side = "loops" /\ Loop!Next /\ UNCHANGED <<vars, counters, front, host, piped>>
       \/ side = "host" /\ Host!Next /\ UNCHANGED <<vars, counters, front, loop, piped>>
       \/ side = "pipe" /\ Reader!PipeNext /\ UNCHANGED <<vars, counters, front, loop, host>>

\* Callers that negotiate, and the threads inside a loop or at a pipe, run on.
TableSpec ==
    /\ TableInit /\ [][TableNext]_all /\ Fairness /\ Reader!PipeFairness
    /\ WF_all(side = "loops" /\ Loop!Step /\ UNCHANGED <<side, vars, counters, front, host, piped>>)

-----------------------------------------------------------------------------
\* What include/dotnet_pal.h and docs/architecture.md promise a consumer.
Legacy == {"services", "kernel", "runtime", "support", "topology", "process", "image", "streams", "context"}
Writes == {"write", "write_at", "pipe_write"}
Transfers == Writes \union {"read", "read_at", "pipe_read", "send", "receive"}
Lengths ==
    {"environment_get", "current_directory", "read_link", "real_path", "host_name", "environment_entry", "text", "entry",
     "reverse_lookup", "address", "process_affinity", "build_id", "process_groups", "user_groups", "resolve"}
Creates ==
    {"reserve", "event_create", "mutex_create", "thread_create", "tls_create", "module_open", "rw_create", "allocate", "resize",
     "mapping_allocate", "open", "directory_open", "map", "create", "accept", "spawn", "spawn_as"}

\* Whatever a consumer passes and a provider answers: a callback that is not NULL
\* belongs to a trait the port provides (support.rs:121); groups that predate the
\* file statuses never answer with them (dotnet_pal.h:338), nor WASI with a number
\* that is no errno; a failure leaves the outputs cleared, except for the length
\* that did not fit, the progress of write_stderr and the message of a crash dump
\* (docs/architecture.md:94, dotnet_pal.h:125,219); a transfer never exceeds its
\* buffer and a write that succeeds has moved something (dotnet_pal.h:324,368); a
\* length comes with BUFFER_TOO_SMALL exactly when it does not fit; a created
\* handle is not NULL; storage is whole pages of the address space; and the counter
\* of a call is told once by read_stats.  A port that provides every trait leaves no
\* callback of a shared group NULL.
CallsKeepTheContract ==
    /\ reply = Nothing /\ barrier_works /\ (\E t, u \in provided : t # u) =>
        LET table == callbacks IN \A g \in DOMAIN Shared : table[g] = Shared[g]
    /\ reply # Nothing =>
        LET name == reply.id[3]
            n == reply.size
            out == reply.out
            reaches == reply.check = "ask"
        IN /\ reply.id[2] \in provided
           /\ reply.id[1] \in Legacy => reply.status <= NOT_FOUND
           /\ reply.id[1] = "wasi" => reply.status <= WASI_MAX
           /\ reply.status \notin {OK, BUFFER_TOO_SMALL} /\ name \notin {"write_stderr", "crash_dump"} => out = <<>>
           /\ name \in {"write_stderr"} /\ out # <<>> => out[1] <= n
           /\ name \in Transfers /\ reply.id[1] # "watches" /\ out # <<>> => out[1] <= n
           /\ name \in Writes /\ reply.status = OK /\ reaches => out[1] > 0
           /\ name \in Lengths /\ out # <<>> => (reply.status = BUFFER_TOO_SMALL <=> out[1] > n)
           /\ name \in Creates /\ reply.status = OK => out # <<>> /\ out[1] # 0
           /\ reply.id[1] \in {"vm", "linear"} /\ out # <<>> => out[1] % PAGE = 0 /\ out[1] + n <= MEMORY_MAX
           /\ reply.id[4] # UNCOUNTED =>
                LET told == statistics[reply.id[1]]
                IN \E k \in DOMAIN told : \A j \in DOMAIN told : told[j] = reply.id[4] <=> j = k

\* What a consumer may rely on whatever it passes and a provider answers, call by
\* call, and a port of a C host: it stands on checked tables, and its
\* answers are never better than the host's (HostPort).
AnswersKeepTheContract ==
    /\ side = "calls" => CallsKeepTheContract
    /\ side = "host" => Host!HostIsNotTrusted

\* A copy, a text and an environment are whole or an error, and the loops free
\* what they do not hand over (Consumers).
ResultsAreWhole == side = "loops" => Loop!ResultsAreWhole /\ Loop!NothingLeaks

\* A pipe is whole: every byte is somewhere once, and the reader's record outlives
\* its users (`pipe_reader`, `sn_pipe_watch`).
PipesAreWhole == side = "pipe" => Reader!PipesAreWhole

\* The loops end whatever the boundary answers (Consumers), and so do the waits at a
\* pipe (`sn_pipe_read`, `pipe_reader`).
LoopsEnd == []<>(at = "done") /\ Reader!PipeReadsEnd
=============================================================================
