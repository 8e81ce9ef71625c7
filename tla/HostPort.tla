------------------------------ MODULE HostPort ------------------------------
(***************************************************************************)
(* The provider made of C tables (crates/dotnet-pal-host): each enabled    *)
(* feature names a table, `validate` checks and caches them in order, and  *)
(* an adapter per callback turns what the foreign callback answered into   *)
(* the Result the front end works with.                                    *)
(*                                                                         *)
(* A group's table is given by the callbacks `validate` insists on, those  *)
(* that may be NULL, and those among them whose answer is a length (text)  *)
(* or a list.  The host is not trusted: its statuses are any number, its   *)
(* outputs whatever it wrote.                                              *)
(***************************************************************************)
EXTENDS Boundary, FiniteSets

Group(required, optional, texts_of, absent) ==
    [required |-> required, optional |-> optional, texts |-> texts_of, absent |-> absent]

host_vm == Group({"page_size", "reserve", "commit", "decommit", "release", "reset"}, {}, {}, UNSUPPORTED)
host_services == Group({"clock", "sleep", "yield_now"}, {}, {}, OS_ERROR)
host_kernel ==
    Group({"event_create", "event_destroy", "event_set", "event_reset", "event_wait",
           "mutex_create", "mutex_destroy", "mutex_lock", "mutex_unlock", "thread_create", "thread_join", "thread_detach",
           "tls_create", "tls_destroy", "tls_get", "tls_set", "stack_bounds", "process_barrier"}, {}, {}, UNSUPPORTED)
host_runtime ==
    Group({"environment_get", "process_id", "thread_id", "realtime_ns", "random_bytes", "mapping_allocate", "mapping_release",
           "mapping_protect", "module_open", "module_symbol", "module_close", "module_info"}, {}, {}, UNSUPPORTED)
host_support ==
    Group({"allocate", "resize", "release", "rw_create", "rw_read", "rw_write", "rw_unlock", "rw_destroy",
           "write_stderr", "thread_name"}, {}, {}, UNSUPPORTED)
host_context ==
    Group({"abi_tag", "action_size", "action_alignment", "install", "restore", "unblock_activation", "request_activation",
           "current_thread", "process_id_async", "ignore_broken_pipe", "signal_number"}, {}, {}, UNSUPPORTED)
host_topology ==
    Group({"cpu_max", "cpu_count", "current_cpu", "process_affinity", "set_thread_affinity", "physical_memory",
           "memory_limit", "virtual_limit", "cache_size", "cpu_features"},
          {"cache_level_size", "swap_memory"}, {"process_affinity"}, UNSUPPORTED)
host_process == Group({"exit", "debugger_present"}, {"crash_dump"}, {}, UNSUPPORTED)
host_image == Group({"unwind_info", "readable", "build_id"}, {}, {"build_id"}, UNSUPPORTED)
host_streams == Group({"write", "read", "is_terminal"}, {}, {}, UNSUPPORTED)
host_files ==
    Group({"open", "close", "read_at", "write_at", "set_size", "flush", "status", "path_status", "remove", "rename",
           "directory_create", "directory_remove", "directory_open", "directory_read", "directory_close", "current_directory"},
          {"set_mode", "set_file_mode", "set_times", "set_file_times", "link", "symlink", "read_link", "real_path",
           "set_current_directory", "lock", "lock_range"},
          {"current_directory", "read_link", "real_path"}, UNSUPPORTED)
host_sockets ==
    Group({"create", "close", "bind", "listen", "accept", "connect", "send", "receive", "shutdown", "local_address",
           "peer_address", "set_blocking", "get_option", "set_option", "poll", "wake"},
          {"resolve", "host_name"}, {"host_name"}, UNSUPPORTED)
host_faults == Group({"frame_tag", "frame_size", "enable"}, {}, {}, UNSUPPORTED)
host_system ==
    Group({}, {"environment_entry", "text", "process_times", "uptime_ns", "user_ids"}, {"environment_entry", "text"}, UNSUPPORTED)
host_notifications == Group({"start", "enable", "disable", "default_action"}, {}, {}, UNSUPPORTED)
host_processes ==
    Group({"spawn", "wait", "terminate", "release", "pipe_read", "pipe_write", "pipe_close"}, {}, {}, UNSUPPORTED)
host_terminal == Group({"window_size", "set_input_mode", "input_ready", "control_character"}, {}, {}, UNSUPPORTED)
host_watches == Group({"open", "close", "add", "remove", "read"}, {}, {}, UNSUPPORTED)
host_mappings == Group({"map", "unmap", "sync"}, {}, {}, UNSUPPORTED)
host_volumes == Group({"entry", "status"}, {}, {"entry"}, UNSUPPORTED)
host_network ==
    Group({}, {"interface_entry", "address_entry", "reverse_lookup", "membership"}, {"reverse_lookup"}, UNSUPPORTED)
host_local_sockets == Group({"bind", "connect", "address", "peer_user"}, {}, {"address"}, UNSUPPORTED)
host_accounts ==
    Group({}, {"user_by_id", "user_by_name", "process_groups", "user_groups"}, {}, UNSUPPORTED)
host_priority == Group({"get", "set"}, {}, {}, UNSUPPORTED)
host_packets == Group({"receive"}, {}, {}, UNSUPPORTED)
host_spawn_as == Group({"spawn_as"}, {}, {}, UNSUPPORTED)

\* The order in which `validate` takes them.
Order ==
    <<"vm", "services", "kernel", "runtime", "support", "context", "topology", "process", "image", "streams", "files",
      "sockets", "faults", "system", "notifications", "processes", "terminal", "watches", "mappings", "volumes",
      "network", "local_sockets", "accounts", "priority", "packets", "spawn_as">>
HostGroups ==
    [vm |-> host_vm, services |-> host_services, kernel |-> host_kernel, runtime |-> host_runtime, support |-> host_support,
     context |-> host_context, topology |-> host_topology, process |-> host_process, image |-> host_image,
     streams |-> host_streams, files |-> host_files, sockets |-> host_sockets, faults |-> host_faults, system |-> host_system,
     notifications |-> host_notifications, processes |-> host_processes, terminal |-> host_terminal,
     watches |-> host_watches, mappings |-> host_mappings, volumes |-> host_volumes, network |-> host_network,
     local_sockets |-> host_local_sockets, accounts |-> host_accounts, priority |-> host_priority,
     packets |-> host_packets, spawn_as |-> host_spawn_as]

-----------------------------------------------------------------------------
VARIABLES
    enabled,    \* the features of the build
    subject,    \* the group whose table is odd
    given,      \* that table: [there, version, size, caps, frame, callbacks]
    place,      \* the place in Order that `validate` has come to
    cached,     \* groups whose table pointer is cached
    port,       \* "validating", "up" or "rejected"
    answer      \* the last answer of an adapter

vars == <<enabled, subject, given, place, cached, port, answer>>

Whole(g) == HostGroups[g].required \union HostGroups[g].optional
Fine(g) == [there |-> TRUE, version |-> TRUE, size |-> TRUE, caps |-> TRUE, frame |-> TRUE, callbacks |-> Whole(g)]
\* The tables a host may hand over: at most one thing is odd about them.
Tables(g) ==
    {Fine(g)} \union {[Fine(g) EXCEPT !.callbacks = @ \ {c}] : c \in Whole(g)}
              \union {[Fine(g) EXCEPT !.callbacks = HostGroups[g].required]}
              \union {[Fine(g) EXCEPT !.there = FALSE], [Fine(g) EXCEPT !.version = FALSE],
                      [Fine(g) EXCEPT !.size = FALSE], [Fine(g) EXCEPT !.caps = FALSE]}
              \union (IF g = "faults" THEN {[Fine(g) EXCEPT !.frame = FALSE]} ELSE {})
TableOf(g) == IF g = subject THEN given ELSE Fine(g)

\* The header is read first, the rest only when it promises that it is there.
table(t) == t.there /\ t.version /\ t.size /\ t.caps
accepts(g, t) == table(t) /\ HostGroups[g].required \subseteq t.callbacks /\ (g = "faults" => t.frame)

NoAnswer == [callback |-> "none", there |-> TRUE, foreign |-> OK, size |-> 0, result |-> [status |-> OK, value |-> <<>>]]
Init ==
    /\ subject \in DOMAIN HostGroups
    /\ enabled \in {{subject}, DOMAIN HostGroups, DOMAIN HostGroups \ {subject}}
    /\ given \in Tables(subject)
    /\ place = 1 /\ cached = {} /\ port = "validating" /\ answer = NoAnswer

\* Tables cached before one is refused stay cached; nobody gets to use them.
validate ==
    /\ port = "validating"
    /\ IF place > Len(Order)
       THEN port' = "up" /\ UNCHANGED <<place, cached>>
       ELSE LET g == Order[place]
            IN IF g \notin enabled THEN place' = place + 1 /\ UNCHANGED <<port, cached>>
               ELSE IF accepts(g, TableOf(g))
               THEN place' = place + 1 /\ cached' = cached \union {g} /\ UNCHANGED port
               ELSE port' = "rejected" /\ UNCHANGED <<place, cached>>
    /\ UNCHANGED <<enabled, subject, given, answer>>

-----------------------------------------------------------------------------
Err(e) == [status |-> e, value |-> <<>>]
Good(v) == [status |-> OK, value |-> v]

\* What a foreign status and the outputs become: value for most callbacks.
value_result(status, v) == IF from_status(status) = OK THEN Good(v) ELSE Err(from_status(status))
text_result(status, v) ==
    IF from_status(status) \in {OK, BUFFER_TOO_SMALL} THEN Good(v) ELSE Err(from_status(status))
\* Mutant: a count of the host is believed.
listed_Trusting(status, v, n) ==
    IF from_status(status) # BUFFER_TOO_SMALL THEN value_result(status, v) ELSE Good(v)
listed(status, v, n) ==
    IF from_status(status) # BUFFER_TOO_SMALL THEN value_result(status, v)
    ELSE IF v[1] > n THEN Good(v) ELSE Err(OS_ERROR)
stderr_result(status, v, n) ==
    IF from_status(status) # OK THEN [status |-> from_status(status), value |-> <<IF v[1] < n THEN v[1] ELSE n>>]
    ELSE IF v[1] = n THEN Good(v) ELSE [status |-> OS_ERROR, value |-> <<0>>]
\* A byte is at most 2 here.
byte_result(status, v) == IF from_status(status) = OK /\ v[1] > 2 THEN Err(OS_ERROR) ELSE value_result(status, v)
\* Whether the length is of a copy or of what does not fit is part of a Lookup.
lookup_result(status, v) ==
    CASE from_status(status) = OK -> Good(<<v[1], 0>>)
      [] from_status(status) = BUFFER_TOO_SMALL -> Good(<<v[1], 3>>)
      [] OTHER -> Err(from_status(status))

adapt(g, c, status, v, n) ==
    LET group == HostGroups[g]
    IN IF c \notin TableOf(g).callbacks THEN Err(group.absent)
       ELSE CASE c \in group.texts -> text_result(status, v)
              [] c \in {"process_groups", "user_groups"} -> listed(status, v, n)
              [] c = "write_stderr" -> stderr_result(status, v, n)
              [] c = "control_character" -> byte_result(status, v)
              [] c = "environment_get" -> lookup_result(status, v)
              [] OTHER -> value_result(status, v)

\* The host as it pleases: an unpublished status, a length past any buffer.  The
\* context group hands out the table itself, these have no status, or are only
\* asked by `validate`.
Direct == {"exit", "page_size", "frame_tag", "frame_size"}
Foreign == {OK, UNSUPPORTED, OS_ERROR, BUFFER_TOO_SMALL, NOT_FOUND, MESSAGE_TOO_LARGE + 1}
call ==
    /\ port = "up" /\ subject \in enabled \ {"context"} /\ answer = NoAnswer
    /\ \E c \in Whole(subject) \ Direct, s \in Foreign, v \in 0..3, n \in 0..2 :
         answer' = [callback |-> c, there |-> c \in given.callbacks, foreign |-> s, size |-> n,
                    result |-> adapt(subject, c, s, <<v>>, n)]
    /\ UNCHANGED <<enabled, subject, given, place, cached, port>>
return ==
    /\ answer # NoAnswer /\ answer' = NoAnswer
    /\ UNCHANGED <<enabled, subject, given, place, cached, port>>

Next == validate \/ call \/ return

TypeOK ==
    /\ place \in 1..Len(Order) + 1 /\ cached \subseteq enabled
    /\ port \in {"validating", "up", "rejected"}
    /\ answer.result.status \in Error \union {OK}

\* A port that came up stands on tables that were checked: each enabled group is
\* cached, and only a callback that may be NULL is ever answered for by the
\* adapter alone.  What the front ends then make of a text, a list or a lookup is
\* never a success the host did not report, and "too small" is never said of a
\* buffer that would do (crates/dotnet-pal-host/src/lib.rs:1105).
HostIsNotTrusted ==
    /\ port = "up" => cached = enabled /\ (subject \in enabled => table(given))
    /\ ~answer.there => answer.callback \in HostGroups[subject].optional /\ answer.result.status = UNSUPPORTED
    /\ LET r == answer.result
           s == CASE answer.callback \in HostGroups[subject].texts \ {"process_affinity", "build_id"} ->
                        text_answer(answer.size, MAX_NAME + 1,
                                    IF r.status = OK THEN Good(<<r.value[1], IF answer.foreign = OK THEN WHOLE ELSE INNER_NUL, 1>>) ELSE r)
                  [] answer.callback \in {"process_groups", "user_groups"} ->
                        IF r.status # OK THEN r.status ELSE IF r.value[1] > answer.size THEN BUFFER_TOO_SMALL ELSE OK
                  [] OTHER -> r.status
       IN /\ s = OK /\ answer # NoAnswer => answer.foreign = OK \/ answer.callback \in {"process_affinity", "build_id", "environment_get"}
          /\ s = BUFFER_TOO_SMALL /\ r.status = OK => r.value[1] > answer.size
=============================================================================
