----------------------------- MODULE CoreGroups -----------------------------
(***************************************************************************)
(* Front ends of the services, kernel, runtime and support groups (clock   *)
(* and scheduler; events, mutexes, threads, thread-local values; the       *)
(* environment, identity, entropy, mappings and modules; the helper heap,  *)
(* reader-writer locks, diagnostics and thread names) and of the streams,  *)
(* terminal, topology and image groups (what the runtime asks about its    *)
(* streams, the machine and its own image); last, those of the two kinds   *)
(* of memory, virtual and linear.  <group>_record(i) is the set of         *)
(* statuses the group's `record` lets through for counter i,               *)
(* <group>_read_stats the order in which its counters are read, and        *)
(* <group>_Calls every call with every answer within the bounds.           *)
(***************************************************************************)
EXTENDS Boundary

-----------------------------------------------------------------------------
services_Ops == {"monotonic_ns", "sleep_ns", "yield_thread", "read_stats"}
services_record == OK..OUT_OF_MEMORY

monotonic_ns(o, r) ==
    Reply(<<"services", "Clock", "monotonic_ns", 0>>, 0, services_record, Check(o, TRUE, FALSE), r, TRUE, r.value)
sleep_ns(r) == Do(<<"services", "Scheduler", "sleep_ns", 1>>, services_record, TRUE, r)
yield_thread(r) == Do(<<"services", "Scheduler", "yield_thread", 2>>, services_record, TRUE, r)

services_read_stats == <<0, 1, 2, 3>>
services_negotiate(p) ==
    Offer(p, [Clock |-> {"monotonic_ns"}, Scheduler |-> {"sleep_ns", "yield_thread"}])

services_Calls ==
    {monotonic_ns(o, r) : o \in BOOLEAN, r \in Counts}
        \union {sleep_ns(r) : r \in Plain} \union {yield_thread(r) : r \in Plain}

-----------------------------------------------------------------------------
kernel_Ops ==
    {"event_create", "event_destroy", "event_set", "event_reset", "event_wait",
     "mutex_create", "mutex_destroy", "mutex_lock", "mutex_unlock",
     "thread_create", "thread_join", "thread_detach",
     "tls_create", "tls_destroy", "tls_get", "tls_set",
     "stack_bounds", "process_barrier", "read_stats"}

\* TIMEOUT is for a wait, BUSY for what is only counted when it fails.
kernel_record(i) ==
    {s \in OK..BUSY : (s = TIMEOUT => i = 1) /\ (s = BUSY => i = 11)}

create(trait, name, i, o, valid, r) ==
    Reply(<<"kernel", trait, name, i>>, 0, OK..OUT_OF_MEMORY, Check(o, valid, FALSE), r, r.value # <<0>>, r.value)
event_create(manual, initial, o, r) ==
    create("Events", "event_create", 0, o, manual <= 1 /\ initial <= 1, r)
mutex_create(recursive, o, r) == create("Mutexes", "mutex_create", 4, o, recursive <= 1, r)
thread_create(entry, stack, o, r) ==
    create("Threads", "thread_create", 6, o, entry /\ stack <= ISIZE_MAX, r)
tls_create(o, r) == create("ThreadLocal", "tls_create", 7, o, TRUE, r)

\* Successes of these are not counted, failures are.
simple(trait, name, h, r) == Do(<<"kernel", trait, name, UNCOUNTED>>, kernel_record(11), h, r)
event_destroy(h, r) == simple("Events", "event_destroy", h, r)
event_reset(h, r) == simple("Events", "event_reset", h, r)
mutex_destroy(h, r) == simple("Mutexes", "mutex_destroy", h, r)
mutex_unlock(h, r) == simple("Mutexes", "mutex_unlock", h, r)
thread_join(h, r) == simple("Threads", "thread_join", h, r)
thread_detach(h, r) == simple("Threads", "thread_detach", h, r)
tls_destroy(h, r) == simple("ThreadLocal", "tls_destroy", h, r)

event_set(h, r) == Do(<<"kernel", "Events", "event_set", 3>>, kernel_record(3), h, r)
mutex_lock(h, r) == Do(<<"kernel", "Mutexes", "mutex_lock", 5>>, kernel_record(5), h, r)
event_wait(h, r) == Do(<<"kernel", "Events", "event_wait", 1>>, kernel_record(1), h, r)
tls_set(h, r) == Do(<<"kernel", "ThreadLocal", "tls_set", 8>>, kernel_record(8), h, r)
tls_get(h, o, r) ==
    Reply(<<"kernel", "ThreadLocal", "tls_get", UNCOUNTED>>, 0, kernel_record(11), Check(o, h, FALSE), r, TRUE, r.value)
stack_bounds(low, high, same, r) ==
    Reply(<<"kernel", "StackBounds", "stack_bounds", 9>>, 0, kernel_record(9), Check(low /\ high /\ ~same, TRUE, FALSE),
          r, r.value[1] # 0 /\ r.value[1] < r.value[2], r.value)
process_barrier(r) == Do(<<"kernel", "ProcessBarrier", "process_barrier", 10>>, kernel_record(10), TRUE, r)

kernel_read_stats == <<0, 1, 2, 3, 4, 5, 6, 7, 8, 9, 10, 11>>

\* A barrier that is provided is still left out when it is not available.
kernel_negotiate(p, available) ==
    Offer(IF available THEN p ELSE p \ {"ProcessBarrier"},
          [Events |-> {"event_create", "event_destroy", "event_set", "event_reset", "event_wait"},
           Mutexes |-> {"mutex_create", "mutex_destroy", "mutex_lock", "mutex_unlock"},
           Threads |-> {"thread_create", "thread_join", "thread_detach"},
           ThreadLocal |-> {"tls_create", "tls_destroy", "tls_get", "tls_set"},
           StackBounds |-> {"stack_bounds"},
           ProcessBarrier |-> {"process_barrier"}])

kernel_Calls ==
    UNION {
        {event_create(m, i, o, r) : m \in 0..2, i \in 0..2, o \in BOOLEAN, r \in Handles},
        {mutex_create(m, o, r) : m \in 0..2, o \in BOOLEAN, r \in Handles},
        {thread_create(e, n, o, r) : e \in BOOLEAN, n \in Sizes, o \in BOOLEAN, r \in Handles},
        {tls_create(o, r) : o \in BOOLEAN, r \in Handles},
        {tls_get(h, o, r) : h \in BOOLEAN, o \in BOOLEAN, r \in Handles},
        {stack_bounds(l, h, s, r) : l \in BOOLEAN, h \in BOOLEAN, s \in BOOLEAN,
                                    r \in Results({<<a, b>> : a \in 0..1, b \in 0..2})},
        UNION {{event_destroy(h, r), event_reset(h, r), mutex_destroy(h, r), mutex_unlock(h, r),
                thread_join(h, r), thread_detach(h, r), tls_destroy(h, r), event_set(h, r),
                mutex_lock(h, r), event_wait(h, r), tls_set(h, r), process_barrier(r)}
               : h \in BOOLEAN, r \in Plain}}

-----------------------------------------------------------------------------
runtime_Ops ==
    {"environment_get", "process_id", "thread_id", "realtime_ns", "random_bytes",
     "mapping_allocate", "mapping_release", "mapping_protect",
     "module_open", "module_symbol", "module_close", "module_info", "read_stats"}
runtime_record(i) ==
    OK..OUT_OF_MEMORY \union (IF i = 0 THEN {BUFFER_TOO_SMALL, NOT_FOUND} ELSE {})
                      \union (IF i \in {7, 8, 10} THEN {NOT_FOUND} ELSE {})
valid_name(t, environment) == path(t) /\ ~(environment /\ t.equals)

\* A Lookup is <<needed, shape>>, and TooSmall as a shape of its own.
TOO_SMALL == 3
lookup_answer(n, r) ==
    LET length == r.value[1]
    IN IF r.status # OK THEN r.status
       ELSE IF r.value[2] = TOO_SMALL
       THEN IF length \in n + 1..ISIZE_MAX THEN BUFFER_TOO_SMALL ELSE OS_ERROR
       ELSE IF length \in 1..n /\ length <= ISIZE_MAX /\ r.value[2] # UNTERMINATED THEN OK ELSE OS_ERROR
environment_get(t, p, n, o, r) ==
    LET s == lookup_answer(n, r)
    IN Finish(<<"runtime", "Environment", "environment_get", 0>>, n, runtime_record(0),
              Check(o /\ valid_buffer(p, n), valid_name(t, TRUE), FALSE), s,
              IF s = OK THEN r.value ELSE IF s = BUFFER_TOO_SMALL /\ r.status = OK THEN <<r.value[1]>> ELSE <<>>)

scalar(trait, name, i, nonzero, o, r) ==
    Reply(<<"runtime", trait, name, i>>, 0, runtime_record(i), Check(o, TRUE, FALSE),
          r, nonzero => r.value # <<0>>, r.value)
process_id(o, r) == scalar("Identity", "process_id", 1, TRUE, o, r)
thread_id(o, r) == scalar("Identity", "thread_id", 1, TRUE, o, r)
realtime_ns(o, r) == scalar("Realtime", "realtime_ns", 2, FALSE, o, r)

\* The buffer holds n random bytes, or zeroes: never a part.
random_bytes(p, n, r) ==
    Reply(<<"runtime", "Entropy", "random_bytes", 3>>, n, runtime_record(3),
          Check(valid_buffer(p, n), TRUE, n = 0), r, TRUE, <<n>>)

\* Protections are sets of 1, 2 and 4; 8 is not one.
protection_ok(protection) == protection \subseteq {1, 2, 4}
mapping_allocate(n, protection, o, page, r) ==
    Reply(<<"runtime", "NativeMapping", "mapping_allocate", 4>>, n, runtime_record(4),
          Check(o, n \in 1..ISIZE_MAX /\ protection_ok(protection), FALSE),
          r, r.value # <<0>> /\ page /\ r.value # <<2>>, r.value)
mapping_release(p, n, r) ==
    Do(<<"runtime", "NativeMapping", "mapping_release", 5>>, runtime_record(5), p /\ n # 0 /\ valid_buffer(p, n), r)
mapping_protect(p, n, protection, r) ==
    Do(<<"runtime", "NativeMapping", "mapping_protect", 6>>, runtime_record(6),
       p /\ n # 0 /\ valid_buffer(p, n) /\ protection_ok(protection), r)

\* NULL with length zero is the current process.
module_open(t, o, r) ==
    Reply(<<"runtime", "Modules", "module_open", 7>>, 0, runtime_record(7),
          Check(o, (~t.p /\ t.length = 0) \/ valid_name(t, FALSE), FALSE), r, r.value # <<0>>, r.value)
module_symbol(h, t, o, r) ==
    Reply(<<"runtime", "Modules", "module_symbol", 8>>, 0, runtime_record(8),
          Check(o, h /\ valid_name(t, FALSE), FALSE), r, TRUE, r.value)
module_close(h, r) == Do(<<"runtime", "Modules", "module_close", 9>>, runtime_record(9), h, r)
module_info(h, o, r) ==
    Reply(<<"runtime", "Modules", "module_info", 10>>, 0, runtime_record(10), Check(o, h, FALSE),
          r, r.value[1] # 0 /\ r.value[2] # 0 /\ r.value[3] <= ISIZE_MAX, r.value)

runtime_read_stats == <<0, 1, 2, 3, 4, 5, 6, 7, 8, 9, 10, 11>>
runtime_negotiate(p) ==
    Offer(p, [Environment |-> {"environment_get"}, Identity |-> {"process_id", "thread_id"},
              Realtime |-> {"realtime_ns"}, Entropy |-> {"random_bytes"},
              NativeMapping |-> {"mapping_allocate", "mapping_release", "mapping_protect"},
              Modules |-> {"module_open", "module_symbol", "module_close", "module_info"}])

runtime_Calls ==
    UNION {
        {environment_get(t, p, n, o, r) : t \in Texts, p \in BOOLEAN, n \in Sizes, o \in BOOLEAN,
             r \in Results({<<k, s>> : k \in Sizes, s \in {WHOLE, UNTERMINATED, TOO_SMALL}})},
        UNION {{process_id(o, r), thread_id(o, r), realtime_ns(o, r)} : o \in BOOLEAN, r \in Counts},
        {random_bytes(p, n, r) : p \in BOOLEAN, n \in Sizes, r \in Plain},
        {mapping_allocate(n, f, o, g, r) : n \in Sizes, f \in {{}, {1, 2}, {8}}, o \in BOOLEAN, g \in BOOLEAN,
                                           r \in Results({<<0>>, <<1>>, <<2>>})},
        {mapping_release(p, n, r) : p \in BOOLEAN, n \in Sizes, r \in Plain},
        {mapping_protect(p, n, f, r) : p \in BOOLEAN, n \in Sizes, f \in {{}, {8}}, r \in Plain},
        {module_open(t, o, r) : t \in Texts, o \in BOOLEAN, r \in Handles},
        {module_symbol(h, t, o, r) : h \in BOOLEAN, t \in Texts, o \in BOOLEAN, r \in Handles},
        {module_close(h, r) : h \in BOOLEAN, r \in Plain},
        {module_info(h, o, r) : h \in BOOLEAN, o \in BOOLEAN,
                                r \in Results({<<b, n, k>> : b \in 0..1, n \in 0..1, k \in {1, ISIZE_MAX + 1}})}}

-----------------------------------------------------------------------------
support_Ops ==
    {"allocate", "resize", "release", "rw_create", "rw_read", "rw_write", "rw_unlock", "rw_destroy",
     "write_stderr", "thread_name", "read_stats"}
support_record(i) == OK..OUT_OF_MEMORY \union (IF i = 7 THEN {BUSY} ELSE {})
size_ok(n) == n \in 1..ISIZE_MAX

\* Blocks: 0 is NULL, 2 is misaligned or would wrap around the address space.
accept(name, i, n, check, r) ==
    Reply(<<"support", "NativeHeap", name, i>>, n, support_record(i), check, r, r.value \notin {<<0>>, <<2>>}, r.value)
allocate(n, zero, o, r) == accept("allocate", 0, n, Check(o, size_ok(n) /\ zero <= 1, FALSE), r)
resize(n, o, r) == accept("resize", 1, n, Check(o, size_ok(n), FALSE), r)
release(h, r) ==
    Reply(<<"support", "NativeHeap", "release", 2>>, 0, support_record(2), Check(TRUE, TRUE, ~h), r, TRUE, <<>>)
rw_create(o, r) ==
    Reply(<<"support", "RwLocks", "rw_create", 3>>, 0, support_record(3), Check(o, TRUE, FALSE), r, r.value # <<0>>, r.value)
handle_op(name, i, h, r) == Do(<<"support", "RwLocks", name, i>>, support_record(i), h, r)

\* The provider completes the request or answers with its progress, which is
\* reported with the error; progress past the request is not believed.  The
\* value of this Result is the progress also when it is an error.
write_stderr(p, n, o, r) ==
    LET believed == r.value[1] <= n /\ (r.status = OK => r.value[1] = n)
    IN Finish(<<"support", "Diagnostics", "write_stderr", 8>>, n, support_record(8),
              Check(o, valid_buffer(p, n), n = 0), IF believed THEN r.status ELSE OS_ERROR,
              IF believed THEN r.value ELSE <<0>>)
thread_name(t, r) ==
    Do(<<"support", "ThreadName", "thread_name", 9>>, support_record(9), t.p /\ t.length <= MAX_NAME /\ ~t.nul, r)

support_read_stats == <<0, 1, 2, 3, 4, 5, 6, 7, 8, 9, 10>>
support_negotiate(p) ==
    Offer(p, [NativeHeap |-> {"allocate", "resize", "release"},
              RwLocks |-> {"rw_create", "rw_read", "rw_write", "rw_unlock", "rw_destroy"},
              ThreadName |-> {"thread_name"}, Diagnostics |-> {"write_stderr"}])

support_Calls ==
    UNION {
        {allocate(n, z, o, r) : n \in Sizes, z \in 0..2, o \in BOOLEAN, r \in Results({<<0>>, <<1>>, <<2>>})},
        {resize(n, o, r) : n \in Sizes, o \in BOOLEAN, r \in Results({<<0>>, <<1>>, <<2>>})},
        {rw_create(o, r) : o \in BOOLEAN, r \in Handles},
        {thread_name(t, r) : t \in Texts, r \in Plain},
        {write_stderr(p, n, o, [status |-> e, value |-> <<k>>]) :
             p \in BOOLEAN, n \in Sizes, o \in BOOLEAN, e \in Error, k \in Sizes},
        {write_stderr(p, n, o, [status |-> OK, value |-> <<n>>]) : p \in BOOLEAN, n \in Sizes, o \in BOOLEAN},
        UNION {{release(h, r), handle_op("rw_read", 4, h, r), handle_op("rw_write", 5, h, r),
                handle_op("rw_unlock", 6, h, r), handle_op("rw_destroy", 7, h, r)} : h \in BOOLEAN, r \in Plain}}

-----------------------------------------------------------------------------
streams_Ops == {"write", "read", "is_terminal", "read_stats"}
streams_record == Base

\* No progress is no success: a caller would ask again for ever.
streams_write(stream, p, n, o, r) ==
    Reply(<<"streams", "Streams", "write", 0>>, n, streams_record,
          Check(o, stream \in 1..2 /\ valid_buffer(p, n), n = 0), r, r.value[1] \in 1..n, r.value)
streams_read(stream, p, n, o, r) ==
    Reply(<<"streams", "Streams", "read", 1>>, n, streams_record,
          Check(o, stream = 0 /\ valid_buffer(p, n), n = 0), r, r.value[1] <= n, r.value)
is_terminal(stream, o, r) ==
    Reply(<<"streams", "Streams", "is_terminal", 2>>, 0, streams_record, Check(o, stream <= 2, FALSE), r, TRUE, r.value)

streams_read_stats == <<0, 1, 2, 3>>
streams_negotiate(p) == Offer(p, [Streams |-> streams_Ops])

streams_Calls ==
    UNION {{streams_write(s, p, n, o, r), streams_read(s, p, n, o, r)}
           : s \in 0..3, p \in BOOLEAN, n \in Sizes, o \in BOOLEAN, r \in Counts}
        \union {is_terminal(s, o, r) : s \in 0..3, o \in BOOLEAN, r \in Handles}

-----------------------------------------------------------------------------
terminal_Ops == {"window_size", "set_input_mode", "input_ready", "control_character", "read_stats"}
terminal_record == Base \union {NOT_FOUND}

\* A terminal nobody gave a size has none.
window_size(stream, o, r) ==
    LET s == IF r.status = OK /\ 0 \in {r.value[1], r.value[2]} THEN UNSUPPORTED ELSE r.status
    IN Finish(<<"terminal", "Terminal", "window_size", 0>>, 0, terminal_record, Check(o, stream <= 2, FALSE),
              s, IF s = OK THEN r.value ELSE <<>>)
\* Bytes are scaled to 0..2.
set_input_mode(raw, min_bytes, timeout_ds, interrupt, r) ==
    Do(<<"terminal", "Terminal", "set_input_mode", 1>>, terminal_record,
       raw <= 1 /\ interrupt <= 1 /\ min_bytes <= 2 /\ timeout_ds <= 2, r)
input_ready(o, r) ==
    Reply(<<"terminal", "Terminal", "input_ready", 2>>, 0, terminal_record, Check(o, TRUE, FALSE), r, TRUE, r.value)
control_character(which, o, r) ==
    Reply(<<"terminal", "Terminal", "control_character", 3>>, 0, terminal_record,
          Check(o, which \in 1..4, FALSE), r, TRUE, r.value)

terminal_read_stats == <<0, 1, 2, 3, 4>>
terminal_negotiate(p) == Offer(p, [Terminal |-> terminal_Ops])

terminal_Calls ==
    UNION {
        {window_size(s, o, r) : s \in 0..3, o \in BOOLEAN, r \in Results({<<c, w>> : c \in 0..1, w \in 0..1})},
        {set_input_mode(a, b, c, d, r) : a \in 0..2, b \in {0, 3}, c \in {0, 3}, d \in 0..2, r \in Plain},
        {input_ready(o, r) : o \in BOOLEAN, r \in Handles},
        {control_character(w, o, r) : w \in 0..5, o \in BOOLEAN, r \in Counts}}

-----------------------------------------------------------------------------
topology_Ops ==
    {"cpu_max", "cpu_count", "current_cpu", "process_affinity", "set_thread_affinity", "physical_memory",
     "memory_limit", "virtual_limit", "cache_size", "cpu_features", "read_stats", "cache_level_size", "swap_memory"}
MAX_CPUS == 3
MASK_MAX == 3   \* bytes of a mask of MAX_CPUS
topology_record(i) == Base \union (IF i = 1 THEN {BUFFER_TOO_SMALL} ELSE {})

topology(name, i, check, r, good) ==
    Reply(<<"topology", "Topology", name, i>>, 0, topology_record(i), check, r, good, r.value)
count(name, nonzero, o, r) ==
    topology(name, 0, Check(o, TRUE, FALSE), r, r.value[1] <= MAX_CPUS /\ (nonzero => r.value[1] # 0))
cpu_max(o, r) == count("cpu_max", TRUE, o, r)
cpu_count(o, r) == count("cpu_count", TRUE, o, r)
current_cpu(o, r) == count("current_cpu", FALSE, o, r)

\* A length the buffer cannot hold is reported, with a cleared mask.
sized_answer(n, limit, r) ==
    IF r.status # OK THEN r.status
    ELSE IF r.value[1] \notin 1..limit THEN OS_ERROR
    ELSE IF r.value[1] > n THEN BUFFER_TOO_SMALL ELSE OK
process_affinity(p, n, o, r) ==
    Finish(<<"topology", "Topology", "process_affinity", 1>>, n, topology_record(1),
           Check(o, valid_buffer(p, n), FALSE), sized_answer(n, MASK_MAX, r),
           IF r.status = OK /\ r.value[1] \in 1..MASK_MAX THEN r.value ELSE <<>>)
set_thread_affinity(cpu, r) ==
    Do(<<"topology", "Topology", "set_thread_affinity", 1>>, topology_record(1), cpu <= MAX_CPUS, r)
physical_memory(o, r) ==
    topology("physical_memory", 2, Check(o, TRUE, FALSE), r, r.value[1] # 0 /\ r.value[2] <= r.value[1])
limit_of(name, o, r) == topology(name, 2, Check(o, TRUE, FALSE), r, TRUE)
memory_limit(o, r) == limit_of("memory_limit", o, r)
virtual_limit(o, r) == limit_of("virtual_limit", o, r)
cache_size(o, r) == topology("cache_size", 3, Check(o, TRUE, FALSE), r, TRUE)
cache_level_size(level, o, r) == topology("cache_level_size", 3, Check(o, level \in 1..4, FALSE), r, TRUE)
swap_memory(o, r) == topology("swap_memory", 2, Check(o, TRUE, FALSE), r, r.value[2] <= r.value[1])
cpu_features(o, r) == topology("cpu_features", 4, Check(o, TRUE, FALSE), r, TRUE)

topology_read_stats == <<0, 1, 2, 3, 4, 5>>
topology_negotiate(p) == Offer(p, [Topology |-> topology_Ops])

Pairs == Results({<<a, b>> : a \in 0..2, b \in 0..2})
topology_Calls ==
    UNION {
        UNION {{cpu_max(o, r), cpu_count(o, r), current_cpu(o, r), memory_limit(o, r), virtual_limit(o, r),
                cache_size(o, r)} : o \in BOOLEAN, r \in Counts},
        {process_affinity(p, n, o, r) : p \in BOOLEAN, n \in Sizes, o \in BOOLEAN, r \in Counts},
        {set_thread_affinity(c, r) : c \in 0..MAX_CPUS + 1, r \in Plain},
        {cache_level_size(l, o, r) : l \in 0..5, o \in BOOLEAN, r \in Counts},
        UNION {{physical_memory(o, r), swap_memory(o, r), cpu_features(o, r)} : o \in BOOLEAN, r \in Pairs}}

-----------------------------------------------------------------------------
image_Ops == {"unwind_info", "readable", "build_id", "read_stats"}
image_record(i) ==
    Base \union (IF i # 3 THEN {NOT_FOUND} ELSE {}) \union (IF i = 2 THEN {BUFFER_TOO_SMALL} ELSE {})

\* An answer is <<text_start, text_length, hdr, hdr_length, frame, frame_length>>.
\* ADDRESS_MAX is the last address: a range past it does not exist.
ADDRESS_MAX == 3
range_exists(start, length) == start + length <= ADDRESS_MAX
consistent_unwind(u, address) ==
    LET hdr == u[3] # 0 /\ u[4] # 0 /\ range_exists(u[3], u[4])
        frame == u[5] # 0 /\ range_exists(u[5], u[6])
    IN /\ range_exists(u[1], u[2]) /\ u[2] # 0
       /\ address \in u[1]..u[1] + u[2] - 1
       /\ hdr \/ (frame /\ u[6] # 0)
       /\ u[3] = 0 \/ hdr
       /\ u[5] = 0 \/ frame
unwind_info(address, o, r) ==
    Reply(<<"image", "Image", "unwind_info", 0>>, address, image_record(0), Check(o, address # 0, FALSE),
          r, consistent_unwind(r.value, address), r.value)
readable(address, n, r) ==
    LET s == IF r = [status |-> OK, value |-> <<0>>] THEN NOT_FOUND ELSE r.status
    IN Finish(<<"image", "Image", "readable", 1>>, n, image_record(1),
              Check(TRUE, address # 0 /\ n # 0 /\ range_exists(address, n), FALSE), s, <<>>)
MAX_BUILD_ID == 3
build_id(base, p, n, o, r) ==
    Finish(<<"image", "Image", "build_id", 2>>, n, image_record(2),
           Check(o, base # 0 /\ n <= MAX_BUILD_ID /\ (n # 0 => p), FALSE), sized_answer(n, MAX_BUILD_ID, r),
           IF r.status = OK /\ r.value[1] \in 1..MAX_BUILD_ID THEN r.value ELSE <<>>)

image_read_stats == <<0, 1, 2, 3>>
image_negotiate(p) == Offer(p, [Image |-> image_Ops])

image_Calls ==
    UNION {
        {unwind_info(a, o, r) : a \in 0..2, o \in BOOLEAN,
             r \in Results({<<s, l, h, hl, f, fl>> : s \in 1..2, l \in 0..2, h \in {0, 2}, hl \in 0..2, f \in {0, 2}, fl \in 0..2})},
        {readable(a, n, r) : a \in 0..2, n \in 0..3, r \in Handles},
        {build_id(b, p, n, o, r) : b \in 0..1, p \in BOOLEAN, n \in Sizes, o \in BOOLEAN, r \in Counts}}
-----------------------------------------------------------------------------
\* The VM group and the linear group, whose `record` folds no status.  Sizes and
\* addresses are numbers of half pages below a limit of their own, so that a size
\* is rounded, an address misses its page, and both can wrap.
PAGE == 2
MEMORY_MAX == 15
Memory == INSTANCE Geometry WITH UsizeMax <- MEMORY_MAX
memory_record == Error \union {OK}

\* `flags` are refused after the output is cleared and before the geometry is looked
\* at; an address that is NULL, not aligned or wraps is the provider's error.
obtain(id, size, alignment, flags, o, r) ==
    LET g == Memory!geometry(size, alignment, PAGE)
        placed == r.value[1] # 0 /\ r.value[1] % g.alignment = 0 /\ r.value[1] + g.size <= MEMORY_MAX
        verdict == IF flags # 0 THEN UNSUPPORTED ELSE Answer(r, placed)
    IN Finish(id, size, memory_record, Check(o, flags # 0 \/ g.size # 0, FALSE), verdict,
              IF verdict = OK THEN r.value ELSE <<>>)

vm_Ops == {"page_size", "reserve", "commit", "decommit", "release", "reset"}
reserve(size, alignment, flags, o, r) ==
    obtain(<<"vm", "VirtualMemory", "reserve", 0>>, size, alignment, flags, o, r)
vm_valid_range(address, size) ==
    LET rounded == Memory!round_size(size, PAGE)
    IN rounded # 0 /\ address # 0 /\ address % PAGE = 0 /\ address + rounded <= MEMORY_MAX
range_op(name, i, address, size, r) ==
    Do(<<"vm", "VirtualMemory", name, i>>, memory_record, vm_valid_range(address, size), r)

vm_read_stats == <<0, 1, 2, 3, 4, 5>>
vm_negotiate(p) == Offer(p, [VirtualMemory |-> vm_Ops])

linear_allocate(size, alignment, flags, o, r) ==
    obtain(<<"linear", "Linear", "allocate", 0>>, size, alignment, flags, o, r)
linear_zero(address, size, r) ==
    Do(<<"linear", "Linear", "zero", 1>>, memory_record,
       address # 0 /\ size # 0 /\ address + size <= MEMORY_MAX, r)
linear_release(address, size, r) ==
    Do(<<"linear", "Linear", "release", 2>>, memory_record, Memory!round_size(size, PAGE) # 0 /\ address # 0, r)

\* Without a provider the linear group has no statistics either.
linear_read_stats == <<0, 1, 2, 3>>
linear_negotiate(p) ==
    IF "Linear" \in p
    THEN {"granularity", "capacity", "allocate", "zero", "release", "read_stats"}
    ELSE {}

Regions == {0, 1, 2, 3, 5, 7, MEMORY_MAX}
Placements == Results({<<a>> : a \in 0..MEMORY_MAX})
vm_Calls ==
    {reserve(n, a, f, o, r) : n \in Regions, a \in 0..4, f \in 0..1, o \in BOOLEAN, r \in Placements}
        \union UNION {{range_op("commit", 1, a, n, r), range_op("decommit", 2, a, n, r),
                       range_op("release", 3, a, n, r), range_op("reset", 4, a, n, r)}
                      : a \in 0..MEMORY_MAX, n \in Regions, r \in Plain}
linear_Calls ==
    {linear_allocate(n, a, f, o, r) : n \in Regions, a \in 0..4, f \in 0..1, o \in BOOLEAN, r \in Placements}
        \union UNION {{linear_zero(a, n, r), linear_release(a, n, r)}
                      : a \in 0..MEMORY_MAX, n \in Regions, r \in Plain}
=============================================================================
