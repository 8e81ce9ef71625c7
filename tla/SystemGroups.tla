---------------------------- MODULE SystemGroups ----------------------------
(***************************************************************************)
(* Front ends of the files, mappings and watches groups, of the sockets,   *)
(* local_sockets, packets and network groups, of the process, processes    *)
(* and spawn_as groups, and of the system, accounts, priority, volumes,    *)
(* context and wasi groups.  Written as CoreGroups is; a set of flags is a *)
(* set.  An address is a family, 0 the zero address that stands for "not   *)
(* known"; the bytes a family does not use are gone.                       *)
(***************************************************************************)
EXTENDS Boundary, Integers

-----------------------------------------------------------------------------
files_Ops ==
    {"open", "close", "read_at", "write_at", "set_size", "flush", "status", "path_status", "remove", "rename",
     "directory_create", "directory_remove", "directory_open", "directory_read", "directory_close", "current_directory",
     "read_stats", "set_mode", "set_file_mode", "set_times", "set_file_times", "link", "symlink", "read_link", "real_path",
     "set_current_directory", "lock", "lock_range"}
files_record ==
    OK..OUT_OF_MEMORY \union {BUSY} \union NOT_FOUND..NO_SPACE \union TOO_MANY_HANDLES..CROSS_DEVICE
ATTRIBUTE == 11
LINK == 12
LOCK == 13

Nodes == 1..4
OpenFlags == {"read", "write", "create", "exclusive", "truncate"}
\* <<kind, mode>>; a mode above MODE_MASK has bits no file has.
MODE_MASK == 1
status_consistent(v) == v[1] \in Nodes /\ v[2] <= MODE_MASK
valid_open(flags) ==
    /\ flags \subseteq OpenFlags
    /\ flags \intersect {"read", "write"} # {}
    /\ "exclusive" \in flags => "create" \in flags
    /\ "truncate" \in flags => "write" \in flags

files(name, i) == <<"files", "Files", name, i>>
handle(name, i, check, r) == Reply(files(name, i), 0, files_record, check, r, r.value = <<1>>, r.value)
files_open(t, flags, mode, o, r) == handle("open", 0, Check(o, path(t) /\ valid_open(flags) /\ mode <= MODE_MASK, FALSE), r)
files_close(f, r) == Do(files("close", 1), files_record, f, r)
read_at(f, offset, p, n, o, r) ==
    Reply(files("read_at", 2), n, files_record, Check(o, f /\ valid_buffer(p, n) /\ offset <= I64_MAX, n = 0),
          r, r.value[1] <= n, r.value)
\* Mutant: a write that moved nothing is a success.
write_at_AcceptsNothing(f, offset, p, n, o, r) ==
    Reply(files("write_at", 3), n, files_record,
          Check(o, f /\ valid_buffer(p, n) /\ offset <= I64_MAX /\ offset + n <= I64_MAX, n = 0),
          r, r.value[1] <= n, r.value)
write_at(f, offset, p, n, o, r) ==
    Reply(files("write_at", 3), n, files_record,
          Check(o, f /\ valid_buffer(p, n) /\ offset <= I64_MAX /\ offset + n <= I64_MAX, n = 0),
          r, r.value[1] # 0 /\ r.value[1] <= n, r.value)
set_size(f, size, r) == Do(files("set_size", 4), files_record, f /\ size <= I64_MAX, r)
files_flush(f, r) == Do(files("flush", 5), files_record, f, r)

describe(name, check, r) == Reply(files(name, 6), 0, files_record, check, r, status_consistent(r.value), r.value)
files_status(f, o, r) == describe("status", Check(o, f, FALSE), r)
path_status(t, follow, o, r) == describe("path_status", Check(o, path(t) /\ follow <= 1, FALSE), r)

files_remove(t, r) == Do(files("remove", 7), files_record, path(t), r)
rename(from, to, r) == Do(files("rename", 8), files_record, path(from) /\ path(to), r)
directory_create(t, mode, r) == Do(files("directory_create", 9), files_record, path(t) /\ mode <= MODE_MASK, r)
directory_remove(t, r) == Do(files("directory_remove", 9), files_record, path(t), r)
directory_open(t, o, r) == handle("directory_open", 9, Check(o, path(t), FALSE), r)

\* The provider is asked again while it lists "." or "..": `answers` are its
\* answers to one call, <<length, kind, shape>>, the last one no self reference.
PLAIN_ENTRY == 0
BAD_ENTRY == 1
SELF_ENTRY == 2
self(r) == r.status = OK /\ r.value[3] = SELF_ENTRY
directory_read(d, p, n, o, answers) ==
    LET r == answers[CHOOSE i \in DOMAIN answers : ~self(answers[i]) /\ \A j \in 1..i - 1 : self(answers[j])]
    IN Reply(files("directory_read", 9), n, files_record,
             Check(o, d /\ p /\ n >= MAX_ENTRY_NAME /\ valid_buffer(p, n), FALSE),
             r, r.value[1] \in 1..MAX_ENTRY_NAME /\ r.value[2] \in Nodes /\ r.value[3] = PLAIN_ENTRY,
             <<r.value[1], r.value[2], r.value[3]>>)
directory_close(d, r) == Do(files("directory_close", 9), files_record, d, r)
\* BUFFER_TOO_SMALL does not go through `record`.
current_directory(p, n, o, r) ==
    text(files("current_directory", 9), n, files_record \union {BUFFER_TOO_SMALL},
         Check(o /\ valid_buffer(p, n), TRUE, FALSE), MAX_NAME + 1, r)

TIME_KEEP == 9
times(accessed, modified) == \A t \in {accessed, modified} : t = TIME_KEEP \/ t <= I64_MAX
set_mode(t, mode, r) == Do(files("set_mode", ATTRIBUTE), files_record, path(t) /\ mode <= MODE_MASK, r)
set_file_mode(f, mode, r) == Do(files("set_file_mode", ATTRIBUTE), files_record, f /\ mode <= MODE_MASK, r)
set_times(t, follow, accessed, modified, r) ==
    Do(files("set_times", ATTRIBUTE), files_record, path(t) /\ times(accessed, modified) /\ follow <= 1, r)
set_file_times(f, accessed, modified, r) ==
    Do(files("set_file_times", ATTRIBUTE), files_record, times(accessed, modified) /\ f, r)
link(existing, created, r) == Do(files("link", LINK), files_record, path(existing) /\ path(created), r)
symlink(text_of, created, r) == Do(files("symlink", LINK), files_record, path(text_of) /\ path(created), r)
path_text(name, t, p, n, o, r) ==
    text(files(name, LINK), n, files_record \union {BUFFER_TOO_SMALL},
         Check(o /\ valid_buffer(p, n), path(t), FALSE), MAX_NAME + 1, r)
read_link(t, p, n, o, r) == path_text("read_link", t, p, n, o, r)
real_path(t, p, n, o, r) == path_text("real_path", t, p, n, o, r)
set_current_directory(t, r) == Do(files("set_current_directory", 9), files_record, path(t), r)

\* A refused lock is an answer only to a request that may be refused.
LOCK_UNLOCK == 3
record_lock(may_refuse) == files_record \union (IF may_refuse THEN {WOULD_BLOCK} ELSE {})
lock(f, mode, waits, r) ==
    Do(files("lock", LOCK), record_lock(waits = 0 /\ mode # LOCK_UNLOCK), f /\ mode \in 1..LOCK_UNLOCK /\ waits <= 1, r)
lock_range(f, offset, length, mode, r) ==
    Do(files("lock_range", LOCK), record_lock(mode # LOCK_UNLOCK),
       f /\ mode \in 1..LOCK_UNLOCK /\ length # 0 /\ offset <= I64_MAX /\ offset + length <= I64_MAX, r)

files_read_stats == <<0, 1, 2, 3, 4, 5, 6, 7, 8, 9, 10, ATTRIBUTE, LINK, LOCK>>
files_negotiate(p) == Offer(p, [Files |-> files_Ops])

Entries == Results({<<n, k, s>> : n \in {0, 1, MAX_ENTRY_NAME, MAX_ENTRY_NAME + 1}, k \in {0, 1, 4, 5}, s \in {PLAIN_ENTRY, BAD_ENTRY}})
SelfEntry == [status |-> OK, value |-> <<1, 2, SELF_ENTRY>>]
Kinds == Results({<<k, m>> : k \in {0, 1, 4, 5}, m \in 0..2})
Times == {0, I64_MAX, I64_MAX + 1, TIME_KEEP}
files_Calls ==
    UNION {
        {files_open(t, f, m, o, r) : t \in Texts, f \in {{"read"}, {"create"}}, m \in 0..2, o \in BOOLEAN, r \in Handles},
        {files_open(CHOOSE t \in Texts : path(t), f, 0, TRUE, r) : f \in SUBSET (OpenFlags \union {"other"}), r \in Handles},
        UNION {{read_at(f, b, p, n, o, r), write_at(f, b, p, n, o, r)}
               : f \in BOOLEAN, b \in {0, 2, I64_MAX, I64_MAX + 1}, p \in BOOLEAN, n \in Sizes, o \in BOOLEAN, r \in Counts},
        UNION {{files_close(f, r), files_flush(f, r), directory_close(f, r)} : f \in BOOLEAN, r \in Plain},
        {set_size(f, n, r) : f \in BOOLEAN, n \in Sizes, r \in Plain},
        {files_status(f, o, r) : f \in BOOLEAN, o \in BOOLEAN, r \in Kinds},
        {path_status(t, w, o, r) : t \in Texts, w \in 0..2, o \in BOOLEAN, r \in Kinds},
        UNION {{files_remove(t, r), directory_remove(t, r), set_current_directory(t, r)} : t \in Texts, r \in Plain},
        UNION {{rename(t, u, r), link(t, u, r), symlink(t, u, r)} : t \in Texts, u \in Texts, r \in Plain},
        UNION {{directory_create(t, m, r), set_mode(t, m, r)} : t \in Texts, m \in 0..2, r \in Plain},
        {directory_open(t, o, r) : t \in Texts, o \in BOOLEAN, r \in Handles},
        {directory_read(d, p, n, o, a) : d \in BOOLEAN, p \in BOOLEAN, n \in Sizes, o \in BOOLEAN,
                                         a \in {<<r>> : r \in Entries} \union {<<SelfEntry, r>> : r \in Entries}},
        {current_directory(p, n, o, r) : p \in BOOLEAN, n \in Sizes, o \in BOOLEAN, r \in TextResults},
        {set_file_mode(f, m, r) : f \in BOOLEAN, m \in 0..2, r \in Plain},
        {set_times(t, w, a, m, r) : t \in Texts, w \in 0..2, a \in Times, m \in Times, r \in Plain},
        {set_file_times(f, a, m, r) : f \in BOOLEAN, a \in Times, m \in Times, r \in Plain},
        UNION {{read_link(t, p, n, o, r), real_path(t, p, n, o, r)}
               : t \in Texts, p \in BOOLEAN, n \in Sizes, o \in BOOLEAN, r \in TextResults},
        {lock(f, m, w, r) : f \in BOOLEAN, m \in 0..4, w \in 0..2, r \in Plain},
        {lock_range(f, a, n, m, r) : f \in BOOLEAN, a \in Sizes, n \in Sizes, m \in 0..4, r \in Plain}}

-----------------------------------------------------------------------------
mappings_Ops == {"map", "unmap", "sync", "read_stats"}
mappings_record(i) == Base \union (IF i = 0 THEN {OUT_OF_MEMORY, ACCESS_DENIED} ELSE {})

valid_range(p, n) == p /\ n # 0 /\ n <= ISIZE_MAX
\* An address that is NULL or wraps with its length is 0.
map(f, offset, n, access, mode, o, r) ==
    Reply(<<"mappings", "Mappings", "map", 0>>, n, mappings_record(0),
          Check(o, /\ f /\ n # 0 /\ n <= ISIZE_MAX /\ offset + n <= I64_MAX
                   /\ access # {} /\ access \subseteq {"read", "write", "execute"} /\ mode \in 1..2, FALSE),
          r, r.value = <<1>>, r.value)
unmap(p, n, r) == Do(<<"mappings", "Mappings", "unmap", 1>>, mappings_record(1), valid_range(p, n), r)
sync(p, n, r) == Do(<<"mappings", "Mappings", "sync", 2>>, mappings_record(2), valid_range(p, n), r)

mappings_read_stats == <<0, 1, 2, 3>>
mappings_negotiate(p) == Offer(p, [Mappings |-> mappings_Ops])

mappings_Calls ==
    {map(f, b, n, a, m, o, r) : f \in BOOLEAN, b \in Sizes, n \in Sizes, a \in {{}, {"read"}, {"other"}},
                                m \in 0..3, o \in BOOLEAN, r \in Handles}
        \union UNION {{unmap(p, n, r), sync(p, n, r)} : p \in BOOLEAN, n \in Sizes, r \in Plain}

-----------------------------------------------------------------------------
watches_Ops == {"open", "close", "add", "remove", "read", "read_stats"}
REQUESTABLE == {"access", "modify", "attributes", "moved_from", "moved_to", "create", "delete"}
REPORTABLE == REQUESTABLE \union {"overflow", "removed", "directory"}
watches_record(i) ==
    UNION {OK..OUT_OF_MEMORY,
           IF i \in {0, 2} THEN {NO_SPACE, TOO_MANY_HANDLES} ELSE {},
           IF i = 2 THEN {NOT_FOUND, NOT_DIRECTORY, ACCESS_DENIED, NAME_TOO_LONG} ELSE {},
           IF i = 4 THEN {TIMEOUT} ELSE {}}

watches(name, i) == <<"watches", "Watches", name, i>>
watches_open(o, r) == Reply(watches("open", 0), 0, watches_record(0), Check(o, TRUE, FALSE), r, r.value = <<1>>, r.value)
watches_close(w, r) == Do(watches("close", 1), watches_record(1), w, r)
watches_add(w, t, events, o, r) ==
    Reply(watches("add", 2), 0, watches_record(2),
          Check(o, /\ path(t) /\ w /\ events \intersect REQUESTABLE # {}
                   /\ events \subseteq REQUESTABLE \union {"only_directory", "no_follow"}, FALSE),
          r, r.value # <<0>>, r.value)
watches_remove(w, watch, r) == Do(watches("remove", 3), watches_record(3), w /\ watch # 0, r)

\* An event a consumer could not act on.  A name is terminated and holds neither
\* a NUL nor a '/', or it is not well.
broken(e) ==
    \/ (e.events \intersect REPORTABLE) \ {"directory"} = {}
    \/ ~(e.events \subseteq REPORTABLE)
    \/ ("overflow" \in e.events) # (e.watch = 0)
    \/ ~e.named
watches_read(w, o, r, e) ==
    Reply(watches("read", 4), 0, watches_record(4), Check(o, w, FALSE), r, ~broken(e), <<e.watch>>)

watches_read_stats == <<0, 1, 2, 3, 4, 5>>
watches_negotiate(p) == Offer(p, [Watches |-> watches_Ops])

WatchEvents ==
    [watch : 0..1, named : BOOLEAN,
     events : {{}, {"directory"}, {"create"}, {"create", "directory"}, {"overflow"}, {"removed"}, {"create", "other"}}]
watches_Calls ==
    UNION {
        {watches_open(o, r) : o \in BOOLEAN, r \in Handles},
        {watches_close(w, r) : w \in BOOLEAN, r \in Plain},
        {watches_add(w, t, e, o, r) : w \in BOOLEAN, t \in Texts, o \in BOOLEAN, r \in Handles,
                                      e \in {{}, {"create"}, {"no_follow"}, {"create", "only_directory"}, {"create", "overflow"}}},
        {watches_remove(w, i, r) : w \in BOOLEAN, i \in 0..1, r \in Plain},
        {watches_read(w, o, r, e) : w \in BOOLEAN, o \in BOOLEAN, r \in Plain, e \in WatchEvents}}

-----------------------------------------------------------------------------
IPV4 == 1
IPV6 == 2
LOCAL_SOCKET == 3
Families == 0..4
\* What a consumer may pass in, and what an endpoint may be reported as.
normalized(f) == f \in {IPV4, IPV6}
reported(f) == f \in {IPV4, IPV6, LOCAL_SOCKET}
known(f) == IF reported(f) THEN f ELSE 0
\* An address argument: NULL, misaligned or one of a family.
input(a) == a.p /\ normalized(a.family)
Addresses == [p : BOOLEAN, family : Families]

-----------------------------------------------------------------------------
sockets_Ops ==
    {"create", "close", "bind", "listen", "accept", "connect", "send", "receive", "shutdown", "local_address", "peer_address",
     "set_blocking", "get_option", "set_option", "poll", "wake", "resolve", "host_name", "read_stats"}
sanitized ==
    OK..TIMEOUT \union {ACCESS_DENIED} \union WOULD_BLOCK..TOO_MANY_HANDLES \union {MESSAGE_TOO_LARGE}
sanitize(status) == IF status \in sanitized THEN status ELSE OS_ERROR
sockets_record == sanitized

sockets(name, i) == <<"sockets", "Sockets", name, i>>
sockets_do(name, i, valid, r) == Do(sockets(name, i), sockets_record, valid, r)

\* Families 1..3 (IPV4, IPV6, LOCAL_SOCKET), kinds 1..3 (STREAM, DATAGRAM, RAW).
sockets_create(family, kind, o, r) ==
    Reply(sockets("create", 0), 0, sockets_record,
          Check(o, family \in 1..3 /\ kind \in 1..3 /\ ~(family = LOCAL_SOCKET /\ kind = 3), FALSE), r, r.value = <<1>>, r.value)
sockets_close(s, r) == sockets_do("close", 1, s, r)
sockets_bind(s, a, r) == sockets_do("bind", 2, input(a) /\ s, r)
sockets_listen(s, r) == sockets_do("listen", 3, s, r)
\* <<handle, peer>>: the connection is good whoever the peer is.
sockets_accept(s, o, r) ==
    Reply(sockets("accept", 4), 0, sockets_record, Check(o, s, FALSE), r, r.value[1] = 1, <<1, known(r.value[2])>>)
sockets_connect(s, a, r) == sockets_do("connect", 5, input(a) /\ s, r)

\* An empty message is sent: no size asks for nothing.  NULL is no address at all.
sockets_send(s, p, n, to, o, r) ==
    Reply(sockets("send", 6), n, sockets_record, Check(o, s /\ valid_buffer(p, n) /\ (to = 0 \/ normalized(to)), FALSE),
          r, r.value[1] <= n, r.value)
sockets_receive(s, p, n, flags, o, r, sender) ==
    Reply(sockets("receive", 7), n, sockets_record, Check(o, s /\ valid_buffer(p, n) /\ flags <= 1, FALSE),
          r, r.value[1] <= n, r.value \o <<known(sender)>>)
sockets_shutdown(s, how, r) == sockets_do("shutdown", 8, s /\ how \in 1..3, r)
endpoint(name, s, o, r) ==
    Reply(sockets(name, 9), 0, sockets_record, Check(o, s, FALSE), r, reported(r.value[1]), r.value)
local_address(s, o, r) == endpoint("local_address", s, o, r)
peer_address(s, o, r) == endpoint("peer_address", s, o, r)
set_blocking(s, blocking, r) == sockets_do("set_blocking", 10, s /\ blocking <= 1, r)

SO_ERROR == 11
AVAILABLE == 12
Options == 1..22
Flags == {1, 2, 3, 4, 7, 18, 20, 21, 22}
HopLimits == {16, 17}
Positive == {13, 14, 15, 16}
\* Values scaled: hop limits end at MAX_HOPS, u32::MAX is U32_MAX.
MAX_HOPS == 2
U32_MAX == 40
\* The pending error travels as a value and is held to the same statuses.
get_option(s, option, o, r) ==
    Reply(sockets("get_option", 10), 0, sockets_record, Check(o, s /\ option \in Options, FALSE), r, TRUE,
          IF option = SO_ERROR THEN <<IF r.value[1] > U32_MAX THEN OS_ERROR ELSE sanitize(r.value[1])>> ELSE r.value)
set_option(s, option, value, r) ==
    sockets_do("set_option", 10,
               /\ s /\ option \in Options \ {SO_ERROR, AVAILABLE} /\ value <= U32_MAX
               /\ option \in Flags => value <= 1
               /\ option \in HopLimits => value <= MAX_HOPS
               /\ option \in Positive => value # 0, r)

\* Entries are [socket, requested, triggered] with sets of bits.  The check
\* clears as it goes and stops at the first entry it refuses: those behind it
\* keep what the caller left in them.
MAX_POLL == 2
POLL_CHANNELS == 2
NO_CHANNEL == 9
acceptable(e) == e.socket /\ e.requested \subseteq {"read", "write"}
poll(entries, channel, o, r, answers) ==
    LET refused == {i \in DOMAIN entries : ~acceptable(entries[i])}
        ask == /\ Len(entries) <= MAX_POLL /\ (channel < POLL_CHANNELS \/ channel = NO_CHANNEL)
               /\ refused = {} /\ o
        triggered == [i \in DOMAIN entries |->
                        CASE ask /\ r.status = OK -> answers[i] \intersect (entries[i].requested \union {"error", "hangup"})
                          [] ask /\ r.status # OK -> {}
                          [] OTHER -> IF o /\ Len(entries) <= MAX_POLL /\ \A j \in refused : i <= j THEN {} ELSE entries[i].triggered]
        ready == IF ask /\ r.status = OK THEN Len(SelectSeq(triggered, LAMBDA t : t # {})) ELSE 0
    IN [reply |-> Reply(sockets("poll", 11), Len(entries), sockets_record, Check(o, ask, FALSE), r, TRUE, <<ready>>),
        triggered |-> triggered]
wake(channel, r) == sockets_do("wake", 12, channel < POLL_CHANNELS, r)

\* NOT_FOUND does not go through `record`.  <<found, family of all of them>>.
MAX_RESOLVED == 2
resolved(family, n, v) == v[1] \in 1..n /\ normalized(v[2]) /\ family \in {0, v[2]}
resolve(t, family, p, n, o, r) ==
    LET status == IF r.status = OK /\ r.value[1] = 0 THEN NOT_FOUND ELSE Answer(r, resolved(family, n, r.value))
    IN Finish(sockets("resolve", 13), n, sockets_record \union {NOT_FOUND},
              Check(o, n \in 1..MAX_RESOLVED /\ p /\ family <= IPV6 /\ path(t), FALSE),
              status, IF status = OK THEN r.value ELSE <<>>)
host_name(p, n, o, r) ==
    text(sockets("host_name", 13), n, sockets_record \union {BUFFER_TOO_SMALL},
         Check(o /\ valid_buffer(p, n), TRUE, FALSE), MAX_NAME + 1, r)

sockets_read_stats == <<0, 1, 2, 3, 4, 5, 6, 7, 8, 9, 10, 11, 12, 13, 14>>
sockets_negotiate(p) == Offer(p, [Sockets |-> sockets_Ops])

Bits == {{}, {"read"}, {"write", "error"}}
PollEntries == [socket : BOOLEAN, requested : {{"read"}, {"read", "write"}, {"other"}}, triggered : {{}, {"read"}}]
Polls ==
    {poll(<<>>, c, o, r, <<>>) : c \in {0, POLL_CHANNELS, NO_CHANNEL}, o \in BOOLEAN, r \in Plain}
        \union {poll(<<d, e>>, 0, o, r, <<a, b>>) : d \in PollEntries, e \in PollEntries, o \in BOOLEAN,
                                                    r \in {q \in Plain : q.status <= INVALID_ARGUMENT}, a \in Bits, b \in Bits}
sockets_Calls ==
    UNION {
        {sockets_create(f, k, o, r) : f \in Families, k \in 0..4, o \in BOOLEAN, r \in Handles},
        UNION {{sockets_close(s, r), sockets_listen(s, r)} : s \in BOOLEAN, r \in Plain},
        UNION {{sockets_bind(s, a, r), sockets_connect(s, a, r)} : s \in BOOLEAN, a \in Addresses, r \in Plain},
        {sockets_accept(s, o, r) : s \in BOOLEAN, o \in BOOLEAN, r \in Results({<<h, f>> : h \in 0..1, f \in Families})},
        {sockets_send(s, p, n, t, o, r) : s \in BOOLEAN, p \in BOOLEAN, n \in Sizes, t \in Families, o \in BOOLEAN, r \in Counts},
        {sockets_receive(s, p, n, f, o, r, a) : s \in BOOLEAN, p \in BOOLEAN, n \in Sizes, f \in 0..2, o \in BOOLEAN,
                                                r \in Counts, a \in Families},
        {sockets_shutdown(s, h, r) : s \in BOOLEAN, h \in 0..4, r \in Plain},
        UNION {{local_address(s, o, r), peer_address(s, o, r)} : s \in BOOLEAN, o \in BOOLEAN, r \in Counts},
        {set_blocking(s, b, r) : s \in BOOLEAN, b \in 0..2, r \in Plain},
        {get_option(s, i, o, r) : s \in BOOLEAN, i \in {0, 1, SO_ERROR, AVAILABLE, 22, 23}, o \in BOOLEAN,
                                  r \in Results({<<v>> : v \in 0..U32_MAX + 1})},
        {set_option(s, i, v, r) : s \in BOOLEAN, i \in 0..23, v \in {0, 1, 2, 3, U32_MAX, U32_MAX + 1}, r \in Plain},
        {q.reply : q \in Polls},
        {wake(c, r) : c \in {0, POLL_CHANNELS, NO_CHANNEL}, r \in Plain},
        {resolve(t, f, p, n, o, r) : t \in Texts, f \in 0..3, p \in BOOLEAN, n \in Sizes, o \in BOOLEAN,
                                     r \in Results({<<c, f>> : c \in 0..3, f \in Families})},
        {host_name(p, n, o, r) : p \in BOOLEAN, n \in Sizes, o \in BOOLEAN, r \in TextResults}}

-----------------------------------------------------------------------------
local_sockets_Ops == {"bind", "connect", "address", "peer_user", "read_stats"}
local_sockets_record(i) ==
    UNION {OK..OUT_OF_MEMORY,
           IF i <= 1 THEN {NOT_FOUND, ACCESS_DENIED, NAME_TOO_LONG, NOT_DIRECTORY, READ_ONLY} ELSE {},
           IF i = 0 THEN {ADDRESS_IN_USE} ELSE {},
           IF i = 1 THEN {CONNECTION_REFUSED, IN_PROGRESS, WOULD_BLOCK, ALREADY_CONNECTED, TIMEOUT} ELSE {},
           IF i = 2 THEN {NOT_FOUND, BUFFER_TOO_SMALL, NOT_CONNECTED} ELSE {},
           IF i = 3 THEN {NOT_CONNECTED} ELSE {}}

local_sockets(name, i) == <<"local_sockets", "LocalSockets", name, i>>
local_bind(s, t, r) == Do(local_sockets("bind", 0), local_sockets_record(0), path(t) /\ s, r)
local_connect(s, t, r) == Do(local_sockets("connect", 1), local_sockets_record(1), path(t) /\ s, r)
local_name(s, peer, p, n, o, r) ==
    text(local_sockets("address", 2), n, local_sockets_record(2), Check(o /\ valid_buffer(p, n), s /\ peer <= 1, FALSE), MAX_NAME + 1, r)
\* The cleared output is u32::MAX, no user's identity.
peer_user(s, o, r) ==
    Reply(local_sockets("peer_user", 3), 0, local_sockets_record(3), Check(o, s, FALSE), r, TRUE, r.value)

local_sockets_read_stats == <<0, 1, 2, 3, 4>>
local_sockets_negotiate(p) == Offer(p, [LocalSockets |-> local_sockets_Ops])

local_sockets_Calls ==
    UNION {
        UNION {{local_bind(s, t, r), local_connect(s, t, r)} : s \in BOOLEAN, t \in Texts, r \in Plain},
        {local_name(s, e, p, n, o, r) : s \in BOOLEAN, e \in 0..2, p \in BOOLEAN, n \in Sizes, o \in BOOLEAN, r \in TextResults},
        {peer_user(s, o, r) : s \in BOOLEAN, o \in BOOLEAN, r \in Counts}}

-----------------------------------------------------------------------------
packets_Ops == {"receive", "read_stats"}
packets_record ==
    OK..TIMEOUT \union WOULD_BLOCK..CONNECTION_RESET
        \union {NOT_CONNECTED, HOST_UNREACHABLE, NETWORK_UNREACHABLE, MESSAGE_TOO_LARGE, ACCESS_DENIED}

\* The sender as for a socket; the destination is an IP address without a port.
packets_receive(s, p, n, flags, o, r, sender, destination) ==
    Reply(<<"packets", "Packets", "receive", 0>>, n, packets_record, Check(o, s /\ valid_buffer(p, n) /\ flags <= 1, FALSE),
          r, r.value[1] <= n,
          r.value \o <<known(sender), IF normalized(destination.family) /\ destination.port = 0 THEN destination.family ELSE 0>>)

packets_read_stats == <<0, 1>>
packets_negotiate(p) == Offer(p, [Packets |-> packets_Ops])

packets_Calls ==
    {packets_receive(s, p, n, f, o, r, a, d) : s \in BOOLEAN, p \in BOOLEAN, n \in Sizes, f \in 0..2, o \in BOOLEAN, r \in Counts,
                                               a \in {0, IPV4}, d \in [family : {0, IPV6, LOCAL_SOCKET}, port : 0..1]}

-----------------------------------------------------------------------------
network_Ops == {"interface_entry", "address_entry", "reverse_lookup", "membership", "read_stats"}
network_record(i) ==
    UNION {OK..OUT_OF_MEMORY,
           IF i <= 3 THEN {NOT_FOUND} ELSE {},
           IF i = 2 THEN {BUFFER_TOO_SMALL, TIMEOUT} ELSE {},
           IF i = 3 THEN {ADDRESS_IN_USE, ADDRESS_NOT_AVAILABLE, ACCESS_DENIED} ELSE {}}

network(name, i) == <<"network", "Network", name, i>>
\* <<index, named and terminated, fields in range>>
interface_entry(o, r) ==
    Reply(network("interface_entry", 0), 0, network_record(0), Check(o, TRUE, FALSE),
          r, r.value[1] # 0 /\ r.value[2] = 1 /\ r.value[3] = 1, r.value)
\* <<interface index, family, port, prefix length>>; 32 and 128 bits are 1 and 2.
prefix_limit(family) == IF family = IPV4 THEN 1 ELSE 2
address_entry(o, r) ==
    Reply(network("address_entry", 1), 0, network_record(1), Check(o, TRUE, FALSE),
          r, /\ r.value[1] # 0 /\ normalized(r.value[2])
             /\ r.value[3] = 0 /\ r.value[4] <= prefix_limit(r.value[2]), r.value)
MAX_HOST_NAME == 3
reverse_lookup(a, p, n, o, r) ==
    text(network("reverse_lookup", 2), n, network_record(2), Check(o /\ valid_buffer(p, n), input(a), FALSE), MAX_HOST_NAME, r)
membership(s, a, multicast, join, r) ==
    Do(network("membership", 3), network_record(3), s /\ join <= 1 /\ input(a) /\ multicast, r)

network_read_stats == <<0, 1, 2, 3, 4>>
network_negotiate(p) == Offer(p, [Network |-> network_Ops])

network_Calls ==
    UNION {
        {interface_entry(o, r) : o \in BOOLEAN, r \in Results({<<i, n, f>> : i \in 0..1, n \in 0..1, f \in 0..1})},
        {address_entry(o, r) : o \in BOOLEAN,
                               r \in Results({<<i, f, p, l>> : i \in 0..1, f \in Families, p \in 0..1, l \in 0..3})},
        {reverse_lookup(a, p, n, o, r) : a \in Addresses, p \in BOOLEAN, n \in Sizes, o \in BOOLEAN, r \in TextResults},
        {membership(s, a, m, j, r) : s \in BOOLEAN, a \in Addresses, m \in BOOLEAN, j \in 0..2, r \in Plain}}

-----------------------------------------------------------------------------
process_Ops == {"exit", "debugger_present", "crash_dump", "read_stats"}
process_record == Base

\* exit does not come back.
exit == [id |-> <<"process", "Process", "exit", UNCOUNTED>>, size |-> 0, check |-> "ask", status |-> OK, out |-> <<>>]
debugger_present(o, r) ==
    Reply(<<"process", "Process", "debugger_present", 0>>, 0, process_record, Check(o, TRUE, FALSE), r, TRUE, r.value)

\* An argument vector: how many, and whether each is there and short enough.
MAX_ARGUMENTS == 2
MAX_ARGUMENT == 2
valid_arguments(argv) == argv.p /\ argv.count \in 1..MAX_ARGUMENTS /\ argv.good
\* The message ends in a NUL whatever the provider did: 1 says so.
crash_dump(argv, p, n, r) ==
    LET check == Check(n <= MAX_ARGUMENT /\ (n # 0 => p), valid_arguments(argv), FALSE)
    IN Finish(<<"process", "Process", "crash_dump", 1>>, n, process_record, check, r.status, IF n # 0 THEN <<1>> ELSE <<>>)

process_read_stats == <<0, 1, 2>>
process_negotiate(p) == Offer(p, [Process |-> process_Ops])

Vectors == [p : BOOLEAN, count : 0..MAX_ARGUMENTS + 1, good : BOOLEAN]
process_Calls ==
    UNION {{exit}, {debugger_present(o, r) : o \in BOOLEAN, r \in Handles},
           {crash_dump(v, p, n, r) : v \in Vectors, p \in BOOLEAN, n \in Sizes, r \in Plain}}

-----------------------------------------------------------------------------
processes_Ops == {"spawn", "wait", "terminate", "release", "pipe_read", "pipe_write", "pipe_close", "read_stats"}
processes_record(i) ==
    OK..OUT_OF_MEMORY \union {ACCESS_DENIED, TOO_MANY_HANDLES}
        \union (CASE i = 0 -> {NOT_FOUND, IS_DIRECTORY, NOT_DIRECTORY, NAME_TOO_LONG}
                  [] i = 1 -> {TIMEOUT}
                  [] i = 2 -> {NOT_FOUND}
                  [] i = 5 -> {BROKEN_PIPE}
                  [] OTHER -> {})

\* Pipes are sets of streams, 0 to 2; 3 is none.  A Spawned is <<process, id,
\* input, output, error>>: a child, and a pipe exactly where one was asked for.
consistent(spawned, pipes) ==
    spawned[1] # 0 /\ spawned[2] # 0 /\ \A s \in 0..2 : (spawned[3 + s] # 0) <=> (s \in pipes)

texts(list) == list.p /\ list.count <= MAX_ARGUMENTS /\ list.good
\* good: no text of the list is NULL; named: each is NAME=value.  An absent
\* environment is inherited, an absent directory is the parent's.
request(program, arguments, environment, directory, pipes) ==
    /\ path(program)
    /\ texts(arguments) /\ arguments.count # 0
    /\ (~environment.p /\ environment.count = 0) \/ (texts(environment) /\ environment.named)
    /\ (~directory.p /\ directory.length = 0) \/ path(directory)
    /\ pipes \subseteq 0..2
spawn(program, arguments, environment, directory, pipes, o, r) ==
    Reply(<<"processes", "Processes", "spawn", 0>>, 0, processes_record(0),
          Check(o, request(program, arguments, environment, directory, pipes), FALSE),
          r, consistent(r.value, pipes), r.value)

wait(h, o, r) ==
    Reply(<<"processes", "Processes", "wait", 1>>, 0, processes_record(1), Check(o, h, FALSE), r, TRUE, r.value)
terminate(h, forceful, r) ==
    Do(<<"processes", "Processes", "terminate", 2>>, processes_record(2), h /\ forceful <= 1, r)
processes_release(h, r) == Do(<<"processes", "Processes", "release", 3>>, processes_record(3), h, r)
pipe_read(h, p, n, o, r) ==
    Reply(<<"processes", "Processes", "pipe_read", 4>>, n, processes_record(4),
          Check(o, h /\ valid_buffer(p, n), n = 0), r, r.value[1] <= n, r.value)
pipe_write(h, p, n, o, r) ==
    Reply(<<"processes", "Processes", "pipe_write", 5>>, n, processes_record(5),
          Check(o, h /\ valid_buffer(p, n), n = 0), r, r.value[1] \in 1..n, r.value)
pipe_close(h, r) == Do(<<"processes", "Processes", "pipe_close", 6>>, processes_record(6), h, r)

processes_read_stats == <<0, 1, 2, 3, 4, 5, 6, 7>>
processes_negotiate(p) == Offer(p, [Processes |-> processes_Ops])

Lists == {[p |-> p, count |-> c, good |-> g, named |-> g] : p \in BOOLEAN, c \in {0, 1, MAX_ARGUMENTS + 1}, g \in BOOLEAN}
             \union {[p |-> TRUE, count |-> 1, good |-> TRUE, named |-> FALSE]}
AnyList == [p |-> TRUE, count |-> 1, good |-> TRUE, named |-> TRUE]
NoList == [p |-> FALSE, count |-> 0, good |-> TRUE, named |-> TRUE]
AnyText == [p |-> TRUE, length |-> 1, nul |-> FALSE, equals |-> FALSE]
NoText == [p |-> FALSE, length |-> 0, nul |-> FALSE, equals |-> FALSE]
Spawns == Results({<<c, c, i, e, 0>> : c \in 0..1, i \in 0..1, e \in 0..1})

\* One argument at a time is wrong; the pipes and the answer vary with it.
Requests ==
    [program : Texts, arguments : {AnyList}, environment : {NoList}, directory : {NoText}, pipes : {{}, {0}}]
        \union [program : {AnyText}, arguments : Lists, environment : {NoList}, directory : {NoText}, pipes : {{}}]
        \union [program : {AnyText}, arguments : {AnyList}, environment : Lists, directory : {NoText}, pipes : {{}}]
        \union [program : {AnyText}, arguments : {AnyList}, environment : {NoList}, directory : Texts, pipes : {{0, 1}}]
        \union [program : {AnyText}, arguments : {AnyList}, environment : {NoList}, directory : {NoText}, pipes : {{3}}]

processes_Calls ==
    UNION {
        {spawn(q.program, q.arguments, q.environment, q.directory, q.pipes, o, r) : q \in Requests, o \in BOOLEAN, r \in Spawns},
        {wait(h, o, r) : h \in BOOLEAN, o \in BOOLEAN, r \in Counts},
        {terminate(h, f, r) : h \in BOOLEAN, f \in 0..2, r \in Plain},
        UNION {{pipe_read(h, p, n, o, r), pipe_write(h, p, n, o, r)}
               : h \in BOOLEAN, p \in BOOLEAN, n \in Sizes, o \in BOOLEAN, r \in Counts},
        UNION {{processes_release(h, r), pipe_close(h, r)} : h \in BOOLEAN, r \in Plain}}

-----------------------------------------------------------------------------
spawn_as_Ops == {"spawn_as", "read_stats"}
spawn_as_record ==
    OK..OUT_OF_MEMORY \union {ACCESS_DENIED, TOO_MANY_HANDLES, NOT_FOUND, IS_DIRECTORY, NOT_DIRECTORY, NAME_TOO_LONG}

\* An identity with its list of groups: an empty list needs no pointer.
spawn_as(q, identity, o, r) ==
    Reply(<<"spawn_as", "SpawnAs", "spawn_as", 0>>, 0, spawn_as_record,
          Check(o, /\ request(q.program, q.arguments, q.environment, q.directory, q.pipes)
                   /\ identity.p
                   /\ identity.count <= MAX_GROUPS /\ (identity.count # 0 => identity.groups), FALSE),
          r, consistent(r.value, q.pipes), r.value)

spawn_as_read_stats == <<0, 1>>
spawn_as_negotiate(p) == Offer(p, [SpawnAs |-> spawn_as_Ops])

spawn_as_Calls ==
    {spawn_as(q, i, o, r) : q \in Requests, o \in BOOLEAN, r \in Spawns,
                            i \in [p : BOOLEAN, count : {0, MAX_GROUPS + 1}, groups : BOOLEAN]}
        \union {spawn_as(q, [p |-> TRUE, count |-> 1, groups |-> g], TRUE, r) : q \in Requests, g \in BOOLEAN, r \in Spawns}

-----------------------------------------------------------------------------
system_Ops == {"environment_entry", "text", "process_times", "uptime_ns", "user_ids", "read_stats"}
system_record(i) ==
    OK..OUT_OF_MEMORY \union (IF i = 0 THEN {NOT_FOUND} ELSE {}) \union (IF i <= 1 THEN {BUFFER_TOO_SMALL} ELSE {})

\* An entry is NAME=value: the text 0 stands for one that is not.
MAX_ENVIRONMENT_ENTRY == 4
environment_entry(p, n, o, r) ==
    LET t == text(<<"system", "SystemInfo", "environment_entry", 0>>, n, system_record(0),
                  Check(o /\ valid_buffer(p, n), TRUE, FALSE), MAX_ENVIRONMENT_ENTRY, r)
    IN IF t.status = OK /\ t.out[2] = 0 THEN [t EXCEPT !.status = OS_ERROR, !.out = <<>>] ELSE t
system_text(what, p, n, o, r) ==
    text(<<"system", "SystemInfo", "text", 1>>, n, system_record(1),
         Check(o /\ valid_buffer(p, n), what \in 1..6, FALSE), MAX_NAME + 1, r)

system(name, i, o, r) ==
    Reply(<<"system", "SystemInfo", name, i>>, 0, system_record(i), Check(o, TRUE, FALSE), r, TRUE, r.value)
process_times(o, r) == system("process_times", 2, o, r)
uptime_ns(o, r) == system("uptime_ns", 2, o, r)
user_ids(o, r) == system("user_ids", 3, o, r)

system_read_stats == <<0, 1, 2, 3, 4>>
system_negotiate(p) == Offer(p, [SystemInfo |-> system_Ops])

EntryResults ==
    Results({<<n, s, t>> : n \in {0, 1, 2, 4, 5}, s \in {WHOLE, INNER_NUL, UNTERMINATED}, t \in 0..1})
system_Calls ==
    UNION {
        {environment_entry(p, n, o, r) : p \in BOOLEAN, n \in Sizes, o \in BOOLEAN, r \in EntryResults},
        {system_text(w, p, n, o, r) : w \in {0, 1, 6, 7}, p \in BOOLEAN, n \in Sizes, o \in BOOLEAN, r \in TextResults},
        UNION {{process_times(o, r), uptime_ns(o, r), user_ids(o, r)} : o \in BOOLEAN, r \in Counts}}

-----------------------------------------------------------------------------
accounts_Ops == {"user_by_id", "user_by_name", "process_groups", "user_groups", "read_stats"}
accounts_record(i) ==
    OK..OUT_OF_MEMORY \union {NOT_FOUND} \union (IF i = 1 THEN {BUFFER_TOO_SMALL} ELSE {})
account_name(t) == t.p /\ t.length \in 1..MAX_NAME /\ ~t.nul

\* An Account is <<id, named, terminated>>; bytes behind a terminator are gone.
user(name, check, asked, r) ==
    Reply(<<"accounts", "Accounts", name, 0>>, 0, accounts_record(0), check,
          r, r.value[2] = 1 /\ r.value[3] = 1 /\ r.value[1] \in asked, r.value)
UserIds == 0..1
user_by_id(id, o, r) == user("user_by_id", Check(o, TRUE, FALSE), {id}, r)
user_by_name(t, o, r) == user("user_by_name", Check(o, account_name(t), FALSE), UserIds, r)

groups_answer(n, r) ==
    IF r.status # OK THEN r.status
    ELSE IF r.value[1] > MAX_GROUPS THEN OS_ERROR
    ELSE IF r.value[1] > n THEN BUFFER_TOO_SMALL ELSE OK
groups(name, p, n, check, r) ==
    Finish(<<"accounts", "Accounts", name, 1>>, n, accounts_record(1),
           IF check = "ask" /\ ~(n <= MAX_GROUPS /\ (n # 0 => p)) THEN "invalid" ELSE check, groups_answer(n, r),
           IF r.status = OK /\ r.value[1] <= MAX_GROUPS THEN r.value ELSE <<>>)
process_groups(p, n, o, r) == groups("process_groups", p, n, Check(o, TRUE, FALSE), r)
user_groups(t, p, n, o, r) == groups("user_groups", p, n, Check(o, account_name(t), FALSE), r)

accounts_read_stats == <<0, 1, 2>>
accounts_negotiate(p) == Offer(p, [Accounts |-> accounts_Ops])

AccountResults == Results({<<i, n, t>> : i \in UserIds, n \in 0..1, t \in 0..1})
accounts_Calls ==
    UNION {
        {user_by_id(i, o, r) : i \in UserIds, o \in BOOLEAN, r \in AccountResults},
        {user_by_name(t, o, r) : t \in Texts, o \in BOOLEAN, r \in AccountResults},
        {process_groups(p, n, o, r) : p \in BOOLEAN, n \in Sizes, o \in BOOLEAN, r \in Counts},
        {user_groups(t, p, n, o, r) : t \in Texts, p \in BOOLEAN, n \in Sizes, o \in BOOLEAN, r \in Counts}}

-----------------------------------------------------------------------------
priority_Ops == {"get", "set", "read_stats"}
priority_record(i) == Base \union {NOT_FOUND} \union (IF i = 1 THEN {ACCESS_DENIED} ELSE {})

\* Niceness -20..19, scaled.
MOST_FAVOURED == -2
LEAST_FAVOURED == 1
Niceness == MOST_FAVOURED..LEAST_FAVOURED
priority_get(o, r) ==
    Reply(<<"priority", "Priority", "get", 0>>, 0, priority_record(0), Check(o, TRUE, FALSE), r, r.value[1] \in Niceness, r.value)
priority_set(value, r) == Do(<<"priority", "Priority", "set", 1>>, priority_record(1), value \in Niceness, r)

priority_read_stats == <<0, 1, 2>>
priority_negotiate(p) == Offer(p, [Priority |-> priority_Ops])

priority_Calls ==
    {priority_get(o, r) : o \in BOOLEAN, r \in Results({<<v>> : v \in -3..2})}
        \union {priority_set(v, r) : v \in -3..2, r \in Plain}

-----------------------------------------------------------------------------
volumes_Ops == {"entry", "status", "read_stats"}
volumes_record(i) ==
    OK..OUT_OF_MEMORY \union {NOT_FOUND} \union (IF i = 0 THEN {BUFFER_TOO_SMALL} ELSE {ACCESS_DENIED})

\* What a provider makes of figures taken at different moments.
Least(a, b) == IF a < b THEN a ELSE b
volume_status(total, free, available) == <<total, Least(free, total), Least(available, Least(free, total)), 1>>

volume_entry(p, n, o, r) ==
    text(<<"volumes", "Volumes", "entry", 0>>, n, volumes_record(0), Check(o /\ valid_buffer(p, n), TRUE, FALSE), MAX_NAME + 1, r)
\* <<total, free, available, terminated>>
volumes_status(t, o, r) ==
    Reply(<<"volumes", "Volumes", "status", 1>>, 0, volumes_record(1), Check(o, path(t), FALSE),
          r, r.value[2] <= r.value[1] /\ r.value[3] <= r.value[2] /\ r.value[4] = 1, r.value)

volumes_read_stats == <<0, 1, 2>>
volumes_negotiate(p) == Offer(p, [Volumes |-> volumes_Ops])

volumes_Calls ==
    {volume_entry(p, n, o, r) : p \in BOOLEAN, n \in Sizes, o \in BOOLEAN, r \in TextResults}
        \union {volumes_status(t, o, r) : t \in Texts, o \in BOOLEAN,
                    r \in Results({<<a, b, c, d>> : a \in 0..2, b \in 0..2, c \in 0..2, d \in 0..1}
                                  \union {volume_status(a, b, c) : a \in 0..2, b \in 0..2, c \in 0..2})}

-----------------------------------------------------------------------------
context_Ops ==
    {"abi_tag", "action_size", "action_alignment", "install", "restore", "unblock_activation", "request_activation",
     "current_thread", "process_id_async", "ignore_broken_pipe", "read_stats", "signal_number"}
context_record == Base \union {BUSY, NOT_FOUND}

\* The provider is a raw table: its statuses are foreign, its callbacks may be
\* missing (there).  32 is a status nobody has published.
Foreign == OK..MESSAGE_TOO_LARGE + 1
Raw(there, status) == IF there THEN status ELSE UNSUPPORTED
context(name, i, valid, there, status) ==
    Do(<<"context", "SignalContext", name, i>>, context_record, valid, [status |-> Raw(there, status), value |-> <<>>])

\* The size and alignment come from the table, and are 0 without it.
valid_action(p, n, action_size) == p /\ n = action_size /\ n # 0
context_install(kind, callback, p, n, there, status) ==
    context("install", 0, kind <= 4 /\ callback /\ valid_action(p, n, 2), there, status)
context_restore(kind, p, n, there, status) ==
    context("restore", 1, kind <= 4 /\ valid_action(p, n, 2), there, status)
unblock_activation(there, status) == context("unblock_activation", 3, TRUE, there, status)
request_activation(token, there, status) == context("request_activation", 2, token, there, status)

\* A thread is never 0.
current_thread(o, there, status, value) ==
    Reply(<<"context", "SignalContext", "current_thread", 4>>, 0, context_record, Check(o, TRUE, FALSE),
          [status |-> Raw(there, status), value |-> value], value # <<0>>, value)
\* Runs in a signal handler: nothing is counted, nothing but OK is looked at.
process_id_async(o, there, status, value) ==
    LET s == IF ~there THEN UNSUPPORTED ELSE IF status # OK \/ value = <<0>> THEN OS_ERROR ELSE OK
    IN Finish(<<"context", "SignalContext", "process_id_async", UNCOUNTED>>, 0, Base, Check(o, TRUE, FALSE),
              s, IF s = OK THEN value ELSE <<>>)
ignore_broken_pipe(there, status) ==
    Finish(<<"context", "SignalContext", "ignore_broken_pipe", UNCOUNTED>>, 0, Base, "ask",
           IF ~there THEN UNSUPPORTED ELSE IF status = OK THEN OK ELSE OS_ERROR, <<>>)

context_read_stats == <<0, 1, 2, 3, 4, 5>>
\* A context that is provided without its table rejects the negotiation: {}.
context_negotiate(p, ops) ==
    IF "SignalContext" \in p /\ ~ops THEN {} ELSE Offer(p, [SignalContext |-> context_Ops])

context_Calls ==
    UNION {
        {context_install(k, c, p, n, t, s) : k \in {0, 4, 5}, c \in BOOLEAN, p \in BOOLEAN, n \in {0, 2}, t \in BOOLEAN, s \in Foreign},
        {context_restore(k, p, n, t, s) : k \in {0, 4, 5}, p \in BOOLEAN, n \in {0, 2}, t \in BOOLEAN, s \in Foreign},
        UNION {{unblock_activation(t, s), ignore_broken_pipe(t, s), request_activation(TRUE, t, s), request_activation(FALSE, t, s)}
               : t \in BOOLEAN, s \in Foreign},
        UNION {{current_thread(o, t, s, v), process_id_async(o, t, s, v)}
               : o \in BOOLEAN, t \in BOOLEAN, s \in Foreign, v \in {<<0>>, <<1>>}}}

-----------------------------------------------------------------------------
wasi_Ops == {"invoke", "call_count", "read_stats"}

\* The statuses are WASI's, 0..76: 28 refuses a request, 29 stands for what the
\* transport made up.  Two operations, the second with one narrow argument;
\* arguments are below WIDE or need a wide slot.
OP_COUNT == 2
ARG_COUNTS == <<0, 1>>
WIDE == 3
WASI_MAX == 76
\* The fourth part of the id is the operation's counter, or that of the refused.
wasi_invoke(opcode, argc, p, argument, r) ==
    LET accepted == /\ opcode < OP_COUNT /\ argc = ARG_COUNTS[opcode + 1]
                    /\ argc # 0 => p /\ argument < WIDE
        folded == IF r <= WASI_MAX THEN r ELSE 29
    IN [id |-> <<"wasi", "WasiTransport", "invoke", IF accepted THEN opcode ELSE OP_COUNT>>,
        size |-> 0, check |-> IF accepted THEN "ask" ELSE "invalid",
        status |-> IF accepted THEN folded ELSE 28, out |-> <<>>]

wasi_read_stats == <<0, 1, 2, 3>>
wasi_negotiate(p) == IF "WasiTransport" \in p THEN wasi_Ops ELSE {}
wasi_Calls ==
    {wasi_invoke(opcode, argc, p, argument, r) :
        opcode \in 0..OP_COUNT, argc \in 0..1, p \in BOOLEAN, argument \in {0, WIDE}, r \in {0, 44, WASI_MAX, WASI_MAX + 1, 256}}
=============================================================================
