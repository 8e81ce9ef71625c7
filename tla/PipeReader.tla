------------------------------ MODULE PipeReader ------------------------------
(* The read end of a child's pipe in System.Native (system_native_proc.c): once *)
(* it is read without blocking it has a reader thread, which fills a buffer     *)
(* that every Read is served from.  Clients read, ask for readiness, switch the *)
(* mode and close; the child writes and closes.  A section under the table lock *)
(* is one step.  Bytes are numbered as the child writes them.                   *)
EXTENDS Integers, Sequences, FiniteSets, SequencesExt

CONSTANTS
    Clients,
    Records,       \* the addresses of struct sn_pipe_reader
    CAPACITY,      \* READER_CAPACITY
    Written,       \* bound: the bytes the child writes
    Plans,         \* the sets of clients that Read; the others poll and switch back
    None

VARIABLES
    references, descriptors, nonblocking, reader,   \* of the object
    record,        \* record[r]: what is at the address, with its two auto-reset events
    stage, chunk,  \* the reader thread, and what its last pipe_read returned
    place, own, purpose,   \* of the clients
    pipe, writing, written, \* what the child has written and nobody has read; its end is open
    readers,       \* the one of Plans
    got, astray    \* history: the bytes handed out; a Read has no reader, or one that was taken back

object == <<references, descriptors, nonblocking, reader>>
thread == <<stage, chunk>>
child == <<pipe, writing, written>>
pipe_vars == <<object, record, thread, place, own, purpose, child, readers, got, astray>>

Free == [live |-> FALSE, data |-> <<>>, ended |-> FALSE, closing |-> FALSE, room |-> FALSE, arrived |-> FALSE]
Fresh == [Free EXCEPT !.live = TRUE]
Destroyed == descriptors = 0 /\ references = 0

PipeInit ==
    /\ references = 1 /\ descriptors = 1 /\ nonblocking = FALSE /\ reader = None
    /\ record = [r \in Records |-> Free]
    /\ stage = "none" /\ chunk = <<>>
    /\ place = [c \in Clients |-> "idle"] /\ own = [c \in Clients |-> None] /\ purpose = [c \in Clients |-> "read"]
    /\ pipe = <<>> /\ writing = TRUE /\ written = 0
    /\ readers \in Plans /\ got = {} /\ astray = FALSE

At(c, here) == place[c] = here /\ ~astray
Goes(c, to) == place' = [place EXCEPT ![c] = to]
Has(c, r) == own' = [own EXCEPT ![c] = r]
Sets(r, which) == record' = [record EXCEPT ![r][which] = TRUE]

-----------------------------------------------------------------------------
\* The child.
write ==
    /\ writing /\ written < Written
    /\ written' = written + 1 /\ pipe' = Append(pipe, written + 1)
    /\ UNCHANGED <<object, record, thread, place, own, purpose, writing, got, astray, readers>>
end == writing /\ writing' = FALSE /\ UNCHANGED <<object, record, thread, place, own, purpose, pipe, written, got, astray, readers>>

\* pipe_read of the boundary: up to `most` bytes, the end, or an error.
pipe_read(bytes, most) ==
    \/ /\ bytes = <<>> /\ pipe = <<>> /\ ~writing /\ UNCHANGED pipe
    \/ /\ pipe # <<>> /\ most > 0 /\ Len(bytes) \in 1 .. most
       /\ bytes = SubSeq(pipe, 1, Len(bytes)) /\ pipe' = SubSeq(pipe, Len(bytes) + 1, Len(pipe))
Parts == {SubSeq(pipe, 1, n) : n \in 0 .. Len(pipe)}

-----------------------------------------------------------------------------
\* A call of a client pins the object first: Read, and those that make sure that
\* readiness can be observed, a switch of the mode or a registration or a poll.
Call(c, why) ==
    /\ At(c, "idle") /\ descriptors > 0
    /\ IF c \in readers THEN why = "read" \/ (why = "nonblock" /\ readers = Clients) ELSE why # "read"
    /\ references' = references + 1
    /\ purpose' = [purpose EXCEPT ![c] = why]
    /\ Goes(c, IF why = "read" THEN "look" ELSE IF why = "block" THEN "mode" ELSE "watch")
    /\ UNCHANGED <<descriptors, nonblocking, reader, record, thread, own, child, got, astray, readers>>

\* FcntlSetIsNonBlocking, after sn_pipe_watch where it needs one.
SetIsNonBlocking(c) ==
    /\ At(c, "mode")
    /\ nonblocking' = (purpose[c] = "nonblock")
    /\ Goes(c, "leave")
    /\ UNCHANGED <<references, descriptors, reader, record, thread, own, purpose, child, got, astray, readers>>

\* sn_pipe_watch returns.
Watched(c, ok) ==
    Goes(c, CASE ~ok -> "leave" [] purpose[c] = "read" -> "again" [] purpose[c] = "nonblock" -> "mode" [] OTHER -> "leave")

\* sn_pipe_watch: one that is there serves; a new one needs memory and two events.
sn_pipe_watch(c) ==
    /\ At(c, "watch")
    /\ \/ reader # None /\ Watched(c, TRUE) /\ UNCHANGED <<own, record>>
       \/ reader = None /\ Watched(c, FALSE) /\ UNCHANGED <<own, record>>
       \/ /\ reader = None /\ Goes(c, "publish")
          /\ \E r \in {s \in Records : ~record[s].live} : Has(c, r) /\ record' = [record EXCEPT ![r] = Fresh]
    /\ UNCHANGED <<object, thread, purpose, child, got, astray, readers>>

\* Mutant: the reader does not pin the pipe.
pinned_Not(count) == count
pinned(count) == count + 1

\* Another thread may have been first.
publish(c) ==
    /\ At(c, "publish")
    /\ IF reader # None
       THEN /\ record' = [record EXCEPT ![own[c]] = Free] /\ Has(c, None) /\ Watched(c, TRUE)
            /\ UNCHANGED <<reader, references>>
       ELSE reader' = own[c] /\ references' = pinned(references) /\ Goes(c, "thread") /\ UNCHANGED <<record, own>>
    /\ UNCHANGED <<descriptors, nonblocking, thread, purpose, child, got, astray, readers>>

thread_create(c) ==
    /\ At(c, "thread")
    /\ \/ stage' = "check" /\ Has(c, None) /\ Watched(c, TRUE)
       \/ Goes(c, "retract") /\ UNCHANGED <<stage, own>>
    /\ UNCHANGED <<object, record, chunk, purpose, child, got, astray, readers>>

\* No thread: the reader is taken back and freed, whoever has it.
retract(c) ==
    /\ At(c, "retract")
    /\ reader' = None /\ references' = references - 1
    /\ record' = [record EXCEPT ![own[c]] = Free] /\ Has(c, None)
    /\ astray' = \E d \in Clients \ {c} : own[d] = own[c]
    /\ Watched(c, FALSE)
    /\ UNCHANGED <<descriptors, nonblocking, thread, purpose, child, got, readers>>

-----------------------------------------------------------------------------
\* sn_pipe_read.
look(c) ==
    /\ At(c, "look")
    /\ Has(c, reader)
    /\ Goes(c, IF reader # None THEN "serve" ELSE IF nonblocking THEN "watch" ELSE "again")
    /\ UNCHANGED <<object, record, thread, purpose, child, got, astray, readers>>
\* The mode is read a second time.
again(c) ==
    /\ At(c, "again") /\ Goes(c, IF nonblocking THEN "reload" ELSE "direct")
    /\ UNCHANGED <<object, record, thread, own, purpose, child, got, astray, readers>>
direct(c) ==
    /\ At(c, "direct")
    /\ \E bytes \in Parts : pipe_read(bytes, Written) /\ got' = got \union ToSet(bytes)
    /\ Goes(c, "leave")
    /\ UNCHANGED <<object, record, thread, own, purpose, writing, written, astray, readers>>
direct_fails(c) ==
    /\ At(c, "direct") /\ Goes(c, "leave")
    /\ UNCHANGED <<object, record, thread, own, purpose, child, got, astray, readers>>
reload(c) ==
    /\ At(c, "reload")
    /\ Has(c, reader) /\ Goes(c, "serve") /\ astray' = (reader = None)
    /\ UNCHANGED <<object, record, thread, purpose, child, got, readers>>

\* What is in the buffer, the end or an error, or nothing.
serve(c, size) ==
    LET r == record[own[c]]
        take == IF Len(r.data) < size THEN Len(r.data) ELSE size
    IN  /\ At(c, "serve")
        /\ record' = [record EXCEPT ![own[c]].data = SubSeq(@, take + 1, Len(@))]
        /\ got' = got \union ToSet(SubSeq(r.data, 1, take))
        /\ Goes(c, IF take > 0 THEN "room" ELSE IF r.ended THEN "leave" ELSE "empty")
        /\ UNCHANGED <<object, thread, own, purpose, child, astray, readers>>
room(c) ==
    /\ At(c, "room")
    /\ Sets(own[c], "room") /\ Goes(c, "leave")
    /\ UNCHANGED <<object, thread, own, purpose, child, got, astray, readers>>
\* EAGAIN, or the wait for bytes.
would_block(c) ==
    /\ At(c, "empty")
    /\ Goes(c, IF nonblocking THEN "leave" ELSE "arrived")
    /\ UNCHANGED <<object, record, thread, own, purpose, child, got, astray, readers>>
arrived(c) ==
    /\ At(c, "arrived") /\ record[own[c]].arrived
    /\ record' = [record EXCEPT ![own[c]].arrived = FALSE]
    /\ Goes(c, "serve")
    /\ UNCHANGED <<object, thread, own, purpose, child, got, astray, readers>>

-----------------------------------------------------------------------------
\* The object ends with its last reference, and the reader with it.
Drops(count) ==
    /\ references' = count
    /\ reader' = IF count = 0 THEN None ELSE reader
Buried(records, count) == IF count = 0 /\ reader # None THEN [records EXCEPT ![reader] = Free] ELSE records

leave(c) ==
    /\ At(c, "leave")
    /\ Drops(references - 1) /\ record' = Buried(record, references - 1)
    /\ Has(c, None) /\ Goes(c, "idle") /\ purpose' = [purpose EXCEPT ![c] = "read"]
    /\ UNCHANGED <<descriptors, nonblocking, thread, child, got, astray, readers>>

\* Mutant: a reader that waits for room is not told to stop.
sn_pipe_closing_Silent(r) == [r EXCEPT !.closing = TRUE]
sn_pipe_closing(r) == [r EXCEPT !.closing = TRUE, !.room = TRUE]
Close(c) ==
    /\ At(c, "idle") /\ descriptors > 0
    /\ descriptors' = 0 /\ Drops(references - 1)
    /\ record' = Buried(IF reader = None THEN record ELSE [record EXCEPT ![reader] = sn_pipe_closing(@)], references - 1)
    /\ UNCHANGED <<nonblocking, thread, place, own, purpose, child, got, astray, readers>>

-----------------------------------------------------------------------------
\* The reader thread.
Beside == UNCHANGED <<descriptors, nonblocking, place, own, purpose, writing, written, got, astray, readers>>
reader_check ==
    /\ stage = "check" /\ ~astray
    /\ stage' = IF record[reader].closing THEN "unpin"
                ELSE IF Len(record[reader].data) = CAPACITY THEN "room" ELSE "read"
    /\ UNCHANGED <<references, reader, record, chunk, pipe>> /\ Beside
reader_room ==
    /\ stage = "room" /\ record[reader].room /\ ~astray
    /\ record' = [record EXCEPT ![reader].room = FALSE] /\ stage' = "check"
    /\ UNCHANGED <<references, reader, chunk, pipe>> /\ Beside
reader_read ==
    /\ stage = "read" /\ ~astray
    /\ \E bytes \in Parts : pipe_read(bytes, CAPACITY - Len(record[reader].data)) /\ chunk' = bytes
    /\ stage' = "store"
    /\ UNCHANGED <<references, reader, record>> /\ Beside
\* An error ends the pipe as its end does.
reader_fails ==
    /\ stage = "read" /\ ~astray
    /\ stage' = "store"
    /\ UNCHANGED <<references, reader, record, chunk, pipe>> /\ Beside
reader_store ==
    /\ stage = "store" /\ ~astray
    /\ record' = [record EXCEPT ![reader].data = @ \o chunk, ![reader].ended = (chunk = <<>>)]
    /\ chunk' = <<>> /\ stage' = "set"
    /\ UNCHANGED <<references, reader, pipe>> /\ Beside
\* event_set and sn_port_notify, which EventPort has.
reader_set ==
    /\ stage = "set" /\ ~astray
    /\ Sets(reader, "arrived")
    /\ stage' = IF record[reader].ended THEN "unpin" ELSE "check"
    /\ UNCHANGED <<references, reader, chunk, pipe>> /\ Beside
reader_unpin ==
    /\ stage = "unpin" /\ ~astray
    /\ Drops(references - 1) /\ record' = Buried(record, references - 1)
    /\ stage' = "gone"
    /\ UNCHANGED <<chunk, pipe>> /\ Beside

Within(c) ==
    \/ SetIsNonBlocking(c) \/ sn_pipe_watch(c) \/ publish(c) \/ thread_create(c) \/ retract(c)
    \/ look(c) \/ again(c) \/ direct(c) \/ reload(c) \/ room(c) \/ would_block(c) \/ arrived(c) \/ leave(c)
    \/ \E size \in 1 .. CAPACITY : serve(c, size)
Thread == reader_check \/ reader_room \/ reader_store \/ reader_set \/ reader_unpin \/ reader_read
Purposes == {"read", "nonblock", "block", "poll"}
PipeNext ==
    \/ write \/ end \/ Thread \/ reader_fails
    \/ \E c \in Clients : Within(c) \/ direct_fails(c) \/ Close(c) \/ \E why \in Purposes : Call(c, why)

\* The threads in a call run on, and pipe_read returns what there is.
PipeFairness == WF_pipe_vars(Thread) /\ \A c \in Clients : WF_pipe_vars(Within(c))
PipeSpec == PipeInit /\ [][PipeNext]_pipe_vars /\ PipeFairness

-----------------------------------------------------------------------------
\* A pipe is whole: a byte the child wrote is in the pipe, on its way, in the buffer
\* or handed out, once, and the buffer keeps the order; the pins are exact, and the
\* record is there as long as the thread or a Read may use it (`pipe_reader`,
\* `sn_pipe_watch`, `sn_pipe_destroy`) - unless the thread of the reader could not be
\* made while a Read already had the reader.
PipesAreWhole ==
    LET live == {r \in Records : record[r].live}
        buffered == IF reader = None THEN <<>> ELSE record[reader].data
        known == chunk \o pipe
    IN  ~astray =>
        /\ \A r \in live : Len(record[r].data) <= CAPACITY
        /\ ~Destroyed => got \union ToSet(buffered) \union ToSet(known) = 1 .. written
        /\ ~Destroyed => Cardinality(got) + Len(buffered) + Len(known) = written
        /\ \A i, j \in DOMAIN buffered : i < j => buffered[i] < buffered[j]
        /\ references = descriptors + Cardinality({c \in Clients : place[c] # "idle"})
                        + (IF stage \notin {"none", "gone"} \/ \E c \in Clients : place[c] \in {"thread", "retract"} THEN 1 ELSE 0)
        /\ stage \notin {"none", "gone"} => reader \in live
        /\ \A c \in Clients : own[c] # None => own[c] \in live
        /\ Destroyed => live = {}

\* A Read that shares the open pipe with no other Read ends when there are bytes or
\* the end is there (`event_wait(arrived)`), and a reader that was told to stop does
\* when the child has ended the pipe (`sn_pipe_closing`).
PipeReadsEnd ==
    LET lone == Cardinality(readers) = 1
        told == reader # None /\ record[reader].closing
    IN  /\ []<>(\/ astray \/ ~lone \/ descriptors = 0 \/ \A c \in Clients : place[c] # "arrived"
                \/ (reader # None /\ record[reader].data = <<>> /\ ~record[reader].ended))
        /\ []<>(\/ astray \/ descriptors > 0 \/ writing \/ ~told \/ stage = "gone")

\* "when the last descriptor closes: a reader waiting for room is told to stop"
\* (`sn_pipe_closing`): the reader of a closed pipe does not wait for room for ever.
ClosedReaderStops == []<>(astray \/ descriptors > 0 \/ stage # "room")
=============================================================================
