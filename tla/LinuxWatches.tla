----------------------------- MODULE LinuxWatches -----------------------------
(* A watcher of the Linux provider (linux_watches.rs): an inotify instance, the *)
(* reader's buffer of what the last kernel read returned, and threads that add  *)
(* and remove watches beside the reader.  The kernel's queue is external.       *)
EXTENDS Integers, Sequences, SequencesExt, FiniteSetsExt, Functions

CONSTANTS
    Nodes,         \* what may be watched
    MaxWd,         \* bound: the kernel does not use a watch descriptor twice
    Batch,         \* the events that fit the buffer of CAPACITY bytes
    QueueMax,      \* the kernel's max_queued_events
    None

VARIABLES
    opened,        \* the descriptor and the handle that holds it
    queue,         \* the kernel's events: IN_CREATE for all kinds, IN_UNMOUNT, IN_IGNORED, IN_Q_OVERFLOW
    watched, last_wd,  \* the nodes the instance watches, and the last descriptor it gave out
    buffer,        \* buffer[next .. filled]
    reader, patience, due,       \* where the reader is, its timeout, the deadline it has made
    untold         \* history: the events of the contract that happened and the reader has not got

watches_vars == <<opened, queue, watched, last_wd, buffer, reader, patience, due, untold>>
reading == <<buffer, reader, patience, due>>

Event(mask, wd) == [mask |-> mask, wd |-> wd]
LOST == Event("IN_Q_OVERFLOW", -1)

\* The contract has a word for all events but one.
translate(event) == event.mask # "IN_UNMOUNT"
Words(events) == SelectSeq(events, translate)

Fresh(is_open) ==
    /\ opened' = is_open
    /\ queue' = <<>> /\ watched' = <<>> /\ last_wd' = 0 /\ buffer' = <<>> /\ untold' = <<>>
    /\ UNCHANGED <<reader, patience, due>>

WatchesInit ==
    /\ opened = FALSE /\ queue = <<>> /\ watched = <<>> /\ last_wd = 0 /\ buffer = <<>>
    /\ reader = "idle" /\ patience = "none" /\ due = None /\ untold = <<>>

\* A handle that cannot be allocated closes the descriptor again.
open == ~opened /\ (Fresh(TRUE) \/ Fresh(FALSE))
close == opened /\ reader = "idle" /\ Fresh(FALSE)

-----------------------------------------------------------------------------
\* The kernel queues an event, or that it lost one, once in a row.
Queued(events, event) ==
    CASE Len(events) < QueueMax -> Append(events, event)
      [] Last(events) = LOST -> events
      [] OTHER -> Append(events, LOST)
Happens(events) ==
    LET after == FoldLeft(Queued, queue, events) IN
    /\ queue' = after
    /\ untold' = untold \o Words(SubSeq(after, Len(queue) + 1, Len(after)))

Ends(wd) == watched' = Restrict(watched, DOMAIN watched \ {wd})

change(wd) ==
    /\ opened /\ wd \in DOMAIN watched
    /\ Happens(<<Event("IN_CREATE", wd)>>)
    /\ UNCHANGED <<opened, watched, last_wd, reading>>

unmount(wd) ==
    /\ opened /\ wd \in DOMAIN watched
    /\ Happens(<<Event("IN_UNMOUNT", wd), Event("IN_IGNORED", wd)>>)
    /\ Ends(wd)
    /\ UNCHANGED <<opened, last_wd, reading>>

\* "a node the instance already watches keeps its descriptor and takes the new mask"
add(node) ==
    /\ opened
    /\ node \notin Range(watched) /\ last_wd < MaxWd
    /\ last_wd' = last_wd + 1
    /\ watched' = [wd \in DOMAIN watched \union {last_wd'} |-> IF wd = last_wd' THEN node ELSE watched[wd]]
    /\ UNCHANGED <<opened, queue, untold, reading>>

\* "`remove` wakes a reader that waits because the kernel queues IN_IGNORED for it."
remove(wd) ==
    /\ opened /\ wd \in DOMAIN watched
    /\ Happens(<<Event("IN_IGNORED", wd)>>)
    /\ Ends(wd)
    /\ UNCHANGED <<opened, last_wd, reading>>

-----------------------------------------------------------------------------
\* read, from the call to the event or the error: the buffer, the kernel, the wait.
Beside == UNCHANGED <<opened, queue, watched, last_wd>>

read(timeout) ==
    /\ opened /\ reader = "idle"
    /\ reader' = "buffer" /\ patience' = timeout /\ due' = None
    /\ UNCHANGED <<buffer, untold>> /\ Beside

\* The first event of the buffer that the contract has a word for, or 0.
buffered(events) ==
    LET words == {i \in DOMAIN events : translate(events[i])}
    IN  IF words = {} THEN 0 ELSE Min(words)

take ==
    LET i == buffered(buffer) IN
    /\ reader = "buffer"
    /\ IF i = 0 THEN reader' = "kernel" /\ buffer' = <<>> /\ UNCHANGED untold
       ELSE /\ reader' = "idle"
            /\ buffer' = SubSeq(buffer, i + 1, Len(buffer))
            /\ untold' = IF untold # <<>> /\ Head(untold) = buffer[i] THEN Tail(untold) ELSE <<LOST>> \o untold
    /\ UNCHANGED <<patience, due>> /\ Beside

\* Mutant: the deadline is made anew after every interruption.
get_or_insert_Anew(made) == "ahead"
get_or_insert(made) == IF made = None THEN "ahead" ELSE made

\* The kernel read: as many events as fit, or EAGAIN and the look at the clock.
fetch ==
    /\ reader = "kernel"
    /\ IF queue # <<>> THEN
           LET count == Min({Len(queue), Batch}) IN
           /\ buffer' = SubSeq(queue, 1, count) /\ queue' = SubSeq(queue, count + 1, Len(queue))
           /\ reader' = "buffer" /\ UNCHANGED due
       ELSE
           /\ due' = IF patience = "timed" THEN get_or_insert(due) ELSE due
           /\ reader' = IF patience = "none" \/ due' = "passed" THEN "idle" ELSE "wait"
           /\ UNCHANGED <<buffer, queue>>
    /\ UNCHANGED <<opened, watched, last_wd, patience, untold>>

\* ppoll returns for an event, for the end of the wait, or interrupted.
Back == reader = "wait" /\ reader' = "buffer" /\ UNCHANGED <<buffer, patience, due, untold>> /\ Beside
ppoll == (queue # <<>> \/ due = "passed") /\ Back
interrupted == Back

\* The clock passes the deadline.
tick ==
    /\ reader # "idle" /\ due = "ahead"
    /\ due' = "passed"
    /\ UNCHANGED <<buffer, reader, patience, untold>> /\ Beside

Timeouts == {"none", "timed", "forever"}
WatchesNext ==
    \/ open \/ close \/ take \/ fetch \/ ppoll \/ interrupted \/ tick
    \/ \E timeout \in Timeouts : read(timeout)
    \/ \E node \in Nodes : add(node)
    \/ \E wd \in 1 .. MaxWd : change(wd) \/ unmount(wd) \/ remove(wd)

\* The reader runs on and time passes; an interruption need not come.
WatchesStep == take \/ fetch \/ ppoll

-----------------------------------------------------------------------------
\* The reader gets every event the contract has a word for once and in order,
\* whatever watches are added and removed beside it: those it has not got are in its
\* buffer or with the kernel, those without a word do not end its read (`buffered`),
\* and without a watcher nothing is left of it.
EventsAreTold ==
    /\ untold = Words(buffer \o queue)
    /\ ~opened => reader = "idle" /\ queue = <<>> /\ buffer = <<>>

\* A read returns, unless it waits for ever and nothing has happened: a timed one is
\* over at its first deadline, however often it is interrupted (`read`).
ReadsEnd == []<>(reader = "idle" \/ (patience = "forever" /\ queue = <<>>))
=============================================================================
