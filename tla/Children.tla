------------------------------ MODULE Children -------------------------------
(* The child processes of System.Native (system_native_proc.c): a list of       *)
(* records under the table lock, a thread that watches each child, and callers  *)
(* that start, collect and signal children.  The record goes, and its process   *)
(* handle with it, when the code was collected and the watcher is through.      *)
(* The boundary's wait takes the ended process from the system, which may then  *)
(* give its id to another one.  Pipes are those of EventPort.                   *)
EXTENDS Threads, Sequences

CONSTANTS
    Records,       \* child records, and the process of each
    Pids           \* positive integers

ASSUME NullIsNoRecord == NULL \notin Records

VARIABLES
    children,      \* the list, newest first
    pid,           \* pid[c]
    exited, reaped, watcher_done,      \* the flags of a record, as sets
    allocated,     \* the records that are not freed; their handles are open
    holding,       \* the processes the system keeps the id of
    running,       \* the processes that run
    watch,         \* watch[c]: where the watcher of c is
    owner,         \* owner[t]: the record t starts or disposes of
    child_op       \* child_op[t]: the call t is in

flags == <<exited, reaped, watcher_done>>
process_table == <<children, pid, flags, allocated, holding, running, watch, owner, child_op>>

ChildrenInit ==
    /\ children = <<>>
    /\ pid = [c \in Records |-> 0]
    /\ exited = {} /\ reaped = {} /\ watcher_done = {}
    /\ allocated = {}
    /\ holding = {}
    /\ running = {}
    /\ watch = [c \in Records |-> "none"]
    /\ owner = [t \in Threads |-> NULL]
    /\ child_op = [t \in Threads |-> "none"]

Listed == {children[i] : i \in DOMAIN children}
ChildGoto(t, call) == child_op' = [child_op EXCEPT ![t] = call]
Step(c, at) == watch' = [watch EXCEPT ![c] = at]

\* Mutant: the record goes as soon as the code was collected.
Finished_Collected(c, r, w) == c \in r

Finished(c, r, w) == c \in r /\ c \in w

\* The list without its i-th record: `*link = c->next`.
Unlinked(i) ==
    [j \in 1 .. Len(children) - 1 |-> IF j < i THEN children[j] ELSE children[j + 1]]

\* detach_if_finished, given the flags after this step.
detach_if_finished(c, r, w) ==
    \/ ~(Finished(c, r, w) /\ c \in Listed) /\ UNCHANGED children
    \/ /\ Finished(c, r, w)
       /\ \E i \in DOMAIN children : children[i] = c /\ children' = Unlinked(i)

\* dispose: the handle is released and the record freed.  The release takes a
\* child that has ended from the system and leaves one that runs to run.
dispose(c) ==
    /\ holding' = IF c \in running' THEN holding ELSE holding \ {c}
    /\ allocated' = allocated \ {c}
    /\ exited' = exited \ {c} /\ reaped' = reaped \ {c} /\ watcher_done' = watcher_done \ {c}

-----------------------------------------------------------------------------
\* ForkAndExecProcess.  The spawn gives the child an id that is free.  A pipe
\* that gets no descriptor, or an id that is too large, ends the attempt.
Spawn(t) ==
    /\ child_op[t] = "none"
    /\ \E c \in Records \ (allocated \union holding), i \in Pids :
          /\ \A d \in holding : pid[d] # i
          /\ allocated' = allocated \union {c}
          /\ pid' = [pid EXCEPT ![c] = i]
          /\ holding' = holding \union {c}
          /\ running' = running \union {c}
          /\ owner' = [owner EXCEPT ![t] = c]
    /\ \E ok \in BOOLEAN : ChildGoto(t, IF ok THEN "list" ELSE "fail")
    /\ UNCHANGED <<children, flags, watch>>

List(t) ==
    /\ child_op[t] = "list"
    /\ children' = <<owner[t]>> \o children
    /\ ChildGoto(t, "thread")
    /\ UNCHANGED <<pid, flags, allocated, holding, running, watch, owner>>

ThreadCreate(t) ==
    /\ child_op[t] = "thread"
    /\ Step(owner[t], "wait")
    /\ ChildGoto(t, "none")
    /\ owner' = [owner EXCEPT ![t] = NULL]
    /\ UNCHANGED <<children, pid, flags, allocated, holding, running>>

\* No thread can be had: the record leaves the list again.
ThreadFails(t) ==
    LET c == owner[t] IN
    /\ child_op[t] = "thread"
    /\ reaped' = reaped \union {c}
    /\ watcher_done' = watcher_done \union {c}
    /\ detach_if_finished(c, reaped', watcher_done')
    /\ ChildGoto(t, "fail")
    /\ UNCHANGED <<pid, exited, allocated, holding, running, watch, owner>>

\* A child nobody can watch is ended again.
Fail(t) ==
    LET c == owner[t] IN
    /\ child_op[t] = "fail"
    /\ running' = running \ {c}
    /\ dispose(c)
    /\ owner' = [owner EXCEPT ![t] = NULL]
    /\ ChildGoto(t, "none")
    /\ UNCHANGED <<children, pid, watch>>

-----------------------------------------------------------------------------
\* The child ends by itself.  With its handle gone the embedding program, which
\* may wait for any child, takes it from the system.
End(c) ==
    /\ c \in running
    /\ running' = running \ {c}
    /\ holding' = IF c \in allocated THEN holding ELSE holding \ {c}
    /\ UNCHANGED <<children, pid, flags, allocated, watch, owner, child_op>>

\* The watcher.  The boundary's wait returns when the child has ended, and the
\* system has its id back; a wait that failed ends the watch all the same.
WaitReturns(c) ==
    /\ watch[c] = "wait"
    /\ c \notin running
    /\ holding' = holding \ {c}
    /\ Step(c, "ended")
    /\ UNCHANGED <<children, pid, flags, allocated, running, owner, child_op>>

WaitFails(c) ==
    /\ watch[c] = "wait"
    /\ Step(c, "ended")
    /\ UNCHANGED <<children, pid, flags, allocated, holding, running, owner, child_op>>

MarkExited(c) ==
    /\ watch[c] = "ended"
    /\ exited' = exited \union {c}
    /\ Step(c, "tell")
    /\ UNCHANGED <<children, pid, reaped, watcher_done, allocated, holding, running, owner, child_op>>

\* The callback and the SIGCHLD registrations.  They may collect the child here.
TellExit(c) ==
    /\ watch[c] = "tell"
    /\ Step(c, "told")
    /\ UNCHANGED <<children, pid, flags, allocated, holding, running, owner, child_op>>

\* Mutant: the watcher of a child whose code was collected waits for the collector
\* to free the record.
WatcherDone_Waits(c) ==
    /\ watch[c] = "told"
    /\ IF c \in reaped
       THEN UNCHANGED <<watcher_done, watch>>
       ELSE watcher_done' = watcher_done \union {c} /\ Step(c, "none")
    /\ UNCHANGED <<children, pid, exited, reaped, allocated, holding, running, owner, child_op>>

WatcherDone(c) ==
    /\ watch[c] = "told"
    /\ watcher_done' = watcher_done \union {c}
    /\ detach_if_finished(c, reaped, watcher_done')
    /\ Step(c, IF Finished(c, reaped, watcher_done') THEN "dispose" ELSE "none")
    /\ UNCHANGED <<pid, exited, reaped, allocated, holding, running, owner, child_op>>

WatcherDisposes(c) ==
    /\ watch[c] = "dispose"
    /\ UNCHANGED <<children, pid, running, owner, child_op>>
    /\ dispose(c)
    /\ Step(c, "none")

-----------------------------------------------------------------------------
\* WaitPidExitedNoHang.  An id names the first child that has it; -1 the first
\* that has ended, the one WaitIdAnyExitedNoHangNoWait shows.  A call that finds
\* none, or one that runs, changes nothing.
Asked(c, id) == c \notin reaped /\ IF id = -1 THEN c \in exited ELSE pid[c] = id
Candidate(c, id) ==
    \E i \in DOMAIN children :
        /\ children[i] = c /\ Asked(c, id)
        /\ \A j \in 1 .. i - 1 : ~Asked(children[j], id)

WaitPid(t, id) ==
    /\ child_op[t] = "none"
    /\ \E c \in exited :
          /\ Candidate(c, id)
          /\ reaped' = reaped \union {c}
          /\ detach_if_finished(c, reaped', watcher_done)
          /\ IF Finished(c, reaped', watcher_done)
             THEN owner' = [owner EXCEPT ![t] = c] /\ ChildGoto(t, "dispose")
             ELSE UNCHANGED <<owner, child_op>>
    /\ UNCHANGED <<pid, exited, watcher_done, allocated, holding, running, watch>>

Dispose(t) ==
    /\ child_op[t] = "dispose"
    /\ UNCHANGED <<children, pid, running, watch>>
    /\ dispose(owner[t])
    /\ owner' = [owner EXCEPT ![t] = NULL]
    /\ ChildGoto(t, "none")

\* Kill: the handle of a child that runs is used under the lock.
Kill(t, id) ==
    /\ child_op[t] = "none"
    /\ \E c \in Listed \ exited : Candidate(c, id) /\ running' = running \ {c}
    /\ UNCHANGED <<children, pid, flags, allocated, holding, watch, owner, child_op>>

-----------------------------------------------------------------------------
Watcher(c) ==
    WaitReturns(c) \/ MarkExited(c) \/ TellExit(c) \/ WatcherDone(c) \/ WatcherDisposes(c)
Continue(t) == List(t) \/ ThreadCreate(t) \/ ThreadFails(t) \/ Fail(t) \/ Dispose(t)

ChildrenNext ==
    \/ \E c \in Records : End(c) \/ WaitFails(c) \/ Watcher(c)
    \/ \E t \in Threads :
          \/ Spawn(t) \/ Continue(t)
          \/ \E id \in Pids \union {-1} : WaitPid(t, id) \/ Kill(t, id)

\* The watcher's thread and a caller in the middle of its call are scheduled.
ChildrenFairness ==
    /\ \A c \in Records : WF_process_table(Watcher(c))
    /\ \A t \in Threads : WF_process_table(Continue(t))

ChildrenSpec == ChildrenInit /\ [][ChildrenNext]_process_table /\ ChildrenFairness

-----------------------------------------------------------------------------
\* The types of the variables; a flag is that of a record that is there.
ChildrenTypeOK ==
    /\ children \in Seq(Records)
    /\ \A i, j \in DOMAIN children : children[i] = children[j] => i = j
    /\ pid \in [Records -> Pids \union {0}]
    /\ exited \union reaped \union watcher_done \subseteq allocated
    /\ running \subseteq holding
    /\ holding \union allocated \subseteq Records
    /\ watch \in [Records -> {"none", "wait", "ended", "tell", "told", "dispose"}]
    /\ owner \in [Threads -> Records \union {NULL}]
    /\ child_op \in [Threads -> {"none", "list", "thread", "fail", "dispose"}]

\* Who will free c: its watcher, or a thread that starts or disposes of it.
Disposers(c) ==
    {t \in Threads : owner[t] = c /\ child_op[t] \in {"dispose", "fail"}}
        \union (IF watch[c] = "dispose" THEN {c} ELSE {})

\* "The record goes once the code was collected AND the watcher is through with
\* it": a record is freed once and by one thread, what is on the list or in a
\* watcher's hands is there, and a record that is there is on the list, being
\* started or about to be freed.
RecordsAreOwned ==
    ChildrenTypeOK /\ \A c \in Records :
        /\ watch[c] # "none" => c \in allocated
        /\ Cardinality(Disposers(c)) <= 1
        /\ c \in Listed => c \in allocated /\ Disposers(c) = {}
        /\ c \in allocated => \/ c \in Listed
                              \/ Disposers(c) # {}
                              \/ \E t \in Threads : owner[t] = c /\ child_op[t] = "list"

\* A child that has ended is told of, and one that was collected is freed, in
\* whatever order its watcher and the caller that collects it come.
EndedAreReleased ==
    \A c \in Records :
        /\ []<>(watch[c] \in {"none", "told"} \/ (watch[c] = "wait" /\ c \in running))
        /\ []<>(c \notin reaped)

\* "Collects the exit code: the id when the child has ended, 0 while it runs"
\* (WaitPidExitedNoHang): a child that has ended is found under its id.
EndedIsFound ==
    \A c \in Listed \ reaped :
        c \in exited => \E d \in exited : Candidate(d, pid[c])
=============================================================================
