--------------------------- MODULE LinuxProcesses ----------------------------
(***************************************************************************)
(* Child processes of the Linux provider (linux_processes.rs): threads     *)
(* launch children, by posix_spawn or, under another identity, by a fork   *)
(* that reports through a pipe, and wait for, terminate and release them.  *)
(* The children, the signals and the process ids are the kernel's.         *)
(*                                                                         *)
(* A section under the mutex of a child is one step, except for terminate, *)
(* which looks and then signals.  A forked child runs beside its parent    *)
(* and owns a copy of every descriptor until it becomes the program.       *)
(***************************************************************************)
EXTENDS Threads, Sequences

\* A thread launches at most one child, which is known by its name.
CONSTANTS
    Pids,       \* process ids
    Plans       \* what may happen: [request, parent, reaper, calls], a request
                \* [as, pipes, wanted] per thread, or [none]

ME == "parent"      \* the process itself, as holder of a descriptor

VARIABLES
    request, parent,                 \* of this behaviour
    reaper,     \* whether the embedding program reaps children as well
    child,      \* per handle: [live, state, pid, pidfd]
    mutex,      \* per handle: who signals under it
    held,       \* resources of a launch: allocations, descriptors
    report,     \* per launch: holders of the write end of its report pipe
    message,    \* per launch: whether a failed step was reported
    masked,     \* threads that hold back every signal
    proc,       \* per pid: [state, of, at, masked, handlers, creds, code]
    pc, target, \* where each thread is, and the child its call is about
    patience,   \* whether its wait has a deadline, and looks at the pidfd
    left,       \* calls to come
    answers,    \* per handle: codes and failures the waits were told
    code,       \* per handle: what its process ended with
    strays,     \* signals that went to somebody else's process
    intrusions  \* handlers of the parent that ran in a child

launching == <<held, report, message, masked>>
kernel == <<proc, code, intrusions>>
fixed == <<request, parent, reaper>>
vars == <<fixed, child, mutex, launching, kernel, pc, target, patience, left, answers, strays>>

NoRequest == [none |-> TRUE]
Identities == [user : Nat, group : Nat, groups : SUBSET Nat, failed : BOOLEAN]
Requests == [as : BOOLEAN, pipes : Nat, wanted : [user : Nat, group : Nat, groups : SUBSET Nat]]
ASSUME PlansMakeSense ==
    \A plan \in Plans :
        /\ plan.request \in [Threads -> Requests \union {NoRequest}] /\ plan.reaper \in BOOLEAN
        /\ plan.parent \in Identities /\ ~plan.parent.failed
ASSUME NobodyHasNoPid == NULL \notin Pids
NoChild == [live |-> FALSE, state |-> "RUNNING", pid |-> NULL, pidfd |-> FALSE]
Free == [state |-> "free", of |-> NULL, at |-> NULL, masked |-> FALSE, handlers |-> NULL, creds |-> <<>>]
Init ==
    /\ \E plan \in Plans :
         request = plan.request /\ parent = plan.parent /\ reaper = plan.reaper /\ left = plan.calls
    /\ child = [h \in Threads |-> NoChild] /\ mutex = [h \in Threads |-> NULL]
    /\ held = [t \in Threads |-> <<>>] /\ report = [t \in Threads |-> {}] /\ message = [t \in Threads |-> FALSE]
    /\ masked = {} /\ proc = [p \in Pids |-> Free]
    /\ pc = [t \in Threads |-> "idle"] /\ target = [t \in Threads |-> NULL]
    /\ patience = [t \in Threads |-> [deadline |-> FALSE, pidfd |-> FALSE]]
    /\ answers = [h \in Threads |-> {}] /\ code = [h \in Threads |-> NULL]
    /\ strays = 0 /\ intrusions = 0

goto(t, label) == pc' = [pc EXCEPT ![t] = label]

-----------------------------------------------------------------------------
\* What a launch acquires before there is a child, in order.
Needs(r) ==
    <<"handle">> \o [i \in 1..2 * r.pipes |-> IF i % 2 = 1 THEN "pipe" ELSE "ends"] \o <<"vectors">>
        \o (IF r.as /\ r.wanted.groups # {} THEN <<"spare">> ELSE <<>>)
\* The drop of Pending: whatever is still there is given back.
drop(t) == held' = [held EXCEPT ![t] = <<>>]
Launched(t) == child[t].pid # NULL

launch(t) ==
    /\ pc[t] = "idle" /\ ~Launched(t) /\ request[t] # NoRequest /\ left > 0 /\ left' = left - 1 /\ goto(t, "acquire")
    /\ target' = [target EXCEPT ![t] = NULL]
    /\ UNCHANGED <<fixed, child, mutex, launching, kernel, patience, answers, strays>>
acquire(t) ==
    /\ pc[t] = "acquire"
    /\ IF Len(held[t]) = Len(Needs(request[t])) THEN goto(t, IF request[t].as THEN "report" ELSE "start") /\ UNCHANGED held
       ELSE \/ held' = [held EXCEPT ![t] = Append(@, Needs(request[t])[Len(@) + 1])] /\ UNCHANGED pc
            \/ drop(t) /\ goto(t, "idle")
    /\ UNCHANGED <<fixed, child, mutex, report, message, masked, kernel, target, patience, left, answers, strays>>
\* posix_spawn, which reports every failed step itself.
start(t) ==
    /\ pc[t] = "start"
    /\ \/ \E p \in Pids :
            /\ proc[p].state = "free"
            /\ proc' = [proc EXCEPT ![p] = [Free EXCEPT !.state = "running", !.of = t, !.creds = parent]]
            /\ child' = [child EXCEPT ![t].pid = p] /\ goto(t, "hand_over") /\ UNCHANGED held
       \/ drop(t) /\ goto(t, "idle") /\ UNCHANGED <<proc, child>>
    /\ UNCHANGED <<fixed, mutex, report, message, masked, code, intrusions, target, patience, left, answers, strays>>

start_as(t) ==
    /\ pc[t] = "report"
    /\ \/ report' = [report EXCEPT ![t] = {ME}] /\ masked' = masked \union {t} /\ goto(t, "fork") /\ UNCHANGED held
       \/ drop(t) /\ goto(t, "idle") /\ UNCHANGED <<report, masked>>
    /\ message' = [message EXCEPT ![t] = FALSE]
    /\ UNCHANGED <<fixed, child, mutex, kernel, target, patience, left, answers, strays>>
\* The child has every signal of the thread held back, the parent's handlers and a
\* copy of every write end that is open.
holds_back(t) == t \in masked
fork(t) ==
    /\ pc[t] = "fork"
    /\ \/ \E p \in Pids :
            /\ proc[p].state = "free"
            /\ proc' = [proc EXCEPT ![p] = [Free EXCEPT !.state = "starting", !.of = t, !.at = "defaults",
                                            !.masked = holds_back(t), !.handlers = ME, !.creds = parent]]
            /\ child' = [child EXCEPT ![t].pid = p]
            /\ report' = [u \in Threads |-> IF ME \in report[u] THEN report[u] \union {p} ELSE report[u]]
            /\ goto(t, "unmask")
       \/ goto(t, "no_fork") /\ UNCHANGED <<proc, child, report>>
    /\ UNCHANGED <<fixed, mutex, held, message, masked, code, intrusions, target, patience, left, answers, strays>>
start_as_unmask(t) ==
    /\ pc[t] \in {"unmask", "no_fork"}
    /\ masked' = masked \ {t} /\ report' = [report EXCEPT ![t] = @ \ {ME}]
    /\ IF pc[t] = "no_fork" THEN drop(t) /\ goto(t, "idle") ELSE goto(t, "read") /\ UNCHANGED held
    /\ UNCHANGED <<fixed, child, mutex, message, kernel, target, patience, left, answers, strays>>
\* An errno that came is a failed step; the end of the file is a program.
start_as_read(t) ==
    /\ pc[t] = "read"
    /\ \/ message[t] /\ goto(t, "reap_failed")
       \/ ~message[t] /\ report[t] = {} /\ goto(t, "hand_over")
    /\ UNCHANGED <<fixed, child, mutex, launching, kernel, target, patience, left, answers, strays>>
start_as_reap(t) ==
    /\ pc[t] = "reap_failed"
    /\ LET p == child[t].pid
       IN /\ proc[p].of = t => proc[p].state = "zombie"
          /\ proc' = IF proc[p].of = t THEN [proc EXCEPT ![p] = Free] ELSE proc
    /\ child' = [child EXCEPT ![t] = NoChild] /\ code' = [code EXCEPT ![t] = NULL]
    /\ drop(t) /\ goto(t, "idle")
    /\ UNCHANGED <<fixed, mutex, report, message, masked, intrusions, target, patience, left, answers, strays>>
\* The pidfd if there is one, then the pipes; the child's ends and the vectors go.
hand_over(t) ==
    /\ pc[t] = "hand_over"
    /\ \E pidfd \in BOOLEAN : child' = [child EXCEPT ![t] = [@ EXCEPT !.live = TRUE, !.state = "RUNNING", !.pidfd = pidfd]]
    /\ drop(t) /\ goto(t, "idle")
    /\ UNCHANGED <<fixed, mutex, report, message, masked, kernel, target, patience, left, answers, strays>>

-----------------------------------------------------------------------------
\* Groups, group, user; without the privilege the groups may stay as they are
\* when the list has all of them.
setgroups(creds, groups) ==
    IF creds.user = 0 THEN [creds EXCEPT !.groups = groups]
    ELSE IF creds.groups \subseteq groups THEN creds ELSE [creds EXCEPT !.failed = TRUE]
setgid(creds, group) ==
    IF creds.user = 0 \/ creds.group = group THEN [creds EXCEPT !.group = group] ELSE [creds EXCEPT !.failed = TRUE]
setuid(creds, user) ==
    IF creds.user = 0 \/ creds.user = user THEN [creds EXCEPT !.user = user] ELSE [creds EXCEPT !.failed = TRUE]
\* Mutant: the user is set before the groups.
assume_UserFirst(creds, wanted) == setgid(setgroups(setuid(creds, wanted.user), wanted.groups), wanted.group)
assume(creds, wanted) == setuid(setgid(setgroups(creds, wanted.groups), wanted.group), wanted.user)

\* Mutant: an end of the report pipe stays open in the program.
closes_Not(p) == UNCHANGED report
\* The steps of a forked child.
closes(p) == report' = [u \in Threads |-> report[u] \ {p}]
become_program(p) ==
    LET t == proc[p].of
        step(q) == proc' = [proc EXCEPT ![p] = q] /\ UNCHANGED <<report, message, code>>
    IN /\ proc[p].state = "starting"
       /\ CASE proc[p].at = "defaults" -> \E at \in {"assume", "fail"} : step([proc[p] EXCEPT !.at = at, !.handlers = NULL])
            [] proc[p].at = "assume" ->
                 LET creds == assume(proc[p].creds, request[t].wanted)
                 IN step([proc[p] EXCEPT !.at = IF creds.failed THEN "fail" ELSE "enter", !.creds = creds])
            [] proc[p].at = "enter" -> \E at \in {"exec", "fail"} : step([proc[p] EXCEPT !.at = at, !.masked = at = "fail"])
            [] proc[p].at = "exec" ->
                 \/ proc' = [proc EXCEPT ![p].state = "running"] /\ closes(p) /\ UNCHANGED <<message, code>>
                 \/ step([proc[p] EXCEPT !.at = "fail"])
            [] proc[p].at = "fail" ->
                 /\ message' = [message EXCEPT ![t] = TRUE] /\ proc' = [proc EXCEPT ![p].at = "exit"] /\ UNCHANGED <<report, code>>
            [] proc[p].at = "exit" ->
                 proc' = [proc EXCEPT ![p].state = "zombie"] /\ closes(p) /\ code' = [code EXCEPT ![t] = "127"] /\ UNCHANGED message
       /\ UNCHANGED <<fixed, child, mutex, held, masked, intrusions, pc, target, patience, left, answers, strays>>
\* A signal for a child that is not the program yet.
Signal(p) ==
    /\ proc[p].state = "starting" /\ ~proc[p].masked
    /\ IF proc[p].handlers = ME THEN intrusions' = 1 /\ UNCHANGED <<proc, code, report>>
       ELSE /\ proc' = [proc EXCEPT ![p].state = "zombie"] /\ code' = [code EXCEPT ![proc[p].of] = "143"] /\ closes(p)
            /\ UNCHANGED intrusions
    /\ UNCHANGED <<fixed, child, mutex, held, message, masked, pc, target, patience, left, answers, strays>>
Exit(p) ==
    /\ proc[p].state = "running" /\ proc[p].of # NULL
    /\ proc' = [proc EXCEPT ![p].state = "zombie"] /\ code' = [code EXCEPT ![proc[p].of] = "0"]
    /\ UNCHANGED <<fixed, child, mutex, launching, intrusions, pc, target, patience, left, answers, strays>>
\* Another process gets an id that is free; the embedding program reaps.
Reuse(p) ==
    /\ proc[p].state = "free" /\ \E h \in Threads : child[h].pid = p
    /\ \A q \in Pids : proc[q].state = "running" => proc[q].of # NULL
    /\ proc' = [proc EXCEPT ![p] = [Free EXCEPT !.state = "running"]]
    /\ UNCHANGED <<fixed, child, mutex, launching, code, intrusions, pc, target, patience, left, answers, strays>>
Reap(p) ==
    /\ reaper /\ proc[p].state = "zombie" /\ proc' = [proc EXCEPT ![p] = Free]
    /\ UNCHANGED <<fixed, child, mutex, launching, code, intrusions, pc, target, patience, left, answers, strays>>

-----------------------------------------------------------------------------
\* `look`: the only waitpid there is.  Another process under the id is no child
\* of ours, and neither is one that is gone: ECHILD.
verdict(h) == child[h].state
looked(h) ==
    LET p == child[h].pid
    IN IF verdict(h) # "RUNNING" THEN verdict(h)
       ELSE IF proc[p].of # h THEN "LOST"
       ELSE IF proc[p].state = "zombie" THEN "ENDED" ELSE "RUNNING"
look(h) ==
    /\ child' = [child EXCEPT ![h].state = looked(h)]
    /\ proc' = IF verdict(h) = "RUNNING" /\ looked(h) = "ENDED" THEN [proc EXCEPT ![child[h].pid] = Free] ELSE proc
told(h) == answers' = [answers EXCEPT ![h] = @ \union {IF looked(h) = "ENDED" THEN code[h] ELSE "LOST"}]
\* Mutant: a handle is freed while a wait has it.
free_Always(h) == TRUE
free(h) == verdict(h) # "RUNNING" \/ mutex[h] = NULL

begin(t, h, label) ==
    /\ pc[t] = "idle" /\ child[h].live /\ left > 0 /\ left' = left - 1
    /\ target' = [target EXCEPT ![t] = h] /\ goto(t, label)
wait(t, h) ==
    /\ begin(t, h, "wait")
    /\ \E deadline \in BOOLEAN : patience' = [patience EXCEPT ![t] = [deadline |-> deadline, pidfd |-> child[h].pidfd]]
    /\ UNCHANGED <<fixed, child, mutex, launching, kernel, answers, strays>>
wait_reap(t) ==
    /\ pc[t] = "wait"
    /\ LET h == target[t]
       IN /\ free(h) /\ look(h)
          /\ IF looked(h) = "RUNNING" THEN goto(t, "poll") /\ UNCHANGED answers ELSE goto(t, "idle") /\ told(h)
    /\ UNCHANGED <<fixed, mutex, launching, code, intrusions, target, patience, left, strays>>
\* A pidfd turns readable when the child has ended and is not asked again; without
\* one the thread sleeps for a while.  A deadline may have come.
wait_poll(t) ==
    LET h == target[t]
        ended == code[h] # NULL
    IN /\ pc[t] = "poll"
       /\ \/ patience[t].deadline /\ goto(t, "idle") /\ UNCHANGED patience
          \/ ~patience[t].pidfd /\ goto(t, "wait") /\ UNCHANGED patience
          \/ patience[t].pidfd /\ ended /\ goto(t, "wait") /\ patience' = [patience EXCEPT ![t].pidfd = FALSE]
       /\ UNCHANGED <<fixed, child, mutex, launching, kernel, target, left, answers, strays>>

terminate(t, h) ==
    /\ begin(t, h, "look") /\ UNCHANGED <<fixed, child, mutex, launching, kernel, patience, answers, strays>>
terminate_look(t) ==
    LET h == target[t]
    IN /\ pc[t] = "look" /\ mutex[h] = NULL /\ look(h)
       /\ IF looked(h) = "RUNNING" THEN goto(t, "kill") /\ mutex' = [mutex EXCEPT ![h] = t] ELSE goto(t, "idle") /\ UNCHANGED mutex
       /\ UNCHANGED <<fixed, launching, code, intrusions, target, patience, left, answers, strays>>
terminate_kill(t) ==
    LET h == target[t]
        p == child[h].pid
    IN /\ pc[t] = "kill" /\ mutex' = [mutex EXCEPT ![h] = NULL] /\ goto(t, "idle")
       /\ strays' = IF proc[p].state = "running" /\ proc[p].of # h THEN 1 ELSE strays
       /\ IF proc[p].of = h /\ proc[p].state = "running"
          THEN proc' = [proc EXCEPT ![p].state = "zombie"] /\ code' = [code EXCEPT ![h] = "137"] ELSE UNCHANGED <<proc, code>>
       /\ UNCHANGED <<fixed, child, launching, intrusions, target, patience, left, answers>>

\* One look, then the handle goes; nobody else may be using it.
release(t, h) ==
    /\ begin(t, h, "idle") /\ \A u \in Threads : pc[u] # "idle" => target[u] # h
    /\ child' = [child EXCEPT ![h] = [NoChild EXCEPT !.pid = child[h].pid, !.state = looked(h)]]
    /\ proc' = IF verdict(h) = "RUNNING" /\ looked(h) = "ENDED" THEN [proc EXCEPT ![child[h].pid] = Free] ELSE proc
    /\ UNCHANGED <<fixed, mutex, launching, code, intrusions, patience, answers, strays>>

Inside(t) ==
    \/ acquire(t) \/ start(t) \/ start_as(t) \/ fork(t) \/ start_as_unmask(t) \/ start_as_read(t) \/ start_as_reap(t) \/ hand_over(t)
    \/ wait_reap(t) \/ wait_poll(t) \/ terminate_look(t) \/ terminate_kill(t)
Next ==
    \/ \E t \in Threads : launch(t) \/ Inside(t)
    \/ \E t \in Threads, h \in Threads : wait(t, h) \/ terminate(t, h) \/ release(t, h)
    \/ \E p \in Pids : become_program(p) \/ Signal(p) \/ Exit(p) \/ Reuse(p) \/ Reap(p)
\* The threads run on, and so does a child until it is the program.
Fairness == (\A t \in Threads : WF_vars(Inside(t))) /\ \A p \in Pids : WF_vars(become_program(p))
Spec == Init /\ [][Next]_vars /\ Fairness

-----------------------------------------------------------------------------
\* A launch is whole.  One that returned holds nothing back, neither signals nor
\* memory nor descriptors, and when it failed there is no process left of it.  What
\* runs is the program under exactly the identity that was asked for, which a
\* privileged process is never refused, and no handler of the parent has run in a
\* child (linux_processes.rs: "No handler of this process may run in the child").
LaunchIsWhole ==
    /\ \A t \in Threads : pc[t] = "idle" =>
         /\ held[t] = <<>> /\ ME \notin report[t] /\ t \notin masked
         /\ child[t].pid = NULL => \A p \in Pids : proc[p].of # t
    /\ \A p \in Pids : proc[p].of # NULL /\ request[proc[p].of].as =>
         LET wanted == request[proc[p].of].wanted
             creds == proc[p].creds
         IN /\ proc[p].state = "running" =>
                 /\ creds.user = wanted.user /\ creds.group = wanted.group /\ creds.groups \subseteq wanted.groups
                 /\ parent.user = 0 => creds.groups = wanted.groups
            /\ creds.failed => parent.user # 0
    /\ intrusions = 0

\* A child is reaped once, and everybody who asks is told the same: what it ended
\* with, or, when the embedding program was faster, that nobody knows.  A signal
\* goes to the child it is meant for, not to whoever has got its id meanwhile
\* (linux_processes.rs:33).
OneVerdict ==
    /\ \A h \in Threads : \A a \in answers[h], b \in answers[h] : a = b
    /\ \A h \in Threads : answers[h] \subseteq {code[h]} \union (IF reaper THEN {"LOST"} ELSE {})
    /\ ~reaper => strays = 0

\* Every call ends, whoever else launches, forks, waits and signals meanwhile: a
\* launch when its child is the program or has failed, a wait when the child has
\* ended.
CallsEnd ==
    \A t \in Threads :
        []<>(pc[t] = "idle" \/ (pc[t] \in {"wait", "poll"} /\ code[target[t]] = NULL))

-----------------------------------------------------------------------------
(* The inductive invariant behind LaunchIsWhole and OneVerdict. *)

Launching == {"acquire", "report", "start", "fork", "no_fork", "unmask", "read", "reap_failed", "hand_over"}
Using == {"wait", "poll", "look", "kill"}
Children == [live : BOOLEAN, state : {"RUNNING", "ENDED", "LOST"}, pid : Pids \union {NULL}, pidfd : BOOLEAN]
Processes ==
    [state : {"free", "starting", "running", "zombie"}, of : Threads \union {NULL},
     at : {"defaults", "assume", "enter", "exec", "fail", "exit", NULL}, masked : BOOLEAN,
     handlers : {ME, NULL}, creds : Identities \union {<<>>}]
ProcessesTyped ==
    /\ request \in [Threads -> Requests \union {NoRequest}] /\ reaper \in BOOLEAN
    /\ parent \in Identities /\ ~parent.failed
    /\ child \in [Threads -> Children] /\ mutex \in [Threads -> Threads \union {NULL}]
    /\ proc \in [Pids -> Processes] /\ pc \in [Threads -> Launching \union Using \union {"idle"}]
    /\ target \in [Threads -> Threads \union {NULL}]
    /\ DOMAIN held = Threads /\ report \in [Threads -> SUBSET (Pids \union {ME})] /\ DOMAIN message = Threads
    /\ masked \subseteq Threads /\ code \in [Threads -> {"0", "127", "137", "143", NULL}]
    /\ DOMAIN answers = Threads

\* A launch has a child once it has forked, and what it holds until it returns; a
\* call is about a handle that is out.
Placed(t) ==
    /\ pc[t] \in Launching =>
         /\ request[t] # NoRequest /\ ~child[t].live /\ child[t].state = "RUNNING"
         /\ child[t].pid = NULL <=> pc[t] \in {"acquire", "report", "start", "fork", "no_fork"}
         /\ pc[t] = "start" => ~request[t].as
         /\ pc[t] \in {"report", "fork"} => request[t].as
    /\ pc[t] \notin Launching => held[t] = <<>>
    /\ ME \in report[t] => pc[t] \in {"fork", "unmask", "no_fork"}
    /\ t \in masked <=> pc[t] \in {"fork", "unmask", "no_fork"}
    /\ pc[t] \in Using => target[t] \in Threads /\ child[target[t]].live
    /\ child[t].live => child[t].pid # NULL
CallsArePlaced == \A t \in Threads : Placed(t)

\* A process of a launch is the one its handle names, and where it is in becoming
\* the program decides under which identity it is and who handles its signals.
Owned(p) ==
    LET q == proc[p]
        r == request[q.of]
    IN /\ q.state = "free" => q.of = NULL
       /\ q.of # NULL => child[q.of].pid = p /\ r # NoRequest
       /\ q.state = "starting" =>
            /\ q.of # NULL /\ r.as /\ q.at # NULL
            /\ q.at = "defaults" => q.masked
            /\ q.at # "defaults" => q.handlers = NULL
       /\ q.of # NULL /\ r.as =>
            /\ q.at \in {"defaults", "assume"} => q.creds = parent
            /\ q.at \in {"enter", "exec"} => q.creds = assume(parent, r.wanted) /\ ~q.creds.failed
            /\ q.creds \in {parent, assume(parent, r.wanted)}
            /\ q.state = "running" => q.at = "exec"
ProcessesAreOwned == \A p \in Pids : Owned(p)

\* The verdict is final: no process is left to end otherwise, and only what it says
\* was told.  Until then the process is there, unless the embedding program reaps.
Final(h) ==
    /\ child[h].state # "RUNNING" => child[h].pid # NULL /\ \A p \in Pids : proc[p].of # h
    /\ child[h].state = "LOST" => reaper
    /\ child[h].state = "RUNNING" => answers[h] = {}
    /\ answers[h] \subseteq {IF child[h].state = "ENDED" THEN code[h] ELSE "LOST"}
    /\ ~reaper /\ child[h].state = "RUNNING" /\ child[h].pid # NULL => proc[child[h].pid].of = h
VerdictIsFinal == \A h \in Threads : Final(h)

\* Who is about to signal has the mutex of a child that nobody has reaped.
SignalsAreGuarded ==
    \A t \in Threads : pc[t] = "kill" => mutex[target[t]] = t /\ child[target[t]].state = "RUNNING"
=============================================================================
