---------------------------- MODULE ProvidersProofs ----------------------------
(***************************************************************************)
(* Safety of the child processes of module LinuxProcesses and of the       *)
(* requests of module Notifications, for any number of threads, process    *)
(* ids, calls, identities, pipes, kinds of requests and signals.           *)
(***************************************************************************)
EXTENDS LinuxProcesses, Notifications, TLAPS

-----------------------------------------------------------------------------
(* Child processes.                                                        *)


\* Who becomes a user has exactly what was asked for, or has failed, which root
\* never does.
LEMMA Assumed ==
    ASSUME NEW c \in Identities, ~c.failed, NEW r \in Requests
    PROVE  LET new == assume(c, r.wanted)
           IN /\ new \in Identities /\ (new.failed => c.user # 0)
              /\ ~new.failed => /\ new.user = r.wanted.user /\ new.group = r.wanted.group
                                /\ new.groups \subseteq r.wanted.groups /\ (c.user = 0 => new.groups = r.wanted.groups)
<1> DEFINE w == r.wanted
           g == setgroups(c, w.groups)
           i == setgid(g, w.group)
           u == setuid(i, w.user)
<1>0. w.user \in Nat /\ w.group \in Nat /\ w.groups \subseteq Nat
  BY Zenon DEF Requests
<1>1. /\ g \in Identities /\ g.user = c.user /\ g.group = c.group /\ (g.failed => c.user # 0)
      /\ ~g.failed => g.groups \subseteq w.groups /\ (c.user = 0 => g.groups = w.groups)
  <2>1. [c EXCEPT !.failed = TRUE] \in Identities
    BY Zenon DEF Identities
  <2> QED BY <1>0, <2>1, Zenon DEF setgroups, Identities
<1>2. /\ i \in Identities /\ i.user = c.user /\ i.groups = g.groups /\ (i.failed => c.user # 0)
      /\ ~i.failed => ~g.failed /\ i.group = w.group
  <2>1. [g EXCEPT !.failed = TRUE] \in Identities
    BY <1>1, Zenon DEF Identities
  <2> HIDE DEF g
  <2> QED BY <1>0, <1>1, <2>1, Zenon DEF setgid, Identities
<1>3. /\ u \in Identities /\ u.group = i.group /\ u.groups = i.groups /\ (u.failed => c.user # 0)
      /\ ~u.failed => ~i.failed /\ u.user = w.user
  <2>1. [i EXCEPT !.failed = TRUE] \in Identities
    BY <1>2, Zenon DEF Identities
  <2> HIDE DEF g, i
  <2> QED BY <1>0, <1>2, <2>1, Zenon DEF setuid, Identities
<1>4. assume(c, r.wanted) = u
  BY Zenon DEF assume
<1> HIDE DEF u, i, g, w
<1>5. u = assume(c, r.wanted) /\ w = r.wanted
  BY <1>4, Zenon DEF w
<1> QED BY <1>1, <1>2, <1>3, <1>5, Zenon

\* No process is the record of one.
LEMMA FreeIsAProcess == Free \in Processes /\ Free.of = NULL /\ Free.state = "free"
<1>1. Free \in Processes
  BY Zenon DEF Free, Processes
<1>2. Free.of = NULL /\ Free.state = "free"
  BY Zenon DEF Free
<1> QED BY <1>1, <1>2, Zenon

\* The record of a process stays one whatever a step does to it.
LEMMA EditedProcess ==
    ASSUME NEW q \in Processes, NEW t \in Threads, NEW b \in BOOLEAN, NEW c \in Identities,
           NEW s \in {"zombie", "running"}, NEW a \in {"assume", "enter", "exec", "fail", "exit"}
    PROVE  /\ Free \in Processes
           /\ [Free EXCEPT !.state = "running", !.of = t, !.creds = c] \in Processes
           /\ [Free EXCEPT !.state = "starting", !.of = t, !.at = "defaults", !.masked = b, !.handlers = ME, !.creds = c] \in Processes
           /\ [Free EXCEPT !.state = "running"] \in Processes
           /\ [q EXCEPT !.state = s] \in Processes /\ [q EXCEPT !.at = a] \in Processes
           /\ [q EXCEPT !.at = a, !.handlers = NULL] \in Processes
           /\ [q EXCEPT !.at = a, !.creds = c] \in Processes
           /\ [q EXCEPT !.at = a, !.masked = b] \in Processes
<1>1. Free \in Processes
  BY Zenon DEF Free, Processes
<1>2. [Free EXCEPT !.state = "running", !.of = t, !.creds = c] \in Processes
  BY <1>1, Zenon DEF Processes
<1>3. [Free EXCEPT !.state = "starting", !.of = t, !.at = "defaults", !.masked = b, !.handlers = ME, !.creds = c] \in Processes
  BY <1>1, Zenon DEF Processes
<1>4. [Free EXCEPT !.state = "running"] \in Processes
  BY <1>1, Zenon DEF Processes
<1>5. [q EXCEPT !.state = s] \in Processes /\ [q EXCEPT !.at = a] \in Processes
  BY Zenon DEF Processes
<1>6. /\ [q EXCEPT !.at = a, !.handlers = NULL] \in Processes
      /\ [q EXCEPT !.at = a, !.creds = c] \in Processes
      /\ [q EXCEPT !.at = a, !.masked = b] \in Processes
  BY Zenon DEF Processes
<1> QED BY <1>1, <1>2, <1>3, <1>4, <1>5, <1>6, Zenon


\* The inductive invariant of the processes provider.
ProcessesInv ==
    /\ ProcessesTyped /\ CallsArePlaced /\ ProcessesAreOwned /\ VerdictIsFinal /\ SignalsAreGuarded
    /\ intrusions = 0 /\ (~reaper => strays = 0)

\* The invariant of the processes provider holds before the first call
\* (linux_processes.rs: no child launched, nothing reaped).
LEMMA ProcessesInitially == Init => ProcessesInv
<1> SUFFICES ASSUME Init PROVE ProcessesInv
  BY Zenon
<1> USE NobodyIsNoThread, NobodyHasNoPid, PlansMakeSense DEF Init
<1>1. NoChild \in Children
  BY Zenon DEF NoChild, Children
<1>2. Free \in Processes
  BY Zenon DEF Free, Processes
<1>3. ProcessesTyped
  BY <1>1, <1>2, Zenon DEF ProcessesTyped
<1>4. CallsArePlaced /\ SignalsAreGuarded
  BY Zenon DEF CallsArePlaced, Placed, SignalsAreGuarded, Launching, Using, NoChild
<1>5. ProcessesAreOwned
  BY Zenon DEF ProcessesAreOwned, Owned, Free
<1>6. VerdictIsFinal
  BY Zenon DEF VerdictIsFinal, Final, NoChild
<1> QED BY <1>3, <1>4, <1>5, <1>6, Zenon DEF ProcessesInv


\* So does the record of a child.
LEMMA EditedChild ==
    ASSUME NEW c \in Children, NEW p \in Pids, NEW s \in {"RUNNING", "ENDED", "LOST"}, NEW b \in BOOLEAN
    PROVE  /\ NoChild \in Children /\ [c EXCEPT !.pid = p] \in Children /\ [c EXCEPT !.state = s] \in Children
           /\ [c EXCEPT !.live = TRUE, !.state = "RUNNING", !.pidfd = b] \in Children
           /\ [NoChild EXCEPT !.pid = p, !.state = s] \in Children
<1>1. NoChild \in Children
  BY Zenon DEF NoChild, Children
<1>2. [c EXCEPT !.pid = p] \in Children /\ [c EXCEPT !.state = s] \in Children /\ [NoChild EXCEPT !.pid = p, !.state = s] \in Children
  BY <1>1, Zenon DEF Children
<1>3. ASSUME NEW l \in BOOLEAN PROVE [c EXCEPT !.live = l, !.state = "RUNNING", !.pidfd = b] \in Children
  BY Zenon DEF Children
<1>4. [c EXCEPT !.live = TRUE, !.state = "RUNNING", !.pidfd = b] \in Children
  <2>1. TRUE \in BOOLEAN
    BY Zenon
  <2> QED BY <1>3, <2>1, Zenon
<1> QED BY <1>1, <1>2, <1>4, Zenon

\* An edit of one child leaves the others.
LEMMA OneChildEdited ==
    ASSUME NEW f \in [Threads -> Children], NEW h \in Threads, NEW c \in Children, NEW g, g = [f EXCEPT ![h] = c]
    PROVE  g \in [Threads -> Children] /\ g[h] = c /\ \A u \in Threads : u # h => g[u] = f[u]
BY Zenon

\* A step keeps what it does not touch.
LEMMA PlacedStays ==
    ASSUME NEW u \in Threads, Placed(u), request'[u] = request[u], pc'[u] = pc[u], child'[u].live = child[u].live,
           child'[u].state = child[u].state, child'[u].pid = child[u].pid,
           held'[u] = held[u], ME \in report'[u] => ME \in report[u], u \in masked' <=> u \in masked,
           target'[u] = target[u], pc[u] \in Using => child'[target[u]].live
    PROVE  Placed(u)'
BY Zenon DEF Placed
\* So does a process.
LEMMA OwnedStays ==
    ASSUME NEW p \in Pids, Owned(p), proc'[p] = proc[p], request' = request, parent' = parent,
           proc[p].of # NULL => child'[proc[p].of].pid = child[proc[p].of].pid
    PROVE  Owned(p)'
BY Zenon DEF Owned
\* What the kernel does to a process leaves every call where it is.
LEMMA KernelKeepsCalls ==
    ASSUME CallsArePlaced, SignalsAreGuarded, UNCHANGED <<request, pc, child, held, masked, target, mutex>>,
           \A u \in Threads : ME \in report'[u] => ME \in report[u]
    PROVE  CallsArePlaced' /\ SignalsAreGuarded'
BY PlacedStays DEF CallsArePlaced, SignalsAreGuarded, Placed
\* It changes the end of a child only while that has a process.
LEMMA KernelKeepsVerdicts ==
    ASSUME VerdictIsFinal, UNCHANGED <<child, reaper, answers>>,
           \A p \in Pids : proc'[p].of = proc[p].of, child \in [Threads -> Children],
           \A h \in Threads : code'[h] = code[h] \/ \E p \in Pids : proc[p].of = h
    PROVE  VerdictIsFinal'
<1> SUFFICES ASSUME NEW h \in Threads PROVE Final(h)'
  BY Zenon DEF VerdictIsFinal
<1>1. child[h].pid \in Pids \union {NULL} /\ Final(h)
  BY Zenon DEF VerdictIsFinal, Children
<1> QED BY <1>1, Zenon DEF Final

\* A new process, of a launch that has none.
LEMMA NewProcess ==
    ASSUME ProcessesInv, NEW t \in Threads, pc[t] \in {"start", "fork"}, NEW p \in Pids, proc[p].state = "free",
           NEW q \in Processes, q.of = t, proc' = [proc EXCEPT ![p] = q], child' = [child EXCEPT ![t].pid = p],
           UNCHANGED <<request, parent, reaper, answers, code>>
    PROVE  /\ child' \in [Threads -> Children] /\ proc' \in [Pids -> Processes] /\ proc'[p] = q
           /\ child'[t].pid = p /\ child'[t].live = child[t].live /\ child'[t].state = child[t].state
           /\ \A u \in Threads : u # t => child'[u] = child[u]
           /\ \A o \in Pids : o # p => Owned(o)'
           /\ VerdictIsFinal'
<1> USE NobodyIsNoThread, NobodyHasNoPid
<1>1. child \in [Threads -> Children] /\ proc \in [Pids -> Processes]
  BY Zenon DEF ProcessesInv, ProcessesTyped
<1>2. /\ child' \in [Threads -> Children] /\ child'[t].pid = p /\ child'[t].live = child[t].live
      /\ child'[t].state = child[t].state /\ \A u \in Threads : u # t => child'[u] = child[u]
  <2>1. [child[t] EXCEPT !.pid = p] \in Children
    BY <1>1, EditedChild, Zenon
  <2>2. child' = [child EXCEPT ![t] = [child[t] EXCEPT !.pid = p]]
    BY Zenon
  <2>3. child[t] \in Children
    BY <1>1, Zenon
  <2>4. [child[t] EXCEPT !.pid = p].pid = p /\ [child[t] EXCEPT !.pid = p].live = child[t].live /\ [child[t] EXCEPT !.pid = p].state = child[t].state
    BY <2>3, Zenon DEF Children
  <2> QED BY <1>1, <2>1, <2>2, <2>4, Zenon
<1>3. proc' \in [Pids -> Processes] /\ proc'[p] = q /\ \A o \in Pids : o # p => proc'[o] = proc[o]
  BY <1>1, Zenon
<1>4. child[t].pid = NULL /\ child[t].state = "RUNNING"
  BY Zenon DEF ProcessesInv, CallsArePlaced, Placed, Launching
<1>5. \A o \in Pids : Owned(o) /\ proc[o].of # t
  BY <1>4 DEF ProcessesInv, ProcessesAreOwned, Owned
<1>6. ASSUME NEW o \in Pids, o # p PROVE Owned(o)'
  <2>1. proc[o] \in Processes
    BY <1>1, Zenon
  <2>2. proc[o].of # NULL => proc[o].of \in Threads
    BY <2>1, Zenon DEF Processes
  <2> QED BY <1>2, <1>3, <1>5, <1>6, <2>2, OwnedStays, Zenon
<1>7. proc[p].of = NULL
  BY <1>5, Zenon DEF Owned
<1>8. ASSUME NEW h \in Threads PROVE Final(h)'
  <2>1. Final(h) /\ child[h].pid \in Pids \union {NULL}
    BY <1>1, Zenon DEF ProcessesInv, VerdictIsFinal, Children
  <2>2. CASE h = t
    BY <1>2, <1>3, <1>4, <2>1, <2>2, Zenon DEF Final
  <2>3. CASE h # t
    BY <1>2, <1>3, <1>7, <2>1, <2>3 DEF Final
  <2> QED BY <2>2, <2>3, Zenon
<1> QED BY <1>2, <1>3, <1>6, <1>8, Zenon DEF VerdictIsFinal

\* A look at a child that is out finds its end once; whoever looked may tell it.
LEMMA Looks ==
    ASSUME ProcessesInv, NEW h \in Threads, child[h].live,
           child' \in [Threads -> Children], child'[h].pid = child[h].pid, child'[h].state = looked(h),
           \A u \in Threads : u # h => child'[u] = child[u],
           proc' = (IF verdict(h) = "RUNNING" /\ looked(h) = "ENDED" THEN [proc EXCEPT ![child[h].pid] = Free] ELSE proc),
           UNCHANGED <<request, parent, reaper, code>>, answers' = answers \/ (looked(h) # "RUNNING" /\ told(h))
    PROVE  proc' \in [Pids -> Processes] /\ ProcessesAreOwned' /\ VerdictIsFinal'
<1> USE NobodyIsNoThread, NobodyHasNoPid
<1>1. child \in [Threads -> Children] /\ proc \in [Pids -> Processes] /\ DOMAIN answers = Threads
  BY Zenon DEF ProcessesInv, ProcessesTyped
<1> DEFINE p == child[h].pid
<1>2. p \in Pids /\ verdict(h) = child[h].state
  BY <1>1 DEF ProcessesInv, CallsArePlaced, Placed, verdict, Children
<1>3. Free \in Processes /\ Free.of = NULL /\ Free.state = "free"
  BY FreeIsAProcess, Zenon
<1>4. proc' \in [Pids -> Processes] /\ \A o \in Pids : proc'[o] = proc[o] \/ (o = p /\ proc'[o] = Free /\ proc[o].of = h)
  BY <1>1, <1>2, <1>3, Zenon DEF looked
<1>5. \A o \in Pids : Owned(o) /\ (proc[o].of = h => o = p) /\ proc[o].of \in Threads \union {NULL}
  BY <1>1 DEF ProcessesInv, ProcessesAreOwned, Owned, Processes
<1>6. ASSUME NEW o \in Pids PROVE Owned(o)'
  <2>1. CASE proc'[o] = Free
    BY <1>3, <2>1, Zenon DEF Owned
  <2>2. CASE proc'[o] = proc[o]
    BY <1>5, <2>2, OwnedStays, Zenon
  <2> QED BY <1>4, <2>1, <2>2, Zenon
<1>7. Final(h)'
  <2>1. Final(h)
    BY Zenon DEF ProcessesInv, VerdictIsFinal
  <2>2. answers'[h] = answers[h] \/ (looked(h) # "RUNNING" /\ answers'[h] = answers[h] \union {IF looked(h) = "ENDED" THEN code[h] ELSE "LOST"})
    BY <1>1, Zenon DEF told
  <2>3. looked(h) # "RUNNING" => \A o \in Pids : proc'[o].of # h
    BY <1>1, <1>2, <1>3, <1>5, <2>1, Zenon DEF looked, Final
  <2>4. looked(h) = "RUNNING" => child[h].state = "RUNNING" /\ proc[p].of = h /\ proc' = proc
    BY <1>2, Zenon DEF looked
  <2>5. looked(h) = "LOST" => reaper
    BY <1>2, <2>1, Zenon DEF looked, Final
  <2>6. child[h].state # "RUNNING" => looked(h) = child[h].state
    BY <1>2, Zenon DEF looked
  <2> HIDE DEF p
  <2> QED BY <1>2, <2>1, <2>2, <2>3, <2>4, <2>5, <2>6, Zenon DEF Final, p
<1>8. ASSUME NEW u \in Threads, u # h PROVE Final(u)'
  <2>1. Final(u) /\ child[u].pid \in Pids \union {NULL} /\ answers'[u] = answers[u] /\ child'[u] = child[u]
    BY <1>1, <1>8, Zenon DEF ProcessesInv, VerdictIsFinal, Children, told
  <2>2. \A o \in Pids : proc'[o].of = u <=> proc[o].of = u
    BY <1>3, <1>4, <1>8
  <2> QED BY <2>1, <2>2, Zenon DEF Final
<1> QED BY <1>4, <1>6, <1>7, <1>8, Zenon DEF ProcessesAreOwned, VerdictIsFinal

\* The parts of the invariant, as the steps below use them.
LEMMA InvParts ==
    ASSUME ProcessesInv
    PROVE  /\ ProcessesTyped /\ CallsArePlaced /\ ProcessesAreOwned /\ VerdictIsFinal /\ SignalsAreGuarded
           /\ intrusions = 0 /\ (~reaper => strays = 0)
BY Zenon DEF ProcessesInv
\* The types of the state.
LEMMA InvTypes ==
    ASSUME ProcessesInv
    PROVE  /\ request \in [Threads -> Requests \union {NoRequest}] /\ child \in [Threads -> Children]
           /\ proc \in [Pids -> Processes] /\ pc \in [Threads -> Launching \union Using \union {"idle"}]
           /\ target \in [Threads -> Threads \union {NULL}] /\ mutex \in [Threads -> Threads \union {NULL}]
           /\ DOMAIN held = Threads /\ report \in [Threads -> SUBSET (Pids \union {ME})] /\ DOMAIN message = Threads
           /\ masked \subseteq Threads /\ code \in [Threads -> {"0", "127", "137", "143", NULL}]
           /\ DOMAIN answers = Threads /\ reaper \in BOOLEAN /\ parent \in Identities /\ ~parent.failed
BY Zenon DEF ProcessesInv, ProcessesTyped
\* What it says of a thread and its handle.
LEMMA InvCalls ==
    ASSUME ProcessesInv
    PROVE  \A u \in Threads : Placed(u) /\ Final(u) /\ child[u] \in Children /\ child[u].pid \in Pids \union {NULL}
BY InvTypes, Zenon DEF ProcessesInv, CallsArePlaced, VerdictIsFinal, Children
\* What it says of a process.
LEMMA InvProcs ==
    ASSUME ProcessesInv
    PROVE  \A o \in Pids : Owned(o) /\ proc[o] \in Processes /\ proc[o].of \in Threads \union {NULL}
BY InvTypes, Zenon DEF ProcessesInv, ProcessesAreOwned, Processes

\* A step of a call that touches no process, no handle and no verdict.
LEMMA QuietStep ==
    ASSUME ProcessesInv, NEW t \in Threads, UNCHANGED <<fixed, child, proc, code, answers, mutex, intrusions, strays>>,
           ProcessesTyped', pc'[t] # "kill", \A u \in Threads : u # t => pc'[u] = pc[u] /\ target'[u] = target[u],
           \A u \in Threads : u # t => held'[u] = held[u] /\ report'[u] = report[u] /\ (u \in masked' <=> u \in masked),
           Placed(t)'
    PROVE   ProcessesInv'
<1> USE NobodyIsNoThread, NobodyHasNoPid
<1>1. CallsArePlaced'
  <2> SUFFICES ASSUME NEW u \in Threads, u # t PROVE Placed(u)'
    BY Zenon DEF CallsArePlaced
  <2>1. pc[u] \in Using => child'[target[u]].live
    BY InvCalls, Zenon DEF Placed
  <2> QED BY InvCalls, <2>1, PlacedStays, Zenon DEF fixed
<1>2. ProcessesAreOwned' /\ VerdictIsFinal'
  BY InvParts, Zenon DEF fixed, ProcessesAreOwned, Owned, VerdictIsFinal, Final
<1>3. SignalsAreGuarded' /\ intrusions' = 0 /\ (~reaper' => strays' = 0)
  BY InvParts, Zenon DEF fixed, SignalsAreGuarded
<1> QED BY <1>1, <1>2, <1>3, Zenon DEF ProcessesInv

\* A step of the kernel on a process that remains whose it was.
LEMMA KernelStep ==
    ASSUME ProcessesInv, NEW p \in Pids, NEW q \in Processes, proc' = [proc EXCEPT ![p] = q], q.of = proc[p].of, Owned(p)',
           UNCHANGED <<fixed, child, mutex, held, masked, pc, target, answers>>, intrusions' = 0, ~reaper' => strays' = 0,
           report' \in [Threads -> SUBSET (Pids \union {ME})], \A u \in Threads : report'[u] \subseteq report[u],
           DOMAIN message' = Threads, code' \in [Threads -> {"0", "127", "137", "143", NULL}],
           \A h \in Threads : code'[h] = code[h] \/ proc[p].of = h
    PROVE   ProcessesInv'
<1> USE NobodyIsNoThread, NobodyHasNoPid
<1>1. proc' \in [Pids -> Processes] /\ proc'[p] = q /\ \A o \in Pids : o # p => proc'[o] = proc[o]
  BY InvTypes, Zenon
<1>2. ProcessesTyped'
  BY InvParts, <1>1, Zenon DEF ProcessesTyped, fixed
<1>3. CallsArePlaced' /\ SignalsAreGuarded'
  BY InvParts, KernelKeepsCalls, Zenon DEF fixed
<1>4. VerdictIsFinal'
  BY InvParts, InvTypes, <1>1, KernelKeepsVerdicts, Zenon DEF fixed
<1>5. ProcessesAreOwned'
  <2> SUFFICES ASSUME NEW o \in Pids, o # p PROVE Owned(o)'
    BY Zenon DEF ProcessesAreOwned
  <2> QED BY InvProcs, <1>1, OwnedStays, Zenon DEF fixed
<1> QED BY <1>2, <1>3, <1>4, <1>5, Zenon DEF ProcessesInv

\* A launch begins.
LEMMA LaunchKeeps ==
    ASSUME ProcessesInv, NEW t \in Threads, launch(t)
    PROVE  ProcessesInv'
<1> USE NobodyIsNoThread, NobodyHasNoPid
<1>1. /\ pc[t] = "idle" /\ child[t].pid = NULL /\ request[t] # NoRequest /\ pc' = [pc EXCEPT ![t] = "acquire"]
      /\ target' = [target EXCEPT ![t] = NULL]
      /\ UNCHANGED <<fixed, child, mutex, launching, kernel, patience, answers, strays>>
  BY Zenon DEF launch, goto, Launched
<1>2. ProcessesTyped'
  BY InvParts, InvTypes, <1>1, Zenon DEF ProcessesTyped, Launching, fixed, launching, kernel
<1>3. Placed(t)'
  BY InvTypes, InvCalls, <1>1, Zenon DEF Placed, Final, Launching, Using, fixed, launching
<1> QED BY InvTypes, QuietStep, <1>1, <1>2, <1>3, Zenon DEF fixed, launching, kernel

\* The other steps of a launch before and after it forks.
LEMMA LaunchStepKeeps ==
    ASSUME ProcessesInv, NEW t \in Threads, acquire(t) \/ start_as(t) \/ start_as_unmask(t) \/ start_as_read(t)
    PROVE  ProcessesInv'
<1> USE NobodyIsNoThread, NobodyHasNoPid
<1>1. /\ UNCHANGED <<fixed, child, mutex, kernel, target, answers, strays>> /\ pc[t] \in Launching
      /\ DOMAIN held' = Threads /\ DOMAIN message' = Threads /\ report' \in [Threads -> SUBSET (Pids \union {ME})] /\ masked' \subseteq Threads
      /\ \A u \in Threads : u # t => held'[u] = held[u] /\ report'[u] = report[u] /\ (u \in masked' <=> u \in masked)
  BY InvTypes DEF acquire, start_as, start_as_unmask, start_as_read, drop, launching, Launching
<1>2. /\ \E label \in {"acquire", "report", "start", "fork", "reap_failed", "hand_over", "read", "idle"} : pc' = [pc EXCEPT ![t] = label]
  <2>1. ~start_as(t) /\ ~start_as_unmask(t) /\ ~start_as_read(t) /\ pc' = pc => pc' = [pc EXCEPT ![t] = "acquire"]
    BY InvTypes, Zenon DEF acquire
  <2> QED BY <2>1, Zenon DEF acquire, start_as, start_as_unmask, start_as_read, goto
<1>3. pc' \in [Threads -> Launching \union Using \union {"idle"}] /\ \A u \in Threads : u # t => pc'[u] = pc[u]
  BY InvTypes, <1>2 DEF Launching
<1>4. ProcessesTyped'
  BY InvParts, <1>1, <1>3, Zenon DEF ProcessesTyped, fixed, kernel
<1>5. request[t] # NoRequest /\ request[t] \in Requests
  BY InvTypes, InvCalls, <1>1 DEF Placed
<1>6. Placed(t)'
  <2>1. CASE acquire(t)
    BY InvTypes, InvCalls, <1>1, <1>5, <2>1 DEF acquire, goto, drop, Placed, Launching, Using, fixed, Requests
  <2>2. CASE start_as(t)
    BY InvTypes, InvCalls, <1>1, <2>2 DEF start_as, goto, drop, Placed, Launching, Using, fixed
  <2>3. CASE start_as_unmask(t)
    BY InvTypes, InvCalls, <1>1, <2>3 DEF start_as_unmask, goto, drop, Placed, Launching, Using, fixed
  <2>4. CASE start_as_read(t)
    BY InvTypes, InvCalls, <1>1, <2>4 DEF start_as_read, goto, launching, Placed, Launching, Using, fixed
  <2> QED BY <2>1, <2>2, <2>3, <2>4, Zenon
<1>7. pc'[t] # "kill"
  BY InvTypes, <1>2, Zenon
<1> QED BY QuietStep, <1>1, <1>3, <1>4, <1>6, <1>7, Zenon DEF kernel

\* A call about a handle begins, or waits on.
LEMMA CallKeeps ==
    ASSUME ProcessesInv, NEW t \in Threads, wait_poll(t) \/ \E h \in Threads : wait(t, h) \/ terminate(t, h)
    PROVE  ProcessesInv'
<1> USE NobodyIsNoThread, NobodyHasNoPid
<1>1. UNCHANGED <<fixed, child, mutex, launching, kernel, answers, strays>>
  BY Zenon DEF wait, terminate, wait_poll
<1>2. /\ \E label \in {"wait", "look", "idle"} : pc' = [pc EXCEPT ![t] = label]
      /\ \/ pc[t] = "idle" /\ \E h \in Threads : child[h].live /\ target' = [target EXCEPT ![t] = h]
         \/ pc[t] = "poll" /\ target' = target
  BY Zenon DEF wait, terminate, wait_poll, begin, goto
<1>3. /\ pc' \in [Threads -> Launching \union Using \union {"idle"}] /\ pc'[t] # "kill"
      /\ target' \in [Threads -> Threads \union {NULL}] /\ \A u \in Threads : u # t => pc'[u] = pc[u] /\ target'[u] = target[u]
  BY InvTypes, <1>2 DEF Using
<1>4. ProcessesTyped'
  BY InvParts, <1>1, <1>3, Zenon DEF ProcessesTyped, fixed, launching, kernel
<1>5. Placed(t)'
  BY InvTypes, InvCalls, <1>1, <1>2 DEF Placed, Launching, Using, fixed, launching
<1> QED BY QuietStep, <1>1, <1>3, <1>4, <1>5, Zenon DEF launching, kernel

\* The child starts, or there is none.
LEMMA StartKeeps ==
    ASSUME ProcessesInv, NEW t \in Threads, start(t) \/ fork(t)
    PROVE  ProcessesInv'
<1> USE NobodyIsNoThread, NobodyHasNoPid
<1>0. /\ UNCHANGED <<fixed, mutex, message, masked, code, intrusions, target, answers, strays>> /\ pc[t] \in {"start", "fork"}
      /\ request[t] # NoRequest /\ (request[t].as <=> pc[t] = "fork")
  BY InvCalls, Zenon DEF start, fork, Placed, Launching
\* There is no process.
<1>1. CASE UNCHANGED <<proc, child, report>> /\ \/ pc[t] = "start" /\ drop(t) /\ goto(t, "idle")
                                                \/ pc[t] = "fork" /\ held' = held /\ goto(t, "no_fork")
  <2>1. /\ DOMAIN held' = Threads /\ pc' \in [Threads -> Launching \union Using \union {"idle"}] /\ pc'[t] # "kill"
        /\ \A u \in Threads : u # t => pc'[u] = pc[u] /\ held'[u] = held[u]
    BY InvTypes, <1>1, Zenon DEF drop, goto, Launching
  <2>2. ProcessesTyped'
    BY InvParts, <1>0, <1>1, <2>1, Zenon DEF ProcessesTyped, fixed
  <2>3. Placed(t)'
    BY InvTypes, InvCalls, <1>0, <1>1 DEF Placed, Launching, Using, fixed, drop, goto
  <2> QED BY QuietStep, <1>0, <1>1, <2>1, <2>2, <2>3, Zenon
\* There is one.
<1>2. ASSUME NEW p \in Pids, NEW q \in Processes, proc[p].state = "free", q.of = t, q.creds = parent, q.state \in {"starting", "running"},
             q.state = "running" <=> pc[t] = "start", q.state = "starting" => q.at = "defaults" /\ q.masked,
             proc' = [proc EXCEPT ![p] = q], child' = [child EXCEPT ![t].pid = p], held' = held,
             goto(t, IF pc[t] = "start" THEN "hand_over" ELSE "unmask"),
             report' \in [Threads -> SUBSET (Pids \union {ME})],
             \A u \in Threads : ME \in report'[u] => ME \in report[u]
      PROVE  ProcessesInv'
  <2>1. /\ child' \in [Threads -> Children] /\ proc' \in [Pids -> Processes] /\ proc'[p] = q
        /\ child'[t].pid = p /\ child'[t].live = child[t].live /\ child'[t].state = child[t].state
        /\ \A u \in Threads : u # t => child'[u] = child[u]
        /\ (\A o \in Pids : o # p => Owned(o)') /\ VerdictIsFinal'
    BY <1>0, <1>2, NewProcess, ZenonT(30) DEF fixed
  <2>2. /\ pc' \in [Threads -> Launching \union Using \union {"idle"}] /\ \A u \in Threads : u # t => pc'[u] = pc[u]
        /\ pc'[t] = IF pc[t] = "start" THEN "hand_over" ELSE "unmask"
    BY InvTypes, <1>2, Zenon DEF goto, Launching
  <2>3. ProcessesTyped'
    BY InvParts, <1>0, <1>2, <2>1, <2>2, Zenon DEF ProcessesTyped, fixed
  <2>4. Placed(t)'
    BY InvCalls, <1>0, <1>2, <2>1, <2>2 DEF Placed, Launching, Using, fixed
  <2>5. ASSUME NEW u \in Threads, u # t PROVE Placed(u)'
    <3>1. pc[u] \in Using => child'[target[u]].live
      BY InvCalls, <2>1, Zenon DEF Placed
    <3> QED BY InvCalls, <1>0, <1>2, <2>1, <2>2, <2>5, <3>1, PlacedStays, Zenon DEF fixed
  <2>6. Owned(p)'
    <3>1. proc'[p] = q /\ request' = request /\ parent' = parent /\ child'[t].pid = p /\ q.of = t /\ q.of # NULL
      BY <1>0, <1>2, <2>1, Zenon DEF fixed
    <3>2. CASE pc[t] = "start"
      <4>1. q.state = "running" /\ ~request[t].as /\ request[t] # NoRequest
        BY <1>0, <1>2, <3>2, Zenon
      <4> QED BY <3>1, <4>1, Zenon DEF Owned
    <3>3. CASE pc[t] = "fork"
      <4>1. q.state = "starting" /\ request[t].as /\ request[t] # NoRequest /\ q.at = "defaults" /\ q.masked /\ q.creds = parent
        BY <1>0, <1>2, <3>3, Zenon
      <4>2. "defaults" # NULL
        BY Zenon DEF NULL
      <4> QED BY <3>1, <4>1, <4>2, Zenon DEF Owned
    <3> QED BY <1>0, <3>2, <3>3, Zenon
  <2>7. SignalsAreGuarded' /\ intrusions' = 0 /\ (~reaper' => strays' = 0)
    <3> SUFFICES ASSUME NEW u \in Threads, pc'[u] = "kill" PROVE mutex'[target'[u]] = u /\ child'[target'[u]].state = "RUNNING"
      BY InvParts, <1>0, Zenon DEF SignalsAreGuarded, fixed
    <3>1. pc[u] = "kill"
      BY <2>2, Zenon
    <3>2. target[u] \in Threads /\ mutex[target[u]] = u /\ child[target[u]].state = "RUNNING"
      BY InvParts, InvCalls, <3>1, Zenon DEF SignalsAreGuarded, Placed, Using
    <3> QED BY <1>0, <2>1, <3>2, Zenon
  <2> QED BY <2>1, <2>3, <2>4, <2>5, <2>6, <2>7, Zenon DEF ProcessesInv, CallsArePlaced, ProcessesAreOwned
<1>3. CASE start(t) /\ ~(drop(t) /\ goto(t, "idle") /\ UNCHANGED <<proc, child>>)
  <2>1. PICK p \in Pids : /\ proc[p].state = "free"
          /\ proc' = [proc EXCEPT ![p] = [Free EXCEPT !.state = "running", !.of = t, !.creds = parent]]
          /\ child' = [child EXCEPT ![t].pid = p] /\ goto(t, "hand_over") /\ UNCHANGED held
    BY <1>3, Zenon DEF start
  <2> DEFINE q == [Free EXCEPT !.state = "running", !.of = t, !.creds = parent]
  <2>2. q \in Processes
    BY InvTypes, EditedProcess, FreeIsAProcess, Zenon
  <2>3. q.of = t /\ q.creds = parent /\ q.state = "running"
    BY Zenon DEF Free
  <2>4. pc[t] = "start" /\ report' = report
    BY <1>3, Zenon DEF start
  <2> HIDE DEF q
  <2>5. proc' = [proc EXCEPT ![p] = q]
    BY <2>1, Zenon DEF q
  <2> QED BY InvTypes, <1>2, <2>1, <2>2, <2>3, <2>4, <2>5, Zenon
<1>4. CASE fork(t) /\ ~(goto(t, "no_fork") /\ UNCHANGED <<proc, child, report>>)
  <2> DEFINE b == holds_back(t)
             q == [Free EXCEPT !.state = "starting", !.of = t, !.at = "defaults", !.masked = b, !.handlers = ME, !.creds = parent]
  <2>1. PICK p \in Pids : /\ proc[p].state = "free" /\ proc' = [proc EXCEPT ![p] = q]
          /\ child' = [child EXCEPT ![t].pid = p]
          /\ report' = [u \in Threads |-> IF ME \in report[u] THEN report[u] \union {p} ELSE report[u]]
          /\ goto(t, "unmask")
    BY <1>4, Zenon DEF fork
  <2>2. b \in BOOLEAN
    BY DEF holds_back
  <2>3. b
    BY InvCalls, <1>4, Zenon DEF holds_back, fork, Placed
  <2>4. pc[t] = "fork" /\ held' = held
    BY <1>4, Zenon DEF fork
  <2> HIDE DEF b
  <2>5. q \in Processes
    BY InvTypes, <2>2, EditedProcess, FreeIsAProcess, Zenon
  <2>6. q.of = t /\ q.creds = parent /\ q.state = "starting" /\ q.at = "defaults" /\ q.masked
    BY <2>2, <2>3, Zenon DEF Free
  <2> HIDE DEF q
  <2>7. /\ report' \in [Threads -> SUBSET (Pids \union {ME})] /\ \A u \in Threads : ME \in report'[u] => ME \in report[u]
    BY InvTypes, <2>1, Zenon
  <2> QED BY <1>2, <2>1, <2>4, <2>5, <2>6, <2>7, Zenon
<1>5. CASE start(t) /\ drop(t) /\ goto(t, "idle") /\ UNCHANGED <<proc, child>>
  BY <1>1, <1>5, Zenon DEF start
<1>6. CASE fork(t) /\ goto(t, "no_fork") /\ UNCHANGED <<proc, child, report>>
  BY <1>1, <1>6, Zenon DEF fork
<1> QED BY <1>3, <1>4, <1>5, <1>6, Zenon

\* The child of a failed launch is reaped.
LEMMA FailedLaunchKeeps ==
    ASSUME ProcessesInv, NEW t \in Threads, start_as_reap(t)
    PROVE  ProcessesInv'
<1> USE NobodyIsNoThread, NobodyHasNoPid
<1> DEFINE p == child[t].pid
<1>1. /\ pc[t] = "reap_failed" /\ child' = [child EXCEPT ![t] = NoChild] /\ code' = [code EXCEPT ![t] = NULL]
      /\ proc' = IF proc[p].of = t THEN [proc EXCEPT ![p] = Free] ELSE proc
      /\ held' = [held EXCEPT ![t] = <<>>] /\ pc' = [pc EXCEPT ![t] = "idle"]
      /\ UNCHANGED <<fixed, mutex, report, message, masked, intrusions, target, answers, strays>>
  BY Zenon DEF start_as_reap, drop, goto
<1>2. p \in Pids /\ child[t].state = "RUNNING" /\ ~child[t].live /\ ME \notin report[t] /\ t \notin masked /\ answers[t] = {}
  BY InvCalls, <1>1, Zenon DEF Placed, Final, Launching
<1>3. NoChild \in Children /\ NoChild.pid = NULL /\ NoChild.state = "RUNNING" /\ ~NoChild.live
  <2>1. NoChild \in Children
    BY Zenon DEF NoChild, Children
  <2> QED BY <2>1, Zenon DEF NoChild
<1>4. child' \in [Threads -> Children] /\ child'[t] = NoChild /\ \A u \in Threads : u # t => child'[u] = child[u]
  BY InvTypes, <1>1, <1>3, Zenon
<1>5. proc' \in [Pids -> Processes] /\ \A o \in Pids : proc'[o].of # t /\ (proc'[o] = proc[o] \/ (proc'[o] = Free /\ proc[o].of = t))
  <2>1. \A o \in Pids : proc[o].of = t => o = p
    BY InvProcs, Zenon DEF Owned
  <2> HIDE DEF p
  <2>2. CASE proc[p].of = t
    BY InvTypes, <1>1, <1>2, <2>1, <2>2, FreeIsAProcess, Zenon
  <2>3. CASE proc[p].of # t
    BY InvTypes, <1>1, <2>1, <2>3, Zenon
  <2> QED BY <2>2, <2>3, Zenon
<1> HIDE DEF p
<1>6. pc' \in [Threads -> Launching \union Using \union {"idle"}] /\ pc'[t] = "idle" /\ \A u \in Threads : u # t => pc'[u] = pc[u] /\ held'[u] = held[u] /\ code'[u] = code[u]
  BY InvTypes, <1>1, Zenon
<1>7. ProcessesTyped'
  BY InvParts, InvTypes, <1>1, <1>4, <1>5, <1>6, Zenon DEF ProcessesTyped, fixed
<1>8. ASSUME NEW u \in Threads PROVE Placed(u)'
  <2>1. pc[u] \in Using => child'[target[u]].live
    BY InvCalls, <1>2, <1>4, Zenon DEF Placed
  <2>2. CASE u = t
    BY InvTypes, <1>1, <1>2, <1>3, <1>4, <2>2, Zenon DEF Placed, Launching, Using
  <2>3. CASE u # t
    BY InvCalls, <1>1, <1>4, <1>6, <2>1, <2>3, PlacedStays, Zenon DEF fixed
  <2> QED BY <2>2, <2>3, Zenon
<1>9. ASSUME NEW o \in Pids PROVE Owned(o)'
  <2>1. CASE proc'[o] = Free
    BY <2>1, FreeIsAProcess, Zenon DEF Owned
  <2>2. CASE proc'[o] = proc[o]
    BY InvProcs, <1>1, <1>4, <1>5, <2>2, OwnedStays, Zenon DEF fixed
  <2> QED BY <1>5, <2>1, <2>2, Zenon
<1>10. ASSUME NEW h \in Threads PROVE Final(h)'
  <2>1. CASE h = t
    BY <1>1, <1>2, <1>3, <1>4, <2>1, Zenon DEF Final
  <2>2. CASE h # t
    <3>1. \A o \in Pids : proc'[o].of = h <=> proc[o].of = h
      BY <1>5, <2>2, FreeIsAProcess, Zenon
    <3> QED BY InvCalls, <1>1, <1>4, <1>6, <2>2, <3>1 DEF Final, fixed
  <2> QED BY <2>1, <2>2, Zenon
<1>11. SignalsAreGuarded' /\ intrusions' = 0 /\ (~reaper' => strays' = 0)
  <2> SUFFICES ASSUME NEW u \in Threads, pc'[u] = "kill" PROVE mutex'[target'[u]] = u /\ child'[target'[u]].state = "RUNNING"
    BY InvParts, <1>1, Zenon DEF SignalsAreGuarded, fixed
  <2>1. pc[u] = "kill"
    BY <1>6, Zenon
  <2>2. target[u] \in Threads /\ target[u] # t /\ mutex[target[u]] = u /\ child[target[u]].state = "RUNNING"
    BY InvParts, InvCalls, <1>2, <2>1, Zenon DEF SignalsAreGuarded, Placed, Using
  <2> QED BY <1>1, <1>4, <2>2, Zenon
<1> QED BY <1>7, <1>8, <1>9, <1>10, <1>11, Zenon DEF ProcessesInv, CallsArePlaced, ProcessesAreOwned, VerdictIsFinal

\* The launch succeeded.
LEMMA HandOverKeeps ==
    ASSUME ProcessesInv, NEW t \in Threads, hand_over(t)
    PROVE  ProcessesInv'
<1> USE NobodyIsNoThread, NobodyHasNoPid
<1>1. PICK b \in BOOLEAN : child' = [child EXCEPT ![t] = [child[t] EXCEPT !.live = TRUE, !.state = "RUNNING", !.pidfd = b]]
  BY Zenon DEF hand_over
<1>2. /\ pc[t] = "hand_over" /\ held' = [held EXCEPT ![t] = <<>>] /\ pc' = [pc EXCEPT ![t] = "idle"]
      /\ UNCHANGED <<fixed, mutex, report, message, masked, kernel, target, answers, strays>>
  BY Zenon DEF hand_over, drop, goto
<1>3. child[t].pid \in Pids /\ child[t].state = "RUNNING" /\ ME \notin report[t] /\ t \notin masked
  BY InvCalls, <1>2, Zenon DEF Placed, Launching
<1> DEFINE c == [child[t] EXCEPT !.live = TRUE, !.state = "RUNNING", !.pidfd = b]
<1>4. c \in Children
  BY InvCalls, <1>3, EditedChild, Zenon
<1>5. c.live /\ c.state = "RUNNING" /\ c.pid = child[t].pid
  BY InvCalls, Zenon DEF Children
<1> HIDE DEF c
<1>6. /\ child' \in [Threads -> Children] /\ child'[t] = c /\ \A u \in Threads : u # t => child'[u] = child[u]
  BY InvTypes, <1>1, <1>4, Zenon DEF c
<1>7. /\ \A u \in Threads : child'[u].pid = child[u].pid /\ child'[u].state = child[u].state
      /\ \A u \in Threads : child[u].live => child'[u].live
  BY <1>3, <1>5, <1>6, Zenon
<1>8. /\ pc' \in [Threads -> Launching \union Using \union {"idle"}] /\ pc'[t] = "idle"
      /\ \A u \in Threads : u # t => pc'[u] = pc[u] /\ held'[u] = held[u]
  BY InvTypes, <1>2, Zenon
<1>9. ProcessesTyped'
  BY InvParts, InvTypes, <1>2, <1>6, <1>8, Zenon DEF ProcessesTyped, fixed, kernel
<1>10. ASSUME NEW u \in Threads PROVE Placed(u)'
  <2>1. pc[u] \in Using => child'[target[u]].live
    BY InvCalls, <1>7, Zenon DEF Placed
  <2>2. CASE u = t
    BY InvTypes, <1>2, <1>3, <1>5, <1>6, <2>2, Zenon DEF Placed, Launching, Using
  <2>3. CASE u # t
    BY InvCalls, <1>2, <1>6, <1>8, <2>1, <2>3, PlacedStays, Zenon DEF fixed
  <2> QED BY <2>2, <2>3, Zenon
<1>11. ASSUME NEW o \in Pids PROVE Owned(o)'
  BY InvProcs, <1>2, <1>7, OwnedStays, Zenon DEF fixed, kernel
<1>12. ASSUME NEW h \in Threads PROVE Final(h)'
  BY InvCalls, <1>2, <1>7, Zenon DEF Final, fixed, kernel
<1>13. SignalsAreGuarded' /\ intrusions' = 0 /\ (~reaper' => strays' = 0)
  <2>1. \A u \in Threads : pc'[u] = "kill" => pc[u] = "kill" /\ target[u] \in Threads
    BY InvCalls, <1>8, Zenon DEF Placed, Using
  <2> QED BY InvParts, <1>2, <1>7, <2>1, Zenon DEF SignalsAreGuarded, fixed, kernel
<1> QED BY <1>9, <1>10, <1>11, <1>12, <1>13, Zenon DEF ProcessesInv, CallsArePlaced, ProcessesAreOwned, VerdictIsFinal

\* A call has looked at the child its call is about: it goes to `label`, under the
\* mutex of the child when it is about to signal.
HasLooked(t, h, label) ==
    /\ child[h].live /\ child[h].pid \in Pids /\ pc[t] \in {"wait", "look"} /\ target[t] = h /\ look(h)
    /\ UNCHANGED <<fixed, launching, code, intrusions, target, strays>> /\ (child[h].state # "RUNNING" \/ mutex[h] = NULL)
    /\ DOMAIN answers' = Threads /\ (answers' = answers \/ (looked(h) # "RUNNING" /\ told(h)))
    /\ pc' = [pc EXCEPT ![t] = label] /\ (label = "kill" => looked(h) = "RUNNING")
    /\ mutex' = (IF label = "kill" THEN [mutex EXCEPT ![h] = t] ELSE mutex)

\* It keeps the invariant.
LEMMA LookStep ==
    ASSUME ProcessesInv, NEW t \in Threads, NEW h \in Threads, NEW label \in {"poll", "idle", "kill"}, HasLooked(t, h, label)
    PROVE  ProcessesInv'
<1> USE NobodyIsNoThread, NobodyHasNoPid
<1>1. looked(h) \in {"RUNNING", "ENDED", "LOST"} /\ (child[h].state # "RUNNING" => looked(h) = child[h].state)
  BY InvCalls, Zenon DEF looked, verdict, Children
<1>2. /\ child' \in [Threads -> Children] /\ child'[h].pid = child[h].pid /\ child'[h].state = looked(h)
      /\ child'[h].live = child[h].live /\ \A u \in Threads : u # h => child'[u] = child[u]
  <2> DEFINE c == [child[h] EXCEPT !.state = looked(h)]
  <2>1. c \in Children
    BY InvCalls, <1>1, EditedChild, Zenon DEF HasLooked
  <2>2. c.pid = child[h].pid /\ c.state = looked(h) /\ c.live = child[h].live
    BY InvCalls, Zenon DEF Children
  <2>3. child' = [child EXCEPT ![h] = c]
    BY Zenon DEF HasLooked, look
  <2> HIDE DEF c
  <2> QED BY InvTypes, <2>1, <2>2, <2>3, Zenon
<1>3. proc' \in [Pids -> Processes] /\ ProcessesAreOwned' /\ VerdictIsFinal'
  BY <1>2, Looks, Zenon DEF HasLooked, look, fixed
<1>4. /\ pc' \in [Threads -> Launching \union Using \union {"idle"}] /\ pc'[t] = label
      /\ \A u \in Threads : u # t => pc'[u] = pc[u]
  BY InvTypes, Zenon DEF HasLooked, Using
<1>5. ProcessesTyped'
  BY InvParts, InvTypes, <1>2, <1>3, <1>4, Zenon DEF HasLooked, ProcessesTyped, fixed, launching
<1>6. ASSUME NEW u \in Threads PROVE Placed(u)'
  <2>0. pc[h] \notin Launching
    BY InvCalls, Zenon DEF HasLooked, Placed
  <2>1. pc[u] \in Using => child'[target[u]].live
    BY InvCalls, <1>2, ZenonT(30) DEF Placed
  <2>2. CASE u = t
    <3>1. child'[t].live = child[t].live /\ child'[t].pid = child[t].pid
      BY <1>2, Zenon
    <3>2. /\ UNCHANGED <<request, held, report, masked, target>> /\ pc[t] \in {"wait", "look"} /\ target[t] = h /\ child'[h].live
          /\ Placed(t)
      BY InvCalls, <1>2, Zenon DEF HasLooked, fixed, launching
    <3> QED BY <1>4, <2>2, <3>1, <3>2, Zenon DEF Placed, Launching, Using
  <2>3. CASE u # t /\ u # h
    BY InvCalls, <1>2, <1>4, <2>1, <2>3, PlacedStays, Zenon DEF HasLooked, fixed, launching
  <2>4. CASE u # t /\ u = h
    BY InvCalls, <1>2, <1>4, <2>0, <2>1, <2>4 DEF HasLooked, Placed, fixed, launching
  <2> QED BY <2>2, <2>3, <2>4, Zenon
<1>7. SignalsAreGuarded'
  <2> SUFFICES ASSUME NEW u \in Threads, pc'[u] = "kill" PROVE mutex'[target'[u]] = u /\ child'[target'[u]].state = "RUNNING"
    BY Zenon DEF SignalsAreGuarded
  <2>1. CASE u = t
    BY InvTypes, <1>2, <1>4, <2>1, Zenon DEF HasLooked
  <2>2. CASE u # t
    <3>1. pc[u] = "kill" /\ target[u] \in Threads /\ mutex[target[u]] = u /\ child[target[u]].state = "RUNNING"
      BY InvParts, InvCalls, <1>4, <2>2 DEF SignalsAreGuarded, Placed, Using
    <3>2. target[u] # h
      BY <3>1, Zenon DEF HasLooked
    <3> QED BY InvTypes, <1>2, <3>1, <3>2, Zenon DEF HasLooked
  <2> QED BY <2>1, <2>2, Zenon
<1> QED BY InvParts, <1>3, <1>5, <1>6, <1>7, Zenon DEF HasLooked, ProcessesInv, CallsArePlaced, fixed

\* A wait looks at its child.
LEMMA WaitKeeps ==
    ASSUME ProcessesInv, NEW t \in Threads, wait_reap(t)
    PROVE  ProcessesInv'
<1> USE NobodyIsNoThread, NobodyHasNoPid
<1> DEFINE h == target[t]
<1>1. h \in Threads /\ child[h].live /\ child[h].pid \in Pids /\ pc[t] = "wait"
  BY InvCalls, Zenon DEF wait_reap, Placed, Using
<1>2. /\ look(h)
      /\ UNCHANGED <<fixed, mutex, launching, code, intrusions, target, patience, left, strays>>
      /\ child[h].state # "RUNNING" \/ mutex[h] = NULL
  BY Zenon DEF wait_reap, free, verdict
<1>3. \/ looked(h) = "RUNNING" /\ goto(t, "poll") /\ answers' = answers
      \/ looked(h) # "RUNNING" /\ goto(t, "idle") /\ told(h)
  BY Zenon DEF wait_reap
<1>4. target[t] = h
  BY Zenon
<1> HIDE DEF h
<1>5. DOMAIN answers' = Threads /\ (answers' = answers \/ (looked(h) # "RUNNING" /\ told(h)))
  BY InvTypes, <1>3, Zenon DEF told
<1>6. \E label \in {"poll", "idle", "kill"} : label # "kill" /\ pc' = [pc EXCEPT ![t] = label]
  BY <1>3, Zenon DEF goto
<1>7. \E label \in {"poll", "idle", "kill"} : HasLooked(t, h, label)
  BY <1>1, <1>2, <1>4, <1>5, <1>6, Zenon DEF HasLooked
<1> QED BY LookStep, <1>1, <1>7, Zenon

\* A terminate looks before it signals.
LEMMA TerminateKeeps ==
    ASSUME ProcessesInv, NEW t \in Threads, terminate_look(t)
    PROVE  ProcessesInv'
<1> USE NobodyIsNoThread, NobodyHasNoPid
<1> DEFINE h == target[t]
<1>1. h \in Threads /\ child[h].live /\ child[h].pid \in Pids /\ pc[t] = "look"
  BY InvCalls, Zenon DEF terminate_look, Placed, Using
<1>2. /\ look(h)
      /\ UNCHANGED <<fixed, launching, code, intrusions, target, patience, left, answers, strays>>
      /\ mutex[h] = NULL
  BY Zenon DEF terminate_look
<1>3. \/ looked(h) = "RUNNING" /\ goto(t, "kill") /\ mutex' = [mutex EXCEPT ![h] = t]
      \/ looked(h) # "RUNNING" /\ goto(t, "idle") /\ mutex' = mutex
  BY Zenon DEF terminate_look
<1>4. target[t] = h
  BY Zenon
<1> HIDE DEF h
<1>5. \E label \in {"poll", "idle", "kill"} :
        /\ label = "kill" => looked(h) = "RUNNING"
        /\ pc' = [pc EXCEPT ![t] = label] /\ mutex' = IF label = "kill" THEN [mutex EXCEPT ![h] = t] ELSE mutex
  BY <1>3, Zenon DEF goto
<1>6. DOMAIN answers' = Threads
  BY InvTypes, <1>2, Zenon
<1>7. \E label \in {"poll", "idle", "kill"} : HasLooked(t, h, label)
  BY <1>1, <1>2, <1>4, <1>5, <1>6, Zenon DEF HasLooked
<1> QED BY LookStep, <1>1, <1>7, Zenon

\* A handle goes.
LEMMA ReleaseKeeps ==
    ASSUME ProcessesInv, NEW t \in Threads, NEW h \in Threads, release(t, h)
    PROVE  ProcessesInv'
<1> USE NobodyIsNoThread, NobodyHasNoPid
<1>1. /\ pc[t] = "idle" /\ child[h].live /\ target' = [target EXCEPT ![t] = h] /\ pc' = [pc EXCEPT ![t] = "idle"]
      /\ \A u \in Threads : pc[u] # "idle" => target[u] # h
      /\ child' = [child EXCEPT ![h] = [NoChild EXCEPT !.pid = child[h].pid, !.state = looked(h)]]
      /\ proc' = IF verdict(h) = "RUNNING" /\ looked(h) = "ENDED" THEN [proc EXCEPT ![child[h].pid] = Free] ELSE proc
      /\ UNCHANGED <<fixed, mutex, launching, code, intrusions, patience, answers, strays>>
  BY Zenon DEF release, begin, goto
<1>2. child[h].pid \in Pids /\ pc[h] \notin Launching
  BY InvCalls, <1>1, Zenon DEF Placed
<1>3. looked(h) \in {"RUNNING", "ENDED", "LOST"}
  BY InvCalls, Zenon DEF looked, verdict, Children
<1>4. /\ child' \in [Threads -> Children] /\ child'[h].pid = child[h].pid /\ child'[h].state = looked(h) /\ ~child'[h].live
      /\ \A u \in Threads : u # h => child'[u] = child[u]
  <2> DEFINE c == [NoChild EXCEPT !.pid = child[h].pid, !.state = looked(h)]
  <2>1. c \in Children
    BY InvCalls, <1>2, <1>3, EditedChild, Zenon
  <2>2. c.pid = child[h].pid /\ c.state = looked(h) /\ ~c.live
    BY Zenon DEF NoChild
  <2>3. child' = [child EXCEPT ![h] = c]
    BY <1>1, Zenon
  <2> HIDE DEF c
  <2> QED BY InvTypes, <2>1, <2>2, <2>3, Zenon
<1>5. proc' \in [Pids -> Processes] /\ ProcessesAreOwned' /\ VerdictIsFinal'
  BY <1>1, <1>4, Looks, Zenon DEF fixed
<1>6. pc' = pc /\ target' \in [Threads -> Threads \union {NULL}] /\ \A u \in Threads : u # t => target'[u] = target[u]
  BY InvTypes, <1>1, Zenon
<1>7. ProcessesTyped'
  BY InvParts, InvTypes, <1>1, <1>4, <1>5, <1>6, Zenon DEF ProcessesTyped, fixed, launching
<1>8. ASSUME NEW u \in Threads PROVE Placed(u)'
  <2>1. pc[u] \in Using => u # t /\ child'[target[u]].live
    BY InvCalls, <1>1, <1>4, Zenon DEF Placed, Using
  <2>2. CASE u = h
    BY InvCalls, <1>1, <1>2, <1>4, <1>6, <2>1, <2>2 DEF Placed, fixed, launching
  <2>3. CASE u # h
    BY InvCalls, <1>1, <1>4, <1>6, <2>1, <2>3 DEF Placed, fixed, launching
  <2> QED BY <2>2, <2>3, Zenon
<1>9. SignalsAreGuarded'
  <2>1. \A u \in Threads : pc[u] = "kill" => u # t /\ target[u] # h /\ target[u] \in Threads
    BY InvCalls, <1>1, Zenon DEF Placed, Using
  <2> QED BY InvParts, <1>1, <1>4, <1>6, <2>1 DEF SignalsAreGuarded
<1> QED BY InvParts, <1>1, <1>5, <1>7, <1>8, <1>9, Zenon DEF ProcessesInv, CallsArePlaced, fixed

\* The signal.
LEMMA KillKeeps ==
    ASSUME ProcessesInv, NEW t \in Threads, terminate_kill(t)
    PROVE  ProcessesInv'
<1> USE NobodyIsNoThread, NobodyHasNoPid
<1>0. target[t] \in Threads /\ child[target[t]].live /\ child[target[t]].pid \in Pids /\ pc[t] = "kill"
  BY InvCalls, Zenon DEF terminate_kill, Placed, Using
<1>h. PICK h \in Threads, p \in Pids : h = target[t] /\ p = child[h].pid
  BY <1>0, Zenon
<1>1. /\ pc[t] = "kill" /\ mutex[h] = t /\ child[h].state = "RUNNING"
      /\ ~reaper => proc[p].of = h
  BY InvParts, InvCalls, <1>0, <1>h, Zenon DEF Final, SignalsAreGuarded
<1>2. /\ mutex' = [mutex EXCEPT ![h] = NULL] /\ pc' = [pc EXCEPT ![t] = "idle"]
      /\ strays' = IF proc[p].state = "running" /\ proc[p].of # h THEN 1 ELSE strays
      /\ \/ /\ proc[p].of = h /\ proc[p].state = "running"
            /\ proc' = [proc EXCEPT ![p].state = "zombie"] /\ code' = [code EXCEPT ![h] = "137"]
         \/ UNCHANGED <<proc, code>>
      /\ UNCHANGED <<fixed, child, launching, intrusions, target, patience, left, answers>>
  BY <1>h, Zenon DEF terminate_kill, goto
<1>4. /\ proc' \in [Pids -> Processes] /\ \A o \in Pids : proc'[o].of = proc[o].of
      /\ \A o \in Pids : Owned(o)'
  <2>1. CASE UNCHANGED <<proc, code>>
    BY InvTypes, InvProcs, <1>2, <2>1, OwnedStays, Zenon DEF fixed
  <2>2. CASE proc[p].of = h /\ proc[p].state = "running" /\ proc' = [proc EXCEPT ![p].state = "zombie"]
    <3> DEFINE q == [proc[p] EXCEPT !.state = "zombie"]
    <3>1. q \in Processes
      BY InvProcs, InvTypes, <1>1, EditedProcess, Zenon
    <3>2. q.state = "zombie" /\ q.of = proc[p].of /\ q.at = proc[p].at /\ q.creds = proc[p].creds
      BY InvProcs, <1>1, Zenon DEF Processes
    <3>3. proc' = [proc EXCEPT ![p] = q]
      BY <2>2, Zenon
    <3> HIDE DEF q
    <3>4. proc' \in [Pids -> Processes] /\ proc'[p] = q /\ \A o \in Pids : o # p => proc'[o] = proc[o]
      BY InvTypes, <1>1, <3>1, <3>3, Zenon
    <3>5. Owned(p)'
      <4>1. Owned(p) /\ proc'[p] = q /\ request' = request /\ parent' = parent /\ child' = child
        BY InvProcs, <1>1, <1>2, <3>4, Zenon DEF fixed
      <4> QED BY <3>2, <4>1, Zenon DEF Owned
    <3>6. \A o \in Pids : o # p => Owned(o)'
      BY InvProcs, <1>2, <3>4, OwnedStays, Zenon DEF fixed
    <3>7. \A o \in Pids : proc'[o].of = proc[o].of
      BY <3>2, <3>4, Zenon
    <3> QED BY <3>4, <3>5, <3>6, <3>7, Zenon
  <2> QED BY <1>2, <2>1, <2>2, Zenon
<1>5. code' \in [Threads -> {"0", "127", "137", "143", NULL}] /\ \A u \in Threads : code'[u] = code[u] \/ (u = h /\ proc[p].of = h)
  BY InvTypes, <1>1, <1>2, Zenon
<1>6. /\ pc' \in [Threads -> Launching \union Using \union {"idle"}] /\ pc'[t] = "idle" /\ \A u \in Threads : u # t => pc'[u] = pc[u]
      /\ mutex' \in [Threads -> Threads \union {NULL}] /\ \A u \in Threads : u # h => mutex'[u] = mutex[u]
  BY InvTypes, <1>2, Zenon
<1>7. ProcessesTyped'
  BY InvParts, InvTypes, <1>2, <1>4, <1>5, <1>6, Zenon DEF ProcessesTyped, fixed, launching
<1>8. VerdictIsFinal'
  BY InvParts, InvTypes, <1>1, <1>2, <1>4, <1>5, KernelKeepsVerdicts, Zenon DEF fixed
<1>9. ASSUME NEW u \in Threads PROVE Placed(u)'
  <2>1. pc[u] \in Using => child'[target[u]].live
    BY InvCalls, <1>2, Zenon DEF Placed
  <2>2. CASE u = t
    BY InvCalls, <1>1, <1>2, <1>6, <2>2, Zenon DEF Placed, Launching, Using, fixed, launching
  <2>3. CASE u # t
    BY InvCalls, <1>2, <1>6, <2>1, <2>3, PlacedStays, Zenon DEF fixed, launching
  <2> QED BY <2>2, <2>3, Zenon
<1>10. SignalsAreGuarded'
  <2> SUFFICES ASSUME NEW u \in Threads, pc'[u] = "kill" PROVE mutex'[target'[u]] = u /\ child'[target'[u]].state = "RUNNING"
    BY Zenon DEF SignalsAreGuarded
  <2>1. u # t /\ pc[u] = "kill"
    BY <1>6, Zenon
  <2>2. target[u] \in Threads /\ mutex[target[u]] = u /\ child[target[u]].state = "RUNNING"
    BY InvParts, InvCalls, <2>1, Zenon DEF SignalsAreGuarded, Placed, Using
  <2> QED BY <1>1, <1>2, <1>6, <1>h, <2>1, <2>2, Zenon
<1>11. intrusions' = 0 /\ (~reaper' => strays' = 0)
  BY InvParts, <1>1, <1>2, Zenon DEF fixed
<1> QED BY <1>4, <1>7, <1>8, <1>9, <1>10, <1>11, Zenon DEF ProcessesInv, CallsArePlaced, ProcessesAreOwned

\* A forked child becomes the program, or fails and exits.
LEMMA BecomeKeeps ==
    ASSUME ProcessesInv, NEW p \in Pids, become_program(p)
    PROVE  ProcessesInv'
<1> USE NobodyIsNoThread, NobodyHasNoPid
<1>p. PICK t \in Threads, c \in Identities :
        /\ t = proc[p].of /\ c = assume(parent, request[t].wanted) /\ request[t].as /\ request[t] # NoRequest
        /\ child[t].pid = p /\ proc[p].state = "starting" /\ proc[p] \in Processes
  <2>1. proc[p].state = "starting" /\ proc[p].of \in Threads /\ request[proc[p].of].as /\ request[proc[p].of] \in Requests
    BY InvTypes, InvProcs DEF become_program, Owned
  <2> QED BY InvTypes, InvProcs, <2>1, Assumed, Zenon DEF Owned
<1>f. /\ proc[p].creds \in {parent, c} /\ (proc[p].at # "defaults" => proc[p].handlers = NULL)
      /\ proc[p].at \in {"defaults", "assume"} => proc[p].creds = parent
      /\ proc[p].at \in {"enter", "exec"} => proc[p].creds = c /\ ~c.failed
  BY InvProcs, <1>p, Zenon DEF Owned
\* What the child is after its step.
<1>q. ASSUME NEW q \in Processes, proc' = [proc EXCEPT ![p] = q], q.of = t, q.state # "free", q.handlers = NULL,
             q.at \in {"assume", "enter", "exec", "fail", "exit"}, q.creds \in {parent, c},
             q.at = "assume" => q.creds = parent, q.at \in {"enter", "exec"} => q.creds = c /\ ~c.failed,
             q.state = "running" => q.at = "exec",
             UNCHANGED report \/ closes(p), UNCHANGED message \/ message' = [message EXCEPT ![t] = TRUE],
             UNCHANGED code \/ code' = [code EXCEPT ![t] = "127"]
      PROVE  ProcessesInv'
  <2>1. UNCHANGED <<fixed, child, mutex, held, masked, intrusions, pc, target, answers, strays>>
    BY Zenon DEF become_program
  <2>2. proc'[p] = q /\ request' = request /\ parent' = parent /\ child' = child
    BY InvTypes, <1>q, <2>1, Zenon DEF fixed
  <2>3. Owned(p)'
    <3>1. "assume" # NULL /\ "enter" # NULL /\ "exec" # NULL /\ "fail" # NULL /\ "exit" # NULL
      BY Zenon DEF NULL
    <3> QED BY <1>p, <1>q, <2>2, <3>1 DEF Owned
  <2>4. /\ report' \in [Threads -> SUBSET (Pids \union {ME})] /\ \A u \in Threads : report'[u] \subseteq report[u]
        /\ DOMAIN message' = Threads
    BY InvTypes, <1>q DEF closes
  <2>5. code' \in [Threads -> {"0", "127", "137", "143", NULL}] /\ \A h \in Threads : code'[h] = code[h] \/ proc[p].of = h
    BY InvTypes, <1>p, <1>q, Zenon
  <2> QED BY InvParts, <1>p, <1>q, <2>1, <2>3, <2>4, <2>5, KernelStep, Zenon DEF fixed
<1>1. CASE proc[p].at = "defaults"
  <2>1. PICK a \in {"assume", "fail"} : proc' = [proc EXCEPT ![p] = [proc[p] EXCEPT !.at = a, !.handlers = NULL]] /\ UNCHANGED <<report, message, code>>
    BY <1>1, Zenon DEF become_program
  <2> DEFINE q == [proc[p] EXCEPT !.at = a, !.handlers = NULL]
  <2>2. q \in Processes
    BY <1>p, EditedProcess, Zenon
  <2>3. q.state = "starting" /\ q.of = t /\ q.at = a /\ q.handlers = NULL /\ q.creds = parent
    BY <1>p, <1>f, <1>1, Zenon DEF Processes
  <2> HIDE DEF q
  <2> QED BY <1>q, <2>1, <2>2, <2>3, Zenon DEF q
<1>2. CASE proc[p].at = "assume"
  <2>a. PICK a \in {"fail", "enter"} : a = IF c.failed THEN "fail" ELSE "enter"
    BY Zenon
  <2> DEFINE q == [proc[p] EXCEPT !.at = a, !.creds = c]
  <2>1. proc' = [proc EXCEPT ![p] = q] /\ UNCHANGED <<report, message, code>>
    BY <1>p, <1>f, <1>2, <2>a, Zenon DEF become_program
  <2>2. q \in Processes
    BY <1>p, EditedProcess, Zenon
  <2>3. /\ q.state = "starting" /\ q.of = t /\ q.at \in {"fail", "enter"} /\ q.handlers = NULL /\ q.creds = c
        /\ q.at = "enter" => ~c.failed
    BY <1>p, <1>f, <1>2, <2>a, Zenon DEF Processes
  <2> HIDE DEF q
  <2> QED BY <1>q, <2>1, <2>2, <2>3, Zenon
<1>3. CASE proc[p].at = "enter"
  <2>1. PICK a \in {"exec", "fail"} : proc' = [proc EXCEPT ![p] = [proc[p] EXCEPT !.at = a, !.masked = a = "fail"]] /\ UNCHANGED <<report, message, code>>
    BY <1>3, Zenon DEF become_program
  <2>2. PICK b \in BOOLEAN : b <=> a = "fail"
    BY Zenon
  <2> DEFINE q == [proc[p] EXCEPT !.at = a, !.masked = b]
  <2>3. q \in Processes
    BY <1>p, EditedProcess, Zenon
  <2>4. q.state = "starting" /\ q.of = t /\ q.at = a /\ q.handlers = NULL /\ q.creds = c
    BY <1>p, <1>f, <1>3, Zenon DEF Processes
  <2>5. proc' = [proc EXCEPT ![p] = q]
    BY <2>1, <2>2, Zenon
  <2> HIDE DEF q
  <2> QED BY <1>f, <1>q, <1>3, <2>1, <2>3, <2>4, <2>5, Zenon
<1>4. CASE proc[p].at = "exec" /\ proc' = [proc EXCEPT ![p].state = "running"] /\ closes(p) /\ UNCHANGED <<message, code>>
  <2> DEFINE q == [proc[p] EXCEPT !.state = "running"]
  <2>1. q \in Processes
    BY <1>p, EditedProcess, Zenon
  <2>2. q.state = "running" /\ q.of = t /\ q.at = "exec" /\ q.handlers = NULL /\ q.creds = c /\ ~c.failed /\ proc' = [proc EXCEPT ![p] = q]
    BY <1>p, <1>f, <1>4, Zenon DEF Processes
  <2> HIDE DEF q
  <2> QED BY <1>q, <1>4, <2>1, <2>2, Zenon
<1>5. CASE proc[p].at = "exec" /\ proc' = [proc EXCEPT ![p] = [proc[p] EXCEPT !.at = "fail"]] /\ UNCHANGED <<report, message, code>>
  <2> DEFINE q == [proc[p] EXCEPT !.at = "fail"]
  <2>1. q \in Processes
    BY <1>p, EditedProcess, Zenon
  <2>2. q.state = "starting" /\ q.of = t /\ q.at = "fail" /\ q.handlers = NULL /\ q.creds = c /\ proc' = [proc EXCEPT ![p] = q]
    BY <1>p, <1>f, <1>5, Zenon DEF Processes
  <2> HIDE DEF q
  <2> QED BY <1>q, <1>5, <2>1, <2>2, Zenon
<1>6. CASE proc[p].at = "fail"
  <2> DEFINE q == [proc[p] EXCEPT !.at = "exit"]
  <2>1. q \in Processes
    BY <1>p, EditedProcess, Zenon
  <2>2. message' = [message EXCEPT ![t] = TRUE] /\ proc' = [proc EXCEPT ![p] = q] /\ UNCHANGED <<report, code>>
    BY <1>p, <1>6, Zenon DEF become_program
  <2>3. q.state = "starting" /\ q.of = t /\ q.at = "exit" /\ q.handlers = NULL /\ q.creds = proc[p].creds
    BY <1>p, <1>f, <1>6, Zenon DEF Processes
  <2> HIDE DEF q
  <2> QED BY <1>f, <1>q, <2>1, <2>2, <2>3, Zenon
<1>7. CASE proc[p].at = "exit"
  <2> DEFINE q == [proc[p] EXCEPT !.state = "zombie"]
  <2>1. q \in Processes
    BY <1>p, EditedProcess, Zenon
  <2>2. proc' = [proc EXCEPT ![p] = q] /\ closes(p) /\ code' = [code EXCEPT ![t] = "127"] /\ UNCHANGED message
    BY <1>p, <1>7, Zenon DEF become_program
  <2>3. q.state = "zombie" /\ q.of = t /\ q.at = "exit" /\ q.handlers = NULL /\ q.creds = proc[p].creds
    BY <1>p, <1>f, <1>7, Zenon DEF Processes
  <2> HIDE DEF q
  <2> QED BY <1>f, <1>q, <2>1, <2>2, <2>3, Zenon
<1>8. proc[p].at \in {"defaults", "assume", "enter", "exec", "fail", "exit"}
  BY InvProcs, <1>p, Zenon DEF Owned, Processes
<1> QED BY <1>1, <1>2, <1>3, <1>4, <1>5, <1>6, <1>7, <1>8, Zenon DEF become_program

\* A child ends.
LEMMA EndKeeps ==
    ASSUME ProcessesInv, NEW p \in Pids, Signal(p) \/ Exit(p)
    PROVE  ProcessesInv'
<1> USE NobodyIsNoThread, NobodyHasNoPid
<1>1. proc[p] \in Processes /\ proc[p].state \in {"starting", "running"} /\ proc[p].of # NULL /\ proc[p].of \in Threads
  BY InvProcs, Zenon DEF Signal, Exit, Owned
<1>2. Signal(p) => proc[p].handlers = NULL
  BY InvProcs, <1>1, Zenon DEF Signal, Owned
<1>3. /\ proc' = [proc EXCEPT ![p].state = "zombie"] /\ (report' = report \/ closes(p)) /\ intrusions' = intrusions
      /\ UNCHANGED <<fixed, child, mutex, held, message, masked, pc, target, answers, strays>>
      /\ \E end \in {"0", "143"} : code' = [code EXCEPT ![proc[p].of] = end]
  BY <1>2, Zenon DEF Signal, Exit, launching, ME, NULL
<1> DEFINE q == [proc[p] EXCEPT !.state = "zombie"]
<1>4. q \in Processes
  BY InvTypes, <1>1, EditedProcess, Zenon
<1>5. q.state = "zombie" /\ q.of = proc[p].of /\ q.at = proc[p].at /\ q.creds = proc[p].creds
  BY <1>1, Zenon DEF Processes
<1>6. proc' = [proc EXCEPT ![p] = q]
  BY <1>3, Zenon
<1> HIDE DEF q
<1>7. Owned(p)'
  <2>1. proc'[p] = q /\ request' = request /\ parent' = parent /\ child' = child
    BY InvTypes, <1>3, <1>6, Zenon DEF fixed
  <2> QED BY InvProcs, <1>5, <2>1, Zenon DEF Owned
<1>8. report' \in [Threads -> SUBSET (Pids \union {ME})] /\ \A u \in Threads : report'[u] \subseteq report[u]
  BY InvTypes, <1>3 DEF closes
<1>9. code' \in [Threads -> {"0", "127", "137", "143", NULL}] /\ \A h \in Threads : code'[h] = code[h] \/ proc[p].of = h
  BY InvTypes, <1>1, <1>3
<1> QED BY InvParts, InvTypes, KernelStep, <1>3, <1>4, <1>5, <1>6, <1>7, <1>8, <1>9, Zenon DEF fixed

\* Another process gets a free id.
LEMMA ReuseKeeps ==
    ASSUME ProcessesInv, NEW p \in Pids, Reuse(p)
    PROVE  ProcessesInv'
<1> USE NobodyIsNoThread, NobodyHasNoPid
<1>1. /\ proc[p].state = "free" /\ proc' = [proc EXCEPT ![p] = [Free EXCEPT !.state = "running"]]
      /\ UNCHANGED <<fixed, child, mutex, launching, code, intrusions, pc, target, answers, strays>>
  BY Zenon DEF Reuse
<1> DEFINE q == [Free EXCEPT !.state = "running"]
<1>2. q \in Processes
  BY FreeIsAProcess, Zenon DEF Processes
<1>3. q.of = NULL /\ q.state = "running" /\ proc[p].of = NULL
  BY InvProcs, <1>1, Zenon DEF Owned, Free
<1> HIDE DEF q
<1>4. Owned(p)'
  <2>1. proc'[p] = q
    BY InvTypes, <1>1, Zenon DEF q
  <2> QED BY <1>3, <2>1, Zenon DEF Owned
<1> QED BY InvParts, InvTypes, KernelStep, <1>1, <1>2, <1>3, <1>4, Zenon DEF fixed, launching, q

\* The embedding program reaps.
LEMMA ReapKeeps ==
    ASSUME ProcessesInv, NEW p \in Pids, Reap(p)
    PROVE  ProcessesInv'
<1> USE NobodyIsNoThread, NobodyHasNoPid
<1>1. /\ reaper /\ proc' = [proc EXCEPT ![p] = Free]
      /\ UNCHANGED <<fixed, child, mutex, launching, code, intrusions, pc, target, answers, strays>>
  BY Zenon DEF Reap
<1>2. proc' \in [Pids -> Processes] /\ proc'[p] = Free /\ \A o \in Pids : o # p => proc'[o] = proc[o]
  BY InvTypes, <1>1, FreeIsAProcess, Zenon
<1>3. ProcessesTyped'
  BY InvParts, InvTypes, <1>1, <1>2, Zenon DEF ProcessesTyped, fixed, launching
<1>4. CallsArePlaced' /\ SignalsAreGuarded'
  BY InvParts, <1>1, KernelKeepsCalls, Zenon DEF fixed, launching
<1>5. ASSUME NEW o \in Pids PROVE Owned(o)'
  <2>1. CASE o = p
    BY <1>2, <2>1, FreeIsAProcess, Zenon DEF Owned
  <2>2. CASE o # p
    BY InvProcs, <1>1, <1>2, <2>2, OwnedStays, Zenon DEF fixed
  <2> QED BY <2>1, <2>2, Zenon
<1>6. ASSUME NEW h \in Threads PROVE Final(h)'
  <2>1. \A o \in Pids : proc'[o].of = h => proc[o].of = h
    BY <1>2, FreeIsAProcess, Zenon
  <2> QED BY InvCalls, <1>1, <2>1, Zenon DEF Final, fixed
<1> QED BY InvParts, <1>1, <1>3, <1>4, <1>5, <1>6, Zenon DEF ProcessesInv, ProcessesAreOwned, VerdictIsFinal, fixed

\* Nothing happens.
LEMMA NothingKeeps ==
    ASSUME ProcessesInv, UNCHANGED vars
    PROVE  ProcessesInv'
<1> USE NobodyIsNoThread, NobodyHasNoPid
<1> USE DEF vars, fixed, launching, kernel
<1>1. ProcessesTyped' /\ CallsArePlaced' /\ ProcessesAreOwned'
  BY InvParts, Zenon DEF ProcessesTyped, CallsArePlaced, Placed, ProcessesAreOwned, Owned
<1>2. VerdictIsFinal' /\ SignalsAreGuarded' /\ intrusions' = 0 /\ (~reaper' => strays' = 0)
  BY InvParts, Zenon DEF VerdictIsFinal, Final, SignalsAreGuarded
<1> QED BY <1>1, <1>2, Zenon DEF ProcessesInv

\* Every step keeps the invariant.
LEMMA ProcessesStepKeeps == ProcessesInv /\ [Next]_vars => ProcessesInv'
<1> SUFFICES ASSUME ProcessesInv, [Next]_vars PROVE ProcessesInv'
  BY Zenon
<1>1. ASSUME NEW t \in Threads, launch(t) \/ Inside(t) PROVE ProcessesInv'
  BY <1>1, LaunchKeeps, LaunchStepKeeps, CallKeeps, StartKeeps, FailedLaunchKeeps, HandOverKeeps, WaitKeeps, TerminateKeeps, KillKeeps, Zenon DEF Inside
<1>2. ASSUME NEW t \in Threads, NEW h \in Threads, wait(t, h) \/ terminate(t, h) \/ release(t, h) PROVE ProcessesInv'
  BY <1>2, CallKeeps, ReleaseKeeps, Zenon
<1>3. ASSUME NEW p \in Pids, become_program(p) \/ Signal(p) \/ Exit(p) \/ Reuse(p) \/ Reap(p) PROVE ProcessesInv'
  BY <1>3, BecomeKeeps, EndKeeps, ReuseKeeps, ReapKeeps, Zenon
<1> QED BY <1>1, <1>2, <1>3, NothingKeeps, Zenon DEF Next

\* A launch is whole, for any threads, processes, identities and pipes: what it
\* held is given back, a failed one leaves no process, a program runs under the
\* identity that was asked for, and no handler of the parent runs in a child
\* (`launch`, `start_as`, `become`, `assume` of linux_processes.rs).
THEOREM LaunchesAreWhole == Spec => []LaunchIsWhole
<1>1. ProcessesInv => LaunchIsWhole
  <2> SUFFICES ASSUME ProcessesInv PROVE LaunchIsWhole
    BY Zenon
  <2> USE NobodyIsNoThread, NobodyHasNoPid
  <2>1. ASSUME NEW t \in Threads, pc[t] = "idle"
        PROVE  /\ held[t] = <<>> /\ ME \notin report[t] /\ t \notin masked
               /\ child[t].pid = NULL => \A p \in Pids : proc[p].of # t
    <3>1. Placed(t) /\ pc[t] \notin Launching /\ \A p \in Pids : Owned(p)
      BY <2>1, Zenon DEF ProcessesInv, CallsArePlaced, Launching, ProcessesAreOwned
    <3>2. held[t] = <<>> /\ ME \notin report[t] /\ t \notin masked
      BY <2>1, <3>1, Zenon DEF Placed
    <3>3. child[t].pid = NULL => \A p \in Pids : proc[p].of # t
      BY <3>1, Zenon DEF Owned
    <3> QED BY <3>2, <3>3, Zenon
  <2>2. ASSUME NEW p \in Pids, proc[p].of # NULL, request[proc[p].of].as
        PROVE  LET wanted == request[proc[p].of].wanted
                   creds == proc[p].creds
               IN /\ proc[p].state = "running" =>
                       /\ creds.user = wanted.user /\ creds.group = wanted.group /\ creds.groups \subseteq wanted.groups
                       /\ parent.user = 0 => creds.groups = wanted.groups
                  /\ creds.failed => parent.user # 0
    <3> DEFINE r == request[proc[p].of]
               new == assume(parent, r.wanted)
    <3>1. Owned(p) /\ parent \in Identities /\ ~parent.failed /\ proc[p].of \in Threads
      BY <2>2, Zenon DEF ProcessesInv, ProcessesTyped, ProcessesAreOwned, Processes
    <3>2. r \in Requests
      BY <2>2, <3>1, Zenon DEF ProcessesInv, ProcessesTyped, Owned
    <3>3. /\ proc[p].creds \in {parent, new} /\ (proc[p].state = "running" => proc[p].creds = new /\ ~new.failed)
      BY <2>2, <3>1, Zenon DEF Owned
    <3>4. /\ new.failed => parent.user # 0
          /\ ~new.failed => /\ new.user = r.wanted.user /\ new.group = r.wanted.group
                            /\ new.groups \subseteq r.wanted.groups /\ (parent.user = 0 => new.groups = r.wanted.groups)
      BY <3>1, <3>2, Assumed, Zenon
    <3> HIDE DEF new
    <3> QED BY <3>1, <3>3, <3>4, Zenon
  <2> QED BY <2>1, <2>2, Zenon DEF ProcessesInv, LaunchIsWhole
<1> QED BY ProcessesInitially, ProcessesStepKeeps, <1>1, PTL DEF Spec

\* A child is reaped once and everybody is told the same of it, and no signal goes
\* to whoever got its id (`look`, `wait`, `terminate`, `release` of
\* linux_processes.rs).
THEOREM VerdictIsOne == Spec => []OneVerdict
<1>1. ProcessesInv => OneVerdict
  <2> SUFFICES ASSUME ProcessesInv PROVE OneVerdict
    BY Zenon
  <2>1. ASSUME NEW h \in Threads
        PROVE  /\ \A a \in answers[h], b \in answers[h] : a = b
               /\ answers[h] \subseteq {code[h]} \union (IF reaper THEN {"LOST"} ELSE {})
    <3>1. Final(h) /\ child[h].state \in {"RUNNING", "ENDED", "LOST"}
      BY Zenon DEF ProcessesInv, VerdictIsFinal, ProcessesTyped, Children
    <3> QED BY <3>1, Zenon DEF Final
  <2> QED BY <2>1, Zenon DEF ProcessesInv, OneVerdict
<1> QED BY ProcessesInitially, ProcessesStepKeeps, <1>1, PTL DEF Spec

-----------------------------------------------------------------------------
(* Requests from outside.                                                  *)


\* A call stays one whatever a step notes about it.
LEMMA NoCallIsACall == NoCall \in Calls
BY Zenon DEF NoCall, Calls

\* Marking a call as overtaken changes nothing else of it.
LEMMA CallDirtied ==
    ASSUME NEW c \in Calls
    PROVE  [c EXCEPT !.clean = FALSE] \in Calls /\ [c EXCEPT !.clean = FALSE].kind = c.kind /\ ~[c EXCEPT !.clean = FALSE].clean
<1>1. [c EXCEPT !.clean = FALSE] \in Calls
  BY Zenon DEF Calls
<1>2. [c EXCEPT !.clean = FALSE].kind = c.kind /\ ~[c EXCEPT !.clean = FALSE].clean
  BY Zenon DEF Calls
<1> QED BY <1>1, <1>2, Zenon

\* The dispatcher's call is about the kind it delivers.
LEMMA CallAbout ==
    ASSUME NEW c \in Calls, NEW k \in Kinds
    PROVE  /\ [c EXCEPT !.kind = k] \in Calls /\ [c EXCEPT !.kind = k].kind = k
           /\ [c EXCEPT !.kind = k].clean = c.clean /\ [c EXCEPT !.kind = k].handler = c.handler
BY Zenon DEF Calls
\* What each action that makes a call notes about it.
LEMMA CallsMade ==
    ASSUME RequestsTyped, CallsAreOwned, n_HANDLER \in Threads \union {NULL}
    PROVE  /\ \A t \in Threads, k \in using : enable(t, k) =>
                /\ call' \in [Callers -> Calls] /\ call'[t].kind = k /\ call'[t].clean = ~Disabling(k)
                /\ \A u \in Callers : u # t => call'[u] = call[u]
           /\ \A t \in Callers, k \in using : disable(t, k) =>
                /\ call' \in [Callers -> Calls] /\ call'[t].kind = k
                /\ \A u \in Callers : u # t =>
                     /\ call'[u].kind = call[u].kind /\ call'[u].handler = call[u].handler
                     /\ call'[u].clean => call[u].clean /\ call[u].kind # k
           /\ \A t \in Callers, k \in using : default_action(t, k) =>
                /\ call' \in [Callers -> Calls] /\ call'[t].kind = k
                /\ \A u \in Callers : u # t => call'[u] = call[u]
           /\ deliver =>
                /\ call' \in [Callers -> Calls] /\ call'[Dispatcher].kind \in Kinds
                /\ n_pc'[Dispatcher] = "call" => call'[Dispatcher].handler = n_HANDLER
                /\ \A u \in Callers : u # Dispatcher => call'[u] = call[u]
<1>0. call \in [Callers -> Calls] /\ using \subseteq Kinds /\ n_pc \in [Callers -> {n_pc[t] : t \in Callers}]
  BY Zenon DEF RequestsTyped
<1>1. ASSUME NEW t \in Threads, NEW k \in using, enable(t, k)
      PROVE  /\ call' \in [Callers -> Calls] /\ call'[t].kind = k /\ call'[t].clean = ~Disabling(k)
             /\ \A u \in Callers : u # t => call'[u] = call[u]
  <2> DEFINE b == k \in enabled_kinds
             c == ~Disabling(k)
             new == [NoCall EXCEPT !.kind = k, !.before = b, !.clean = c]
  <2>1. call' = [call EXCEPT ![t] = new]
    BY <1>1, Zenon DEF enable
  <2>2. b \in BOOLEAN /\ c \in BOOLEAN
    BY DEF Disabling
  <2>3. new \in Calls /\ new.kind = k /\ new.clean = c
    <3> HIDE DEF b, c
    <3> QED BY <2>2, <1>0, NoCallIsACall, Zenon DEF Calls
  <2> HIDE DEF new, c
  <2> QED BY <1>0, <2>1, <2>3, Zenon DEF Callers, c
<1>2. ASSUME NEW t \in Callers, NEW k \in using, disable(t, k)
      PROVE  /\ call' \in [Callers -> Calls] /\ call'[t].kind = k
             /\ \A u \in Callers : u # t =>
                  /\ call'[u].kind = call[u].kind /\ call'[u].handler = call[u].handler
                  /\ call'[u].clean => call[u].clean /\ call[u].kind # k
  <2>1. ASSUME NEW u \in Callers
        PROVE  /\ call'[u] \in Calls /\ (u = t => call'[u].kind = k)
               /\ u # t => /\ call'[u].kind = call[u].kind /\ call'[u].handler = call[u].handler
                           /\ call'[u].clean => call[u].clean /\ call[u].kind # k
    <3>1. call[u] \in Calls
      BY <1>0, Zenon
    <3>2. call'[u] = IF u = t THEN [call[u] EXCEPT !.kind = k]
                     ELSE IF call[u].kind = k THEN [call[u] EXCEPT !.clean = FALSE] ELSE call[u]
      BY <1>2, Zenon DEF disable
    <3>3. CASE u = t
      BY <1>0, <3>1, <3>2, <3>3, CallAbout
    <3>4. CASE u # t
      <4>1. [call[u] EXCEPT !.clean = FALSE].handler = call[u].handler
        BY <3>1, Zenon DEF Calls
      <4> QED BY <3>1, <3>2, <3>4, <4>1, CallDirtied, Zenon
    <3> QED BY <3>3, <3>4, Zenon
  <2>2. DOMAIN call' = Callers /\ call' = [u \in Callers |-> call'[u]]
    BY <1>2, Zenon DEF disable
  <2> QED BY <2>1, <2>2, Zenon
<1>3. ASSUME NEW t \in Callers, NEW k \in using, default_action(t, k)
      PROVE  /\ call' \in [Callers -> Calls] /\ call'[t].kind = k
             /\ \A u \in Callers : u # t => call'[u] = call[u]
  <2>1. call' = [call EXCEPT ![t] = [call[t] EXCEPT !.kind = k]]
    BY <1>3, Zenon DEF default_action
  <2>2. [call[t] EXCEPT !.kind = k] \in Calls /\ [call[t] EXCEPT !.kind = k].kind = k
    BY <1>0, CallAbout, Zenon
  <2> QED BY <1>0, <2>1, <2>2, Zenon
<1>4. ASSUME deliver
      PROVE  /\ call' \in [Callers -> Calls] /\ call'[Dispatcher].kind \in Kinds
             /\ n_pc'[Dispatcher] = "call" => call'[Dispatcher].handler = n_HANDLER
             /\ \A u \in Callers : u # Dispatcher => call'[u] = call[u]
  <2> DEFINE wanted == n_HANDLER # NULL /\ Head(kinds) \in enabled_kinds
             h == IF wanted THEN n_HANDLER ELSE NULL
             new == [NoCall EXCEPT !.kind = Head(kinds), !.handler = h]
  <2>1. call' = [call EXCEPT ![Dispatcher] = new] /\ n_pc' = [n_pc EXCEPT ![Dispatcher] = IF wanted THEN "call" ELSE "default"]
    BY <1>4, Zenon DEF deliver, n_goto
  <2>2. h \in Threads \union {NULL} /\ (wanted => h = n_HANDLER)
    BY Zenon
  <2>3. Head(kinds) \in Kinds
    BY <1>4 DEF deliver, RequestsTyped, CallsAreOwned
  <2>4. new \in Calls /\ new.kind = Head(kinds) /\ new.handler = h
    <3> HIDE DEF h
    <3> QED BY <2>2, <2>3, NoCallIsACall, Zenon DEF Calls
  <2>5. Dispatcher \in Callers
    BY Zenon DEF Callers
  <2>6. n_pc'[Dispatcher] = IF wanted THEN "call" ELSE "default"
    BY <2>1, <2>5, <1>0, Zenon
  <2> HIDE DEF new, h
  <2> QED BY <1>0, <2>1, <2>2, <2>3, <2>4, <2>5, <2>6, Zenon
<1> QED BY <1>1, <1>2, <1>3, <1>4, Zenon

\* The inductive invariant of the notifications provider.
RequestsInv == RequestsTyped /\ CallsAreOwned /\ InstallIsAlone /\ EnablesAreClean /\ EarlierActionIsKept /\ HandlerHasItsData

\* The invariant of the notifications provider holds before the first call
\* (linux_notifications.rs: no source installed, nothing enabled).
LEMMA RequestsInitially == NotificationsInit => RequestsInv
<1> SUFFICES ASSUME NotificationsInit PROVE RequestsInv
  BY Zenon
<1> USE NobodyIsNoThread, DispatcherIsNoThread, UsesOfKinds DEF NotificationsInit, NULL, Dispatcher, Callers
<1>1. RequestsTyped /\ CallsAreOwned
  <2>1. using \subseteq Kinds
    BY Zenon
  <2>2. n_action \in [Kinds -> Actions] /\ n_earlier \in [Kinds -> Actions] /\ n_PREVIOUS \in [Kinds -> Actions]
    BY Zenon DEF Actions
  <2>3. call \in [Callers -> Calls]
    BY NoCallIsACall, Zenon
  <2>4. pipe \in Seq(Kinds) /\ kinds \in Seq(Kinds)
    OBVIOUS
  <2>5. \A t \in Callers : n_pc[t] = IF t = Dispatcher THEN "none" ELSE "idle"
    BY Zenon
  <2>6. n_pc \in [Callers -> {"none", "idle"}]
    BY Zenon
  <2> QED BY <2>1, <2>2, <2>3, <2>4, <2>5, <2>6, Zenon DEF RequestsTyped, CallsAreOwned, Installing, Enabling, Serving, Reading
<1>2. InstallIsAlone
  BY DEF InstallIsAlone, Installing
<1>3. EnablesAreClean /\ HandlerHasItsData
  BY Zenon DEF EnablesAreClean, Enabling, HandlerHasItsData
<1>4. EarlierActionIsKept
  BY Zenon DEF EarlierActionIsKept
<1> QED BY <1>1, <1>2, <1>3, <1>4, Zenon DEF RequestsInv

\* A step leaves the typed state typed, and every call in progress its kind.
LEMMA RequestsStayTyped == RequestsInv /\ [NotificationsNext]_notifications => RequestsTyped' /\ CallsAreOwned'
<1> SUFFICES ASSUME RequestsInv, [NotificationsNext]_notifications PROVE RequestsTyped' /\ CallsAreOwned'
  BY Zenon
<1> USE NobodyIsNoThread, DispatcherIsNoThread
<1>0. RequestsTyped /\ CallsAreOwned /\ n_HANDLER \in Threads \union {NULL} /\ Dispatcher \in Callers /\ NULL \notin Callers /\ \A t \in Threads : t \in Callers
  BY Zenon DEF RequestsInv, InstallIsAlone, Callers, NULL, Dispatcher
<1>a. using' = using /\ fallible' = fallible
  BY Zenon DEF notifications, NotificationsNext, n_fixed
<1> USE DEF RequestsTyped, CallsAreOwned, Installing, Enabling, Serving, Reading, n_goto, return, n_begin, n_front, provider, n_kernel
<1>1. ASSUME NEW t \in Threads, install(t) PROVE RequestsTyped' /\ CallsAreOwned'
  BY <1>0, <1>1, <1>a, Zenon DEF install
<1>2. ASSUME NEW t \in Threads, NEW k \in using, enable(t, k) PROVE RequestsTyped' /\ CallsAreOwned'
  <2>1. call' \in [Callers -> Calls] /\ call'[t].kind = k /\ \A u \in Callers : u # t => call'[u] = call[u]
    BY <1>0, <1>2, CallsMade
  <2> QED BY <1>0, <1>2, <1>a, <2>1 DEF enable
<1>3. ASSUME NEW t \in Callers, NEW k \in using, disable(t, k) PROVE RequestsTyped' /\ CallsAreOwned'
  <2>1. call' \in [Callers -> Calls] /\ call'[t].kind = k /\ \A u \in Callers : u # t => call'[u].kind = call[u].kind
    BY <1>0, <1>3, CallsMade
  <2> QED BY <1>0, <1>3, <1>a, <2>1, Zenon DEF disable
<1>4. ASSUME NEW t \in Callers, NEW k \in using, default_action(t, k) PROVE RequestsTyped' /\ CallsAreOwned'
  <2>1. call' \in [Callers -> Calls] /\ call'[t].kind = k /\ \A u \in Callers : u # t => call'[u] = call[u]
    BY <1>0, <1>4, CallsMade
  <2> QED BY <1>0, <1>4, <1>a, <2>1 DEF default_action
<1>5. ASSUME NEW t \in Callers, install_data(t) \/ install_handler(t) \/ install_undo(t) \/ install_publish(t)
      PROVE RequestsTyped' /\ CallsAreOwned'
  <2>1. /\ UNCHANGED <<n_action, n_earlier, n_PREVIOUS, call, pipe, kinds, LOCK>> /\ n_pc[t] \in Installing
        /\ \E label \in {"handler_store", "start", "idle"} : n_pc' = [n_pc EXCEPT ![t] = label]
    BY <1>5, Zenon DEF install_data, install_handler, install_undo, install_publish
  <2> QED BY <1>0, <1>a, <2>1, Zenon
<1>6. ASSUME NEW t \in Callers, notifications_start(t) PROVE RequestsTyped' /\ CallsAreOwned'
  <2>1. t # Dispatcher /\ n_pc[t] = "start"
    BY <1>0, <1>6, Zenon DEF notifications_start
  <2>2. CASE n_pc' = [n_pc EXCEPT ![t] = "publish", ![Dispatcher] = "read"]
    <3>1. n_pc'[t] = "publish" /\ n_pc'[Dispatcher] = "read" /\ \A u \in Callers : u \notin {t, Dispatcher} => n_pc'[u] = n_pc[u]
      BY <1>0, <2>1, <2>2, Zenon
    <3>2. n_pc' \in [Callers -> Installing \union Enabling \union Serving \union Reading \union {"idle"}]
      BY <1>0, <2>2, Zenon
    <3>3. n_pc[Dispatcher] = "none"
      BY <1>0, <2>1, Zenon DEF RequestsInv, InstallIsAlone, Callers
    <3> QED BY <1>0, <1>6, <1>a, <2>1, <3>1, <3>2, <3>3, Zenon DEF notifications_start
  <2>3. CASE n_pc' = [n_pc EXCEPT ![t] = "undo"]
    BY <1>0, <1>6, <1>a, <2>3, Zenon DEF notifications_start
  <2> QED BY <1>6, <2>2, <2>3, Zenon DEF notifications_start
<1>7. ASSUME NEW t \in Callers, enable_port(t) PROVE RequestsTyped' /\ CallsAreOwned'
  <2>1. n_action' \in [Kinds -> Actions] /\ n_PREVIOUS' \in [Kinds -> Actions]
    <3>1. call[t].kind \in Kinds /\ n_action[call[t].kind] \in Actions /\ "ours" \in Actions
      BY <1>0, <1>7, Zenon DEF enable_port, Actions
    <3>2. \/ UNCHANGED <<n_action, n_PREVIOUS>>
          \/ /\ n_PREVIOUS' = [n_PREVIOUS EXCEPT ![call[t].kind] = n_action[call[t].kind]]
             /\ n_action' = [n_action EXCEPT ![call[t].kind] = "ours"]
      BY <1>7, Zenon DEF enable_port, remember
    <3>3. n_action \in [Kinds -> Actions] /\ n_PREVIOUS \in [Kinds -> Actions]
      BY <1>0, Zenon
    <3> QED BY <3>1, <3>2, <3>3, Zenon
  <2>2. \E label \in {"enabled", "not_enabled"} : n_pc' = [n_pc EXCEPT ![t] = label]
    BY <1>7, Zenon DEF enable_port
  <2>3. n_pc[t] = "enable_port" /\ UNCHANGED <<n_earlier, pipe, kinds, call, LOCK>>
    BY <1>7, Zenon DEF enable_port
  <2> QED BY <1>0, <1>a, <2>1, <2>2, <2>3, Zenon
<1>8. ASSUME NEW t \in Callers, enable_ok(t) \/ enable_failed(t) PROVE RequestsTyped' /\ CallsAreOwned'
  BY <1>0, <1>8, <1>a, Zenon DEF enable_ok, enable_failed
<1>9. ASSUME NEW t \in Callers, disable_port(t) PROVE RequestsTyped' /\ CallsAreOwned'
  BY <1>0, <1>9, <1>a, Zenon DEF disable_port
<1>10. ASSUME NEW t \in Callers, default_restore(t) PROVE RequestsTyped' /\ CallsAreOwned'
  <2>1. n_action' \in [Kinds -> Actions]
    BY <1>0, <1>10, Zenon DEF default_restore
  <2>2. UNCHANGED <<n_earlier, n_PREVIOUS, pipe, kinds, call>> /\ n_pc[t] = "default"
    BY <1>10, Zenon DEF default_restore
  <2>3. \/ LOCK' = LOCK /\ n_pc' = [n_pc EXCEPT ![t] = IF t = Dispatcher THEN "next" ELSE "idle"]
        \/ LOCK = NULL /\ LOCK' = t /\ n_pc' = [n_pc EXCEPT ![t] = "raise"]
    BY <1>10, Zenon DEF default_restore
  <2> QED BY <1>0, <1>a, <2>1, <2>2, <2>3, ZenonT(30)
<1>11. ASSUME NEW t \in Callers, default_raise(t) PROVE RequestsTyped' /\ CallsAreOwned'
  <2>1. n_action' \in [Kinds -> Actions]
    BY <1>0, <1>11, Zenon DEF default_raise, Actions
  <2>2. UNCHANGED <<n_earlier, n_PREVIOUS, pipe, kinds, call>> /\ n_pc[t] = "raise" /\ LOCK' = NULL
        /\ n_pc' = [n_pc EXCEPT ![t] = IF t = Dispatcher THEN "next" ELSE "idle"]
    BY <1>11, Zenon DEF default_raise
  <2> QED BY <1>0, <1>a, <2>1, <2>2, Zenon
<1>12. ASSUME NEW k \in using, SendSignal(k) \/ on_signal(k) PROVE RequestsTyped' /\ CallsAreOwned'
  <2>1. pipe' \in Seq(Kinds)
    <3>1. Append(pipe, k) \in Seq(Kinds)
      BY <1>0
    <3> QED BY <1>0, <1>12, <3>1, Zenon DEF SendSignal, on_signal
  <2>2. UNCHANGED <<n_front, provider, n_action, n_earlier, kinds, n_pc, call>>
    BY <1>12, Zenon DEF SendSignal, on_signal
  <2> QED BY <1>0, <1>a, <2>1, <2>2, Zenon
<1>13. CASE dispatcher_read
  BY <1>0, <1>13, <1>a DEF dispatcher_read
<1>14. CASE deliver
  <2>1. call' \in [Callers -> Calls] /\ call'[Dispatcher].kind \in Kinds /\ \A u \in Callers : u # Dispatcher => call'[u] = call[u]
    BY <1>0, <1>14, CallsMade, Zenon
  <2> QED BY <1>0, <1>14, <1>a, <2>1, Zenon DEF deliver
<1>15. CASE deliver_call \/ handler_returns
  BY <1>0, <1>15, <1>a DEF deliver_call, handler_returns
<1>16. CASE dispatcher_next
  <2>1. kinds \in Seq(Kinds) /\ Len(kinds) > 0
    BY <1>0, <1>16, Zenon DEF dispatcher_next
  <2>2. Tail(kinds) \in Seq(Kinds) /\ Len(Tail(kinds)) = Len(kinds) - 1
    BY <2>1
  <2> QED BY <1>0, <1>16, <1>a, <2>2 DEF dispatcher_next
<1>17. CASE UNCHANGED notifications
  BY <1>0, <1>17, Zenon DEF notifications, n_fixed
<1> HIDE DEF RequestsTyped, CallsAreOwned
<1> QED BY Zenon, <1>1, <1>2, <1>3, <1>4, <1>5, <1>6, <1>7, <1>8, <1>9, <1>10, <1>11, <1>12, <1>13, <1>14, <1>15, <1>16, <1>17
           DEF NotificationsNext, InsideRequests, Dispatch, enable

\* One install is under way at a time, and the dispatcher has its handler and data.
LEMMA InstallStaysAlone == RequestsInv /\ [NotificationsNext]_notifications => InstallIsAlone' /\ HandlerHasItsData'
<1> SUFFICES ASSUME RequestsInv, [NotificationsNext]_notifications PROVE InstallIsAlone' /\ HandlerHasItsData'
  BY Zenon
<1> USE NobodyIsNoThread, DispatcherIsNoThread
<1>0. /\ RequestsTyped /\ CallsAreOwned /\ InstallIsAlone /\ HandlerHasItsData
      /\ n_HANDLER \in Threads \union {NULL} /\ Dispatcher \in Callers /\ NULL \notin Callers
      /\ \A t \in Threads : t \in Callers /\ t # Dispatcher
      /\ \A t \in Callers : t # Dispatcher => t \in Threads
      /\ n_pc \in [Callers -> Installing \union Enabling \union Serving \union Reading \union {"idle"}]
  BY Zenon DEF RequestsInv, InstallIsAlone, Callers, NULL, Dispatcher, RequestsTyped
<1> USE DEF Installing, Enabling, Serving, Reading, n_goto, return, n_begin, n_front, provider, n_kernel
<1>1. ASSUME NEW t \in Threads, install(t) PROVE InstallIsAlone' /\ HandlerHasItsData'
  BY <1>0, <1>1 DEF install, InstallIsAlone, HandlerHasItsData
<1>2. ASSUME NEW t \in Threads, NEW k \in using, enable(t, k) PROVE InstallIsAlone' /\ HandlerHasItsData'
  <2>1. \A u \in Callers : u # t => call'[u] = call[u]
    BY <1>0, <1>2, CallsMade, Zenon
  <2> QED BY <1>0, <1>2, <2>1, Zenon DEF enable, InstallIsAlone, HandlerHasItsData
<1>3. ASSUME NEW t \in Callers, NEW k \in using, disable(t, k) PROVE InstallIsAlone' /\ HandlerHasItsData'
  <2>1. \A u \in Callers : u # t => call'[u].handler = call[u].handler
    BY <1>0, <1>3, CallsMade
  <2> QED BY <1>0, <1>3, <2>1, Zenon DEF disable, InstallIsAlone, HandlerHasItsData
<1>4. ASSUME NEW t \in Callers, NEW k \in using, default_action(t, k) PROVE InstallIsAlone' /\ HandlerHasItsData'
  <2>1. \A u \in Callers : u # t => call'[u] = call[u]
    BY <1>0, <1>4, CallsMade
  <2> QED BY <1>0, <1>4, <2>1, Zenon DEF default_action, InstallIsAlone, HandlerHasItsData
<1>5. ASSUME NEW t \in Callers, install_data(t) \/ install_handler(t) \/ install_undo(t) \/ install_publish(t)
      PROVE InstallIsAlone' /\ HandlerHasItsData'
  <2>1. t \in Threads /\ n_state = 1
    BY <1>0, <1>5, Zenon DEF RequestsTyped, InstallIsAlone, install_data, install_handler, install_undo, install_publish
  <2>2. CASE install_data(t)
    BY <1>0, <2>1, <2>2 DEF install_data, InstallIsAlone, HandlerHasItsData
  <2>3. CASE install_handler(t)
    BY <1>0, <2>1, <2>3, Zenon DEF install_handler, InstallIsAlone, HandlerHasItsData
  <2>4. CASE install_undo(t)
    BY <1>0, <2>1, <2>4 DEF install_undo, InstallIsAlone, HandlerHasItsData
  <2>5. CASE install_publish(t)
    BY <1>0, <2>1, <2>5 DEF install_publish, InstallIsAlone, HandlerHasItsData
  <2> QED BY <1>5, <2>2, <2>3, <2>4, <2>5, Zenon
<1>6. ASSUME NEW t \in Callers, notifications_start(t) PROVE InstallIsAlone' /\ HandlerHasItsData'
  <2>1. t \in Threads /\ n_state = 1
    BY <1>0, <1>6, Zenon DEF RequestsTyped, InstallIsAlone, notifications_start
  <2> QED BY <1>0, <1>6, <2>1 DEF notifications_start, InstallIsAlone, HandlerHasItsData
<1>7. ASSUME NEW t \in Callers,
             enable_port(t) \/ enable_ok(t) \/ enable_failed(t) \/ disable_port(t) \/ default_restore(t) \/ default_raise(t)
      PROVE InstallIsAlone' /\ HandlerHasItsData'
  <2>1. /\ UNCHANGED <<n_state, n_HANDLER, n_DATA, call, n_heard>> /\ n_pc[t] \in Enabling \union Serving
        /\ \E label \in {"enabled", "not_enabled", "raise", IF t = Dispatcher THEN "next" ELSE "idle"} : n_pc' = [n_pc EXCEPT ![t] = label]
    BY <1>7, Zenon DEF enable_port, enable_ok, enable_failed, disable_port, default_restore, default_raise
  <2> QED BY <1>0, <2>1 DEF InstallIsAlone, HandlerHasItsData
<1>8. ASSUME NEW k \in using, SendSignal(k) \/ on_signal(k) PROVE InstallIsAlone' /\ HandlerHasItsData'
  BY <1>0, <1>8, Zenon DEF SendSignal, on_signal, InstallIsAlone, HandlerHasItsData
<1>9. CASE dispatcher_read \/ handler_returns \/ dispatcher_next
  <2>1. /\ UNCHANGED <<n_state, n_HANDLER, n_DATA, call, n_heard>> /\ n_pc[Dispatcher] \in Reading \ {"none"}
        /\ \E label \in {"deliver", "next", "read"} : n_pc' = [n_pc EXCEPT ![Dispatcher] = label]
    BY <1>9, Zenon DEF dispatcher_read, handler_returns, dispatcher_next
  <2> QED BY <1>0, <2>1, Zenon DEF InstallIsAlone, HandlerHasItsData
<1>10. CASE deliver
  <2>1. n_pc'[Dispatcher] = "call" => call'[Dispatcher].handler = n_HANDLER
    BY <1>0, <1>10, CallsMade, Zenon
  <2> QED BY <1>0, <1>10, <2>1, Zenon DEF deliver, InstallIsAlone, HandlerHasItsData
<1>11. CASE deliver_call
  BY <1>0, <1>11, Zenon DEF deliver_call, InstallIsAlone, HandlerHasItsData
<1>12. CASE UNCHANGED notifications
  BY <1>0, <1>12, Zenon DEF notifications, InstallIsAlone, HandlerHasItsData
<1> QED BY Zenon, <1>1, <1>2, <1>3, <1>4, <1>5, <1>6, <1>7, <1>8, <1>9, <1>10, <1>11, <1>12
           DEF NotificationsNext, InsideRequests, Dispatch, enable

\* An enable that nobody disabled since stays clean until it returns.
LEMMA EnablesStayClean == RequestsInv /\ [NotificationsNext]_notifications => EnablesAreClean'
<1> SUFFICES ASSUME RequestsInv, [NotificationsNext]_notifications PROVE EnablesAreClean'
  BY Zenon
<1> USE NobodyIsNoThread, DispatcherIsNoThread
<1>0. /\ RequestsTyped /\ CallsAreOwned /\ EnablesAreClean /\ InstallIsAlone
      /\ n_HANDLER \in Threads \union {NULL} /\ Dispatcher \in Callers
      /\ \A t \in Threads : t \in Callers /\ t # Dispatcher
      /\ \A t \in Callers : t # Dispatcher => t \in Threads
      /\ n_pc \in [Callers -> Installing \union Enabling \union Serving \union Reading \union {"idle"}]
      /\ n_pc[Dispatcher] \in Serving \union Reading
      /\ \A t \in Threads : n_pc[t] \in Installing => n_state = 1
  BY Zenon DEF RequestsInv, InstallIsAlone, Callers, NULL, Dispatcher, RequestsTyped
<1>a. using' = using /\ fallible' = fallible
  BY Zenon DEF notifications, NotificationsNext, n_fixed
<1> USE DEF Installing, Enabling, Serving, Reading, n_goto, return, n_begin, n_front, provider, n_kernel
<1>1. ASSUME NEW t \in Threads, install(t) PROVE EnablesAreClean'
  BY <1>0, <1>a, <1>1 DEF install, EnablesAreClean, Disabling
<1>2. ASSUME NEW t \in Threads, NEW k \in using, enable(t, k) PROVE EnablesAreClean'
  <2>1. call'[t].kind = k /\ (call'[t].clean => ~Disabling(k)) /\ \A u \in Callers : u # t => call'[u] = call[u]
    BY <1>0, <1>2, CallsMade, ZenonT(30)
  <2>2. \A j : Disabling(j)' => Disabling(j)
    BY <1>0, <1>2, <2>1, Zenon DEF enable, Disabling
  <2>3. /\ n_pc' = [n_pc EXCEPT ![t] = "enable_port"] /\ n_state = 2 /\ n_state' = n_state
        /\ UNCHANGED <<INSTALLED, wants>> /\ enabled_kinds' = enabled_kinds \union {k}
    BY <1>0, <1>2, Zenon DEF enable
  <2> QED BY <1>0, <1>a, <2>1, <2>2, <2>3, Zenon DEF EnablesAreClean
<1>3. ASSUME NEW t \in Callers, NEW k \in using, disable(t, k) PROVE EnablesAreClean'
  <2>1. \A u \in Callers : u # t => /\ call'[u].kind = call[u].kind
                                    /\ call'[u].clean => call[u].clean /\ call[u].kind # k
    BY <1>0, <1>3, CallsMade
  <2>2. call'[t].kind = k
    BY <1>0, <1>3, CallsMade
  <2>3. \A j : Disabling(j)' => Disabling(j) \/ j = k
    BY <1>0, <1>3, <2>1, <2>2, Zenon DEF disable, Disabling
  <2> QED BY <1>0, <1>a, <1>3, <2>1, <2>2, <2>3, Zenon DEF disable, EnablesAreClean
<1>4. ASSUME NEW t \in Callers, NEW k \in using, default_action(t, k) PROVE EnablesAreClean'
  <2>1. call'[t].kind = k /\ \A u \in Callers : u # t => call'[u] = call[u]
    BY <1>0, <1>4, CallsMade
  <2>2. \A j : Disabling(j)' => Disabling(j)
    BY <1>0, <1>4, <2>1, Zenon DEF default_action, Disabling
  <2> QED BY <1>0, <1>a, <1>4, <2>1, <2>2 DEF default_action, EnablesAreClean
<1>5. ASSUME NEW t \in Callers, install_data(t) \/ install_handler(t) \/ install_undo(t) \/ install_publish(t) \/ notifications_start(t)
      PROVE EnablesAreClean'
  <2>1. n_state = 1 /\ n_pc[t] \in Installing /\ t \in Threads
    BY <1>0, <1>5, Zenon DEF install_data, install_handler, install_undo, install_publish, notifications_start
  <2>2. /\ UNCHANGED <<enabled_kinds, INSTALLED, call, wants>>
        /\ \A u \in Callers : n_pc'[u] # n_pc[u] => n_pc'[u] \in Installing \union Reading \union {"idle"}
    BY <1>0, <1>5, Zenon DEF install_data, install_handler, install_undo, install_publish, notifications_start
  <2>3. \A u \in Callers : n_pc[u] \notin Enabling
    BY <1>0, <2>1 DEF EnablesAreClean
  <2>4. wants = {}
    BY <1>0, <2>1 DEF EnablesAreClean
  <2> QED BY <1>a, <2>2, <2>3, <2>4, Zenon DEF EnablesAreClean
<1>6. ASSUME NEW t \in Callers, enable_port(t) PROVE EnablesAreClean'
  BY <1>0, <1>a, <1>6 DEF enable_port, EnablesAreClean, Disabling
<1>7. ASSUME NEW t \in Callers, enable_ok(t) PROVE EnablesAreClean'
  BY <1>0, <1>a, <1>7 DEF enable_ok, EnablesAreClean, Disabling
<1>8. ASSUME NEW t \in Callers, enable_failed(t) PROVE EnablesAreClean'
  BY <1>0, <1>a, <1>8, Zenon DEF enable_failed, EnablesAreClean, Disabling
<1>9. ASSUME NEW t \in Callers, disable_port(t) PROVE EnablesAreClean'
  BY <1>0, <1>a, <1>9, Zenon DEF disable_port, EnablesAreClean, Disabling
<1>10. ASSUME NEW t \in Callers, default_restore(t) \/ default_raise(t) PROVE EnablesAreClean'
  BY <1>0, <1>a, <1>10 DEF default_restore, default_raise, EnablesAreClean, Disabling
<1>11. ASSUME NEW k \in using, SendSignal(k) \/ on_signal(k) PROVE EnablesAreClean'
  BY <1>0, <1>a, <1>11 DEF SendSignal, on_signal, EnablesAreClean, Disabling
<1>12. CASE dispatcher_read \/ handler_returns \/ dispatcher_next \/ deliver_call
  BY <1>0, <1>a, <1>12 DEF dispatcher_read, handler_returns, dispatcher_next, deliver_call, EnablesAreClean, Disabling
<1>13. CASE deliver
  <2>1. \A u \in Callers : u # Dispatcher => call'[u] = call[u]
    BY <1>0, <1>13, CallsMade, Zenon
  <2>2. \A j : Disabling(j)' => Disabling(j)
    BY <1>0, <1>13, <2>1, Zenon DEF deliver, Disabling
  <2> QED BY <1>0, <1>a, <1>13, <2>1, <2>2 DEF deliver, EnablesAreClean
<1>14. CASE UNCHANGED notifications
  BY <1>0, <1>14, Zenon DEF notifications, n_fixed, EnablesAreClean, Disabling
<1> QED BY Zenon, <1>1, <1>2, <1>3, <1>4, <1>5, <1>6, <1>7, <1>8, <1>9, <1>10, <1>11, <1>12, <1>13, <1>14
           DEF NotificationsNext, InsideRequests, Dispatch, enable

\* The earlier action is in place, or remembered.
LEMMA ActionsStayKept == RequestsInv /\ [NotificationsNext]_notifications => EarlierActionIsKept'
<1> SUFFICES ASSUME RequestsInv, [NotificationsNext]_notifications PROVE EarlierActionIsKept'
  BY Zenon
<1> USE NobodyIsNoThread, DispatcherIsNoThread
<1>0. /\ RequestsTyped /\ CallsAreOwned /\ EarlierActionIsKept
      /\ n_HANDLER \in Threads \union {NULL} /\ Dispatcher \in Callers /\ NULL \notin Callers
      /\ n_pc \in [Callers -> Installing \union Enabling \union Serving \union Reading \union {"idle"}]
      /\ \A t \in Threads : t \in Callers
  BY Zenon DEF RequestsInv, InstallIsAlone, Callers, NULL, Dispatcher, RequestsTyped
<1>1. n_action \in [Kinds -> Actions] /\ n_PREVIOUS \in [Kinds -> Actions]
  BY <1>0, Zenon DEF RequestsTyped
\* A step that leaves the actions alone, and neither begins nor ends a raise.
<1>2. ASSUME UNCHANGED <<INSTALLED, n_PREVIOUS, n_action, n_earlier>>, \A k \in Kinds : Raising(k)' <=> Raising(k)
      PROVE EarlierActionIsKept'
  BY <1>0, <1>2, Zenon DEF EarlierActionIsKept
<1> USE DEF n_goto, return, n_begin, n_front, provider, n_kernel
<1>3. ASSUME NEW t \in Threads, install(t) PROVE EarlierActionIsKept'
  BY <1>0, <1>2, <1>3, Zenon DEF install, Raising
<1>4. ASSUME NEW t \in Threads, NEW k \in using, enable(t, k) PROVE EarlierActionIsKept'
  <2>1. \A u \in Callers : u # t => call'[u] = call[u]
    BY <1>0, <1>4, CallsMade, Zenon
  <2> QED BY <1>0, <1>2, <1>4, <2>1, Zenon DEF enable, Raising
<1>5. ASSUME NEW t \in Callers, NEW k \in using, disable(t, k) PROVE EarlierActionIsKept'
  <2>1. \A u \in Callers : u # t => call'[u].kind = call[u].kind
    BY <1>0, <1>5, CallsMade
  <2> QED BY <1>0, <1>2, <1>5, <2>1, Zenon DEF disable, Raising
<1>6. ASSUME NEW t \in Callers, NEW k \in using, default_action(t, k) PROVE EarlierActionIsKept'
  <2>1. \A u \in Callers : u # t => call'[u] = call[u]
    BY <1>0, <1>6, CallsMade
  <2> QED BY <1>0, <1>2, <1>6, <2>1, Zenon DEF default_action, Raising
<1>7. ASSUME NEW t \in Callers,
             \/ install_data(t) \/ install_handler(t) \/ install_undo(t) \/ install_publish(t) \/ enable_ok(t) \/ enable_failed(t)
      PROVE EarlierActionIsKept'
  <2>1. /\ UNCHANGED <<INSTALLED, n_PREVIOUS, n_action, n_earlier, call>> /\ n_pc[t] # "raise"
        /\ \E label \in {"handler_store", "start", "idle", "next"} : n_pc' = [n_pc EXCEPT ![t] = label]
    BY <1>7, Zenon DEF install_data, install_handler, install_undo, install_publish, enable_ok, enable_failed
  <2> QED BY <1>0, <1>2, <2>1, Zenon DEF Raising
<1>8. ASSUME NEW t \in Callers, notifications_start(t) PROVE EarlierActionIsKept'
  <2>1. t \in Threads /\ n_pc[t] = "start"
    BY <1>0, <1>8, Zenon DEF notifications_start, RequestsTyped, Callers, Serving, Reading
  <2>2. n_pc[Dispatcher] = "none"
    BY <2>1, Zenon DEF RequestsInv, InstallIsAlone, Installing
  <2> QED BY <1>0, <1>2, <1>8, <2>1, <2>2, Zenon DEF notifications_start, Raising
\* With the lock free nobody raises.
<1>9. LOCK = NULL => \A k \in Kinds : ~Raising(k)
  BY <1>0, Zenon DEF CallsAreOwned, Raising
<1>10. ASSUME NEW t \in Callers, enable_port(t) PROVE EarlierActionIsKept'
  <2>1. call[t].kind \in Kinds
    BY <1>0, <1>10, Zenon DEF enable_port, CallsAreOwned, Enabling
  <2>2. \A k \in Kinds : ~Raising(k) /\ ~Raising(k)'
    BY <1>0, <1>9, <1>10, Zenon DEF enable_port, Raising
  <2>3. \/ UNCHANGED <<INSTALLED, n_PREVIOUS, n_action>>
        \/ /\ call[t].kind \notin INSTALLED /\ INSTALLED' = INSTALLED \union {call[t].kind}
           /\ n_PREVIOUS' = [n_PREVIOUS EXCEPT ![call[t].kind] = n_action[call[t].kind]]
           /\ n_action' = [n_action EXCEPT ![call[t].kind] = "ours"]
    BY <1>10, Zenon DEF enable_port, remember
  <2>4. n_earlier' = n_earlier
    BY <1>10, Zenon DEF enable_port
  <2> QED BY <1>0, <1>1, <2>1, <2>2, <2>3, <2>4 DEF EarlierActionIsKept
<1>11. ASSUME NEW t \in Callers, disable_port(t) PROVE EarlierActionIsKept'
  <2>1. call[t].kind \in Kinds
    BY <1>0, <1>11, Zenon DEF disable_port, CallsAreOwned, Serving
  <2>2. \A k \in Kinds : ~Raising(k) /\ ~Raising(k)'
    BY <1>0, <1>9, <1>11, Zenon DEF disable_port, Raising
  <2>3. /\ INSTALLED' = INSTALLED \ {call[t].kind} /\ UNCHANGED <<n_earlier, n_PREVIOUS>>
        /\ n_action' = IF call[t].kind \in INSTALLED THEN [n_action EXCEPT ![call[t].kind] = n_PREVIOUS[call[t].kind]] ELSE n_action
    BY <1>11, Zenon DEF disable_port
  <2> QED BY <1>0, <1>1, <2>1, <2>2, <2>3, Zenon DEF EarlierActionIsKept
<1>12. ASSUME NEW t \in Callers, default_restore(t) PROVE EarlierActionIsKept'
  <2>1. call[t].kind \in Kinds
    BY <1>0, <1>12, Zenon DEF default_restore, CallsAreOwned, Serving
  <2>2. UNCHANGED <<INSTALLED, n_PREVIOUS, n_earlier, call>> /\ n_pc[t] = "default"
    BY <1>12, Zenon DEF default_restore
  <2>3. CASE n_pc' = [n_pc EXCEPT ![t] = IF t = Dispatcher THEN "next" ELSE "idle"] /\ n_action' = n_action
    BY <1>0, <1>2, <2>2, <2>3, Zenon DEF Raising
  <2>4. CASE /\ LOCK = NULL /\ n_pc' = [n_pc EXCEPT ![t] = "raise"]
             /\ n_action' = IF call[t].kind \in INSTALLED THEN [n_action EXCEPT ![call[t].kind] = n_PREVIOUS[call[t].kind]] ELSE n_action
    <3>1. \A k \in Kinds : ~Raising(k) /\ (Raising(k)' <=> k = call[t].kind)
      BY <1>0, <1>9, <2>2, <2>4, Zenon DEF Raising
    <3> QED BY <1>0, <1>1, <2>1, <2>2, <2>4, <3>1, Zenon DEF EarlierActionIsKept
  <2> QED BY <1>12, <2>3, <2>4, Zenon DEF default_restore
<1>13. ASSUME NEW t \in Callers, default_raise(t) PROVE EarlierActionIsKept'
  <2>1. call[t].kind \in Kinds /\ n_pc[t] = "raise" /\ LOCK = t
    BY <1>0, <1>13, Zenon DEF default_raise, CallsAreOwned, Serving
  <2>2. /\ UNCHANGED <<INSTALLED, n_PREVIOUS, n_earlier, call>>
        /\ n_pc' = [n_pc EXCEPT ![t] = IF t = Dispatcher THEN "next" ELSE "idle"]
        /\ n_action' = IF call[t].kind \in INSTALLED THEN [n_action EXCEPT ![call[t].kind] = "ours"] ELSE n_action
    BY <1>13, Zenon DEF default_raise
  <2>3. \A k \in Kinds : (Raising(k) <=> k = call[t].kind) /\ ~Raising(k)'
    BY <1>0, <2>1, <2>2, Zenon DEF CallsAreOwned, Raising
  <2> QED BY <1>0, <1>1, <2>1, <2>2, <2>3, Zenon DEF EarlierActionIsKept
<1>14. ASSUME NEW k \in using, SendSignal(k) \/ on_signal(k) PROVE EarlierActionIsKept'
  BY <1>2, <1>14, Zenon DEF SendSignal, on_signal, Raising
<1>15. CASE dispatcher_read \/ handler_returns \/ dispatcher_next \/ deliver_call
  <2>1. /\ UNCHANGED <<INSTALLED, n_PREVIOUS, n_action, n_earlier, call>> /\ n_pc[Dispatcher] # "raise"
        /\ \E label \in {"deliver", "next", "read", "handler"} : n_pc' = [n_pc EXCEPT ![Dispatcher] = label]
    BY <1>15, Zenon DEF dispatcher_read, handler_returns, dispatcher_next, deliver_call
  <2> QED BY <1>0, <1>2, <2>1, Zenon DEF Raising
<1>16. CASE deliver
  <2>1. \A u \in Callers : u # Dispatcher => call'[u] = call[u]
    BY <1>0, <1>16, CallsMade, Zenon
  <2> QED BY <1>0, <1>2, <1>16, <2>1, Zenon DEF deliver, Raising
<1>17. CASE UNCHANGED notifications
  BY <1>2, <1>17, Zenon DEF notifications, Raising
<1> QED BY Zenon, <1>3, <1>4, <1>5, <1>6, <1>7, <1>8, <1>10, <1>11, <1>12, <1>13, <1>14, <1>15, <1>16, <1>17
           DEF NotificationsNext, InsideRequests, Dispatch, enable

\* A request from outside keeps the action its signal had, an enabled kind stays
\* the consumer's, and the handler gets the data it was installed with, for any
\* threads and kinds (`enable`, `disable`, `default_action` of
\* linux_notifications.rs; `install`, `enable`, `deliver` of notifications.rs).
THEOREM RequestsStayKept == NotificationsSpec => []RequestsAreKept
<1>1. RequestsInv /\ [NotificationsNext]_notifications => RequestsInv'
  BY RequestsStayTyped, InstallStaysAlone, EnablesStayClean, ActionsStayKept, Zenon DEF RequestsInv
<1>2. RequestsInv => RequestsAreKept
  BY Zenon DEF RequestsInv, RequestsAreKept, EnabledIsHeard, EnablesAreClean, InstallIsAlone
<1> QED BY RequestsInitially, <1>1, <1>2, PTL DEF NotificationsSpec
====
